--------------------------- MODULE PagePoolProofs ---------------------------
(***************************************************************************)
(* What PagePool promises for every page size, pool size and set of        *)
(* requests.  GrantsDisjoint is not inductive: that the next grant starts  *)
(* behind all the earlier ones needs the bump pointer to bound them, and   *)
(* that a refusal means shortage needs the pointer to count the pages.     *)
(***************************************************************************)
EXTENDS PagePool, MemoryLemmas

(* The pool is untouched or set up, and then the pointer counts the pages. *)
PoolInv ==
    \/ pool = unset_pool /\ granted = 0 /\ grants = <<>> /\ refused = 0
    \/ /\ pool.next = kernel_end + granted * PAGE_SIZE
       /\ pool.limit = pool_end
       /\ pool.next <= pool_end

(* Every grant lies between the end of the kernel and the bump pointer.    *)
GrantsBehindNext ==
    \A i \in DOMAIN grants : kernel_end <= grants[i].ptr /\ EndOf(i) <= pool.next

GrantsInOrder ==
    \A i, j \in DOMAIN grants : i < j => EndOf(i) <= grants[j].ptr

ShortWhenRefused ==
    /\ refused > 0 => granted + refused > POOL_PAGES
    /\ halted => refused = 1

IndInv == TypeOK /\ PoolInv /\ GrantsBehindNext /\ GrantsInOrder /\ ShortWhenRefused

-----------------------------------------------------------------------------
(* The end of a grant is an address.                                       *)
LEMMA EndOfType ==
    ASSUME TypeOK, NEW i \in DOMAIN grants
    PROVE  /\ grants[i].ptr \in Nat
           /\ grants[i].pages * PAGE_SIZE \in Nat
           /\ EndOf(i) \in Nat
  <1>1. grants[i] \in Grant
    BY DEF TypeOK
  <1>2. grants[i].ptr \in Nat /\ grants[i].pages \in Nat
    BY <1>1 DEF Grant
  <1>3. grants[i].pages * PAGE_SIZE \in Nat
    BY <1>2, ProductNat, PageAssumption
  <1> QED BY <1>2, <1>3 DEF EndOf

-----------------------------------------------------------------------------
(* An allocation, by whichever caller, preserves the invariant.            *)
LEMMA RecordPreserves ==
    ASSUME IndInv, NEW n \in Requests \cup {1},
           Record(n, memory_alloc_pages(pool, n)), ~halted,
           halted' \in BOOLEAN, halted' => n = 1 /\ refused' = 1
    PROVE  IndInv'
  <1> DEFINE r == memory_alloc_pages(pool, n)
  <1> USE DEF IndInv, TypeOK
  <1>1. n \in Nat
    BY RequestAssumption
  <1>2. /\ r.pool \in [next : Nat, limit : Nat]
        /\ r.pool.limit = pool_end
        /\ r.pool.next <= pool_end
        /\ \/ /\ r.ptr = NULL
              /\ r.pool.next = kernel_end + granted * PAGE_SIZE
              /\ n = 0 \/ granted + n > POOL_PAGES
           \/ /\ r.ptr \in Nat \ {0}
              /\ n > 0
              /\ r.ptr = kernel_end + granted * PAGE_SIZE
              /\ r.pool.next = r.ptr + n * PAGE_SIZE
              /\ r.pool.next = kernel_end + (granted + n) * PAGE_SIZE
    BY <1>1, RequestAssumption, AllocResult DEF PoolInv
  <1>3. pool' = r.pool
    BY DEF Record
  <1>4. grants = <<>> \/ pool.next = kernel_end + granted * PAGE_SIZE
    BY DEF PoolInv
  <1> HIDE DEF r
  <1>5. CASE r.ptr = NULL
    <2>1. refused' = n /\ UNCHANGED <<grants, granted, held>>
      BY <1>5 DEF Record, r
    <2>2. PoolInv' /\ ShortWhenRefused'
      BY <1>1, <1>2, <1>3, <1>5, <2>1, PoolBounds DEF PoolInv, ShortWhenRefused, NULL
    <2>3. GrantsBehindNext' /\ GrantsInOrder'
      BY <1>2, <1>3, <1>4, <1>5, <2>1 DEF GrantsBehindNext, GrantsInOrder, EndOf, NULL
    <2> QED BY <1>1, <1>2, <1>3, <2>1, <2>2, <2>3
  <1>6. CASE r.ptr # NULL
    <2>1. /\ refused' = 0
          /\ grants' = Append(grants, [ptr |-> r.ptr, pages |-> n])
          /\ granted' = granted + n
          /\ held' = held \cup {Len(grants) + 1}
      BY <1>6 DEF Record, r
    <2>2. /\ r.ptr \in Nat
          /\ n > 0
          /\ r.ptr = kernel_end + granted * PAGE_SIZE
          /\ r.pool.next = r.ptr + n * PAGE_SIZE
          /\ r.pool.next = kernel_end + (granted + n) * PAGE_SIZE
      BY <1>2, <1>6 DEF NULL
    <2>3. TypeOK'
      <3>1. grants' \in Seq(Grant)
        BY <1>1, <2>1, <2>2 DEF Grant
      <3>2. DOMAIN grants' = 1..(Len(grants) + 1) /\ DOMAIN grants = 1..Len(grants)
        BY <2>1, <2>2, <1>1
      <3>3. held' \subseteq DOMAIN grants'
        BY <2>1, <3>2
      <3> QED BY <1>1, <1>2, <1>3, <2>1, <3>1, <3>3
    <2>4. PoolInv' /\ ShortWhenRefused'
      BY <1>1, <1>2, <1>3, <2>1, <2>2 DEF PoolInv, ShortWhenRefused
    <2>5. ASSUME NEW i \in DOMAIN grants'
          PROVE  \/ i \in DOMAIN grants /\ grants'[i] = grants[i]
                 \/ i = Len(grants) + 1 /\ grants'[i] = [ptr |-> r.ptr, pages |-> n]
      BY <2>1, <2>5
    <2>6. granted * PAGE_SIZE \in Nat /\ n * PAGE_SIZE \in Nat
      BY <1>1, PageAssumption
    <2>7. ASSUME NEW i \in DOMAIN grants
          PROVE  /\ kernel_end <= grants[i].ptr
                 /\ EndOf(i) \in Nat
                 /\ EndOf(i) <= r.ptr
      <3>1. EndOf(i) \in Nat /\ DOMAIN grants # {}
        BY <2>7, EndOfType
      <3>2. pool.next = r.ptr
        BY <1>4, <2>2, <3>1
      <3> QED BY <2>7, <3>1, <3>2 DEF GrantsBehindNext
    <2>8. GrantsBehindNext'
      <3> SUFFICES ASSUME NEW i \in DOMAIN grants'
                   PROVE  kernel_end <= grants'[i].ptr /\ EndOf(i)' <= r.pool.next
        BY <1>3 DEF GrantsBehindNext
      <3>1. CASE i \in DOMAIN grants /\ grants'[i] = grants[i]
        <4>1. EndOf(i)' = EndOf(i)
          BY <3>1 DEF EndOf
        <4> QED BY <2>2, <2>6, <2>7, <3>1, <4>1
      <3>2. CASE grants'[i] = [ptr |-> r.ptr, pages |-> n]
        <4>1. EndOf(i)' = r.ptr + n * PAGE_SIZE
          BY <3>2 DEF EndOf
        <4> QED BY <2>2, <2>6, <3>2, <4>1, PoolBounds
      <3> QED BY <2>5, <3>1, <3>2
    <2>9. GrantsInOrder'
      BY <2>2, <2>5, <2>7 DEF GrantsInOrder, EndOf
    <2> QED BY <2>3, <2>4, <2>8, <2>9
  <1> QED BY <1>5, <1>6

(* Init establishes the invariant and every step keeps it.                 *)
THEOREM PoolInvariance == Spec => []IndInv
  <1>1. Init => IndInv
    <2> SUFFICES ASSUME Init PROVE IndInv
      OBVIOUS
    <2>1. DOMAIN grants = {} /\ grants \in Seq(Grant)
      BY DEF Init
    <2>2. TypeOK /\ PoolInv
      BY <2>1 DEF Init, TypeOK, PoolInv, unset_pool
    <2>3. GrantsBehindNext /\ GrantsInOrder /\ ShortWhenRefused
      BY <2>1 DEF Init, GrantsBehindNext, GrantsInOrder, ShortWhenRefused
    <2> QED BY <2>2, <2>3 DEF IndInv
  <1>2. IndInv /\ [Next]_vars => IndInv'
    <2> SUFFICES ASSUME IndInv, [Next]_vars PROVE IndInv'
      OBVIOUS
    <2>1. CASE MemoryInit
      BY <2>1, PoolBounds, PageAssumption
      DEF MemoryInit, IndInv, TypeOK, PoolInv, GrantsBehindNext, GrantsInOrder,
          ShortWhenRefused, EndOf, unset_pool, memory_init
    <2>2. ASSUME NEW n \in Requests, AllocPages(n)
          PROVE  IndInv'
      BY <2>2, RecordPreserves DEF AllocPages, IndInv, TypeOK
    <2>3. CASE AllocFrame
      <3>1. /\ Record(1, memory_alloc_pages(pool, 1))
            /\ ~halted
            /\ halted' = (memory_alloc_pages(pool, 1).ptr = NULL)
        BY <2>3 DEF AllocFrame
      <3>2. halted' => refused' = 1
        BY <3>1 DEF Record
      <3> QED BY <3>1, <3>2, RecordPreserves
    <2>4. ASSUME NEW i \in held, FreePages(i)
          PROVE  IndInv'
      BY <2>4 DEF FreePages, IndInv, TypeOK, PoolInv, GrantsBehindNext,
                  GrantsInOrder, ShortWhenRefused, EndOf
    <2>5. CASE UNCHANGED vars
      BY <2>5 DEF vars, IndInv, TypeOK, PoolInv, GrantsBehindNext, GrantsInOrder,
                  ShortWhenRefused, EndOf
    <2> QED BY <2>1, <2>2, <2>3, <2>4, <2>5 DEF Next
  <1> QED BY <1>1, <1>2, PTL DEF Spec

(* The ranges handed out by memory_alloc_pages are disjoint and inside the *)
(* pool, for every page size, pool size and sequence of calls.             *)
THEOREM PoolGrantsDisjoint == Spec => []GrantsDisjoint
  <1>1. IndInv => GrantsDisjoint
    <2> SUFFICES ASSUME IndInv PROVE GrantsDisjoint
      OBVIOUS
    <2>1. grants = <<>> \/ pool.next <= pool_end
      BY DEF IndInv, PoolInv
    <2>2. ASSUME NEW i \in DOMAIN grants
          PROVE  EndOf(i) \in Nat /\ pool.next \in Nat
      BY <2>2, EndOfType DEF IndInv, TypeOK
    <2> QED BY <2>1, <2>2, PoolBounds
            DEF IndInv, GrantsBehindNext, GrantsInOrder, GrantsDisjoint
  <1> QED BY <1>1, PoolInvariance, PTL

(* The globals and the history keep their types.                           *)
THEOREM PoolTypes == Spec => []TypeOK
  <1>1. IndInv => TypeOK
    BY DEF IndInv
  <1> QED BY <1>1, PoolInvariance, PTL

(* NULL means shortage, for every page size and pool size.                 *)
THEOREM PoolRefusals == Spec => []RefusedOnlyWhenShort
  <1>1. IndInv => RefusedOnlyWhenShort
    BY DEF IndInv, ShortWhenRefused, RefusedOnlyWhenShort
  <1> QED BY <1>1, PoolInvariance, PTL

(* The machine is halted for want of a frame only when none is left.       *)
THEOREM PoolHalts == Spec => []HaltOnlyWhenExhausted
  <1>1. IndInv => HaltOnlyWhenExhausted
    <2> SUFFICES ASSUME IndInv, halted PROVE granted = POOL_PAGES
      BY DEF HaltOnlyWhenExhausted
    <2>1. granted \in Nat /\ granted + 1 > POOL_PAGES
      BY DEF IndInv, TypeOK, ShortWhenRefused
    <2>2. granted * PAGE_SIZE <= POOL_PAGES * PAGE_SIZE
      BY <2>1, PoolBounds, PageAssumption DEF IndInv, PoolInv, ShortWhenRefused
    <2>3. granted <= POOL_PAGES
      <3>1. SUFFICES ASSUME granted > POOL_PAGES
                     PROVE  granted * PAGE_SIZE > POOL_PAGES * PAGE_SIZE
        BY <2>1, <2>2, PoolAssumption, PageAssumption
      <3> QED BY <2>1, <3>1, PoolAssumption, PageAssumption
    <2> QED BY <2>1, <2>3, PoolAssumption
  <1> QED BY <1>1, PoolInvariance, PTL
=============================================================================
