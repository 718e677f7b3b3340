---------------------------- MODULE MemoryLemmas ----------------------------
(***************************************************************************)
(* Facts about the operators of Memory, for every page size and pool size, *)
(* on which the proofs about the allocators rest.                          *)
(***************************************************************************)
EXTENDS Memory, WellFoundedInduction, TLAPS

(* A remainder is what is left below the divisor (align_up's mask).        *)
LEMMA ModBound ==
    ASSUME NEW x \in Nat, NEW a \in Nat, a > 0
    PROVE  x % a \in Nat /\ x % a < a /\ x % a <= x
  OBVIOUS

(* A set of numbers that is not empty has a least one.                     *)
LEMMA LeastNumber ==
    ASSUME NEW S \in SUBSET Nat, S # {}
    PROVE  \E n \in S : \A k \in S : n <= k
  <1>1. IsWellFoundedOn(OpToRel(<, Nat), Nat)
    BY NatLessThanWellFounded
  <1>2. PICK n \in S : \A k \in S : <<k, n>> \notin OpToRel(<, Nat)
    BY <1>1, WFMin
  <1>3. ASSUME NEW k \in S PROVE ~(k < n)
    <2>1. <<k, n>> \notin OpToRel(<, Nat)
      BY <1>2, Zenon
    <2> QED BY <2>1, Zenon DEF OpToRel
  <1>4. \A k \in S : n <= k
    BY <1>3, SMT
  <1> QED BY <1>4, Zenon

(* A number of bytes or of pages is a natural number.                      *)
LEMMA ProductNat ==
    ASSUME NEW x \in Nat, NEW y \in Nat
    PROVE  x * y \in Nat
  OBVIOUS

(* uintptr_t arithmetic that stays below 2^64 does not wrap.               *)
LEMMA NoWrap ==
    ASSUME NEW x \in Nat, x < UINTPTR_MOD
    PROVE  x % UINTPTR_MOD = x
  BY SpaceAssumption

(* align_up puts the pool at or behind the kernel's end, and all of it     *)
(* below the end of the address space.                                     *)
LEMMA PoolBounds ==
    /\ kernel_end \in Nat \ {0}
    /\ pool_end \in Nat
    /\ kernel_end <= pool_end
    /\ pool_end < UINTPTR_MOD
    /\ POOL_PAGES * PAGE_SIZE \in Nat
    /\ pool_end = kernel_end + POOL_PAGES * PAGE_SIZE
  <1>1. POOL_PAGES * PAGE_SIZE \in Nat
    BY PoolAssumption, PageAssumption
  <1> DEFINE v == END + (PAGE_SIZE - 1)
  <1>2. v \in Nat /\ v < UINTPTR_MOD /\ PAGE_SIZE # 0
    BY <1>1, PoolAssumption, PageAssumption, SpaceAssumption
  <1>3. v % UINTPTR_MOD = v
    BY <1>2, NoWrap
  <1>4. kernel_end = v - (v % PAGE_SIZE)
    BY <1>2, <1>3 DEF kernel_end, align_up
  <1>5. v % PAGE_SIZE \in Nat /\ v % PAGE_SIZE < PAGE_SIZE
    BY <1>2, ModBound, PageAssumption
  <1>6. kernel_end \in Nat /\ kernel_end >= END /\ kernel_end < END + PAGE_SIZE
    BY <1>2, <1>4, <1>5, PoolAssumption, PageAssumption
  <1> QED
    BY <1>1, <1>6, PoolAssumption, PageAssumption, SpaceAssumption DEF pool_end

(* One call of memory_alloc_pages on a pool that has handed out k pages    *)
(* (none before memory_init): it hands out the next n, which end inside    *)
(* the pool, or it returns NULL for want of n pages.                       *)
LEMMA AllocResult ==
    ASSUME NEW g \in [next : Nat, limit : Nat], NEW k \in Nat,
           NEW n \in Nat, pool_end + n * PAGE_SIZE < UINTPTR_MOD,
           \/ g = unset_pool /\ k = 0
           \/ /\ g.next = kernel_end + k * PAGE_SIZE
              /\ g.limit = pool_end
              /\ g.next <= pool_end
    PROVE  LET r == memory_alloc_pages(g, n) IN
           /\ r.pool \in [next : Nat, limit : Nat]
           /\ r.pool.limit = pool_end
           /\ r.pool.next <= pool_end
           /\ \/ /\ r.ptr = NULL
                 /\ r.pool.next = kernel_end + k * PAGE_SIZE
                 /\ n = 0 \/ k + n > POOL_PAGES
              \/ /\ r.ptr \in Nat \ {0}
                 /\ n > 0
                 /\ r.ptr = kernel_end + k * PAGE_SIZE
                 /\ r.pool.next = r.ptr + n * PAGE_SIZE
                 /\ r.pool.next = kernel_end + (k + n) * PAGE_SIZE
  <1> DEFINE r == memory_alloc_pages(g, n)
             ready == IF g.next = 0 THEN memory_init ELSE g
             end   == (ready.next + (n * PAGE_SIZE)) % UINTPTR_MOD
  <1>1. n \in Nat /\ n * PAGE_SIZE \in Nat /\ k * PAGE_SIZE \in Nat
    BY ProductNat, PageAssumption
  <1>2. /\ ready \in [next : Nat, limit : Nat]
        /\ ready.next = kernel_end + k * PAGE_SIZE
        /\ ready.limit = pool_end
        /\ ready.next <= pool_end
    <2>1. CASE g = unset_pool /\ k = 0
      BY <2>1, PoolBounds, PageAssumption DEF unset_pool, memory_init
    <2>2. CASE /\ g.next = kernel_end + k * PAGE_SIZE
               /\ g.limit = pool_end
               /\ g.next <= pool_end
      BY <1>1, <2>2, PoolBounds
    <2> QED BY <2>1, <2>2
  <1>3. end = ready.next + n * PAGE_SIZE
    <2>1. ready.next + n * PAGE_SIZE < UINTPTR_MOD
      BY <1>1, <1>2, PoolBounds, SpaceAssumption
    <2> QED BY <1>1, <1>2, <2>1, NoWrap
  <1>4. (k + n) * PAGE_SIZE = k * PAGE_SIZE + n * PAGE_SIZE
    BY <1>1, PageAssumption
  <1>5. r = IF n = 0 \/ end > ready.limit
            THEN [pool |-> ready, ptr |-> NULL]
            ELSE [pool |-> [ready EXCEPT !.next = end], ptr |-> ready.next]
    BY DEF memory_alloc_pages
  <1> HIDE DEF r
  <1>6. CASE n = 0 \/ end > ready.limit
    <2>1. r.pool = ready /\ r.ptr = NULL
      BY <1>5, <1>6
    <2>2. n = 0 \/ (k + n) * PAGE_SIZE > POOL_PAGES * PAGE_SIZE
      BY <1>1, <1>2, <1>3, <1>4, <1>6, PoolBounds
    <2>3. n = 0 \/ k + n > POOL_PAGES
      <3>1. SUFFICES ASSUME k + n <= POOL_PAGES
                     PROVE  (k + n) * PAGE_SIZE <= POOL_PAGES * PAGE_SIZE
        BY <1>1, <2>2, PoolAssumption, PageAssumption, PoolBounds
      <3> QED BY <1>1, <3>1, PoolAssumption, PageAssumption
    <2> QED BY <1>2, <2>1, <2>3 DEF r
  <1>7. CASE ~(n = 0 \/ end > ready.limit)
    BY <1>1, <1>2, <1>3, <1>4, <1>5, <1>7, PoolBounds DEF NULL, r
  <1> QED BY <1>6, <1>7
=============================================================================
