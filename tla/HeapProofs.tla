----------------------------- MODULE HeapProofs -----------------------------
(***************************************************************************)
(* The heap's safety for every page size, pool size and set of requests.   *)
(* The invariants of Heap are inductive together with what holds in the    *)
(* middle of a call: where the heap lies in the pool, and what kmalloc and *)
(* krealloc rely on between their steps.                                   *)
(***************************************************************************)
EXTENDS Heap, MemoryLemmas, FiniteSetTheorems

(* The pool is untouched or set up; the heap's page is part of it.         *)
PoolOK ==
    /\ \/ pool = unset_pool
       \/ /\ \E k \in Nat : pool.next = kernel_end + k * PAGE_SIZE
          /\ pool.limit = pool_end
          /\ pool.next <= pool_end
    /\ heap_start # NULL =>
          kernel_end <= heap_start /\ heap_start + PAGE_SIZE <= pool_end

(* There are no blocks before heap_initialize, and no loop either.         *)
HeapFresh == heap_start = NULL => DOMAIN hdr = {} /\ pc = "idle"

(* The request of an allocation in progress, and the block krealloc is     *)
(* about to fill.                                                          *)
ReqOK ==
    /\ pc \in {"kmalloc", "copy"} =>
          /\ req.size > 0 /\ req.size <= req.bytes /\ req.bytes + 15 < UINT_MOD
          /\ req.alignment # 0 =>
                req.bytes = req.size + req.alignment + PTR /\ req.old = NULL
          /\ req.old # NULL =>
                /\ req.old \in DOMAIN live /\ ~live[req.old].aligned
                /\ hdr[BlockOf(req.old)].size < req.bytes
    /\ pc = "copy" =>
          /\ req.old # NULL
          /\ ~hdr[current].is_free /\ req.bytes <= hdr[current].size
          /\ req.alignment = 0
          /\ \A p \in DOMAIN live : BlockOf(p) # current

IndInv ==
    /\ TypeOK /\ PoolOK /\ HeapFresh /\ ReqOK
    /\ BlocksTile /\ LiveOwnBlocks /\ NoFreeNeighbours /\ FirstFit

-----------------------------------------------------------------------------
(* (size + 15u) & ~15u is at least size, where the mask cuts nothing off.  *)
LEMMA AlignedSize ==
    ASSUME req.bytes \in Nat, req.bytes + 15 < UINT_MOD
    PROVE  aligned_size \in Nat /\ req.bytes <= aligned_size
  <1> DEFINE s == req.bytes + 15
  <1>1. s \in Nat /\ s < UINTPTR_MOD /\ s < UINT_MOD
    BY UintAssumption, SpaceAssumption
  <1>2. s % UINTPTR_MOD = s
    BY <1>1, NoWrap
  <1>3. s % UINT_MOD = s
    BY <1>1, UintAssumption
  <1>4. aligned_size = s - (s % 16)
    BY <1>2, <1>3 DEF aligned_size
  <1>5. s % 16 \in Nat /\ s % 16 <= 15
    BY <1>1
  <1> QED BY <1>4, <1>5

(* An aligned address leaves room for the raw pointer in front of it and   *)
(* for the bytes asked for behind it.                                      *)
LEMMA AlignedAddr ==
    ASSUME NEW raw \in Nat, NEW a \in Nat \ {0}, raw + PTR + a < UINTPTR_MOD
    PROVE  /\ aligned_addr(raw, a) \in Nat
           /\ raw + PTR <= aligned_addr(raw, a)
           /\ aligned_addr(raw, a) < raw + PTR + a
  <1> DEFINE v == raw + PTR + (a - 1)
  <1>1. v \in Nat /\ v < UINTPTR_MOD
    BY SpaceAssumption DEF PTR
  <1>2. v % UINTPTR_MOD = v
    BY <1>1, NoWrap
  <1>3. v % a \in Nat /\ v % a < a
    BY <1>1, ModBound
  <1>4. aligned_addr(raw, a) = v - (v % a)
    BY <1>2 DEF aligned_addr
  <1> QED BY <1>3, <1>4 DEF PTR

(* Taking pages from the pool leaves it well formed, and what it returns   *)
(* is a page of the pool or NULL.                                          *)
LEMMA PoolStep ==
    ASSUME TypeOK, PoolOK, NEW n \in PoolRequests \cup {1},
           NEW r, r = memory_alloc_pages(pool, n)
    PROVE  /\ r.pool \in [next : Nat, limit : Nat]
           /\ \E k \in Nat : r.pool.next = kernel_end + k * PAGE_SIZE
           /\ r.pool.limit = pool_end
           /\ r.pool.next <= pool_end
           /\ r.ptr \in Nat
           /\ r.ptr # NULL =>
                 kernel_end <= r.ptr /\ r.ptr + PAGE_SIZE <= pool_end
  <1>1. PICK k \in Nat : \/ pool = unset_pool /\ k = 0
                         \/ /\ pool.next = kernel_end + k * PAGE_SIZE
                            /\ pool.limit = pool_end
                            /\ pool.next <= pool_end
    BY DEF PoolOK
  <1>2. /\ n \in Nat /\ pool_end + n * PAGE_SIZE < UINTPTR_MOD
        /\ pool \in [next : Nat, limit : Nat]
    BY PoolRequestAssumption DEF TypeOK
  <1>3. /\ r.pool \in [next : Nat, limit : Nat]
        /\ r.pool.limit = pool_end
        /\ r.pool.next <= pool_end
        /\ \/ /\ r.ptr = NULL
              /\ r.pool.next = kernel_end + k * PAGE_SIZE
              /\ n = 0 \/ k + n > POOL_PAGES
           \/ /\ r.ptr \in Nat \ {0}
              /\ n > 0
              /\ r.ptr = kernel_end + k * PAGE_SIZE
              /\ r.pool.next = r.ptr + n * PAGE_SIZE
              /\ r.pool.next = kernel_end + (k + n) * PAGE_SIZE
    BY <1>1, <1>2, AllocResult
  <1>4. k + n \in Nat /\ k * PAGE_SIZE \in Nat
    BY <1>2, ProductNat, PageAssumption
  <1>5. n > 0 => n * PAGE_SIZE >= PAGE_SIZE
    BY <1>2, PageAssumption
  <1>6. n * PAGE_SIZE \in Nat
    BY <1>2, ProductNat, PageAssumption
  <1>7. CASE r.ptr = NULL
    BY <1>3, <1>7, PoolBounds DEF NULL
  <1>8. CASE r.ptr # NULL
    <2>1. /\ r.ptr \in Nat /\ r.ptr = kernel_end + k * PAGE_SIZE
          /\ r.pool.next = r.ptr + n * PAGE_SIZE /\ n > 0
          /\ r.pool.next = kernel_end + (k + n) * PAGE_SIZE
      BY <1>3, <1>8, Zenon
    <2>2. kernel_end <= r.ptr /\ r.ptr + PAGE_SIZE <= r.pool.next
      BY <1>4, <1>5, <1>6, <2>1, PoolBounds, PageAssumption
    <2>3. \E j \in Nat : r.pool.next = kernel_end + j * PAGE_SIZE
      BY <1>4, <2>1
    <2>4. r.ptr + PAGE_SIZE <= pool_end
      BY <1>3, <2>1, <2>2, PoolBounds, PageAssumption
    <2> QED BY <1>3, <2>1, <2>2, <2>3, <2>4
  <1> QED BY <1>7, <1>8

(* heap_initialize leaves the existing blocks as they are; the block it    *)
(* may create is the only one, free, and as large as the page.             *)
LEMMA HeapInit ==
    ASSUME IndInv, Idle, heap_initialize
    PROVE  /\ pool' \in [next : Nat, limit : Nat] /\ heap_start' \in Nat /\ PoolOK'
           /\ DOMAIN hdr' \subseteq Nat /\ \A a \in DOMAIN hdr' : hdr'[a] \in Header
           /\ heap_start' = NULL => DOMAIN hdr' = {}
           /\ BlocksTile'
           /\ \A a \in DOMAIN hdr : a \in DOMAIN hdr' /\ hdr'[a] = hdr[a]
           /\ \A a \in DOMAIN hdr' : a \in DOMAIN hdr \/ hdr'[a].is_free
           /\ \A a \in DOMAIN hdr' : hdr'[a].next # NULL =>
                 ~(hdr'[a].is_free /\ hdr'[hdr'[a].next].is_free)
  <1>1. CASE heap_start # NULL
    BY <1>1 DEF IndInv, TypeOK, PoolOK, BlocksTile, BlockEnd, NoFreeNeighbours,
                Idle, heap_initialize
  <1>2. CASE heap_start = NULL
    <2> PICK r : r = memory_alloc_pages(pool, 1)
      OBVIOUS
    <2>1. DOMAIN hdr = {}
      BY <1>2 DEF IndInv, HeapFresh
    <2>2. /\ pool' = r.pool
          /\ heap_start' = r.ptr
          /\ hdr' = IF r.ptr = NULL
                    THEN hdr
                    ELSE With(hdr, r.ptr, [size |-> PAGE_SIZE - HDR,
                                           is_free |-> TRUE, next |-> NULL])
      BY <1>2 DEF heap_initialize
    <2>3. /\ r.pool \in [next : Nat, limit : Nat]
          /\ \E k \in Nat : r.pool.next = kernel_end + k * PAGE_SIZE
          /\ r.pool.limit = pool_end
          /\ r.pool.next <= pool_end
          /\ r.ptr \in Nat
          /\ r.ptr # NULL =>
                kernel_end <= r.ptr /\ r.ptr + PAGE_SIZE <= pool_end
      BY PoolStep DEF IndInv
    <2>4. PoolOK'
      BY <2>2, <2>3 DEF PoolOK
    <2>5. CASE r.ptr = NULL
      BY <2>1, <2>2, <2>3, <2>4, <2>5 DEF BlocksTile, NULL
    <2>6. CASE r.ptr # NULL
      <3>1. /\ DOMAIN hdr' = {r.ptr}
            /\ hdr'[r.ptr] = [size |-> PAGE_SIZE - HDR, is_free |-> TRUE, next |-> NULL]
        BY <2>1, <2>2, <2>6 DEF With
      <3>2. PAGE_SIZE - HDR \in Nat /\ HDR + (PAGE_SIZE - HDR) = PAGE_SIZE
        BY PageAssumption, HeapPageAssumption DEF HDR
      <3>3. hdr'[r.ptr] \in Header
        BY <3>1, <3>2 DEF Header, NULL
      <3>4. BlockEnd(r.ptr)' = heap_start' + PAGE_SIZE
        BY <2>2, <2>3, <3>1, <3>2 DEF BlockEnd, HDR
      <3>5. BlocksTile'
        <4>1. hdr'[r.ptr].next = NULL
          BY <3>1
        <4>2. \A a \in DOMAIN hdr' : a = heap_start'
          BY <2>2, <3>1
        <4>3. heap_start' # NULL <=> heap_start' \in DOMAIN hdr'
          BY <2>2, <2>6, <3>1
        <4>0. heap_start' \in Nat
          BY <2>2, <2>3
        <4>4. hdr'[heap_start'].next = NULL
              /\ heap_start' + HDR + hdr'[heap_start'].size = heap_start' + PAGE_SIZE
          BY <2>2, <2>3, <3>4, <4>1 DEF BlockEnd
        <4>5. \A a \in DOMAIN hdr' :
                 /\ heap_start' <= a /\ hdr'[a].next = NULL
                 /\ a + HDR + hdr'[a].size = heap_start' + PAGE_SIZE
          BY <4>0, <4>2, <4>4
        <4>6. heap_start' + PAGE_SIZE \in Nat
          <5>1. \A n \in Nat : n + PAGE_SIZE \in Nat
            BY PageAssumption
          <5> QED BY <4>0, <5>1
        <4>7. \A a, b \in DOMAIN hdr' : ~(a < b)
          BY <4>0, <4>2
        <4> QED BY <4>3, <4>5, <4>6, <4>7 DEF BlocksTile, BlockEnd
      <3>6. \A a \in DOMAIN hdr' :
               hdr'[a] \in Header /\ hdr'[a].is_free /\ hdr'[a].next = NULL
        BY <3>1, <3>3
      <3>7. DOMAIN hdr' \subseteq Nat /\ heap_start' # NULL
        BY <2>2, <2>3, <2>6, <3>1
      <3> QED BY <2>1, <2>2, <2>3, <2>4, <3>5, <3>6, <3>7
    <2> QED BY <2>5, <2>6
  <1> QED BY <1>1, <1>2

(* Addresses and sizes of blocks are natural numbers.                      *)
LEMMA BlockTypes ==
    ASSUME IndInv, NEW a \in DOMAIN hdr
    PROVE  /\ a \in Nat \ {0}
           /\ hdr[a] \in Header
           /\ hdr[a].size \in Nat /\ hdr[a].is_free \in BOOLEAN /\ hdr[a].next \in Nat
           /\ BlockEnd(a) \in Nat /\ a + HDR <= BlockEnd(a)
           /\ heap_start \in Nat \ {0}
  <1>1. a \in Nat /\ hdr[a] \in Header /\ heap_start \in Nat
    BY DEF IndInv, TypeOK
  <1>2. hdr[a].size \in Nat /\ hdr[a].is_free \in BOOLEAN /\ hdr[a].next \in Nat
    BY <1>1 DEF Header
  <1>3. heap_start # NULL
    BY DEF IndInv, HeapFresh
  <1>4. heap_start <= a
    BY DEF IndInv, BlocksTile
  <1> QED BY <1>1, <1>2, <1>3, <1>4 DEF BlockEnd, HDR, NULL

(* A pointer that a caller holds points into its own block.                *)
LEMMA PointerInBlock ==
    ASSUME IndInv, NEW p \in DOMAIN live
    PROVE  /\ p \in Nat /\ live[p] \in Held
           /\ live[p].size \in Nat \ {0} /\ live[p].raw \in Nat
           /\ live[p].aligned \in BOOLEAN
           /\ BlockOf(p) \in DOMAIN hdr /\ ~hdr[BlockOf(p)].is_free
           /\ live[p].raw = BlockOf(p) + HDR
           /\ BlockOf(p) + HDR <= p
           /\ p + live[p].size <= BlockEnd(BlockOf(p))
           /\ p < BlockEnd(BlockOf(p))
  <1>1. p \in Nat /\ live[p] \in Held
    BY DEF IndInv, TypeOK
  <1>2. /\ live[p].size \in Nat \ {0} /\ live[p].raw \in Nat
        /\ live[p].aligned \in BOOLEAN
    BY <1>1 DEF Held
  <1>3. /\ BlockOf(p) \in DOMAIN hdr
        /\ ~hdr[BlockOf(p)].is_free
        /\ IF live[p].aligned THEN live[p].raw + PTR <= p ELSE p = live[p].raw
        /\ p + live[p].size <= BlockEnd(BlockOf(p))
    BY DEF IndInv, LiveOwnBlocks
  <1>4. BlockOf(p) \in Nat /\ BlockEnd(BlockOf(p)) \in Nat
    BY <1>3, BlockTypes
  <1>5. live[p].raw = BlockOf(p) + HDR
    BY <1>2 DEF BlockOf, HDR
  <1>6. live[p].raw <= p
    BY <1>1, <1>2, <1>3 DEF PTR
  <1> QED BY <1>1, <1>2, <1>3, <1>4, <1>5, <1>6

(* What kmalloc does to the list when it takes the block at current: the   *)
(* whole block, or its front, with a new free block behind it.             *)
LEMMA CutShape ==
    ASSUME IndInv, pc = "kmalloc", current # NULL, Fits(current), hdr' = cut(current)
    PROVE  /\ current \in DOMAIN hdr /\ hdr[current].is_free
           /\ aligned_size \in Nat /\ req.bytes <= aligned_size
           /\ current + needed \in Nat /\ needed = aligned_size + HDR
           /\ needed <= hdr[current].size
           /\ \A a \in DOMAIN hdr : a # current => hdr'[a] = hdr[a]
           /\ \/ /\ DOMAIN hdr' = DOMAIN hdr
                 /\ hdr'[current] = [size |-> hdr[current].size, is_free |-> FALSE,
                                     next |-> hdr[current].next]
              \/ /\ current + needed \notin DOMAIN hdr
                 /\ DOMAIN hdr' = DOMAIN hdr \cup {current + needed}
                 /\ hdr'[current] = [size |-> aligned_size, is_free |-> FALSE,
                                     next |-> current + needed]
                 /\ hdr'[current + needed] =
                       [size |-> hdr[current].size - needed, is_free |-> TRUE,
                        next |-> hdr[current].next]
                 /\ hdr[current].size - needed \in Nat
  <1>1. current \in DOMAIN hdr
    BY DEF IndInv, TypeOK
  <1>2. hdr[current].is_free /\ hdr[current].size >= needed
    BY DEF Fits
  <1>3. aligned_size \in Nat /\ req.bytes <= aligned_size
    BY AlignedSize DEF IndInv, ReqOK, TypeOK
  <1>4. needed = aligned_size + HDR /\ needed \in Nat /\ needed >= HDR
    BY <1>3 DEF needed, HDR
  <1>5. /\ current \in Nat /\ hdr[current] \in Header
        /\ hdr[current].size \in Nat /\ BlockEnd(current) \in Nat
    BY <1>1, BlockTypes
  <1>0. /\ current + needed \in Nat
        /\ needed <= hdr[current].size
    BY <1>2, <1>4, <1>5
  <1> DEFINE leftover == hdr[current].size - needed
             n        == current + needed
  <1>6. CASE leftover > HDR + 16
    <2>1. current < n /\ n < BlockEnd(current) /\ leftover \in Nat
      BY <1>2, <1>4, <1>5, <1>6 DEF BlockEnd, HDR
    <2>2. n \notin DOMAIN hdr
      <3> HIDE DEF n
      <3> SUFFICES ASSUME n \in DOMAIN hdr PROVE FALSE
        OBVIOUS
      <3>1. \A a, b \in DOMAIN hdr : a < b => BlockEnd(a) <= b
        BY DEF IndInv, BlocksTile
      <3>2. BlockEnd(current) <= n /\ n \in Nat
        BY <1>1, <2>1, <3>1, BlockTypes
      <3> QED BY <1>5, <2>1, <3>2
    <2>3. hdr' = With([hdr EXCEPT ![current] =
                          [size |-> aligned_size, is_free |-> FALSE, next |-> n]],
                      n, [size |-> leftover, is_free |-> TRUE,
                          next |-> hdr[current].next])
      BY <1>6 DEF cut
    <2> HIDE DEF n, leftover
    <2>4. /\ DOMAIN hdr' = DOMAIN hdr \cup {n}
          /\ hdr'[current] = [size |-> aligned_size, is_free |-> FALSE, next |-> n]
          /\ hdr'[n] = [size |-> leftover, is_free |-> TRUE, next |-> hdr[current].next]
          /\ \A a \in DOMAIN hdr : a # current => hdr'[a] = hdr[a]
      BY <1>1, <2>2, <2>3 DEF With
    <2> QED BY <1>0, <1>1, <1>2, <1>3, <1>4, <2>1, <2>2, <2>4 DEF n, leftover
  <1>7. CASE ~(leftover > HDR + 16)
    <2>1. hdr' = [hdr EXCEPT ![current].is_free = FALSE]
      BY <1>7 DEF cut
    <2>2. /\ DOMAIN hdr' = DOMAIN hdr
          /\ hdr'[current] = [hdr[current] EXCEPT !.is_free = FALSE]
          /\ \A a \in DOMAIN hdr : a # current => hdr'[a] = hdr[a]
      BY <1>1, <2>1
    <2>3. hdr'[current] = [size |-> hdr[current].size, is_free |-> FALSE,
                           next |-> hdr[current].next]
      BY <1>5, <2>2 DEF Header
    <2> QED BY <1>0, <1>1, <1>2, <1>3, <1>4, <2>2, <2>3, Zenon
  <1> QED BY <1>6, <1>7

(* After the cut the list still tiles the page, the block at current is in *)
(* use and large enough, and no two free blocks have become neighbours.    *)
LEMMA CutTiles ==
    ASSUME IndInv, pc = "kmalloc", current # NULL, Fits(current), hdr' = cut(current),
           UNCHANGED heap_start
    PROVE  /\ DOMAIN hdr' \subseteq Nat /\ \A a \in DOMAIN hdr' : hdr'[a] \in Header
           /\ BlocksTile'
           /\ current \in DOMAIN hdr' /\ ~hdr'[current].is_free
           /\ req.bytes <= hdr'[current].size
           /\ \A a \in DOMAIN hdr : a \in DOMAIN hdr'
           /\ \A a \in DOMAIN hdr' : a \in DOMAIN hdr \/ hdr'[a].is_free
           /\ \A a \in DOMAIN hdr' : hdr'[a].next # NULL =>
                 ~(hdr'[a].is_free /\ hdr'[hdr'[a].next].is_free)
  <1> DEFINE c == current
             n == current + needed
             E(a) == a + HDR + hdr[a].size
             F(a) == a + HDR + hdr'[a].size
             Shape == \/ /\ DOMAIN hdr' = DOMAIN hdr
                         /\ hdr'[c] = [size |-> hdr[c].size, is_free |-> FALSE,
                                       next |-> hdr[c].next]
                      \/ /\ n \notin DOMAIN hdr
                         /\ DOMAIN hdr' = DOMAIN hdr \cup {n}
                         /\ hdr'[c] = [size |-> aligned_size, is_free |-> FALSE, next |-> n]
                         /\ hdr'[n] = [size |-> hdr[c].size - needed, is_free |-> TRUE,
                                       next |-> hdr[c].next]
                         /\ hdr[c].size - needed \in Nat
  <1>1. /\ c \in DOMAIN hdr /\ hdr[c].is_free
        /\ aligned_size \in Nat /\ req.bytes <= aligned_size
        /\ n \in Nat /\ needed = aligned_size + HDR
        /\ needed <= hdr[c].size
        /\ \A a \in DOMAIN hdr : a # c => hdr'[a] = hdr[a]
        /\ Shape
    BY CutShape
  <1>2. \A a \in DOMAIN hdr :
           /\ a \in Nat \ {0} /\ hdr[a] \in Header
           /\ hdr[a].size \in Nat /\ hdr[a].is_free \in BOOLEAN /\ hdr[a].next \in Nat
           /\ E(a) \in Nat
    BY BlockTypes DEF BlockEnd
  <1>3. /\ heap_start \in DOMAIN hdr /\ heap_start \in Nat \ {0}
        /\ heap_start + PAGE_SIZE \in Nat
    BY <1>1, BlockTypes, PageAssumption DEF IndInv, BlocksTile, NULL
  <1>4. /\ \A a \in DOMAIN hdr :
              /\ heap_start <= a /\ E(a) <= heap_start + PAGE_SIZE
              /\ \/ hdr[a].next = NULL /\ E(a) = heap_start + PAGE_SIZE
                 \/ hdr[a].next \in DOMAIN hdr /\ E(a) = hdr[a].next
        /\ \A a, b \in DOMAIN hdr : a < b => E(a) <= b
    BY DEF IndInv, BlocksTile, BlockEnd
  <1>5. \A a \in DOMAIN hdr : hdr[a].next # NULL =>
           ~(hdr[a].is_free /\ hdr[hdr[a].next].is_free)
    BY DEF IndInv, NoFreeNeighbours
  <1>6. req.bytes \in Nat /\ heap_start' = heap_start
    BY DEF IndInv, TypeOK
  <1>7. CASE /\ DOMAIN hdr' = DOMAIN hdr
             /\ hdr'[c] = [size |-> hdr[c].size, is_free |-> FALSE,
                           next |-> hdr[c].next]
    <2>1. \A a \in DOMAIN hdr :
             /\ hdr'[a].size = hdr[a].size /\ hdr'[a].next = hdr[a].next
             /\ hdr'[a] \in Header
             /\ hdr'[a].is_free => hdr[a].is_free
             /\ F(a) = E(a)
      <3>1. \A a \in DOMAIN hdr : a # c => hdr'[a] = hdr[a]
        BY <1>1
      <3>2. /\ hdr'[c].size = hdr[c].size /\ hdr'[c].next = hdr[c].next
            /\ hdr'[c] \in Header /\ ~hdr'[c].is_free
        BY <1>1, <1>2, <1>7 DEF Header
      <3> QED BY <1>2, <3>1, <3>2
    <2>2. BlocksTile'
      <3>1. \A a \in DOMAIN hdr' :
               /\ heap_start <= a /\ F(a) <= heap_start + PAGE_SIZE
               /\ \/ hdr'[a].next = NULL /\ F(a) = heap_start + PAGE_SIZE
                  \/ hdr'[a].next \in DOMAIN hdr' /\ F(a) = hdr'[a].next
        BY <1>4, <1>7, <2>1
      <3>2. \A a, b \in DOMAIN hdr' : a < b => F(a) <= b
        BY <1>4, <1>7, <2>1
      <3> QED BY <1>3, <1>6, <1>7, <3>1, <3>2 DEF BlocksTile, BlockEnd, NULL
    <2>3. req.bytes <= hdr'[c].size
      BY <1>1, <1>2, <1>6, <1>7 DEF HDR
    <2>4. \A a \in DOMAIN hdr' : hdr'[a].next # NULL =>
             ~(hdr'[a].is_free /\ hdr'[hdr'[a].next].is_free)
      BY <1>4, <1>5, <1>7, <2>1
    <2> QED BY <1>1, <1>2, <1>7, <2>1, <2>2, <2>3, <2>4
  <1>8. CASE /\ n \notin DOMAIN hdr
             /\ DOMAIN hdr' = DOMAIN hdr \cup {n}
             /\ hdr'[c] = [size |-> aligned_size, is_free |-> FALSE, next |-> n]
             /\ hdr'[n] = [size |-> hdr[c].size - needed, is_free |-> TRUE,
                           next |-> hdr[c].next]
             /\ hdr[c].size - needed \in Nat
    <2>1. c < n /\ n <= E(c) /\ F(c) = n /\ F(n) = E(c)
      BY <1>1, <1>2, <1>8 DEF HDR
    <2>2. \A a \in DOMAIN hdr : a # c => hdr'[a] = hdr[a] /\ F(a) = E(a)
      BY <1>1
    <2>3. \A a \in DOMAIN hdr' : hdr'[a] \in Header
      <3>1. hdr'[c] \in Header /\ hdr'[n] \in Header
        BY <1>1, <1>2, <1>8 DEF Header
      <3> QED BY <1>2, <1>8, <2>2, <3>1
    <2> DEFINE top == heap_start + PAGE_SIZE
    <2>4. \A a \in DOMAIN hdr' : /\ heap_start <= a /\ F(a) <= top
                                 /\ \/ hdr'[a].next = NULL /\ F(a) = top
                                    \/ hdr'[a].next \in DOMAIN hdr' /\ F(a) = hdr'[a].next
      <3> SUFFICES ASSUME NEW a \in DOMAIN hdr'
                   PROVE  /\ heap_start <= a /\ F(a) <= top
                          /\ \/ hdr'[a].next = NULL /\ F(a) = top
                             \/ hdr'[a].next \in DOMAIN hdr' /\ F(a) = hdr'[a].next
        OBVIOUS
      <3>1. CASE a = n
        BY <1>1, <1>2, <1>3, <1>4, <1>8, <2>1, <3>1
      <3>2. CASE a = c
        BY <1>1, <1>2, <1>3, <1>4, <1>8, <2>1, <3>2
      <3>3. CASE a # n /\ a # c
        BY <1>3, <1>4, <1>8, <2>2, <3>3
      <3> QED BY <3>1, <3>2, <3>3
    <2>5. \A a, b \in DOMAIN hdr' : a < b => F(a) <= b
      <3> SUFFICES ASSUME NEW a \in DOMAIN hdr', NEW b \in DOMAIN hdr', a < b
                   PROVE  F(a) <= b
        OBVIOUS
      <3>1. CASE a = n
        BY <1>1, <1>2, <1>4, <1>8, <2>1, <3>1
      <3>2. CASE a = c
        BY <1>1, <1>2, <1>4, <1>8, <2>1, <3>2
      <3>3. CASE a # n /\ a # c /\ b = n
        BY <1>1, <1>2, <1>4, <1>8, <2>1, <2>2, <3>3
      <3>4. CASE a # n /\ a # c /\ b # n
        BY <1>4, <1>8, <2>2, <3>4
      <3> QED BY <3>1, <3>2, <3>3, <3>4
    <2>6. BlocksTile'
      BY <1>3, <1>6, <1>8, <2>4, <2>5 DEF BlocksTile, BlockEnd, NULL
    <2>7. \A a \in DOMAIN hdr' : hdr'[a].next # NULL =>
             ~(hdr'[a].is_free /\ hdr'[hdr'[a].next].is_free)
      <3> SUFFICES ASSUME NEW a \in DOMAIN hdr', hdr'[a].next # NULL, hdr'[a].is_free
                   PROVE  ~hdr'[hdr'[a].next].is_free
        OBVIOUS
      <3>1. CASE a = n
        <4>1. hdr[c].next \in DOMAIN hdr /\ hdr[c].next = E(c)
          BY <1>1, <1>4, <1>8, <3>1
        <4>2. ~hdr[hdr[c].next].is_free
          BY <1>1, <1>5, <1>8, <3>1
        <4>3. hdr[c].next # c
          BY <1>1, <4>2
        <4> QED BY <1>8, <2>2, <3>1, <4>1, <4>2, <4>3
      <3>2. CASE a # n
        <4>1. a # c /\ a \in DOMAIN hdr /\ hdr'[a] = hdr[a]
          BY <1>8, <2>2, <3>2
        <4>2. hdr[a].next \in DOMAIN hdr /\ ~hdr[hdr[a].next].is_free
          BY <1>4, <1>5, <4>1
        <4>3. hdr[a].next # c
          BY <1>1, <4>2
        <4> QED BY <2>2, <4>1, <4>2, <4>3
      <3> QED BY <3>1, <3>2
    <2>8. /\ DOMAIN hdr' \subseteq Nat
          /\ \A a \in DOMAIN hdr : a \in DOMAIN hdr'
          /\ \A a \in DOMAIN hdr' : a \in DOMAIN hdr \/ hdr'[a].is_free
          /\ c \in DOMAIN hdr' /\ ~hdr'[c].is_free /\ req.bytes <= hdr'[c].size
      BY <1>1, <1>2, <1>8
    <2> QED BY <2>3, <2>6, <2>7, <2>8
  <1> QED BY <1>1, <1>7, <1>8

-----------------------------------------------------------------------------
(* kmalloc returns the block, or hands it to krealloc.                     *)
LEMMA TakePreserves ==
    ASSUME IndInv, KmallocTake
    PROVE  IndInv'
  <1> DEFINE c == current
  <1>1. /\ pc = "kmalloc" /\ current # NULL /\ Fits(current) /\ hdr' = cut(current)
        /\ UNCHANGED <<pool, heap_start>>
    BY DEF KmallocTake
  <1>2. /\ DOMAIN hdr' \subseteq Nat /\ \A a \in DOMAIN hdr' : hdr'[a] \in Header
        /\ BlocksTile'
        /\ c \in DOMAIN hdr' /\ ~hdr'[c].is_free
        /\ req.bytes <= hdr'[c].size
        /\ \A a \in DOMAIN hdr : a \in DOMAIN hdr'
        /\ \A a \in DOMAIN hdr' : a \in DOMAIN hdr \/ hdr'[a].is_free
        /\ \A a \in DOMAIN hdr' : hdr'[a].next # NULL =>
              ~(hdr'[a].is_free /\ hdr'[hdr'[a].next].is_free)
    BY <1>1, CutTiles
  <1>3. /\ c \in DOMAIN hdr /\ hdr[c].is_free
        /\ \A a \in DOMAIN hdr : a # c => hdr'[a] = hdr[a]
    BY <1>1, CutShape
  <1>4. \A p \in DOMAIN live :
           /\ BlockOf(p) \in DOMAIN hdr' /\ BlockOf(p) # c
           /\ hdr'[BlockOf(p)] = hdr[BlockOf(p)]
           /\ ~hdr'[BlockOf(p)].is_free
    BY <1>2, <1>3, PointerInBlock
  <1>5. \A a \in DOMAIN hdr' :
           \/ hdr'[a].is_free
           \/ a = c
           \/ \E p \in DOMAIN live : BlockOf(p) = a
    BY <1>1, <1>2, <1>3 DEF IndInv, LiveOwnBlocks
  <1>6. heap_start' # NULL /\ PoolOK' /\ pool' \in [next : Nat, limit : Nat]
        /\ heap_start' \in Nat
    BY <1>1 DEF IndInv, TypeOK, PoolOK, HeapFresh
  <1>7. /\ req \in [size : Nat, bytes : Nat, alignment : Nat, old : Nat]
        /\ req.size \in Nat /\ req.bytes \in Nat /\ req.alignment \in Nat
        /\ req.size > 0 /\ req.size <= req.bytes /\ req.bytes + 15 < UINT_MOD
        /\ req.alignment # 0 =>
              req.bytes = req.size + req.alignment + PTR /\ req.old = NULL
        /\ req.old # NULL =>
              /\ req.old \in DOMAIN live /\ ~live[req.old].aligned
              /\ hdr[BlockOf(req.old)].size < req.bytes
    BY <1>1 DEF IndInv, TypeOK, ReqOK
  <1>8. CASE req.old # NULL
    <2>1. pc' = "copy" /\ UNCHANGED <<live, current, req>>
      BY <1>8 DEF KmallocTake
    <2>2. \A p : BlockOf(p)' = BlockOf(p)
      BY <2>1 DEF BlockOf
    <2>3. TypeOK'
      BY <1>2, <1>6, <1>7, <2>1 DEF IndInv, TypeOK
    <2>4. ReqOK'
      <3>1. req.alignment = 0
        BY <1>7, <1>8
      <3>2. hdr'[BlockOf(req.old)].size < req.bytes
        BY <1>4, <1>7, <1>8
      <3> QED BY <1>2, <1>4, <1>7, <1>8, <2>1, <3>1, <3>2 DEF ReqOK, BlockOf
    <2>5. LiveOwnBlocks'
      <3>1. \A p \in DOMAIN live :
               /\ IF live[p].aligned THEN live[p].raw + PTR <= p ELSE p = live[p].raw
               /\ p + live[p].size <= BlockOf(p) + HDR + hdr'[BlockOf(p)].size
        BY <1>4 DEF IndInv, LiveOwnBlocks, BlockEnd
      <3>2. \A p, q \in DOMAIN live : BlockOf(p) = BlockOf(q) => p = q
        BY DEF IndInv, LiveOwnBlocks
      <3> QED BY <1>4, <1>5, <2>1, <3>1, <3>2 DEF LiveOwnBlocks, BlockOf, BlockEnd
    <2>6. NoFreeNeighbours'
      BY <1>2 DEF NoFreeNeighbours
    <2>7. FirstFit' /\ HeapFresh'
      BY <1>6, <2>1 DEF FirstFit, HeapFresh
    <2> QED BY <1>2, <1>6, <2>3, <2>4, <2>5, <2>6, <2>7 DEF IndInv
  <1>9. CASE req.old = NULL
    <2> DEFINE raw == c + HDR
               q   == IF req.alignment = 0 THEN raw ELSE aligned_addr(raw, req.alignment)
    <2>1. /\ live' = With(live, q, [size |-> req.size, raw |-> raw,
                                    aligned |-> req.alignment # 0])
          /\ pc' = "idle" /\ current' = NULL /\ req' = NoRequest
      BY <1>9 DEF KmallocTake, Return
    <2>2. /\ c \in Nat /\ hdr'[c].size \in Nat /\ raw \in Nat
          /\ raw - HDR = c
          /\ raw + hdr'[c].size <= pool_end
      <3>1. c \in Nat /\ hdr'[c] \in Header
        BY <1>2
      <3>2. hdr'[c].size \in Nat
        BY <3>1 DEF Header
      <3>3. c + HDR + hdr'[c].size <= heap_start' + PAGE_SIZE
        BY <1>2 DEF BlocksTile, BlockEnd
      <3>4. heap_start' + PAGE_SIZE <= pool_end
        BY <1>6 DEF PoolOK
      <3> QED BY <1>6, <3>1, <3>2, <3>3, <3>4, PoolBounds, PageAssumption DEF HDR
    <2>3. /\ q \in Nat
          /\ raw <= q
          /\ IF req.alignment # 0 THEN raw + PTR <= q ELSE q = raw
          /\ q + req.size <= raw + hdr'[c].size
      <3>1. CASE req.alignment = 0
        BY <1>2, <1>7, <2>2, <3>1
      <3>2. CASE req.alignment # 0
        <4>1. raw + PTR + req.alignment < UINTPTR_MOD
          BY <1>2, <1>7, <2>2, <3>2, PoolBounds, SpaceAssumption DEF PTR
        <4>2. /\ aligned_addr(raw, req.alignment) \in Nat
              /\ raw + PTR <= aligned_addr(raw, req.alignment)
              /\ aligned_addr(raw, req.alignment) < raw + PTR + req.alignment
          BY <1>7, <2>2, <3>2, <4>1, AlignedAddr
        <4> QED BY <1>2, <1>7, <2>2, <3>2, <4>2 DEF PTR
      <3> QED BY <3>1, <3>2
    <2> HIDE DEF q, raw
    <2>4. q \notin DOMAIN live
      <3> SUFFICES ASSUME q \in DOMAIN live PROVE FALSE
        OBVIOUS
      <3>1. /\ BlockOf(q) \in DOMAIN hdr /\ BlockOf(q) # c
            /\ BlockOf(q) + HDR <= q
            /\ q < BlockOf(q) + HDR + hdr[BlockOf(q)].size
            /\ hdr'[BlockOf(q)] = hdr[BlockOf(q)]
            /\ BlockOf(q) \in DOMAIN hdr'
        BY <1>4, PointerInBlock DEF BlockEnd
      <3>2. BlockOf(q) \in Nat /\ hdr'[BlockOf(q)].size \in Nat
        BY <1>2, <3>1 DEF Header
      <3>3. \A a, b \in DOMAIN hdr' : a < b => a + HDR + hdr'[a].size <= b
        BY <1>2 DEF BlocksTile, BlockEnd
      <3>4. CASE BlockOf(q) < c
        <4>1. BlockOf(q) + HDR + hdr'[BlockOf(q)].size <= c
          BY <1>2, <3>1, <3>3, <3>4
        <4> QED BY <2>2, <2>3, <3>1, <3>2, <4>1 DEF raw, HDR
      <3>5. CASE c < BlockOf(q)
        <4>1. c + HDR + hdr'[c].size <= BlockOf(q)
          BY <1>2, <3>1, <3>3, <3>5
        <4> QED BY <1>7, <2>2, <2>3, <3>1, <3>2, <4>1 DEF raw, HDR
      <3> QED BY <2>2, <3>1, <3>2, <3>4, <3>5
    <2>5. /\ DOMAIN live' = DOMAIN live \cup {q}
          /\ live'[q] = [size |-> req.size, raw |-> raw, aligned |-> req.alignment # 0]
          /\ \A p \in DOMAIN live : p # q /\ live'[p] = live[p]
      BY <2>1, <2>4 DEF With
    <2>6. TypeOK'
      <3>1. live'[q] \in Held
        BY <1>7, <2>2, <2>5 DEF Held
      <3>2. DOMAIN live' \subseteq Nat /\ \A p \in DOMAIN live' : live'[p] \in Held
        BY <2>3, <2>5, <3>1 DEF IndInv, TypeOK
      <3> QED BY <1>2, <1>6, <2>1, <3>2 DEF TypeOK, NoRequest, Request, NULL
    <2>7. LiveOwnBlocks'
      <3> DEFINE B(p) == live'[p].raw - HDR
      <3>1. B(q) = c
        BY <2>2, <2>5
      <3>2. \A p \in DOMAIN live : B(p) = BlockOf(p)
        BY <2>5 DEF BlockOf
      <3>3. \A p \in DOMAIN live' :
               /\ B(p) \in DOMAIN hdr' /\ ~hdr'[B(p)].is_free
               /\ IF live'[p].aligned THEN live'[p].raw + PTR <= p ELSE p = live'[p].raw
               /\ p + live'[p].size <= B(p) + HDR + hdr'[B(p)].size
        <4>1. ASSUME NEW p \in DOMAIN live
              PROVE  /\ B(p) \in DOMAIN hdr' /\ ~hdr'[B(p)].is_free
                     /\ IF live'[p].aligned THEN live'[p].raw + PTR <= p
                                            ELSE p = live'[p].raw
                     /\ p + live'[p].size <= B(p) + HDR + hdr'[B(p)].size
          <5>1. /\ IF live[p].aligned THEN live[p].raw + PTR <= p ELSE p = live[p].raw
                /\ p + live[p].size <= BlockOf(p) + HDR + hdr[BlockOf(p)].size
            BY DEF IndInv, LiveOwnBlocks, BlockEnd
          <5>2. live'[p] = live[p] /\ B(p) = BlockOf(p)
            BY <2>5, <3>2
          <5> QED BY <1>4, <5>1, <5>2
        <4>2. /\ B(q) \in DOMAIN hdr' /\ ~hdr'[B(q)].is_free
              /\ IF live'[q].aligned THEN live'[q].raw + PTR <= q ELSE q = live'[q].raw
              /\ q + live'[q].size <= B(q) + HDR + hdr'[B(q)].size
          <5>1. /\ live'[q].raw = raw /\ live'[q].size = req.size
                /\ live'[q].aligned = (req.alignment # 0)
            BY <2>5
          <5>2. IF live'[q].aligned THEN live'[q].raw + PTR <= q ELSE q = live'[q].raw
            BY <2>3, <5>1
          <5>3. q + live'[q].size <= c + HDR + hdr'[c].size
            BY <2>3, <5>1 DEF raw
          <5> QED BY <1>2, <3>1, <5>2, <5>3
        <4> QED BY <2>5, <4>1, <4>2
      <3>4. \A p1, p2 \in DOMAIN live' : B(p1) = B(p2) => p1 = p2
        BY <1>4, <2>5, <3>1, <3>2 DEF IndInv, LiveOwnBlocks
      <3>5. \A a \in DOMAIN hdr' :
               hdr'[a].is_free \/ \E p \in DOMAIN live' : B(p) = a
        BY <1>5, <2>5, <3>1, <3>2
      <3> QED BY <3>3, <3>4, <3>5 DEF LiveOwnBlocks, BlockOf, BlockEnd
    <2>8. NoFreeNeighbours'
      BY <1>2 DEF NoFreeNeighbours
    <2>9. FirstFit' /\ HeapFresh' /\ ReqOK'
      BY <1>6, <2>1 DEF FirstFit, HeapFresh, ReqOK
    <2> QED BY <1>2, <1>6, <2>6, <2>7, <2>8, <2>9 DEF IndInv
  <1> QED BY <1>8, <1>9

(* What BlocksTile says of every pair of blocks, in plain arithmetic.      *)
LEMMA Tiling ==
    ASSUME IndInv
    PROVE  /\ \A a \in DOMAIN hdr :
                 /\ a \in Nat \ {0} /\ hdr[a].size \in Nat /\ hdr[a].next \in Nat
                 /\ hdr[a] \in Header /\ hdr[a].is_free \in BOOLEAN
                 /\ heap_start <= a /\ a + HDR + hdr[a].size <= heap_start + PAGE_SIZE
                 /\ \/ /\ hdr[a].next = NULL
                       /\ a + HDR + hdr[a].size = heap_start + PAGE_SIZE
                    \/ /\ hdr[a].next \in DOMAIN hdr
                       /\ a + HDR + hdr[a].size = hdr[a].next
           /\ \A a, b \in DOMAIN hdr : a < b => a + HDR + hdr[a].size <= b
           /\ heap_start \in Nat /\ heap_start + PAGE_SIZE \in Nat
           /\ heap_start # NULL <=> heap_start \in DOMAIN hdr
  <1>1. \A a \in DOMAIN hdr :
           /\ a \in Nat \ {0} /\ hdr[a].size \in Nat /\ hdr[a].next \in Nat
           /\ hdr[a] \in Header /\ hdr[a].is_free \in BOOLEAN
    BY BlockTypes
  <1>2. heap_start \in Nat /\ heap_start + PAGE_SIZE \in Nat
    BY PageAssumption DEF IndInv, TypeOK
  <1> QED BY <1>1, <1>2 DEF IndInv, BlocksTile, BlockEnd

(* The blocks in front of the one that follows c are c and those in front  *)
(* of c, and when none follows c they are all the blocks.                  *)
LEMMA NextIsNext ==
    ASSUME IndInv, NEW c \in DOMAIN hdr, NEW a \in DOMAIN hdr,
           hdr[c].next = NULL \/ a < hdr[c].next
    PROVE  a < c \/ a = c
  <1> SUFFICES ASSUME c < a PROVE FALSE
    BY Tiling
  <1>1. /\ c + HDR + hdr[c].size <= a
        /\ a \in Nat /\ hdr[a].size \in Nat /\ c \in Nat /\ hdr[c].size \in Nat
        /\ a + HDR + hdr[a].size <= heap_start + PAGE_SIZE
        /\ heap_start + PAGE_SIZE \in Nat
    BY Tiling
  <1>2. CASE hdr[c].next = NULL
    <2>1. c + HDR + hdr[c].size = heap_start + PAGE_SIZE
      BY <1>2, Tiling DEF NULL
    <2> QED BY <1>1, <2>1 DEF HDR
  <1>3. CASE hdr[c].next # NULL /\ a < hdr[c].next
    <2>1. c + HDR + hdr[c].size = hdr[c].next
      BY <1>3, Tiling
    <2> QED BY <1>1, <1>3, <2>1 DEF HDR
  <1> QED BY <1>2, <1>3

(* kmalloc starts its walk, with the heap initialized if it can be.        *)
LEMMA BeginKmallocPreserves ==
    ASSUME IndInv, Idle, NEW r \in [size : Nat, bytes : Nat, alignment : Nat, old : Nat],
           BeginKmalloc(r),
           r.size > 0, r.size <= r.bytes, r.bytes + 15 < UINT_MOD,
           r.alignment # 0 => r.bytes = r.size + r.alignment + PTR /\ r.old = NULL,
           r.old # NULL =>
              /\ r.old \in DOMAIN live /\ ~live[r.old].aligned
              /\ hdr[BlockOf(r.old)].size < r.bytes
    PROVE  IndInv'
  <1>1. /\ heap_initialize /\ live' = live
        /\ IF heap_start' = NULL
           THEN UNCHANGED <<pc, current, req>>
           ELSE pc' = "kmalloc" /\ current' = heap_start' /\ req' = r
    BY DEF BeginKmalloc
  <1>2. /\ pool' \in [next : Nat, limit : Nat] /\ heap_start' \in Nat /\ PoolOK'
        /\ DOMAIN hdr' \subseteq Nat /\ \A a \in DOMAIN hdr' : hdr'[a] \in Header
        /\ heap_start' = NULL => DOMAIN hdr' = {}
        /\ BlocksTile'
        /\ \A a \in DOMAIN hdr : a \in DOMAIN hdr' /\ hdr'[a] = hdr[a]
        /\ \A a \in DOMAIN hdr' : a \in DOMAIN hdr \/ hdr'[a].is_free
        /\ \A a \in DOMAIN hdr' : hdr'[a].next # NULL =>
              ~(hdr'[a].is_free /\ hdr'[hdr'[a].next].is_free)
    BY <1>1, HeapInit
  <1>3. pc = "idle"
    BY DEF Idle
  <1>4. pc' \in {"idle", "kmalloc"}
    BY <1>1, <1>3
  <1>5. LiveOwnBlocks'
    <2>1. \A p \in DOMAIN live :
             /\ BlockOf(p) \in DOMAIN hdr' /\ ~hdr'[BlockOf(p)].is_free
             /\ IF live[p].aligned THEN live[p].raw + PTR <= p ELSE p = live[p].raw
             /\ p + live[p].size <= BlockOf(p) + HDR + hdr'[BlockOf(p)].size
      BY <1>2 DEF IndInv, LiveOwnBlocks, BlockEnd
    <2>2. \A p, q \in DOMAIN live : BlockOf(p) = BlockOf(q) => p = q
      BY DEF IndInv, LiveOwnBlocks
    <2>3. \A a \in DOMAIN hdr' : hdr'[a].is_free \/ \E p \in DOMAIN live : BlockOf(p) = a
      BY <1>2, <1>3 DEF IndInv, LiveOwnBlocks
    <2> QED BY <1>1, <2>1, <2>2, <2>3 DEF LiveOwnBlocks, BlockOf, BlockEnd
  <1>6. NoFreeNeighbours'
    BY <1>2 DEF NoFreeNeighbours
  <1>7. HeapFresh'
    BY <1>1, <1>2, <1>3 DEF HeapFresh
  <1>8. CASE heap_start' = NULL
    <2>1. UNCHANGED <<pc, current, req>>
      BY <1>1, <1>8
    <2>2. TypeOK'
      <3>1. current = NULL
        BY <1>2, <1>3, <1>8, <2>1 DEF IndInv, TypeOK
      <3> QED BY <1>1, <1>2, <1>3, <2>1, <3>1 DEF IndInv, TypeOK
    <2>3. ReqOK' /\ FirstFit'
      BY <1>3, <2>1 DEF ReqOK, FirstFit
    <2> QED BY <1>2, <1>5, <1>6, <1>7, <2>2, <2>3 DEF IndInv
  <1>9. CASE heap_start' # NULL
    <2>1. pc' = "kmalloc" /\ current' = heap_start' /\ req' = r
      BY <1>1, <1>9
    <2>2. TypeOK'
      <3>1. heap_start' \in DOMAIN hdr'
        BY <1>2, <1>9 DEF BlocksTile, NULL
      <3> QED BY <1>1, <1>2, <2>1, <3>1 DEF IndInv, TypeOK
    <2>3. ReqOK'
      <3>1. r.old # NULL => hdr'[BlockOf(r.old)] = hdr[BlockOf(r.old)]
        BY <1>2, PointerInBlock
      <3>2. BlockOf(r.old)' = live'[r.old].raw - HDR /\ BlockOf(r.old) = live[r.old].raw - HDR
        BY DEF BlockOf
      <3> QED BY <1>1, <2>1, <3>1, <3>2 DEF ReqOK, BlockOf
    <2>4. FirstFit'
      <3>1. \A a \in DOMAIN hdr' : heap_start' <= a /\ a \in Nat
        BY <1>2 DEF BlocksTile
      <3>2. \A a \in DOMAIN hdr' : ~(a < heap_start')
        BY <1>2, <3>1
      <3> QED BY <1>9, <2>1, <3>2 DEF FirstFit, NULL
    <2> QED BY <1>2, <1>5, <1>6, <1>7, <2>2, <2>3, <2>4 DEF IndInv
  <1> QED BY <1>8, <1>9

(* heap_initialize called by itself, and other users of the pool.          *)
LEMMA InitializePreserves ==
    ASSUME IndInv, HeapInitialize
    PROVE  IndInv'
  <1>1. /\ heap_initialize /\ Idle /\ live' = live
        /\ UNCHANGED <<pc, current, req>> /\ pc = "idle"
    BY DEF HeapInitialize, Idle
  <1>2. /\ pool' \in [next : Nat, limit : Nat] /\ heap_start' \in Nat /\ PoolOK'
        /\ DOMAIN hdr' \subseteq Nat /\ \A a \in DOMAIN hdr' : hdr'[a] \in Header
        /\ heap_start' = NULL => DOMAIN hdr' = {}
        /\ BlocksTile'
        /\ \A a \in DOMAIN hdr : a \in DOMAIN hdr' /\ hdr'[a] = hdr[a]
        /\ \A a \in DOMAIN hdr' : a \in DOMAIN hdr \/ hdr'[a].is_free
        /\ \A a \in DOMAIN hdr' : hdr'[a].next # NULL =>
              ~(hdr'[a].is_free /\ hdr'[hdr'[a].next].is_free)
    BY <1>1, HeapInit
  <1>3. LiveOwnBlocks'
    <2>1. \A p \in DOMAIN live :
             /\ BlockOf(p) \in DOMAIN hdr' /\ ~hdr'[BlockOf(p)].is_free
             /\ IF live[p].aligned THEN live[p].raw + PTR <= p ELSE p = live[p].raw
             /\ p + live[p].size <= BlockOf(p) + HDR + hdr'[BlockOf(p)].size
      BY <1>2 DEF IndInv, LiveOwnBlocks, BlockEnd
    <2>2. \A p, q \in DOMAIN live : BlockOf(p) = BlockOf(q) => p = q
      BY DEF IndInv, LiveOwnBlocks
    <2>3. \A a \in DOMAIN hdr' : hdr'[a].is_free \/ \E p \in DOMAIN live : BlockOf(p) = a
      BY <1>1, <1>2 DEF IndInv, LiveOwnBlocks
    <2> QED BY <1>1, <2>1, <2>2, <2>3 DEF LiveOwnBlocks, BlockOf, BlockEnd
  <1>4. TypeOK'
    BY <1>1, <1>2 DEF IndInv, TypeOK
  <1>5. NoFreeNeighbours' /\ HeapFresh' /\ ReqOK' /\ FirstFit'
    BY <1>1, <1>2 DEF NoFreeNeighbours, HeapFresh, ReqOK, FirstFit
  <1> QED BY <1>2, <1>3, <1>4, <1>5 DEF IndInv

LEMMA OtherAllocPreserves ==
    ASSUME IndInv, NEW n \in PoolRequests, OtherAlloc(n)
    PROVE  IndInv'
  <1>1. UNCHANGED <<heap_start, hdr, live, pc, current, req>>
    BY DEF OtherAlloc
  <1>2. /\ pool' \in [next : Nat, limit : Nat]
        /\ \E k \in Nat : pool'.next = kernel_end + k * PAGE_SIZE
        /\ pool'.limit = pool_end /\ pool'.next <= pool_end
    BY PoolStep DEF OtherAlloc, IndInv
  <1>3. PoolOK' /\ TypeOK'
    BY <1>1, <1>2 DEF IndInv, PoolOK, TypeOK
  <1>4. HeapFresh' /\ ReqOK' /\ NoFreeNeighbours' /\ FirstFit'
    BY <1>1 DEF IndInv, HeapFresh, ReqOK, NoFreeNeighbours, FirstFit, needed,
                aligned_size, BlockOf
  <1>5. BlocksTile' /\ LiveOwnBlocks'
    BY <1>1 DEF IndInv, BlocksTile, LiveOwnBlocks, BlockEnd, BlockOf
  <1> QED BY <1>3, <1>4, <1>5 DEF IndInv

(* kmalloc passes over a block that does not fit, or finds none.           *)
LEMMA SkipPreserves ==
    ASSUME IndInv, KmallocSkip
    PROVE  IndInv'
  <1>1. /\ pc = "kmalloc" /\ current \in DOMAIN hdr /\ ~Fits(current)
        /\ current' = hdr[current].next
        /\ UNCHANGED <<pool, heap_start, hdr, live, pc, req>>
    BY DEF KmallocSkip, IndInv, TypeOK
  <1>2. TypeOK'
    <2>1. current' \in DOMAIN hdr \cup {NULL}
      BY <1>1, Tiling
    <2> QED BY <1>1, <2>1 DEF IndInv, TypeOK
  <1>3. FirstFit'
    <2>1. \A a \in DOMAIN hdr : current' = NULL \/ a < current' => ~Fits(a)
      <3> SUFFICES ASSUME NEW a \in DOMAIN hdr, current' = NULL \/ a < current'
                   PROVE  ~Fits(a)
        OBVIOUS
      <3>1. a < current \/ a = current
        BY <1>1, NextIsNext
      <3> QED BY <1>1, <3>1 DEF IndInv, FirstFit, Fits
    <2> QED BY <1>1, <2>1 DEF FirstFit, Fits, needed, aligned_size
  <1>4. PoolOK' /\ HeapFresh' /\ NoFreeNeighbours'
    BY <1>1 DEF IndInv, PoolOK, HeapFresh, NoFreeNeighbours
  <1>5. ReqOK'
    BY <1>1 DEF IndInv, ReqOK, BlockOf
  <1>6. BlocksTile' /\ LiveOwnBlocks'
    BY <1>1 DEF IndInv, BlocksTile, LiveOwnBlocks, BlockEnd, BlockOf
  <1> QED BY <1>2, <1>3, <1>4, <1>5, <1>6 DEF IndInv

(* A call returns and the list stays as it is.                             *)
LEMMA ReturnPreserves ==
    ASSUME IndInv, Return, UNCHANGED <<pool, heap_start, hdr, live>>,
           pc = "kmalloc" \/ (pc = "kfree" /\ hdr[current].next = NULL)
    PROVE  IndInv'
  <1>1. pc' = "idle" /\ current' = NULL /\ req' = NoRequest
    BY DEF Return
  <1>2. TypeOK'
    BY <1>1 DEF IndInv, TypeOK, NoRequest, Request, NULL
  <1>3. NoFreeNeighbours'
    <2>1. \A a \in DOMAIN hdr : hdr[a].next # NULL =>
             ~(hdr[a].is_free /\ hdr[hdr[a].next].is_free)
      <3>1. CASE pc = "kmalloc"
        BY <3>1 DEF IndInv, NoFreeNeighbours
      <3>2. CASE pc = "kfree" /\ hdr[current].next = NULL
        <4> SUFFICES ASSUME NEW a \in DOMAIN hdr, hdr[a].next # NULL
                     PROVE  ~(hdr[a].is_free /\ hdr[hdr[a].next].is_free)
          OBVIOUS
        <4>1. current \in DOMAIN hdr
          BY <3>2 DEF IndInv, TypeOK
        <4>2. a < current
          BY <3>2, <4>1, NextIsNext
        <4> QED BY <4>2 DEF IndInv, NoFreeNeighbours
      <3> QED BY <3>1, <3>2
    <2> QED BY <2>1 DEF NoFreeNeighbours
  <1>4. PoolOK' /\ HeapFresh' /\ ReqOK' /\ FirstFit'
    BY <1>1 DEF IndInv, PoolOK, HeapFresh, ReqOK, FirstFit
  <1>5. BlocksTile' /\ LiveOwnBlocks'
    BY <1>1 DEF IndInv, BlocksTile, LiveOwnBlocks, BlockEnd, BlockOf
  <1> QED BY <1>2, <1>3, <1>4, <1>5 DEF IndInv

(* krealloc lets a pointer keep a block that is large enough.              *)
LEMMA ResizePreserves ==
    ASSUME IndInv, Idle, NEW p \in DOMAIN live, NEW n \in Nat,
           ~live[p].aligned, 0 < n, n <= hdr[p - HDR].size,
           live' = [live EXCEPT ![p].size = n],
           UNCHANGED <<pool, heap_start, hdr, pc, current, req>>
    PROVE  IndInv'
  <1>1. /\ live[p].raw = p /\ BlockOf(p) = p - HDR
        /\ live[p] \in Held /\ p \in Nat
        /\ BlockOf(p) \in DOMAIN hdr /\ hdr[BlockOf(p)].size \in Nat
        /\ BlockOf(p) \in Nat
    <2>1. live[p].raw = p
      BY DEF IndInv, LiveOwnBlocks
    <2>2. BlockOf(p) = p - HDR
      BY <2>1 DEF BlockOf
    <2> QED BY <2>1, <2>2, PointerInBlock, Tiling
  <1>2. /\ DOMAIN live' = DOMAIN live
        /\ \A q \in DOMAIN live : q # p => live'[q] = live[q]
        /\ live'[p] = [live[p] EXCEPT !.size = n]
    OBVIOUS
  <1>3. /\ live'[p].raw = live[p].raw /\ live'[p].aligned = live[p].aligned
        /\ live'[p].size = n /\ live'[p] \in Held
    BY <1>1, <1>2 DEF Held
  <1>4. TypeOK'
    BY <1>2, <1>3 DEF IndInv, TypeOK
  <1>5. LiveOwnBlocks'
    <2>1. p + n <= BlockOf(p) + HDR + hdr[BlockOf(p)].size
      BY <1>1 DEF HDR
    <2>2. \A q \in DOMAIN live : live'[q].raw = live[q].raw /\ live'[q].aligned = live[q].aligned
      BY <1>2, <1>3
    <2>3. \A q \in DOMAIN live :
             q + live'[q].size <= BlockOf(q) + HDR + hdr[BlockOf(q)].size
      BY <1>2, <1>3, <2>1 DEF IndInv, LiveOwnBlocks, BlockEnd
    <2> QED BY <1>2, <2>2, <2>3 DEF IndInv, LiveOwnBlocks, BlockOf, BlockEnd
  <1>6. PoolOK' /\ HeapFresh' /\ NoFreeNeighbours' /\ ReqOK' /\ FirstFit' /\ BlocksTile'
    BY DEF IndInv, Idle, PoolOK, HeapFresh, NoFreeNeighbours, ReqOK, FirstFit,
           BlocksTile, BlockEnd
  <1> QED BY <1>4, <1>5, <1>6 DEF IndInv

-----------------------------------------------------------------------------
(* kfree (also at the end of krealloc) marks block b free; its owner p no  *)
(* longer holds it, and the owner of a block krealloc has filled now does. *)
LEMMA FreeBlock ==
    ASSUME IndInv, NEW b \in DOMAIN hdr,
           hdr' = [hdr EXCEPT ![b].is_free = TRUE],
           pc' = "kfree", current' = heap_start, req' = NoRequest,
           UNCHANGED <<pool, heap_start>>,
           DOMAIN live' \subseteq Nat, \A q \in DOMAIN live' : live'[q] \in Held,
           \A q \in DOMAIN live' :
              /\ live'[q].raw - HDR \in DOMAIN hdr /\ live'[q].raw - HDR # b
              /\ ~hdr[live'[q].raw - HDR].is_free
              /\ IF live'[q].aligned THEN live'[q].raw + PTR <= q ELSE q = live'[q].raw
              /\ q + live'[q].size <= BlockEnd(live'[q].raw - HDR),
           \A q1, q2 \in DOMAIN live' :
              live'[q1].raw - HDR = live'[q2].raw - HDR => q1 = q2,
           \A a \in DOMAIN hdr :
              \/ hdr[a].is_free
              \/ a = b
              \/ \E q \in DOMAIN live' : live'[q].raw - HDR = a
    PROVE  IndInv'
  <1>1. /\ DOMAIN hdr' = DOMAIN hdr
        /\ \A a \in DOMAIN hdr : a # b => hdr'[a] = hdr[a]
        /\ hdr'[b] = [hdr[b] EXCEPT !.is_free = TRUE]
    OBVIOUS
  <1>2. /\ hdr'[b].size = hdr[b].size /\ hdr'[b].next = hdr[b].next
        /\ hdr'[b].is_free = TRUE /\ hdr'[b] \in Header
    <2>1. hdr[b] \in [size : Nat, is_free : BOOLEAN, next : Nat]
      BY BlockTypes DEF Header
    <2> QED BY <1>1, <2>1 DEF Header
  <1>3. \A a \in DOMAIN hdr : hdr'[a].size = hdr[a].size /\ hdr'[a].next = hdr[a].next
    BY <1>1, <1>2
  <1>4. heap_start \in DOMAIN hdr
    BY Tiling DEF IndInv, HeapFresh
  <1>5. TypeOK'
    <2>1. \A a \in DOMAIN hdr' : hdr'[a] \in Header
      BY <1>1, <1>2, BlockTypes
    <2> QED BY <1>1, <1>4, <2>1 DEF IndInv, TypeOK, NoRequest, Request, NULL
  <1>6. BlocksTile'
    <2>1. \A a \in DOMAIN hdr' : BlockEnd(a)' = BlockEnd(a)
      BY <1>1, <1>3 DEF BlockEnd
    <2> QED BY <1>1, <1>3, <2>1 DEF IndInv, BlocksTile, BlockEnd
  <1>7. LiveOwnBlocks'
    <2>1. \A q \in DOMAIN live' :
             /\ live'[q].raw - HDR \in DOMAIN hdr'
             /\ ~hdr'[live'[q].raw - HDR].is_free
             /\ q + live'[q].size <=
                   (live'[q].raw - HDR) + HDR + hdr'[live'[q].raw - HDR].size
      BY <1>1 DEF BlockEnd
    <2>2. \A a \in DOMAIN hdr' :
             \/ hdr'[a].is_free
             \/ \E q \in DOMAIN live' : live'[q].raw - HDR = a
      BY <1>1, <1>2
    <2> QED BY <2>1, <2>2 DEF LiveOwnBlocks, BlockOf, BlockEnd
  <1>8. NoFreeNeighbours'
    <2>1. \A a \in DOMAIN hdr' : ~(a < heap_start)
      BY <1>1, Tiling
    <2> QED BY <2>1 DEF NoFreeNeighbours
  <1>9. PoolOK' /\ HeapFresh' /\ ReqOK' /\ FirstFit'
    BY <1>4, BlockTypes DEF IndInv, PoolOK, HeapFresh, ReqOK, FirstFit, NULL
  <1> QED BY <1>5, <1>6, <1>7, <1>8, <1>9 DEF IndInv

(* kfree and kfree_aligned of a pointer that is held.                      *)
LEMMA BeginKfreePreserves ==
    ASSUME IndInv, Idle, NEW p \in DOMAIN live, BeginKfree(p, live[p].raw)
    PROVE  IndInv'
  <1> DEFINE b == BlockOf(p)
  <1>1. /\ hdr' = [hdr EXCEPT ![b].is_free = TRUE]
        /\ live' = Without(live, p)
        /\ pc' = "kfree" /\ current' = heap_start /\ req' = NoRequest
        /\ UNCHANGED <<pool, heap_start>>
    BY DEF BeginKfree, BlockOf
  <1>2. b \in DOMAIN hdr
    BY PointerInBlock
  <1>3. /\ DOMAIN live' = DOMAIN live \ {p}
        /\ \A q \in DOMAIN live' : q \in DOMAIN live /\ q # p /\ live'[q] = live[q]
    BY <1>1 DEF Without, Restrict
  <1>4. \A q1, q2 \in DOMAIN live : BlockOf(q1) = BlockOf(q2) => q1 = q2
    BY DEF IndInv, LiveOwnBlocks
  <1>5. DOMAIN live' \subseteq Nat /\ \A q \in DOMAIN live' : live'[q] \in Held
    BY <1>3 DEF IndInv, TypeOK
  <1>6. \A q \in DOMAIN live' :
           /\ live'[q].raw - HDR \in DOMAIN hdr /\ live'[q].raw - HDR # b
           /\ ~hdr[live'[q].raw - HDR].is_free
           /\ IF live'[q].aligned THEN live'[q].raw + PTR <= q ELSE q = live'[q].raw
           /\ q + live'[q].size <= BlockEnd(live'[q].raw - HDR)
    BY <1>3, <1>4 DEF IndInv, LiveOwnBlocks, BlockOf
  <1>7. \A q1, q2 \in DOMAIN live' : live'[q1].raw - HDR = live'[q2].raw - HDR => q1 = q2
    BY <1>3, <1>4 DEF BlockOf
  <1>8. \A a \in DOMAIN hdr :
           \/ hdr[a].is_free
           \/ a = b
           \/ \E q \in DOMAIN live' : live'[q].raw - HDR = a
    BY <1>3 DEF IndInv, LiveOwnBlocks, BlockOf, Idle
  <1> HIDE DEF b
  <1> QED BY <1>1, <1>2, <1>5, <1>6, <1>7, <1>8, FreeBlock

(* krealloc has copied: the new block gets its owner, the old one is free. *)
LEMMA CopyPreserves ==
    ASSUME IndInv, KreallocCopy
    PROVE  IndInv'
  <1> DEFINE o == req.old
             b == BlockOf(o)
             n == current + HDR
  <1>1. /\ pc = "copy" /\ o \in DOMAIN live /\ ~live[o].aligned
        /\ current \in DOMAIN hdr /\ ~hdr[current].is_free
        /\ req.size \in Nat \ {0} /\ req.size <= req.bytes
        /\ req.bytes <= hdr[current].size /\ req.bytes \in Nat
        /\ \A p \in DOMAIN live : BlockOf(p) # current
    BY DEF KreallocCopy, IndInv, TypeOK, ReqOK
  <1>2. b \in DOMAIN hdr /\ live[o].raw = o /\ b = o - HDR
    BY <1>1, PointerInBlock DEF IndInv, LiveOwnBlocks, BlockOf
  <1>3. /\ hdr' = [hdr EXCEPT ![b].is_free = TRUE]
        /\ live' = With(Without(live, o), n,
                        [size |-> req.size, raw |-> n, aligned |-> FALSE])
        /\ pc' = "kfree" /\ current' = heap_start /\ req' = NoRequest
        /\ UNCHANGED <<pool, heap_start>>
    BY <1>2 DEF KreallocCopy
  <1>4. current \in Nat /\ n \in Nat /\ n - HDR = current /\ hdr[current].size \in Nat
    BY <1>1, Tiling DEF HDR
  <1> HIDE DEF n
  <1>5. /\ DOMAIN live' = (DOMAIN live \ {o}) \cup {n}
        /\ live'[n] = [size |-> req.size, raw |-> n, aligned |-> FALSE]
        /\ \A q \in DOMAIN live' : q = n \/ (q \in DOMAIN live /\ q # o /\ live'[q] = live[q])
    BY <1>3 DEF With, Without, Restrict
  <1>6. \A q1, q2 \in DOMAIN live : BlockOf(q1) = BlockOf(q2) => q1 = q2
    BY DEF IndInv, LiveOwnBlocks
  <1>7. DOMAIN live' \subseteq Nat /\ \A q \in DOMAIN live' : live'[q] \in Held
    <2>1. live'[n] \in Held
      BY <1>1, <1>4, <1>5 DEF Held
    <2>2. DOMAIN live \subseteq Nat /\ \A q \in DOMAIN live : live[q] \in Held
      BY DEF IndInv, TypeOK
    <2> QED BY <1>4, <1>5, <2>1, <2>2
  <1>8. /\ live'[n].raw - HDR = current /\ live'[n].raw = n /\ ~live'[n].aligned
        /\ n + live'[n].size <= BlockEnd(current)
        /\ current # b
    BY <1>1, <1>4, <1>5 DEF BlockEnd, n
  <1>9. ASSUME NEW q \in DOMAIN live'
        PROVE  /\ live'[q].raw - HDR \in DOMAIN hdr /\ live'[q].raw - HDR # b
               /\ ~hdr[live'[q].raw - HDR].is_free
               /\ IF live'[q].aligned THEN live'[q].raw + PTR <= q ELSE q = live'[q].raw
               /\ q + live'[q].size <= BlockEnd(live'[q].raw - HDR)
    <2>1. CASE q = n
      BY <1>1, <1>8, <2>1
    <2>2. CASE q \in DOMAIN live /\ q # o /\ live'[q] = live[q]
      BY <1>1, <1>6, <2>2 DEF IndInv, LiveOwnBlocks, BlockOf
    <2> QED BY <1>5, <2>1, <2>2
  <1>10. \A q1, q2 \in DOMAIN live' : live'[q1].raw - HDR = live'[q2].raw - HDR => q1 = q2
    BY <1>1, <1>5, <1>6, <1>8 DEF BlockOf
  <1>11. \A a \in DOMAIN hdr :
            \/ hdr[a].is_free
            \/ a = b
            \/ \E q \in DOMAIN live' : live'[q].raw - HDR = a
    <2> SUFFICES ASSUME NEW a \in DOMAIN hdr, ~hdr[a].is_free, a # b
                 PROVE  \E q \in DOMAIN live' : live'[q].raw - HDR = a
      OBVIOUS
    <2>1. CASE a = current
      BY <1>5, <1>8, <2>1
    <2>2. CASE a # current
      <3>1. PICK p \in DOMAIN live : BlockOf(p) = a
        BY <2>2 DEF IndInv, LiveOwnBlocks
      <3>2. p # o /\ p \in DOMAIN live'
        BY <1>5, <3>1
      <3>3. p # n
        <4> SUFFICES ASSUME p = n PROVE FALSE
          OBVIOUS
        <4>1. /\ a + HDR <= n /\ n < a + HDR + hdr[a].size
              /\ a \in Nat /\ hdr[a].size \in Nat
          BY <3>1, PointerInBlock, Tiling DEF BlockEnd
        <4>2. a < current => a + HDR + hdr[a].size <= current
          BY <1>1, Tiling
        <4>3. current < a => current + HDR + hdr[current].size <= a
          BY <1>1, Tiling
        <4> QED BY <1>4, <2>2, <4>1, <4>2, <4>3 DEF n, HDR
      <3>4. live'[p] = live[p]
        BY <1>5, <3>2, <3>3
      <3> QED BY <3>1, <3>2, <3>4 DEF BlockOf
    <2> QED BY <2>1, <2>2
  <1> HIDE DEF b
  <1> QED BY <1>2, <1>3, <1>7, <1>9, <1>10, <1>11, FreeBlock

(* kfree's loop absorbs the free block behind the free block at current.   *)
LEMMA MergePreserves ==
    ASSUME IndInv, CoalesceMerge
    PROVE  IndInv'
  <1> DEFINE c == current
             b == hdr[c].next
             F(a) == a + HDR + hdr'[a].size
             top == heap_start + PAGE_SIZE
  <1>1. /\ pc = "kfree" /\ c \in DOMAIN hdr /\ b # NULL
        /\ hdr[c].is_free /\ hdr[b].is_free
        /\ hdr' = merge(c)
        /\ UNCHANGED <<pool, heap_start, live, pc, current, req>>
    BY DEF CoalesceMerge, Mergeable, IndInv, TypeOK
  <1>2. /\ b \in DOMAIN hdr /\ b = c + HDR + hdr[c].size /\ c < b
        /\ c \in Nat /\ b \in Nat /\ hdr[c].size \in Nat /\ hdr[b].size \in Nat
        /\ hdr[b].next \in Nat
    <2>1. b \in DOMAIN hdr /\ b = c + HDR + hdr[c].size
      BY <1>1, Tiling
    <2> QED BY <1>1, <2>1, Tiling DEF HDR
  <1>3. /\ DOMAIN hdr' = DOMAIN hdr \ {b}
        /\ \A a \in DOMAIN hdr' : a # c => hdr'[a] = hdr[a]
        /\ hdr'[c] = [size |-> hdr[c].size + HDR + hdr[b].size,
                      is_free |-> TRUE, next |-> hdr[b].next]
        /\ c \in DOMAIN hdr'
    <2> HIDE DEF b
    <2>1. hdr' = Without([hdr EXCEPT ![c] = [size |-> hdr[c].size + HDR + hdr[b].size,
                                             is_free |-> TRUE, next |-> hdr[b].next]], b)
      BY <1>1 DEF merge, b
    <2> QED BY <1>1, <1>2, <2>1 DEF Without, Restrict
  <1>4. /\ F(c) = b + HDR + hdr[b].size
        /\ hdr'[c] \in Header
        /\ \A a \in DOMAIN hdr' : a # c => F(a) = a + HDR + hdr[a].size
    <2>1. /\ hdr'[c].size = hdr[c].size + HDR + hdr[b].size
          /\ hdr'[c].size \in Nat /\ hdr'[c] \in Header
      BY <1>2, <1>3 DEF Header, HDR
    <2> QED BY <1>2, <1>3, <2>1 DEF HDR
  <1> HIDE DEF b
  <1>5. \A a \in DOMAIN hdr' : a # c => hdr[a].next # b
    <2> SUFFICES ASSUME NEW a \in DOMAIN hdr, a # c, a # b, hdr[a].next = b
                 PROVE  FALSE
      BY <1>3
    <2>1. a + HDR + hdr[a].size = b /\ a \in Nat /\ hdr[a].size \in Nat
      BY <1>1, Tiling
    <2>2. a < c => a + HDR + hdr[a].size <= c
      BY <1>1, Tiling
    <2>3. c < a => c + HDR + hdr[c].size <= a
      BY <1>1, Tiling
    <2> QED BY <1>2, <2>1, <2>2, <2>3 DEF HDR
  <1>6. heap_start \in DOMAIN hdr' /\ heap_start \in Nat
    <2>1. heap_start <= c /\ heap_start \in DOMAIN hdr /\ heap_start \in Nat
      BY <1>1, Tiling DEF IndInv, HeapFresh
    <2> QED BY <1>2, <1>3, <2>1
  <1>7. \A a \in DOMAIN hdr' :
           /\ heap_start <= a /\ F(a) <= top
           /\ \/ hdr'[a].next = NULL /\ F(a) = top
              \/ hdr'[a].next \in DOMAIN hdr' /\ F(a) = hdr'[a].next
    <2> SUFFICES ASSUME NEW a \in DOMAIN hdr'
                 PROVE  /\ heap_start <= a /\ F(a) <= top
                        /\ \/ hdr'[a].next = NULL /\ F(a) = top
                           \/ hdr'[a].next \in DOMAIN hdr' /\ F(a) = hdr'[a].next
      OBVIOUS
    <2>1. CASE a = c
      <3>1. /\ heap_start <= c /\ b + HDR + hdr[b].size <= top
            /\ \/ hdr[b].next = NULL /\ b + HDR + hdr[b].size = top
               \/ hdr[b].next \in DOMAIN hdr /\ b + HDR + hdr[b].size = hdr[b].next
        BY <1>1, <1>2, Tiling
      <3>2. hdr[b].next # b \/ hdr[b].next = NULL
        BY <1>2, <3>1 DEF HDR
      <3>3. hdr'[c].next = hdr[b].next
        BY <1>3
      <3>4. b # NULL
        BY <1>1
      <3> QED BY <1>3, <1>4, <2>1, <3>1, <3>2, <3>3, <3>4
    <2>2. CASE a # c
      <3>1. a \in DOMAIN hdr /\ hdr'[a] = hdr[a] /\ hdr[a].next # b
        BY <1>3, <1>5, <2>2
      <3>2. F(a) = a + HDR + hdr[a].size
        BY <1>4, <2>2
      <3> QED BY <1>3, <3>1, <3>2, Tiling
    <2> QED BY <2>1, <2>2
  <1>8. \A a1, a2 \in DOMAIN hdr' : a1 < a2 => F(a1) <= a2
    <2> SUFFICES ASSUME NEW a1 \in DOMAIN hdr', NEW a2 \in DOMAIN hdr', a1 < a2
                 PROVE  F(a1) <= a2
      OBVIOUS
    <2>1. a2 \in DOMAIN hdr /\ a2 # b /\ a2 \in Nat /\ a1 \in DOMAIN hdr
      BY <1>3, Tiling
    <2>2. CASE a1 = c
      <3>1. b <= a2
        BY <1>1, <1>2, <2>1, <2>2, Tiling
      <3>2. b < a2
        BY <1>2, <2>1, <3>1
      <3> QED BY <1>2, <1>4, <2>1, <2>2, <3>2, Tiling
    <2>3. CASE a1 # c
      BY <1>4, <2>1, <2>3, Tiling
    <2> QED BY <2>2, <2>3
  <1>9. BlocksTile'
    BY <1>1, <1>6, <1>7, <1>8, BlockTypes, Tiling DEF BlocksTile, BlockEnd, NULL
  <1>10. TypeOK'
    <2>1. DOMAIN hdr' \subseteq Nat /\ \A a \in DOMAIN hdr' : hdr'[a] \in Header
      BY <1>3, <1>4, BlockTypes
    <2> QED BY <1>1, <1>3, <2>1 DEF IndInv, TypeOK
  <1>11. LiveOwnBlocks'
    <2>1. \A p \in DOMAIN live :
             /\ BlockOf(p) \in DOMAIN hdr' /\ BlockOf(p) # c
             /\ hdr'[BlockOf(p)] = hdr[BlockOf(p)]
      BY <1>1, <1>3, PointerInBlock
    <2>2. \A p \in DOMAIN live :
             /\ ~hdr'[BlockOf(p)].is_free
             /\ IF live[p].aligned THEN live[p].raw + PTR <= p ELSE p = live[p].raw
             /\ p + live[p].size <= BlockOf(p) + HDR + hdr'[BlockOf(p)].size
      BY <2>1 DEF IndInv, LiveOwnBlocks, BlockEnd
    <2>3. \A p, q \in DOMAIN live : BlockOf(p) = BlockOf(q) => p = q
      BY DEF IndInv, LiveOwnBlocks
    <2>4. \A a \in DOMAIN hdr' : hdr'[a].is_free \/ \E p \in DOMAIN live : BlockOf(p) = a
      BY <1>1, <1>3 DEF IndInv, LiveOwnBlocks
    <2> QED BY <1>1, <2>1, <2>2, <2>3, <2>4 DEF LiveOwnBlocks, BlockOf, BlockEnd
  <1>12. NoFreeNeighbours'
    <2>1. ASSUME NEW a \in DOMAIN hdr', a < c, hdr'[a].next # NULL, hdr'[a].is_free
          PROVE  ~hdr'[hdr'[a].next].is_free
      <3>1. a # c /\ hdr'[a] = hdr[a] /\ a \in DOMAIN hdr /\ hdr[a].next # b
        BY <1>2, <1>3, <1>5, <2>1
      <3>2. ~hdr[hdr[a].next].is_free
        BY <1>1, <2>1, <3>1 DEF IndInv, NoFreeNeighbours
      <3>3. hdr[a].next # c
        BY <1>1, <3>2
      <3>4. hdr[a].next \in DOMAIN hdr'
        BY <1>7, <2>1, <3>1
      <3> QED BY <1>3, <3>1, <3>2, <3>3, <3>4
    <2> QED BY <1>1, <2>1 DEF NoFreeNeighbours
  <1>13. PoolOK' /\ HeapFresh' /\ ReqOK' /\ FirstFit'
    BY <1>1, <1>6, Tiling DEF IndInv, PoolOK, HeapFresh, ReqOK, FirstFit
  <1> QED BY <1>9, <1>10, <1>11, <1>12, <1>13 DEF IndInv

(* kfree's loop moves on from a pair that is not free on both sides.       *)
LEMMA AdvancePreserves ==
    ASSUME IndInv, CoalesceAdvance
    PROVE  IndInv'
  <1>1. /\ pc = "kfree" /\ current \in DOMAIN hdr
        /\ hdr[current].next # NULL /\ current' = hdr[current].next
        /\ ~(hdr[current].is_free /\ hdr[hdr[current].next].is_free)
        /\ UNCHANGED <<pool, heap_start, hdr, live, pc, req>>
    BY DEF CoalesceAdvance, Mergeable, IndInv, TypeOK
  <1>2. TypeOK'
    <2>1. current' \in DOMAIN hdr
      BY <1>1, Tiling
    <2> QED BY <1>1, <2>1 DEF IndInv, TypeOK
  <1>3. NoFreeNeighbours'
    <2> SUFFICES ASSUME NEW a \in DOMAIN hdr, a < current', hdr[a].next # NULL
                 PROVE  ~(hdr[a].is_free /\ hdr[hdr[a].next].is_free)
      BY <1>1 DEF NoFreeNeighbours
    <2>1. a < current \/ a = current
      BY <1>1, NextIsNext
    <2> QED BY <1>1, <2>1 DEF IndInv, NoFreeNeighbours
  <1>4. PoolOK' /\ HeapFresh' /\ ReqOK' /\ FirstFit'
    BY <1>1 DEF IndInv, PoolOK, HeapFresh, ReqOK, FirstFit
  <1>5. BlocksTile' /\ LiveOwnBlocks'
    BY <1>1 DEF IndInv, BlocksTile, LiveOwnBlocks, BlockEnd, BlockOf
  <1> QED BY <1>2, <1>3, <1>4, <1>5 DEF IndInv

-----------------------------------------------------------------------------
(* A call of kmalloc starts a search, or returns at once.                  *)
LEMMA KmallocPreserves ==
    ASSUME IndInv, NEW n \in Sizes, Kmalloc(n)
    PROVE  IndInv'
  <1> DEFINE r == Request(n, n, 0, NULL)
  <1>1. n \in Nat /\ n + 15 < UINT_MOD
    BY SizeAssumption, UintAssumption DEF PTR
  <1>2. Idle /\ BeginKmalloc(r) /\ r.bytes # 0
    BY DEF Kmalloc, BeginKmalloc
  <1>3. /\ r \in [size : Nat, bytes : Nat, alignment : Nat, old : Nat]
        /\ r.size = n /\ r.bytes = n /\ r.alignment = 0 /\ r.old = NULL
    BY <1>1 DEF Request, NULL
  <1> HIDE DEF r
  <1> QED BY <1>1, <1>2, <1>3, BeginKmallocPreserves

(* kmalloc_aligned asks kmalloc for room for the padding and the pointer.  *)
LEMMA KmallocAlignedPreserves ==
    ASSUME IndInv, NEW n \in Sizes, NEW a \in Alignments, KmallocAligned(n, a)
    PROVE  IndInv'
  <1>1. n \in Nat /\ a \in Nat /\ n + a + PTR + 15 < UINT_MOD
    BY SizeAssumption
  <1>2. CASE a = 0
    <2> DEFINE r == Request(n, n, 0, NULL)
    <2>1. Idle /\ BeginKmalloc(r) /\ n # 0
      BY <1>2 DEF KmallocAligned
    <2>2. /\ r \in [size : Nat, bytes : Nat, alignment : Nat, old : Nat]
          /\ r.size = n /\ r.bytes = n /\ r.alignment = 0 /\ r.old = NULL
          /\ n + 15 < UINT_MOD
      BY <1>1, UintAssumption DEF Request, NULL, PTR
    <2> HIDE DEF r
    <2> QED BY <1>1, <2>1, <2>2, BeginKmallocPreserves
  <1>3. CASE a # 0
    <2> DEFINE r == Request(n, (n + a + PTR) % UINTPTR_MOD, a, NULL)
    <2>1. Idle /\ BeginKmalloc(r) /\ n # 0
      BY <1>3 DEF KmallocAligned
    <2>2. (n + a + PTR) % UINTPTR_MOD = n + a + PTR
      BY <1>1, NoWrap, UintAssumption, SpaceAssumption DEF PTR
    <2>3. /\ r \in [size : Nat, bytes : Nat, alignment : Nat, old : Nat]
          /\ r.size = n /\ r.bytes = n + a + PTR /\ r.alignment = a /\ r.old = NULL
      BY <1>1, <2>2 DEF Request, NULL, PTR
    <2> HIDE DEF r
    <2>4. r.size > 0 /\ r.size <= r.bytes /\ r.bytes + 15 < UINT_MOD
      BY <1>1, <2>1, <2>3 DEF PTR
    <2> QED BY <1>1, <2>1, <2>3, <2>4, BeginKmallocPreserves
  <1> QED BY <1>2, <1>3

(* krealloc of NULL, to nothing, in place, or on its way to kmalloc.       *)
LEMMA KreallocPreserves ==
    ASSUME IndInv, NEW p \in DOMAIN live \cup {NULL}, NEW n \in Sizes, Krealloc(p, n)
    PROVE  IndInv'
  <1>1. n \in Nat /\ n + 15 < UINT_MOD
    BY SizeAssumption, UintAssumption DEF PTR
  <1>2. CASE p = NULL /\ Kmalloc(n)
    BY <1>2, KmallocPreserves
  <1>3. CASE p # NULL /\ ~live[p].aligned
    <2>1. p \in DOMAIN live /\ Idle
      BY <1>3 DEF Krealloc
    <2>2. live[p].raw = p /\ BlockOf(p) = p - HDR /\ BlockOf(p) \in DOMAIN hdr
      BY <1>3, <2>1 DEF IndInv, LiveOwnBlocks, BlockOf
    <2>3. CASE n = 0 /\ BeginKfree(p, p)
      BY <2>1, <2>2, <2>3, BeginKfreePreserves
    <2>4. CASE /\ 0 < n /\ n <= hdr[p - HDR].size
               /\ live' = [live EXCEPT ![p].size = n]
               /\ UNCHANGED <<pool, heap_start, hdr, pc, current, req>>
      BY <1>1, <1>3, <2>1, <2>4, ResizePreserves
    <2>5. CASE n > hdr[p - HDR].size /\ BeginKmalloc(Request(n, n, 0, p))
      <3> DEFINE r == Request(n, n, 0, p)
      <3>1. BeginKmalloc(r)
        BY <2>5
      <3>2. /\ r \in [size : Nat, bytes : Nat, alignment : Nat, old : Nat]
            /\ r.size = n /\ r.bytes = n /\ r.alignment = 0 /\ r.old = p
        BY <1>1, <2>1, PointerInBlock DEF Request
      <3>3. hdr[BlockOf(p)].size < n /\ n > 0
        BY <1>1, <2>2, <2>5, BlockTypes
      <3> HIDE DEF r
      <3> QED BY <1>1, <1>3, <2>1, <3>1, <3>2, <3>3, BeginKmallocPreserves
    <2> QED BY <1>3, <2>3, <2>4, <2>5 DEF Krealloc
  <1> QED BY <1>2, <1>3 DEF Krealloc

(* kfree and kfree_aligned of a pointer that its caller holds.             *)
LEMMA KfreePreserves ==
    ASSUME IndInv, NEW p \in DOMAIN live, Kfree(p) \/ KfreeAligned(p)
    PROVE  IndInv'
  <1>1. CASE Kfree(p)
    <2>1. live[p].raw = p
      BY <1>1 DEF Kfree, IndInv, LiveOwnBlocks
    <2> QED BY <1>1, <2>1, BeginKfreePreserves DEF Kfree
  <1>2. CASE KfreeAligned(p)
    BY <1>2, BeginKfreePreserves DEF KfreeAligned
  <1> QED BY <1>1, <1>2

(* Before heap_initialize the strengthened invariant holds.                *)
LEMMA InitIndInv == Init => IndInv
  <1> SUFFICES ASSUME Init PROVE IndInv
    OBVIOUS
  <1>1. DOMAIN hdr = {} /\ DOMAIN live = {} /\ heap_start = NULL /\ pc = "idle"
    BY DEF Init
  <1>2. TypeOK
    BY <1>1 DEF Init, TypeOK, unset_pool, NoRequest, Request, NULL
  <1>3. PoolOK /\ HeapFresh /\ ReqOK
    BY <1>1 DEF Init, PoolOK, HeapFresh, ReqOK
  <1>4. BlocksTile /\ LiveOwnBlocks /\ NoFreeNeighbours /\ FirstFit
    BY <1>1 DEF BlocksTile, LiveOwnBlocks, NoFreeNeighbours, FirstFit
  <1> QED BY <1>2, <1>3, <1>4 DEF IndInv

(* Every call, and every step of a call, keeps the invariant.              *)
LEMMA StepIndInv == IndInv /\ [Next]_vars => IndInv'
  <1> SUFFICES ASSUME IndInv, [Next]_vars PROVE IndInv'
    OBVIOUS
  <1>1. CASE HeapInitialize
    BY <1>1, InitializePreserves
  <1>2. CASE \E n \in PoolRequests : OtherAlloc(n)
    BY <1>2, OtherAllocPreserves
  <1>3. CASE \E n \in Sizes : Kmalloc(n)
    BY <1>3, KmallocPreserves
  <1>4. CASE \E n \in Sizes, a \in Alignments : KmallocAligned(n, a)
    BY <1>4, KmallocAlignedPreserves
  <1>5. CASE \E p \in DOMAIN live : Kfree(p) \/ KfreeAligned(p)
    BY <1>5, KfreePreserves
  <1>6. CASE \E p \in DOMAIN live \cup {NULL}, n \in Sizes : Krealloc(p, n)
    BY <1>6, KreallocPreserves
  <1>7. CASE KmallocSkip
    BY <1>7, SkipPreserves
  <1>8. CASE KmallocTake
    BY <1>8, TakePreserves
  <1>9. CASE KmallocFail
    BY <1>9, ReturnPreserves DEF KmallocFail
  <1>10. CASE KreallocCopy
    BY <1>10, CopyPreserves
  <1>11. CASE CoalesceMerge
    BY <1>11, MergePreserves
  <1>12. CASE CoalesceAdvance
    BY <1>12, AdvancePreserves
  <1>13. CASE CoalesceDone
    BY <1>13, ReturnPreserves DEF CoalesceDone
  <1>14. CASE UNCHANGED vars
    BY <1>14 DEF vars, IndInv, TypeOK, PoolOK, HeapFresh, ReqOK, BlocksTile,
                 LiveOwnBlocks, NoFreeNeighbours, FirstFit, BlockEnd, BlockOf,
                 needed, aligned_size
  <1> QED BY <1>1, <1>2, <1>3, <1>4, <1>5, <1>6, <1>7, <1>8, <1>9, <1>10, <1>11,
             <1>12, <1>13, <1>14 DEF Next, Call, Step

(* The strengthened invariant holds throughout every run of the heap.      *)
THEOREM HeapInvariance == Spec => []IndInv
  BY InitIndInv, StepIndInv, PTL DEF Spec
-----------------------------------------------------------------------------
(* What follows from the inductive invariant: the invariants that the runs *)
(* check, that no step touches the block of a pointer that stays with its  *)
(* caller, and that the heap implements Allocator.                         *)

(* kmalloc and kfree only ever read headers that are on the list, and      *)
(* every variable keeps its type.                                          *)
THEOREM HeapTypes == Spec => []TypeOK
  <1>1. IndInv => TypeOK
    BY DEF IndInv
  <1> QED BY <1>1, HeapInvariance, PTL

(* Splitting and coalescing keep the blocks tiling the heap's page.        *)
THEOREM HeapBlocksTile == Spec => []BlocksTile
  <1>1. IndInv => BlocksTile
    BY DEF IndInv
  <1> QED BY <1>1, HeapInvariance, PTL

(* Every pointer handed out owns a block in use that is large enough, and  *)
(* no block in use is lost.                                                *)
THEOREM HeapLiveOwnBlocks == Spec => []LiveOwnBlocks
  <1>1. IndInv => LiveOwnBlocks
    BY DEF IndInv
  <1> QED BY <1>1, HeapInvariance, PTL

(* One pass of kfree over the list leaves no two free blocks side by side. *)
THEOREM HeapNoFreeNeighbours == Spec => []NoFreeNeighbours
  <1>1. IndInv => NoFreeNeighbours
    BY DEF IndInv
  <1> QED BY <1>1, HeapInvariance, PTL

(* kmalloc passes over no block that fits and fails only if there is none. *)
THEOREM HeapFirstFit == Spec => []FirstFit
  <1>1. IndInv => FirstFit
    BY DEF IndInv
  <1> QED BY <1>1, HeapInvariance, PTL

(* krealloc's copy stays within the new block and reads one still in use.  *)
THEOREM HeapCopyFits == Spec => []CopyFits
  <1>1. IndInv => CopyFits
    <2> SUFFICES ASSUME IndInv, pc = "copy"
                 PROVE  /\ req.old \in DOMAIN live
                        /\ req.old - HDR # current
                        /\ hdr[req.old - HDR].size <= hdr[current].size
      BY DEF CopyFits
    <2>1. /\ req.old \in DOMAIN live /\ ~live[req.old].aligned
          /\ hdr[BlockOf(req.old)].size < req.bytes
          /\ req.bytes <= hdr[current].size
          /\ BlockOf(req.old) # current
          /\ current \in DOMAIN hdr /\ req.bytes \in Nat
      BY DEF IndInv, ReqOK, TypeOK
    <2>2. live[req.old].raw = req.old
      BY <2>1 DEF IndInv, LiveOwnBlocks
    <2>3. req.old - HDR = BlockOf(req.old) /\ BlockOf(req.old) \in DOMAIN hdr
      BY <2>1, <2>2, PointerInBlock DEF BlockOf
    <2>4. hdr[BlockOf(req.old)].size \in Nat /\ hdr[current].size \in Nat
      BY <2>1, <2>3, BlockTypes
    <2> QED BY <2>1, <2>3, <2>4
  <1> QED BY <1>1, HeapInvariance, PTL

-----------------------------------------------------------------------------
(* hdr is a function: every action builds it from the one before.          *)
HdrIsFunction == hdr = [a \in DOMAIN hdr |-> hdr[a]]

(* No action makes hdr anything but a function.                            *)
LEMMA HdrStaysFunction == Spec => []HdrIsFunction
  <1>1. Init => HdrIsFunction
    BY DEF Init, HdrIsFunction
  <1>2. HdrIsFunction /\ [Next]_vars => HdrIsFunction'
    <2> SUFFICES ASSUME HdrIsFunction, [Next]_vars PROVE HdrIsFunction'
      OBVIOUS
    <2>1. ASSUME hdr' = hdr PROVE HdrIsFunction'
      BY <2>1 DEF HdrIsFunction
    <2>2. ASSUME heap_initialize PROVE HdrIsFunction'
      <3>1. hdr' = hdr \/ \E x, v : hdr' = With(hdr, x, v)
        BY <2>2 DEF heap_initialize
      <3> QED BY <2>1, <3>1 DEF With, HdrIsFunction
    <2>3. ASSUME NEW r, BeginKmalloc(r) PROVE HdrIsFunction'
      BY <2>2, <2>3 DEF BeginKmalloc
    <2>4. ASSUME NEW p, NEW raw, BeginKfree(p, raw) PROVE HdrIsFunction'
      BY <2>4 DEF BeginKfree, HdrIsFunction
    <2>5. CASE Call
      <3>1. CASE HeapInitialize
        BY <2>2, <3>1 DEF HeapInitialize
      <3>2. CASE \E n \in PoolRequests : OtherAlloc(n)
        BY <2>1, <3>2 DEF OtherAlloc
      <3>3. CASE \E n \in Sizes : Kmalloc(n)
        BY <2>3, <3>3 DEF Kmalloc
      <3>4. CASE \E n \in Sizes, a \in Alignments : KmallocAligned(n, a)
        BY <2>3, <3>4 DEF KmallocAligned
      <3>5. CASE \E p \in DOMAIN live : Kfree(p) \/ KfreeAligned(p)
        BY <2>4, <3>5 DEF Kfree, KfreeAligned
      <3>6. CASE \E p \in DOMAIN live \cup {NULL}, n \in Sizes : Krealloc(p, n)
        <4>1. PICK p \in DOMAIN live \cup {NULL}, n \in Sizes : Krealloc(p, n)
          BY <3>6
        <4>2. \/ Kmalloc(n) \/ BeginKfree(p, p) \/ hdr' = hdr
              \/ BeginKmalloc(Request(n, n, 0, p))
          BY <4>1 DEF Krealloc
        <4> QED BY <2>1, <2>3, <2>4, <4>2 DEF Kmalloc
      <3> QED BY <2>5, <3>1, <3>2, <3>3, <3>4, <3>5, <3>6 DEF Call
    <2>6. CASE Step
      <3>1. CASE KmallocTake
        <4>1. \/ \E f, x, v : hdr' = With(f, x, v)
              \/ hdr' = [hdr EXCEPT ![current].is_free = FALSE]
          BY <3>1 DEF KmallocTake, cut
        <4> QED BY <4>1 DEF With, HdrIsFunction
      <3>2. CASE KreallocCopy
        BY <3>2 DEF KreallocCopy, HdrIsFunction
      <3>3. CASE CoalesceMerge
        <4>1. \E f, x : hdr' = Without(f, x)
          BY <3>3 DEF CoalesceMerge, merge
        <4> QED BY <4>1 DEF Without, Restrict, HdrIsFunction
      <3>4. CASE KmallocSkip \/ KmallocFail \/ CoalesceAdvance \/ CoalesceDone
        BY <2>1, <3>4 DEF KmallocSkip, KmallocFail, CoalesceAdvance, CoalesceDone
      <3> QED BY <2>6, <3>1, <3>2, <3>3, <3>4 DEF Step
    <2>7. CASE UNCHANGED vars
      BY <2>1, <2>7 DEF vars
    <2> QED BY <2>5, <2>6, <2>7 DEF Next
  <1> QED BY <1>1, <1>2, PTL DEF Spec

(* With every pointer given back, what NoFreeNeighbours and BlocksTile     *)
(* leave is the one block that heap_initialize made.                       *)
LEMMA FreshWhenEmpty == IndInv /\ HdrIsFunction => AllFreedIsFresh
  <1> SUFFICES ASSUME IndInv, HdrIsFunction, Idle, DOMAIN live = {}, heap_start # NULL
               PROVE  hdr = [a \in {heap_start} |->
                               [size |-> PAGE_SIZE - HDR, is_free |-> TRUE, next |-> NULL]]
    BY DEF AllFreedIsFresh
  <1> DEFINE h == heap_start
  <1>1. h \in DOMAIN hdr
    BY Tiling
  <1>2. \A a \in DOMAIN hdr : hdr[a].is_free
    BY DEF IndInv, LiveOwnBlocks, Idle
  <1>3. hdr[h].next = NULL
    <2> SUFFICES ASSUME hdr[h].next # NULL PROVE FALSE
      OBVIOUS
    <2>1. hdr[h].next \in DOMAIN hdr
      BY <1>1, Tiling
    <2> QED BY <1>1, <1>2, <2>1 DEF IndInv, NoFreeNeighbours, Idle
  <1>4. DOMAIN hdr = {h}
    <2> SUFFICES ASSUME NEW a \in DOMAIN hdr PROVE a = h
      BY <1>1
    <2>1. a < h \/ a = h
      BY <1>1, <1>3, NextIsNext
    <2> QED BY <1>1, <2>1, Tiling
  <1>5. hdr[h].size = PAGE_SIZE - HDR /\ hdr[h] \in Header
    <2>1. h \in Nat \ {0} /\ hdr[h].size \in Nat /\ hdr[h] \in Header
      BY <1>1, Tiling
    <2>2. BlockEnd(h) = heap_start + PAGE_SIZE
      BY <1>1, <1>3, Tiling DEF BlockEnd, NULL
    <2> QED BY <2>1, <2>2, PageAssumption DEF BlockEnd, HDR
  <1>6. hdr[h] = [size |-> PAGE_SIZE - HDR, is_free |-> TRUE, next |-> NULL]
    BY <1>1, <1>2, <1>3, <1>5 DEF Header
  <1>7. hdr = [a \in DOMAIN hdr |-> hdr[a]]
    BY DEF HdrIsFunction
  <1> QED BY <1>4, <1>6, <1>7

(* When everything has been freed the heap is as good as new.              *)
THEOREM HeapAllFreedIsFresh == Spec => []AllFreedIsFresh
  BY FreshWhenEmpty, HeapInvariance, HdrStaysFunction, PTL

-----------------------------------------------------------------------------
(* A pointer that points into a block belongs to that block.               *)
LEMMA PointerOwner ==
    ASSUME IndInv, NEW p \in DOMAIN live, NEW a \in DOMAIN hdr,
           a <= p, p < a + HDR + hdr[a].size
    PROVE  BlockOf(p) = a
  <1>1. /\ BlockOf(p) \in DOMAIN hdr /\ p \in Nat
        /\ BlockOf(p) + HDR <= p /\ p < BlockOf(p) + HDR + hdr[BlockOf(p)].size
    BY PointerInBlock DEF BlockEnd
  <1> QED BY <1>1, Tiling DEF HDR

(* The bytes of two pointers do not overlap, and they are the pool's.      *)
Separate ==
    \A p \in DOMAIN live :
        /\ p \in Nat /\ live[p].size \in Nat \ {0}
        /\ kernel_end <= p /\ p + live[p].size <= pool_end
        /\ \A q \in DOMAIN live \ {p} :
              p + live[p].size <= q \/ q + live[q].size <= p

(* Pointers own separate blocks, and the heap's page is one of the pool's. *)
LEMMA LiveSeparate == IndInv => Separate
  <1> SUFFICES ASSUME IndInv, NEW p \in DOMAIN live
               PROVE  /\ p \in Nat /\ live[p].size \in Nat \ {0}
                      /\ kernel_end <= p /\ p + live[p].size <= pool_end
                      /\ \A q \in DOMAIN live \ {p} :
                            p + live[p].size <= q \/ q + live[q].size <= p
    BY DEF Separate
  <1>1. \A q \in DOMAIN live :
           /\ q \in Nat /\ live[q].size \in Nat \ {0} /\ BlockOf(q) \in DOMAIN hdr
           /\ BlockOf(q) + HDR <= q
           /\ q + live[q].size <= BlockOf(q) + HDR + hdr[BlockOf(q)].size
    BY PointerInBlock DEF BlockEnd
  <1> DEFINE b == BlockOf(p)
  <1>2. /\ b \in Nat /\ hdr[b].size \in Nat /\ heap_start <= b
        /\ b + HDR + hdr[b].size <= heap_start + PAGE_SIZE
        /\ heap_start \in Nat \ {0} /\ heap_start + PAGE_SIZE \in Nat
    BY <1>1, Tiling, BlockTypes
  <1>3. kernel_end <= heap_start /\ heap_start + PAGE_SIZE <= pool_end
    BY <1>2 DEF IndInv, PoolOK, NULL
  <1>4. ASSUME NEW q \in DOMAIN live \ {p}
        PROVE  p + live[p].size <= q \/ q + live[q].size <= p
    <2> DEFINE c == BlockOf(q)
    <2>1. c # b
      BY DEF IndInv, LiveOwnBlocks
    <2>2. c \in Nat /\ hdr[c].size \in Nat /\ c \in DOMAIN hdr /\ b \in DOMAIN hdr
      BY <1>1, Tiling
    <2>3. b < c => b + HDR + hdr[b].size <= c
      BY <2>2, Tiling
    <2>4. c < b => c + HDR + hdr[c].size <= b
      BY <2>2, Tiling
    <2>5. /\ p \in Nat /\ live[p].size \in Nat /\ b + HDR <= p
          /\ p + live[p].size <= b + HDR + hdr[b].size
          /\ q \in Nat /\ live[q].size \in Nat /\ c + HDR <= q
          /\ q + live[q].size <= c + HDR + hdr[c].size
      BY <1>1
    <2> HIDE DEF b, c
    <2> QED BY <1>2, <2>1, <2>2, <2>3, <2>4, <2>5 DEF HDR
  <1>5. /\ p \in Nat /\ live[p].size \in Nat \ {0} /\ b + HDR <= p
        /\ p + live[p].size <= b + HDR + hdr[b].size
    BY <1>1
  <1> HIDE DEF b
  <1> QED BY <1>2, <1>3, <1>4, <1>5, PoolBounds DEF HDR

(* What kmalloc returns to its caller is a pointer that nobody holds.      *)
LEMMA TakenIsNew ==
    ASSUME IndInv, IndInv', KmallocTake, req.old = NULL
    PROVE  \E q \in Nat \ DOMAIN live : \E v : live' = With(live, q, v)
  <1>1. PICK q, v : live' = With(live, q, v) /\ v.raw = current + HDR
    BY DEF KmallocTake
  <1>2. /\ current \in DOMAIN hdr /\ hdr[current].is_free
        /\ hdr'[current].size <= hdr[current].size
    <2>1. pc = "kmalloc" /\ current # NULL /\ Fits(current) /\ hdr' = cut(current)
      BY DEF KmallocTake
    <2>2. /\ current \in DOMAIN hdr /\ hdr[current].is_free
          /\ aligned_size \in Nat /\ needed = aligned_size + HDR
          /\ needed <= hdr[current].size
          /\ \/ hdr'[current].size = hdr[current].size
             \/ hdr'[current].size = aligned_size
      BY <2>1, CutShape
    <2>3. hdr[current].size \in Nat
      BY <2>2, Tiling
    <2> QED BY <2>2, <2>3 DEF HDR
  <1>3. q \in DOMAIN live' /\ live'[q] = v
    BY <1>1 DEF With
  <1>4. current \in Nat /\ current + HDR - HDR = current /\ hdr[current].size \in Nat
    BY <1>2, Tiling DEF HDR
  <1>5. /\ q \in Nat /\ live'[q] \in Held
        /\ live'[q].raw - HDR = current
    <2>1. DOMAIN live' \subseteq Nat /\ \A p \in DOMAIN live' : live'[p] \in Held
      BY DEF IndInv, TypeOK
    <2>2. live'[q].raw = current + HDR
      BY <1>1, <1>3, Zenon
    <2>3. live'[q].raw - HDR = current
      BY <1>4, <2>2 DEF HDR
    <2> QED BY <1>3, <2>1, <2>3, Zenon
  <1>6. /\ IF live'[q].aligned THEN live'[q].raw + PTR <= q ELSE q = live'[q].raw
        /\ q + live'[q].size <= current + HDR + hdr'[current].size
        /\ current \in DOMAIN hdr'
    BY <1>3, <1>5 DEF IndInv, LiveOwnBlocks, BlockOf, BlockEnd
  <1>7. hdr'[current].size \in Nat /\ live'[q].size \in Nat \ {0}
    BY <1>5, <1>6 DEF IndInv, TypeOK, Header, Held
  <1>8. current <= q /\ q < current + HDR + hdr[current].size
    BY <1>1, <1>2, <1>3, <1>4, <1>5, <1>6, <1>7 DEF HDR, PTR
  <1>9. q \notin DOMAIN live
    BY <1>2, <1>8, PointerOwner, PointerInBlock
  <1> QED BY <1>1, <1>5, <1>9

(* What a step can do to the pointers that callers hold.                   *)
LEMMA LiveChanges ==
    ASSUME IndInv, IndInv', [Next]_vars
    PROVE  \/ live' = live
           \/ \E p \in DOMAIN live : live' = Without(live, p)
           \/ \E q \in Nat \ DOMAIN live : \E v : live' = With(live, q, v)
           \/ \E p \in DOMAIN live : \E n : live' = [live EXCEPT ![p].size = n]
           \/ \E p \in DOMAIN live, q \in Nat \ DOMAIN live : \E v :
                 /\ live' = With(Without(live, p), q, v)
                 /\ q + v.size <= p \/ p + live[p].size <= q
  <1>1. CASE Call
    <2>1. CASE HeapInitialize \/ \E n \in PoolRequests : OtherAlloc(n)
      BY <2>1 DEF HeapInitialize, OtherAlloc
    <2>2. CASE \E n \in Sizes : Kmalloc(n)
      BY <2>2 DEF Kmalloc, BeginKmalloc
    <2>3. CASE \E n \in Sizes, a \in Alignments : KmallocAligned(n, a)
      BY <2>3 DEF KmallocAligned, BeginKmalloc
    <2>4. CASE \E p \in DOMAIN live : Kfree(p) \/ KfreeAligned(p)
      BY <2>4 DEF Kfree, KfreeAligned, BeginKfree
    <2>5. CASE \E p \in DOMAIN live \cup {NULL}, n \in Sizes : Krealloc(p, n)
      BY <2>5 DEF Krealloc, Kmalloc, BeginKmalloc, BeginKfree
    <2> QED BY <1>1, <2>1, <2>2, <2>3, <2>4, <2>5 DEF Call
  <1>2. CASE KmallocTake
    <2>1. CASE req.old # NULL
      BY <1>2, <2>1 DEF KmallocTake
    <2>2. CASE req.old = NULL
      BY <1>2, <2>2, TakenIsNew
    <2> QED BY <2>1, <2>2
  <1>3. CASE KreallocCopy
    <2> DEFINE q == current + HDR
               o == req.old
               v == [size |-> req.size, raw |-> q, aligned |-> FALSE]
    <2>1. live' = With(Without(live, o), q, v)
      BY <1>3 DEF KreallocCopy
    <2>2. /\ o \in DOMAIN live /\ current \in DOMAIN hdr
          /\ req.size \in Nat \ {0} /\ req.bytes \in Nat
          /\ req.size <= req.bytes /\ req.bytes <= hdr[current].size
          /\ \A p \in DOMAIN live : BlockOf(p) # current
      BY <1>3 DEF KreallocCopy, IndInv, ReqOK, TypeOK
    <2>3. current \in Nat /\ hdr[current].size \in Nat /\ q \in Nat
      BY <2>2, Tiling DEF HDR
    <2>4. q \notin DOMAIN live
      <3>1. current <= q /\ q < current + HDR + hdr[current].size
        BY <2>2, <2>3 DEF HDR
      <3> QED BY <2>2, <3>1, PointerOwner
    <2>5. q + req.size <= o \/ o + live[o].size <= q
      <3> DEFINE b == BlockOf(o)
      <3>1. /\ b \in DOMAIN hdr /\ b # current /\ b + HDR <= o
            /\ o + live[o].size <= b + HDR + hdr[b].size
            /\ o \in Nat /\ live[o].size \in Nat
        BY <2>2, PointerInBlock DEF BlockEnd
      <3>2. b \in Nat /\ hdr[b].size \in Nat
        BY <3>1, Tiling
      <3>3. b < current => b + HDR + hdr[b].size <= current
        BY <2>2, <3>1, Tiling
      <3>4. current < b => current + HDR + hdr[current].size <= b
        BY <2>2, <3>1, Tiling
      <3> HIDE DEF b, o
      <3> QED BY <2>2, <2>3, <3>1, <3>2, <3>3, <3>4 DEF HDR
    <2>6. v.size = req.size
      OBVIOUS
    <2> HIDE DEF q, o, v
    <2> QED BY <2>1, <2>2, <2>3, <2>4, <2>5, <2>6
  <1>4. CASE KmallocSkip \/ KmallocFail \/ CoalesceMerge \/ CoalesceAdvance \/ CoalesceDone
    BY <1>4 DEF KmallocSkip, KmallocFail, CoalesceMerge, CoalesceAdvance, CoalesceDone
  <1>5. CASE UNCHANGED vars
    BY <1>5 DEF vars
  <1> QED BY <1>1, <1>2, <1>3, <1>4, <1>5 DEF Next, Step

-----------------------------------------------------------------------------
(* A pointer keeps its raw pointer as long as its caller keeps it.         *)
LEMMA RawStays ==
    ASSUME IndInv, IndInv', [Next]_vars, NEW p \in DOMAIN live \cap DOMAIN live'
    PROVE  live'[p].raw = live[p].raw
  <1>1. live[p] \in Held
    BY DEF IndInv, TypeOK
  <1>2. CASE live' = live
    BY <1>2
  <1>3. CASE \E q \in DOMAIN live : live' = Without(live, q)
    BY <1>3 DEF Without, Restrict
  <1>4. CASE \E q \in Nat \ DOMAIN live : \E v : live' = With(live, q, v)
    BY <1>4 DEF With
  <1>5. CASE \E q \in DOMAIN live : \E n : live' = [live EXCEPT ![q].size = n]
    <2>1. PICK q \in DOMAIN live : \E n : live' = [live EXCEPT ![q].size = n]
      BY <1>5
    <2>2. PICK n : live' = [live EXCEPT ![q].size = n]
      BY <2>1
    <2> QED BY <1>1, <2>2 DEF Held
  <1>6. CASE \E o \in DOMAIN live, q \in Nat \ DOMAIN live : \E v :
                live' = With(Without(live, o), q, v)
    BY <1>6 DEF With, Without, Restrict
  <1> QED BY <1>2, <1>3, <1>4, <1>5, <1>6, LiveChanges

(* A step resizes no block in use.                                         *)
LEMMA OwnedSizeStays ==
    ASSUME IndInv, [Next]_vars, NEW a \in DOMAIN hdr, ~hdr[a].is_free
    PROVE  a \in DOMAIN hdr' /\ hdr'[a].size = hdr[a].size
  <1>1. hdr[a] \in Header
    BY DEF IndInv, TypeOK
  <1>2. ASSUME hdr' = hdr PROVE a \in DOMAIN hdr' /\ hdr'[a].size = hdr[a].size
    BY <1>2
  <1>3. ASSUME Idle, heap_initialize PROVE a \in DOMAIN hdr' /\ hdr'[a].size = hdr[a].size
    BY <1>3, HeapInit
  <1>4. ASSUME NEW r, Idle, BeginKmalloc(r)
        PROVE  a \in DOMAIN hdr' /\ hdr'[a].size = hdr[a].size
    BY <1>3, <1>4 DEF BeginKmalloc
  <1>5. ASSUME NEW b, hdr' = [hdr EXCEPT ![b].is_free = TRUE]
        PROVE  a \in DOMAIN hdr' /\ hdr'[a].size = hdr[a].size
    BY <1>1, <1>5 DEF Header
  <1>6. CASE Call
    <2>1. CASE HeapInitialize
      BY <1>3, <2>1 DEF HeapInitialize
    <2>2. CASE \E n \in PoolRequests : OtherAlloc(n)
      BY <1>2, <2>2 DEF OtherAlloc
    <2>3. CASE \E n \in Sizes : Kmalloc(n)
      BY <1>4, <2>3 DEF Kmalloc
    <2>4. CASE \E n \in Sizes, b \in Alignments : KmallocAligned(n, b)
      BY <1>4, <2>4 DEF KmallocAligned
    <2>5. CASE \E p \in DOMAIN live : Kfree(p) \/ KfreeAligned(p)
      BY <1>5, <2>5 DEF Kfree, KfreeAligned, BeginKfree
    <2>6. CASE \E p \in DOMAIN live \cup {NULL}, n \in Sizes : Krealloc(p, n)
      <3>1. PICK p \in DOMAIN live \cup {NULL}, n \in Sizes : Krealloc(p, n)
        BY <2>6
      <3>2. Idle /\ (Kmalloc(n) \/ BeginKfree(p, p) \/ hdr' = hdr
                     \/ BeginKmalloc(Request(n, n, 0, p)))
        BY <3>1 DEF Krealloc
      <3> QED BY <1>2, <1>4, <1>5, <3>2 DEF Kmalloc, BeginKfree
    <2> QED BY <1>6, <2>1, <2>2, <2>3, <2>4, <2>5, <2>6 DEF Call
  <1>7. CASE KmallocTake
    <2>1. pc = "kmalloc" /\ current # NULL /\ Fits(current) /\ hdr' = cut(current)
      BY <1>7 DEF KmallocTake
    <2>2. a # current
      BY <2>1 DEF Fits
    <2> QED BY <2>1, <2>2, CutShape
  <1>8. CASE KreallocCopy
    BY <1>5, <1>8 DEF KreallocCopy
  <1>9. CASE CoalesceMerge
    <2> DEFINE b == hdr[current].next
    <2>1. a # current /\ a # b /\ hdr' = merge(current)
      BY <1>9 DEF CoalesceMerge, Mergeable
    <2> QED BY <2>1 DEF merge, Without, Restrict
  <1>10. CASE KmallocSkip \/ KmallocFail \/ CoalesceAdvance \/ CoalesceDone
    BY <1>2, <1>10 DEF KmallocSkip, KmallocFail, CoalesceAdvance, CoalesceDone
  <1>11. CASE UNCHANGED vars
    BY <1>2, <1>11 DEF vars
  <1> QED BY <1>6, <1>7, <1>8, <1>9, <1>10, <1>11 DEF Next, Step

(* Splitting, coalescing and krealloc leave alone the block of every       *)
(* pointer that its caller keeps.                                          *)
THEOREM HeapOwnedBlocksUntouched == Spec => OwnedBlocksUntouched
  <1>1. IndInv /\ IndInv' /\ [Next]_vars =>
           [\A p \in DOMAIN live \cap DOMAIN live' :
               live'[p].raw = live[p].raw /\ hdr'[BlockOf(p)].size = hdr[BlockOf(p)].size]_vars
    BY RawStays, OwnedSizeStays, PointerInBlock
  <1> QED BY <1>1, HeapInvariance, PTL DEF Spec, OwnedBlocksUntouched

-----------------------------------------------------------------------------
(* Every step of the heap is a step of the allocator, or none.             *)
LEMMA StepImplements ==
    ASSUME Separate, Separate', IndInv, IndInv', [Next]_vars
    PROVE  [A!Next]_([p \in DOMAIN live |-> live[p].size])
  <1> DEFINE held  == [p \in DOMAIN live |-> live[p].size]
             held2 == [p \in DOMAIN live' |-> live'[p].size]
  <1>1. CASE live' = live
    BY <1>1
  <1>2. CASE \E p \in DOMAIN live : live' = Without(live, p)
    <2>1. PICK p \in DOMAIN live : live' = Without(live, p)
      BY <1>2
    <2>2. held2 = [q \in DOMAIN held \ {p} |-> held[q]]
      BY <2>1 DEF Without, Restrict
    <2>3. A!Release
      BY <2>2 DEF A!Release
    <2> QED BY <2>3 DEF A!Next
  <1>3. CASE \E q \in Nat \ DOMAIN live : \E v : live' = With(live, q, v)
    <2>0. PICK q \in Nat \ DOMAIN live : \E v : live' = With(live, q, v)
      BY <1>3
    <2>1. PICK v : live' = With(live, q, v)
      BY <2>0
    <2>2. q \in DOMAIN live' /\ DOMAIN live' = DOMAIN live \cup {q}
          /\ \A x \in DOMAIN live : live'[x] = live[x]
      BY <2>1 DEF With
    <2>3. held2 = [x \in (DOMAIN held \ {}) \cup {q} |->
                     IF x = q THEN held2[q] ELSE held[x]]
      BY <2>2
    <2>4. /\ kernel_end <= q /\ q + held2[q] <= pool_end
          /\ \A x \in DOMAIN held : q + held2[q] <= x \/ x + held[x] <= q
      BY <2>2 DEF Separate
    <2>5. A!Allocate
      BY <2>2, <2>3, <2>4 DEF A!Allocate, A!Available, A!Update
    <2> QED BY <2>5 DEF A!Next
  <1>4. CASE \E p \in DOMAIN live : \E n : live' = [live EXCEPT ![p].size = n]
    <2>0. PICK p \in DOMAIN live : \E n : live' = [live EXCEPT ![p].size = n]
      BY <1>4
    <2>1. PICK n : live' = [live EXCEPT ![p].size = n]
      BY <2>0
    <2>2. DOMAIN live' = DOMAIN live /\ \A x \in DOMAIN live \ {p} : live'[x] = live[x]
      BY <2>1
    <2>3. held2 = [x \in (DOMAIN held \ {}) \cup {p} |->
                     IF x = p THEN held2[p] ELSE held[x]]
      BY <2>2
    <2>4. /\ kernel_end <= p /\ p + held2[p] <= pool_end
          /\ \A x \in DOMAIN held \ {p} : p + held2[p] <= x \/ x + held[x] <= p
      BY <2>2 DEF Separate
    <2>5. A!Resize
      BY <2>2, <2>3, <2>4 DEF A!Resize, A!Available, A!Update
    <2> QED BY <2>5 DEF A!Next
  <1>5. CASE \E p \in DOMAIN live, q \in Nat \ DOMAIN live : \E v :
                /\ live' = With(Without(live, p), q, v)
                /\ q + v.size <= p \/ p + live[p].size <= q
    <2>0. PICK p \in DOMAIN live, q \in Nat \ DOMAIN live : \E v :
                /\ live' = With(Without(live, p), q, v)
                /\ q + v.size <= p \/ p + live[p].size <= q
      BY <1>5
    <2>1. PICK v : /\ live' = With(Without(live, p), q, v)
                   /\ q + v.size <= p \/ p + live[p].size <= q
      BY <2>0
    <2>2. /\ q \in DOMAIN live' /\ DOMAIN live' = (DOMAIN live \ {p}) \cup {q}
          /\ live'[q] = v
          /\ \A x \in DOMAIN live \ {p} : live'[x] = live[x]
      BY <2>1 DEF With, Without, Restrict
    <2>3. held2 = [x \in (DOMAIN held \ {p}) \cup {q} |->
                     IF x = q THEN held2[q] ELSE held[x]]
      BY <2>2
    <2>4. /\ kernel_end <= q /\ q + held2[q] <= pool_end
          /\ \A x \in DOMAIN held : q + held2[q] <= x \/ x + held[x] <= q
      BY <2>1, <2>2 DEF Separate
    <2>5. A!Move
      BY <2>2, <2>3, <2>4 DEF A!Move, A!Available, A!Update
    <2> QED BY <2>5 DEF A!Next
  <1> QED BY <1>1, <1>2, <1>3, <1>4, <1>5, LiveChanges

(* The heap implements the allocator: no caller ever gets bytes that       *)
(* another caller holds, nor bytes outside the page pool.                  *)
THEOREM HeapImplementsAllocator == Spec => ImplementsAllocator
  <1>1. Init => A!Init
    BY DEF Init, A!Init
  <1>2. IndInv /\ IndInv' /\ Separate /\ Separate' /\ [Next]_vars =>
           [A!Next]_([p \in DOMAIN live |-> live[p].size])
    BY StepImplements
  <1> QED BY <1>1, <1>2, HeapInvariance, LiveSeparate, PTL
          DEF Spec, ImplementsAllocator, A!Spec

-----------------------------------------------------------------------------
(* Sums.  MapThenSumSet adds up a set in an order of its own, by a         *)
(* recursion over subsets; that such a function exists, and that another   *)
(* order would give the same, is proved by looking at a smallest set for   *)
(* which it does not hold.                                                 *)

(* The sum of the sizes of the blocks, or of the pointers, in S.           *)
SizeSum(f, S) == MapThenSumSet(LAMBDA a : f[a].size, S)

First(s) == CHOOSE x \in s : TRUE
Added(f, g, s) == IF s = {} THEN 0 ELSE f[First(s)].size + g[s \ {First(s)}]
Sums(f, S, g) == g = [s \in SUBSET S |-> Added(f, g, s)]

LEMMA FirstIn == ASSUME NEW s, s # {} PROVE First(s) \in s
  BY DEF First

LEMMA SizeSumIs ==
    ASSUME NEW f, NEW S
    PROVE  SizeSum(f, S) = (CHOOSE g : Sums(f, S, g))[S]
  BY DEF SizeSum, MapThenSumSet, MapThenFoldSet, Sums, Added, First

(* The function that sums up all subsets exists: for subsets of one size   *)
(* after the other.                                                        *)
LEMMA AddedExists ==
    ASSUME NEW f, NEW S, IsFiniteSet(S)
    PROVE  \E g : Sums(f, S, g)
  <1> DEFINE Small(n) == {s \in SUBSET S : Cardinality(s) <= n}
             Part(n, g) == g = [s \in Small(n) |-> Added(f, g, s)]
             Bad == {n \in Nat : ~\E g : Part(n, g)}
  <1>1. Bad = {}
    <2> SUFFICES ASSUME Bad # {} PROVE FALSE
      OBVIOUS
    <2>1. PICK n \in Bad : \A k \in Bad : n <= k
      BY LeastNumber
    <2>2. CASE n = 0
      <3> DEFINE g == [s \in Small(0) |-> 0]
      <3>1. \A s \in Small(0) : s = {}
        BY FS_EmptySet, FS_Subset, FS_CardinalityType
      <3>2. Part(0, g)
        BY <3>1 DEF Added
      <3> QED BY <2>1, <2>2, <3>2
    <2>3. CASE n # 0
      <3>0. n \in Nat
        BY <2>1
      <3>1. n - 1 \in Nat /\ n - 1 \notin Bad /\ n \in Nat
        <4> HIDE DEF Bad
        <4> QED BY <2>1, <2>3, <3>0
      <3>2. PICK h : Part(n - 1, h)
        BY <3>1
      <3> DEFINE g == [s \in Small(n) |-> Added(f, h, s)]
      <3>3. ASSUME NEW s \in Small(n), s # {}
            PROVE  s \ {First(s)} \in Small(n - 1) /\ s \ {First(s)} \in Small(n)
        <4>1. s \in SUBSET S /\ IsFiniteSet(s) /\ Cardinality(s) <= n /\ Cardinality(s) \in Nat
          BY FS_Subset, FS_CardinalityType
        <4>2. First(s) \in s
          BY <3>3, FirstIn
        <4>3. Cardinality(s \ {First(s)}) = Cardinality(s) - 1
          BY <4>1, <4>2, FS_RemoveElement
        <4> QED BY <3>1, <4>1, <4>3
      <3>4. \A s \in Small(n) : s \in Small(n - 1) => g[s] = h[s]
        <4> HIDE DEF Small
        <4> QED BY <3>2
      <3>5. \A s \in Small(n) : Added(f, h, s) = Added(f, g, s)
        <4> HIDE DEF Small, g
        <4> QED BY <3>3, <3>4 DEF Added
      <3>6. Part(n, g)
        <4> HIDE DEF Small
        <4> QED BY <3>5, Zenon
      <3> QED BY <2>1, <3>6
    <2> QED BY <2>2, <2>3
  <1>2. Cardinality(S) \in Nat
    BY FS_CardinalityType
  <1>3. Small(Cardinality(S)) = SUBSET S
    BY FS_Subset
  <1>4. PICK g : Part(Cardinality(S), g)
    BY <1>1, <1>2
  <1> QED BY <1>3, <1>4 DEF Sums

(* What holds of a set when it holds of those with one element less holds  *)
(* of all finite sets: else there is a smallest one of which it does not.  *)
LEMMA SmallestSet ==
    ASSUME NEW S, IsFiniteSet(S), NEW Bad \in SUBSET (SUBSET S), Bad # {}
    PROVE  \E T \in Bad : IsFiniteSet(T) /\ \A x \in T : T \ {x} \notin Bad
  <1> DEFINE Counts == {n \in Nat : \E T \in Bad : Cardinality(T) = n}
  <1>1. \A T \in Bad : IsFiniteSet(T) /\ Cardinality(T) \in Nat
    BY FS_Subset, FS_CardinalityType
  <1>2. Counts \in SUBSET Nat /\ Counts # {}
    BY <1>1
  <1>3. PICK n \in Counts : \A k \in Counts : n <= k
    <2> HIDE DEF Counts
    <2> QED BY <1>2, LeastNumber
  <1>4. PICK T \in Bad : Cardinality(T) = n
    BY <1>3
  <1>5. ASSUME NEW x \in T, T \ {x} \in Bad PROVE FALSE
    <2>1. Cardinality(T \ {x}) = Cardinality(T) - 1
      BY <1>1, <1>5, FS_RemoveElement
    <2>2. Cardinality(T \ {x}) \in Counts
      BY <1>1, <1>5
    <2>3. n <= Cardinality(T \ {x}) /\ n \in Nat
      <3> HIDE DEF Counts
      <3> QED BY <1>2, <1>3, <2>2
    <2> QED BY <1>4, <2>1, <2>3
  <1> QED BY <1>1, <1>5

(* Two such functions agree where both are defined.                        *)
LEMMA AddedSame ==
    ASSUME NEW f, NEW S, NEW T, NEW g, NEW h, NEW s, IsFiniteSet(s), s \subseteq S, s \subseteq T,
           Sums(f, S, g), Sums(f, T, h)
    PROVE  g[s] = h[s]
  <1> DEFINE Bad == {x \in SUBSET s : g[x] # h[x]}
  <1> SUFFICES ASSUME Bad # {} PROVE FALSE
    OBVIOUS
  <1>1. PICK x \in Bad : \A e \in x : x \ {e} \notin Bad
    <2> HIDE DEF Bad
    <2>1. Bad \in SUBSET (SUBSET s)
      BY DEF Bad
    <2> QED BY <2>1, SmallestSet
  <1>2. g[x] = Added(f, g, x) /\ h[x] = Added(f, h, x)
    BY DEF Sums
  <1>3. x # {}
    BY <1>2 DEF Added
  <1>4. First(x) \in x
    BY <1>3, FirstIn
  <1>5. g[x \ {First(x)}] = h[x \ {First(x)}]
    BY <1>1, <1>4
  <1> QED BY <1>2, <1>3, <1>5 DEF Added

(* What a sum is, one element at a time.                                   *)
LEMMA SumEmpty == ASSUME NEW f PROVE SizeSum(f, {}) = 0
  <1>1. PICK g : Sums(f, {}, g)
    BY AddedExists, FS_EmptySet
  <1> DEFINE h == CHOOSE g0 : Sums(f, {}, g0)
  <1>2. Sums(f, {}, h)
    BY <1>1
  <1> HIDE DEF h
  <1>3. h[{}] = 0
    BY <1>2 DEF Sums, Added
  <1> QED BY <1>3, SizeSumIs DEF h

LEMMA SumFirst ==
    ASSUME NEW f, NEW S, IsFiniteSet(S), S # {}
    PROVE  SizeSum(f, S) = f[First(S)].size + SizeSum(f, S \ {First(S)})
  <1> DEFINE T == S \ {First(S)}
             g == CHOOSE g0 : Sums(f, S, g0)
             h == CHOOSE g0 : Sums(f, T, g0)
  <1>0. IsFiniteSet(T) /\ T \subseteq S
    BY FS_RemoveElement
  <1>1. SizeSum(f, S) = g[S] /\ SizeSum(f, T) = h[T]
    BY SizeSumIs
  <1>2. Sums(f, S, g)
    BY AddedExists
  <1>3. Sums(f, T, h)
    <2> HIDE DEF T
    <2> QED BY <1>0, AddedExists
  <1> HIDE DEF g, h
  <1>4. g[S] = f[First(S)].size + g[T]
    BY <1>2 DEF Sums, Added
  <1>5. g[T] = h[T]
    <2> HIDE DEF T
    <2>1. T \subseteq T
      OBVIOUS
    <2> QED BY <1>0, <1>2, <1>3, <2>1, AddedSame
  <1> QED BY <1>1, <1>4, <1>5

LEMMA SumIsNat ==
    ASSUME NEW f, NEW S, IsFiniteSet(S), \A a \in S : f[a].size \in Nat
    PROVE  SizeSum(f, S) \in Nat
  <1> DEFINE Bad == {T \in SUBSET S : SizeSum(f, T) \notin Nat}
  <1> SUFFICES ASSUME Bad # {} PROVE FALSE
    OBVIOUS
  <1>1. PICK T \in Bad : IsFiniteSet(T) /\ \A x \in T : T \ {x} \notin Bad
    <2> HIDE DEF Bad
    <2>1. Bad \in SUBSET (SUBSET S)
      BY DEF Bad
    <2> QED BY <2>1, SmallestSet
  <1>2. T # {}
    BY SumEmpty
  <1>3. First(T) \in T /\ SizeSum(f, T) = f[First(T)].size + SizeSum(f, T \ {First(T)})
    BY <1>1, <1>2, FirstIn, SumFirst
  <1>4. SizeSum(f, T \ {First(T)}) \in Nat
    BY <1>1, <1>3
  <1>5. SizeSum(f, T) \notin Nat /\ f[First(T)].size \in Nat
    BY <1>3
  <1> QED BY <1>3, <1>4, <1>5

(* Any element may be added last.                                          *)
LEMMA SumRemove ==
    ASSUME NEW f, NEW S, IsFiniteSet(S), \A a \in S : f[a].size \in Nat, NEW x \in S
    PROVE  SizeSum(f, S) = f[x].size + SizeSum(f, S \ {x})
  <1> DEFINE Bad == {T \in SUBSET S : \E y \in T :
                        SizeSum(f, T) # f[y].size + SizeSum(f, T \ {y})}
  <1> SUFFICES ASSUME Bad # {} PROVE FALSE
    OBVIOUS
  <1>1. PICK T \in Bad : IsFiniteSet(T) /\ \A e \in T : T \ {e} \notin Bad
    <2> HIDE DEF Bad
    <2>1. Bad \in SUBSET (SUBSET S)
      BY DEF Bad
    <2> QED BY <2>1, SmallestSet
  <1>2. PICK y \in T : SizeSum(f, T) # f[y].size + SizeSum(f, T \ {y})
    BY <1>1
  <1> DEFINE z == First(T)
  <1>3. z \in T /\ SizeSum(f, T) = f[z].size + SizeSum(f, T \ {z})
    BY <1>1, <1>2, FirstIn, SumFirst
  <1> HIDE DEF z
  <1>4. z # y
    BY <1>2, <1>3
  <1>5. T \ {z} \in SUBSET S /\ T \ {y} \in SUBSET S
    BY <1>1
  <1>6. SizeSum(f, T \ {z}) = f[y].size + SizeSum(f, (T \ {z}) \ {y})
    BY <1>1, <1>2, <1>3, <1>4, <1>5
  <1>7. SizeSum(f, T \ {y}) = f[z].size + SizeSum(f, (T \ {y}) \ {z})
    BY <1>1, <1>2, <1>3, <1>4, <1>5
  <1>8. (T \ {z}) \ {y} = (T \ {y}) \ {z}
    OBVIOUS
  <1> DEFINE U == (T \ {y}) \ {z}
             fy == f[y].size
             fz == f[z].size
             rest == SizeSum(f, U)
  <1>9. fy \in Nat /\ fz \in Nat
    BY <1>1, <1>2, <1>3
  <1>10. rest \in Nat
    <2>1. IsFiniteSet(U) /\ \A a \in U : f[a].size \in Nat
      BY <1>1, <1>5, FS_Subset
    <2> HIDE DEF U
    <2> QED BY <2>1, SumIsNat
  <1>11. /\ SizeSum(f, T) = fz + (fy + rest)
         /\ SizeSum(f, T \ {y}) = fz + rest
    BY <1>3, <1>6, <1>7, <1>8
  <1>12. SizeSum(f, T) # fy + SizeSum(f, T \ {y})
    BY <1>2
  <1> HIDE DEF U, fy, fz, rest
  <1> QED BY <1>9, <1>10, <1>11, <1>12

(* What each contributes is at most what its image does, and no two have   *)
(* the same image.                                                         *)
LEMMA SumInto ==
    ASSUME NEW f, NEW S, NEW g, NEW T, IsFiniteSet(S), IsFiniteSet(T),
           \A a \in S : f[a].size \in Nat, \A a \in T : g[a].size \in Nat,
           NEW b, \A a \in S : b[a] \in T /\ f[a].size <= g[b[a]].size,
           \A a, c \in S : b[a] = b[c] => a = c
    PROVE  SizeSum(f, S) <= SizeSum(g, T)
  <1> DEFINE Bad == {U \in SUBSET S : \E V \in SUBSET T :
                        /\ \A a \in U : b[a] \in V
                        /\ ~(SizeSum(f, U) <= SizeSum(g, V))}
  <1> SUFFICES ASSUME Bad # {} PROVE FALSE
    OBVIOUS
  <1>1. PICK U \in Bad : IsFiniteSet(U) /\ \A e \in U : U \ {e} \notin Bad
    <2> HIDE DEF Bad
    <2>1. Bad \in SUBSET (SUBSET S)
      BY DEF Bad
    <2> QED BY <2>1, SmallestSet
  <1>2. PICK V \in SUBSET T :
           (\A a \in U : b[a] \in V) /\ ~(SizeSum(f, U) <= SizeSum(g, V))
    BY <1>1
  <1>3. IsFiniteSet(V) /\ U \in SUBSET S /\ V \in SUBSET T
    BY <1>1, <1>2, FS_Subset
  <1>4. SizeSum(g, V) \in Nat
    <2>1. \A a \in V : g[a].size \in Nat
      BY <1>3
    <2> QED BY <1>3, <2>1, SumIsNat
  <1>5. U # {}
    <2> SUFFICES ASSUME U = {} PROVE FALSE
      OBVIOUS
    <2>1. SizeSum(f, U) = 0
      BY SumEmpty
    <2> QED BY <1>2, <1>4, <2>1
  <1>6. PICK x \in U : TRUE
    BY <1>5
  <1>7. SizeSum(f, U) = f[x].size + SizeSum(f, U \ {x})
    <2>1. \A a \in U : f[a].size \in Nat
      BY <1>3
    <2> QED BY <1>1, <1>6, <2>1, SumRemove
  <1>8. SizeSum(g, V) = g[b[x]].size + SizeSum(g, V \ {b[x]})
    <2>1. \A a \in V : g[a].size \in Nat
      BY <1>3
    <2>2. b[x] \in V
      BY <1>2, <1>6
    <2> QED BY <1>3, <2>1, <2>2, SumRemove
  <1>9. SizeSum(f, U \ {x}) <= SizeSum(g, V \ {b[x]})
    <2>1. \A a \in U \ {x} : b[a] \in V \ {b[x]}
      BY <1>2, <1>3, <1>6
    <2>2. U \ {x} \in SUBSET S /\ V \ {b[x]} \in SUBSET T
      BY <1>3
    <2> QED BY <1>1, <1>6, <2>1, <2>2
  <1>10. SizeSum(f, U \ {x}) \in Nat /\ SizeSum(g, V \ {b[x]}) \in Nat
    <2>1. IsFiniteSet(U \ {x}) /\ \A a \in U \ {x} : f[a].size \in Nat
      BY <1>1, <1>3, FS_RemoveElement
    <2>2. IsFiniteSet(V \ {b[x]}) /\ \A a \in V \ {b[x]} : g[a].size \in Nat
      BY <1>3, FS_RemoveElement
    <2>3. SizeSum(f, U \ {x}) \in Nat
      BY <2>1, SumIsNat
    <2>4. SizeSum(g, V \ {b[x]}) \in Nat
      BY <2>2, SumIsNat
    <2> QED BY <2>3, <2>4
  <1>11. f[x].size \in Nat /\ g[b[x]].size \in Nat /\ f[x].size <= g[b[x]].size
    BY <1>3, <1>6
  <1> DEFINE fx == f[x].size
             gx == g[b[x]].size
             p == SizeSum(f, U \ {x})
             q == SizeSum(g, V \ {b[x]})
  <1>12. p \in Nat /\ q \in Nat /\ fx \in Nat /\ gx \in Nat /\ fx <= gx /\ p <= q
    BY <1>9, <1>10, <1>11
  <1>13. ~(fx + p <= gx + q)
    BY <1>2, <1>7, <1>8
  <1> HIDE DEF p, q, fx, gx
  <1> QED BY <1>12, <1>13

(* A sum is that of its parts.                                             *)
LEMMA SumParts ==
    ASSUME NEW f, NEW S, IsFiniteSet(S), \A a \in S : f[a].size \in Nat, NEW P, NEW Q,
           S = P \cup Q, P \cap Q = {}
    PROVE  SizeSum(f, S) = SizeSum(f, P) + SizeSum(f, Q)
  <1> DEFINE Bad == {U \in SUBSET S :
                        SizeSum(f, U) # SizeSum(f, U \cap P) + SizeSum(f, U \cap Q)}
  <1>1. ASSUME Bad # {} PROVE FALSE
    <2>1. PICK U \in Bad : IsFiniteSet(U) /\ \A e \in U : U \ {e} \notin Bad
      <3> HIDE DEF Bad
      <3>1. Bad \in SUBSET (SUBSET S)
        BY DEF Bad
      <3> QED BY <1>1, <3>1, SmallestSet
    <2>2. U \in SUBSET S /\ SizeSum(f, U) # SizeSum(f, U \cap P) + SizeSum(f, U \cap Q)
      BY <2>1
    <2>3. U # {}
      <3> SUFFICES ASSUME U = {} PROVE FALSE
        OBVIOUS
      <3>1. U \cap P = {} /\ U \cap Q = {}
        OBVIOUS
      <3>2. SizeSum(f, {}) = 0
        BY SumEmpty
      <3> QED BY <2>2, <3>1, <3>2
    <2>4. PICK x \in U : TRUE
      BY <2>3
    <2> DEFINE V == U \ {x}
    <2>5. SizeSum(f, V) = SizeSum(f, V \cap P) + SizeSum(f, V \cap Q)
      BY <2>1, <2>2, <2>4
    <2>6. \A W \in SUBSET U :
             IsFiniteSet(W) /\ (\A a \in W : f[a].size \in Nat) /\ SizeSum(f, W) \in Nat
      <3> SUFFICES ASSUME NEW W \in SUBSET U
                   PROVE  /\ IsFiniteSet(W) /\ \A a \in W : f[a].size \in Nat
                          /\ SizeSum(f, W) \in Nat
        OBVIOUS
      <3>1. IsFiniteSet(W) /\ \A a \in W : f[a].size \in Nat
        BY <2>1, <2>2, FS_Subset
      <3> QED BY <3>1, SumIsNat
    <2>7. SizeSum(f, U) = f[x].size + SizeSum(f, V)
      <3>1. IsFiniteSet(U) /\ \A a \in U : f[a].size \in Nat
        BY <2>6
      <3> HIDE DEF Bad
      <3> QED BY <2>4, <3>1, SumRemove
    <2>8. f[x].size \in Nat /\ SizeSum(f, V \cap P) \in Nat /\ SizeSum(f, V \cap Q) \in Nat
      BY <2>2, <2>4, <2>6
    <2>9. CASE x \in P
      <3>1. U \cap Q = V \cap Q /\ V \cap P = (U \cap P) \ {x} /\ x \in U \cap P
        BY <2>4, <2>9
      <3>2. IsFiniteSet(U \cap P) /\ \A a \in U \cap P : f[a].size \in Nat
        BY <2>6
      <3>3. SizeSum(f, U \cap P) = f[x].size + SizeSum(f, V \cap P)
        <4>1. SizeSum(f, U \cap P) = f[x].size + SizeSum(f, (U \cap P) \ {x})
          BY <3>1, <3>2, SumRemove
        <4> QED BY <3>1, <4>1
      <3>4. SizeSum(f, U) # SizeSum(f, U \cap P) + SizeSum(f, V \cap Q)
        BY <2>2, <3>1
      <3> HIDE DEF V
      <3> DEFINE n == f[x].size
                 p == SizeSum(f, V \cap P)
                 q == SizeSum(f, V \cap Q)
      <3>5. n \in Nat /\ p \in Nat /\ q \in Nat
        BY <2>8
      <3>6. n + (p + q) # (n + p) + q
        BY <2>5, <2>7, <3>3, <3>4
      <3> HIDE DEF n, p, q
      <3> QED BY <3>5, <3>6
    <2>10. CASE x \in Q
      <3>1. U \cap P = V \cap P /\ V \cap Q = (U \cap Q) \ {x} /\ x \in U \cap Q
        BY <2>4, <2>10
      <3>2. IsFiniteSet(U \cap Q) /\ \A a \in U \cap Q : f[a].size \in Nat
        BY <2>6
      <3>3. SizeSum(f, U \cap Q) = f[x].size + SizeSum(f, V \cap Q)
        <4>1. SizeSum(f, U \cap Q) = f[x].size + SizeSum(f, (U \cap Q) \ {x})
          BY <3>1, <3>2, SumRemove
        <4> QED BY <3>1, <4>1
      <3>4. SizeSum(f, U) # SizeSum(f, V \cap P) + SizeSum(f, U \cap Q)
        BY <2>2, <3>1
      <3> HIDE DEF V
      <3> DEFINE n == f[x].size
                 p == SizeSum(f, V \cap P)
                 q == SizeSum(f, V \cap Q)
      <3>5. n \in Nat /\ p \in Nat /\ q \in Nat
        BY <2>8
      <3>6. n + (p + q) # p + (n + q)
        BY <2>5, <2>7, <3>3, <3>4
      <3> HIDE DEF n, p, q
      <3> QED BY <3>5, <3>6
    <2> QED BY <2>2, <2>4, <2>9, <2>10
  <1>2. S \notin Bad
    BY <1>1
  <1>3. S \cap P = P /\ S \cap Q = Q
    OBVIOUS
  <1> QED BY <1>2, <1>3

-----------------------------------------------------------------------------
(* heap_get_stats adds up.  The blocks in front of an address where one    *)
(* starts, or of the end of the page, fill what lies in front of it.       *)
Top == heap_start + PAGE_SIZE
Below(x) == {b \in DOMAIN hdr : b < x}
Filled(x) == SizeSum(hdr, Below(x)) + HDR * Cardinality(Below(x)) = x - heap_start

LEMMA BlocksFinite == IndInv => IsFiniteSet(DOMAIN hdr) /\ IsFiniteSet(DOMAIN live)
  <1> SUFFICES ASSUME IndInv PROVE IsFiniteSet(DOMAIN hdr) /\ IsFiniteSet(DOMAIN live)
    OBVIOUS
  <1>1. heap_start \in Nat /\ Top \in Nat
    BY Tiling DEF Top
  <1>2. DOMAIN hdr \subseteq heap_start .. Top
    <2> SUFFICES ASSUME NEW a \in DOMAIN hdr PROVE a \in heap_start .. Top
      OBVIOUS
    <2>1. /\ a \in Nat /\ hdr[a].size \in Nat /\ heap_start <= a
          /\ a + HDR + hdr[a].size <= Top
      BY Tiling DEF Top
    <2> QED BY <1>1, <2>1 DEF HDR
  <1>3. IsFiniteSet(DOMAIN hdr)
    <2>1. IsFiniteSet(heap_start .. Top)
      BY <1>1, FS_Interval
    <2> QED BY <1>2, <2>1, FS_Subset
  <1> DEFINE b == [p \in DOMAIN live |-> BlockOf(p)]
  <1>4. b \in Injection(DOMAIN live, DOMAIN hdr)
    <2>1. \A p \in DOMAIN live : BlockOf(p) \in DOMAIN hdr
      BY PointerInBlock
    <2>2. \A p, q \in DOMAIN live : BlockOf(p) = BlockOf(q) => p = q
      BY DEF IndInv, LiveOwnBlocks
    <2>3. b \in [DOMAIN live -> DOMAIN hdr] /\ \A p, q \in DOMAIN live : b[p] = b[q] => p = q
      BY <2>1, <2>2
    <2> HIDE DEF b
    <2> QED BY <2>3 DEF Injection, IsInjective
  <1>5. IsFiniteSet(DOMAIN live)
    <2> HIDE DEF b
    <2> QED BY <1>3, <1>4, FS_Injection
  <1> QED BY <1>3, <1>5

(* Another block ends where a block starts, or at the end of the page.     *)
LEMMA BlockBefore ==
    ASSUME IndInv, heap_start # NULL, NEW x \in DOMAIN hdr \cup {Top}, x # heap_start
    PROVE  \E b \in DOMAIN hdr : /\ b < x /\ x = b + HDR + hdr[b].size
                                 /\ \A c \in Below(x) : c <= b
  <1>1. heap_start \in Nat /\ Top \in Nat /\ heap_start \in DOMAIN hdr /\ heap_start < Top
    BY Tiling, PageAssumption DEF Top
  <1>2. x \in Nat /\ heap_start < x /\ x <= Top /\ (x \in DOMAIN hdr => x < Top)
    <2>1. CASE x = Top
      BY <1>1, <2>1, Tiling DEF Top, HDR
    <2>2. CASE x \in DOMAIN hdr
      <3>1. /\ x \in Nat /\ hdr[x].size \in Nat /\ heap_start <= x
            /\ x + HDR + hdr[x].size <= Top
        BY <2>2, Tiling DEF Top
      <3> QED BY <1>1, <3>1 DEF HDR
    <2> QED BY <2>1, <2>2
  <1> DEFINE Gaps == {n \in Nat : \E b \in Below(x) : n = x - b}
  <1>3. \A b \in Below(x) : b \in Nat /\ b < x /\ b \in DOMAIN hdr /\ x - b \in Gaps
    <2> SUFFICES ASSUME NEW b \in Below(x)
                 PROVE  b \in Nat /\ b < x /\ b \in DOMAIN hdr /\ x - b \in Gaps
      OBVIOUS
    <2>1. b \in DOMAIN hdr /\ b < x
      BY DEF Below
    <2>2. b \in Nat
      BY <2>1, Tiling
    <2> QED BY <1>2, <2>1, <2>2
  <1>4. Gaps # {} /\ Gaps \in SUBSET Nat
    <2>1. heap_start \in Below(x)
      BY <1>1, <1>2 DEF Below
    <2> QED BY <1>3, <2>1
  <1>5. PICK n \in Gaps : \A k \in Gaps : n <= k
    <2> HIDE DEF Gaps
    <2> QED BY <1>4, LeastNumber
  <1>6. PICK b \in Below(x) : n = x - b
    BY <1>5
  <1>7. \A c \in Below(x) : c <= b
    <2> SUFFICES ASSUME NEW c \in Below(x) PROVE c <= b
      OBVIOUS
    <2>1. n <= x - c
      <3> HIDE DEF Gaps
      <3> QED BY <1>3, <1>5
    <2>2. b \in Nat /\ c \in Nat
      BY <1>3
    <2> HIDE DEF Gaps
    <2> QED BY <1>2, <1>6, <2>1, <2>2
  <1> HIDE DEF Gaps
  <1>8. b \in DOMAIN hdr /\ b < x /\ b \in Nat
    BY <1>3
  <1>9. /\ hdr[b].size \in Nat
        /\ b + HDR + hdr[b].size <= Top
        /\ \/ hdr[b].next = NULL /\ b + HDR + hdr[b].size = Top
           \/ hdr[b].next \in DOMAIN hdr /\ b + HDR + hdr[b].size = hdr[b].next
        /\ x \in DOMAIN hdr => b + HDR + hdr[b].size <= x
    BY <1>8, Tiling DEF Top
  <1>10. x = b + HDR + hdr[b].size
    <2>1. CASE b + HDR + hdr[b].size = Top
      BY <1>1, <1>2, <1>9, <2>1
    <2>2. CASE hdr[b].next \in DOMAIN hdr /\ b + HDR + hdr[b].size = hdr[b].next
      <3> DEFINE c == hdr[b].next
      <3>1. c \in Nat /\ b < c /\ c <= x
        BY <1>2, <1>8, <1>9, <2>2, Tiling DEF HDR
      <3>2. ~(c < x)
        <4>1. c < x => c \in Below(x)
          BY <2>2 DEF Below
        <4> HIDE DEF c
        <4> QED BY <1>7, <1>8, <3>1, <4>1
      <3> HIDE DEF c
      <3>3. x = c
        BY <1>2, <3>1, <3>2
      <3> QED BY <2>2, <3>3 DEF c
    <2> QED BY <1>9, <2>1, <2>2
  <1> QED BY <1>7, <1>8, <1>10

LEMMA PageFilled == IndInv /\ heap_start # NULL => Filled(Top)
  <1> SUFFICES ASSUME IndInv, heap_start # NULL PROVE Filled(Top)
    OBVIOUS
  <1> DEFINE Bad == {x \in DOMAIN hdr \cup {Top} : ~Filled(x)}
  <1> SUFFICES ASSUME Bad # {} PROVE FALSE
    OBVIOUS
  <1>1. heap_start \in Nat /\ Top \in Nat /\ DOMAIN hdr \subseteq Nat
    BY Tiling DEF Top
  <1>2. PICK x \in Bad : \A y \in Bad : x <= y
    <2>1. Bad \in SUBSET Nat
      BY <1>1
    <2> HIDE DEF Bad
    <2> QED BY <2>1, LeastNumber
  <1>3. x \in DOMAIN hdr \cup {Top} /\ ~Filled(x)
    BY <1>2
  <1>4. x # heap_start
    <2> SUFFICES ASSUME x = heap_start PROVE FALSE
      OBVIOUS
    <2>1. Below(x) = {}
      <3> SUFFICES ASSUME NEW b \in DOMAIN hdr, b < heap_start PROVE FALSE
        BY DEF Below
      <3>1. heap_start <= b /\ b \in Nat
        BY Tiling
      <3> QED BY <1>1, <3>1
    <2>2. SizeSum(hdr, {}) = 0 /\ Cardinality({}) = 0
      BY SumEmpty, FS_EmptySet
    <2> QED BY <1>1, <1>3, <2>1, <2>2 DEF Filled, HDR
  <1>5. PICK b \in DOMAIN hdr : /\ b < x /\ x = b + HDR + hdr[b].size
                                /\ \A c \in Below(x) : c <= b
    BY <1>3, <1>4, BlockBefore
  <1>6. b \in Nat /\ hdr[b].size \in Nat /\ x \in Nat
    BY <1>1, <1>3, Tiling
  <1>7. Filled(b)
    <2>1. ~(x <= b)
      BY <1>5, <1>6
    <2> QED BY <1>2, <2>1
  <1>8. b \in Below(x) /\ Below(b) = Below(x) \ {b}
    <2>1. b \in Below(x)
      BY <1>5 DEF Below
    <2>2. ASSUME NEW c \in DOMAIN hdr PROVE c < b <=> c < x /\ c # b
      <3>1. c \in Nat
        BY <1>1
      <3>2. c < x => c <= b
        BY <1>5 DEF Below
      <3> QED BY <1>5, <1>6, <3>1, <3>2
    <2> QED BY <2>1, <2>2 DEF Below
  <1>9. /\ IsFiniteSet(Below(x)) /\ IsFiniteSet(Below(b))
        /\ \A a \in Below(x) : hdr[a].size \in Nat
    <2>1. Below(x) \in SUBSET (DOMAIN hdr) /\ Below(b) \in SUBSET (DOMAIN hdr)
      BY DEF Below
    <2> QED BY <2>1, BlocksFinite, FS_Subset, Tiling
  <1>10. SizeSum(hdr, Below(x)) = hdr[b].size + SizeSum(hdr, Below(b))
    BY <1>8, <1>9, SumRemove
  <1>11. Cardinality(Below(b)) = Cardinality(Below(x)) - 1 /\ Cardinality(Below(x)) \in Nat
    BY <1>8, <1>9, FS_RemoveElement, FS_CardinalityType
  <1>12. SizeSum(hdr, Below(b)) \in Nat
    BY <1>8, <1>9, SumIsNat
  <1> DEFINE s == SizeSum(hdr, Below(b))
             t == SizeSum(hdr, Below(x))
             n == Cardinality(Below(x))
             m == Cardinality(Below(b))
             z == hdr[b].size
  <1>13. /\ s \in Nat /\ n \in Nat /\ z \in Nat /\ m = n - 1 /\ t = z + s
         /\ s + HDR * m = b - heap_start /\ x = b + HDR + z
    BY <1>5, <1>6, <1>7, <1>10, <1>11, <1>12 DEF Filled
  <1>14. ~(t + HDR * n = x - heap_start)
    BY <1>3 DEF Filled
  <1> HIDE DEF s, t, n, m, z
  <1> QED BY <1>1, <1>6, <1>13, <1>14 DEF HDR

LEMMA StatsHold == IndInv => StatsAddUp
  <1> SUFFICES ASSUME IndInv, heap_start # NULL
               PROVE  /\ heap_get_stats.total + HDR * Cardinality(DOMAIN hdr) = PAGE_SIZE
                      /\ heap_get_stats.used
                            >= MapThenSumSet(LAMBDA p : live[p].size, DOMAIN live)
    BY DEF StatsAddUp
  <1> DEFINE Used == {a \in DOMAIN hdr : hdr[a].is_free = FALSE}
             Unused == {a \in DOMAIN hdr : hdr[a].is_free = TRUE}
  <1>1. /\ heap_get_stats.total = SizeSum(hdr, Used) + SizeSum(hdr, Unused)
        /\ heap_get_stats.used = SizeSum(hdr, Used)
    BY DEF heap_get_stats, SizeSum
  <1>2. MapThenSumSet(LAMBDA p : live[p].size, DOMAIN live) = SizeSum(live, DOMAIN live)
    BY DEF SizeSum
  <1>3. /\ IsFiniteSet(DOMAIN hdr) /\ IsFiniteSet(DOMAIN live) /\ IsFiniteSet(Used)
        /\ \A a \in DOMAIN hdr : hdr[a].size \in Nat /\ hdr[a].is_free \in BOOLEAN
    BY BlocksFinite, FS_Subset, Tiling
  <1>4. SizeSum(hdr, DOMAIN hdr) = SizeSum(hdr, Used) + SizeSum(hdr, Unused)
    <2>1. DOMAIN hdr = Used \cup Unused /\ Used \cap Unused = {}
      BY <1>3
    <2>2. \A a \in DOMAIN hdr : hdr[a].size \in Nat
      BY <1>3
    <2> HIDE DEF Used, Unused
    <2> QED BY <1>3, <2>1, <2>2, SumParts
  <1>5. SizeSum(hdr, DOMAIN hdr) + HDR * Cardinality(DOMAIN hdr) = PAGE_SIZE
    <2>1. Below(Top) = DOMAIN hdr
      <3> SUFFICES ASSUME NEW a \in DOMAIN hdr PROVE a < Top
        BY DEF Below
      <3>1. a \in Nat /\ hdr[a].size \in Nat /\ a + HDR + hdr[a].size <= Top /\ Top \in Nat
        BY Tiling DEF Top
      <3> QED BY <3>1 DEF HDR
    <2>2. Filled(Top)
      BY PageFilled
    <2>3. Top - heap_start = PAGE_SIZE
      BY Tiling, PageAssumption DEF Top
    <2> QED BY <2>1, <2>2, <2>3 DEF Filled
  <1> DEFINE b == [p \in DOMAIN live |-> BlockOf(p)]
  <1>6. \A p \in DOMAIN live : b[p] \in Used /\ live[p].size <= hdr[b[p]].size
    <2> SUFFICES ASSUME NEW p \in DOMAIN live
                 PROVE  BlockOf(p) \in Used /\ live[p].size <= hdr[BlockOf(p)].size
      OBVIOUS
    <2>1. /\ p \in Nat /\ live[p].size \in Nat
          /\ BlockOf(p) \in DOMAIN hdr /\ ~hdr[BlockOf(p)].is_free
          /\ BlockOf(p) + HDR <= p
          /\ p + live[p].size <= BlockEnd(BlockOf(p))
      BY PointerInBlock
    <2>2. BlockOf(p) \in Nat /\ hdr[BlockOf(p)].size \in Nat /\ hdr[BlockOf(p)].is_free \in BOOLEAN
      BY <2>1, Tiling
    <2>3. live[p].size <= hdr[BlockOf(p)].size
      <3> DEFINE c == BlockOf(p)
                 z == hdr[c].size
                 l == live[p].size
      <3>1. /\ p \in Nat /\ l \in Nat /\ c \in Nat /\ z \in Nat /\ c + HDR <= p
            /\ p + l <= c + HDR + z
        BY <2>1, <2>2 DEF BlockEnd
      <3> HIDE DEF c, z, l
      <3>2. l <= z
        BY <3>1 DEF HDR
      <3> QED BY <3>2 DEF c, z, l
    <2> QED BY <2>1, <2>2, <2>3
  <1>7. \A p, q \in DOMAIN live : b[p] = b[q] => p = q
    BY DEF IndInv, LiveOwnBlocks
  <1>8. \A p \in DOMAIN live : live[p].size \in Nat
    BY PointerInBlock
  <1>9. SizeSum(live, DOMAIN live) <= SizeSum(hdr, Used)
    <2>1. \A a \in Used : hdr[a].size \in Nat
      BY <1>3
    <2> HIDE DEF Used, b
    <2> QED BY <1>3, <1>6, <1>7, <1>8, <2>1, SumInto
  <1>10. SizeSum(live, DOMAIN live) \in Nat /\ SizeSum(hdr, Used) \in Nat
    <2>1. \A a \in Used : hdr[a].size \in Nat
      BY <1>3
    <2> HIDE DEF Used, Unused
    <2> QED BY <1>3, <1>8, <2>1, SumIsNat
  <1> HIDE DEF Used, Unused
  <1> QED BY <1>1, <1>2, <1>4, <1>5, <1>9, <1>10

(* What heap_get_stats reports is all of the page but the headers, and as  *)
(* used at least what the callers hold.                                    *)
THEOREM HeapStatsAddUp == Spec => []StatsAddUp
  BY StatsHold, HeapInvariance, PTL
=============================================================================
