-------------------------------- MODULE Heap --------------------------------
(***************************************************************************)
(* The kernel heap of src/kernel/mem/heap.c: one page cut into blocks, a   *)
(* list of block headers in address order, first fit, splitting, and       *)
(* coalescing of the whole list on every free.                             *)
(*                                                                         *)
(* The loops of kmalloc and kfree are one action per iteration.  The       *)
(* kernel has one processor and never enables interrupts, so no other call *)
(* starts before the current one returns (pc = "idle").                    *)
(***************************************************************************)
EXTENDS Memory, FiniteSets, FiniteSetsExt, Functions

CONSTANTS
    UINT_MOD,      \* 2^32: the mask ~15u has the width of unsigned int
    Sizes,         \* the sizes callers pass to kmalloc and krealloc
    Alignments,    \* the alignments callers pass to kmalloc_aligned
    PoolRequests,  \* the page counts other users of the pool ask for
    MaxLive        \* bound: the pointers held at one time

HDR == 24          \* sizeof(block_header_t)
PTR == 8           \* sizeof(void*)

ASSUME HeapPageAssumption == PAGE_SIZE > HDR
ASSUME UintAssumption == UINT_MOD \in Nat \ {0} /\ UINT_MOD <= UINTPTR_MOD
(* No caller asks for so much that rounding up to 16 bytes loses the high  *)
(* bits in the 32-bit mask: kmalloc would then return too small a block.   *)
ASSUME SizeAssumption ==
    /\ Sizes \subseteq Nat /\ Alignments \subseteq Nat
    /\ \A n \in Sizes, a \in Alignments \cup {0} : n + a + PTR + 15 < UINT_MOD
ASSUME PoolRequestAssumption ==
    /\ PoolRequests \subseteq Nat
    /\ \A n \in PoolRequests \cup {1} : pool_end + n * PAGE_SIZE < UINTPTR_MOD

VARIABLES
    pool,        \* g_next_page and g_page_limit
    heap_start,  \* the first header, or NULL before heap_initialize
    hdr,         \* the headers on the list, by address
    live,        \* the pointers callers hold: [size, raw, aligned], where raw
                 \* is what kmalloc returned, kept in front of the pointer if
                 \* it is aligned
    pc,          \* where the call in progress is
    current,     \* the loop variable of kmalloc and kfree
    req          \* the arguments of the allocation in progress

vars == <<pool, heap_start, hdr, live, pc, current, req>>

With(f, x, v) == [y \in DOMAIN f \cup {x} |-> IF y = x THEN v ELSE f[y]]
Without(f, x) == Restrict(f, DOMAIN f \ {x})

(* An allocation on its way: the caller's size, the size given to kmalloc, *)
(* the alignment (0 for none) and the pointer krealloc is to replace.      *)
Request(size, bytes, alignment, old) ==
    [size |-> size, bytes |-> bytes, alignment |-> alignment, old |-> old]
NoRequest == Request(0, 0, 0, NULL)

Init ==
    /\ pool = unset_pool
    /\ heap_start = NULL
    /\ hdr = [a \in {} |-> NULL]
    /\ live = [p \in {} |-> NULL]
    /\ pc = "idle"
    /\ current = NULL
    /\ req = NoRequest

Idle == pc = "idle"
Return == pc' = "idle" /\ current' = NULL /\ req' = NoRequest
-----------------------------------------------------------------------------
(* heap_initialize: one page from the pool becomes one free block.  It     *)
(* does nothing the second time; if the pool is empty the heap stays       *)
(* uninitialized and the next call tries again.                            *)
heap_initialize ==
    IF heap_start # NULL
    THEN UNCHANGED <<pool, heap_start, hdr>>
    ELSE LET r == memory_alloc_pages(pool, 1)
         IN  /\ pool' = r.pool
             /\ heap_start' = r.ptr
             /\ hdr' = IF r.ptr = NULL
                       THEN hdr
                       ELSE With(hdr, r.ptr, [size |-> PAGE_SIZE - HDR,
                                              is_free |-> TRUE, next |-> NULL])

HeapInitialize ==
    /\ Idle
    /\ heap_initialize
    /\ UNCHANGED <<live, pc, current, req>>

(* The other users of the page pool take pages between heap calls.         *)
OtherAlloc(n) ==
    /\ Idle
    /\ pool' = memory_alloc_pages(pool, n).pool
    /\ UNCHANGED <<heap_start, hdr, live, pc, current, req>>

(* kmalloc up to its loop, for the request r.                              *)
BeginKmalloc(r) ==
    /\ r.bytes # 0
    /\ heap_initialize
    /\ UNCHANGED live
    /\ IF heap_start' = NULL
       THEN UNCHANGED <<pc, current, req>>
       ELSE pc' = "kmalloc" /\ current' = heap_start' /\ req' = r

(* (size + 15u) & ~15u: the mask is 32 bits wide.                          *)
aligned_size ==
    LET s == ((req.bytes + 15) % UINTPTR_MOD) % UINT_MOD
    IN  s - (s % 16)

needed == aligned_size + HDR

(* Mutants: a block that fits exactly is passed over; a block in use is    *)
(* taken again.                                                            *)
FitsStrictly(a) == hdr[a].is_free /\ hdr[a].size > needed

FitsUsed(a) == hdr[a].size >= needed

Fits(a) == hdr[a].is_free /\ hdr[a].size >= needed

KmallocSkip ==
    /\ pc = "kmalloc" /\ current # NULL
    /\ ~Fits(current)
    /\ current' = hdr[current].next
    /\ UNCHANGED <<pool, heap_start, hdr, live, pc, req>>

(* Mutant: the rest of a split block is a header too long.                 *)
cut_too_long(b) ==
    LET leftover  == hdr[b].size - needed
        new_block == b + needed
    IN  IF leftover > HDR + 16
        THEN With([hdr EXCEPT ![b] = [size |-> aligned_size, is_free |-> FALSE,
                                      next |-> new_block]],
                  new_block, [size |-> leftover + HDR, is_free |-> TRUE,
                              next |-> hdr[b].next])
        ELSE [hdr EXCEPT ![b].is_free = FALSE]

(* The headers after block b is given out: its tail becomes a block of its *)
(* own if more than a header and 16 bytes are left.                        *)
cut(b) ==
    LET leftover  == hdr[b].size - needed
        new_block == b + needed
    IN  IF leftover > HDR + 16
        THEN With([hdr EXCEPT ![b] = [size |-> aligned_size, is_free |-> FALSE,
                                      next |-> new_block]],
                  new_block, [size |-> leftover, is_free |-> TRUE,
                              next |-> hdr[b].next])
        ELSE [hdr EXCEPT ![b].is_free = FALSE]

(* Mutant: no room is left for the pointer in front of the aligned address.*)
aligned_addr_bare(raw, alignment) ==
    LET v == raw + (alignment - 1) IN v - (v % alignment)

(* Where kmalloc_aligned puts the block: behind a slot for the raw pointer.*)
aligned_addr(raw, alignment) ==
    LET v == (raw + PTR + (alignment - 1)) % UINTPTR_MOD
    IN  v - (v % alignment)

(* The first fit is cut and returned: to krealloc, which goes on to copy,  *)
(* or, aligned if that was asked for, to the caller.                       *)
KmallocTake ==
    /\ pc = "kmalloc" /\ current # NULL
    /\ Fits(current)
    /\ hdr' = cut(current)
    /\ UNCHANGED <<pool, heap_start>>
    /\ IF req.old # NULL
       THEN pc' = "copy" /\ UNCHANGED <<live, current, req>>
       ELSE LET raw == current + HDR
                p   == IF req.alignment = 0 THEN raw
                       ELSE aligned_addr(raw, req.alignment)
            IN  /\ live' = With(live, p, [size |-> req.size, raw |-> raw,
                                          aligned |-> req.alignment # 0])
                /\ Return

(* The list ends: NULL.  krealloc returns it too and keeps the old block.  *)
KmallocFail ==
    /\ pc = "kmalloc" /\ current = NULL
    /\ Return
    /\ UNCHANGED <<pool, heap_start, hdr, live>>

-----------------------------------------------------------------------------
(* The callers' side of kmalloc(size).  A size of 0 returns NULL at once.  *)
Kmalloc(size) ==
    /\ Idle /\ Cardinality(DOMAIN live) < MaxLive
    /\ BeginKmalloc(Request(size, size, 0, NULL))

(* (alignment & (alignment - 1)) == 0: no odd divisor but 1.               *)
IsPowerOfTwo(a) == \A d \in 2..a : a % d = 0 => d % 2 = 0

(* kmalloc_aligned: a size of 0 and an alignment that is no power of two   *)
(* return NULL at once; an alignment of 0 asks for kmalloc.                *)
KmallocAligned(size, alignment) ==
    /\ Idle /\ Cardinality(DOMAIN live) < MaxLive
    /\ size # 0
    /\ \/ /\ alignment = 0
          /\ BeginKmalloc(Request(size, size, 0, NULL))
       \/ /\ alignment # 0 /\ IsPowerOfTwo(alignment)
          /\ BeginKmalloc(Request(size, (size + alignment + PTR) % UINTPTR_MOD,
                                  alignment, NULL))

(* kfree up to its loop, for a pointer p that kmalloc returned as raw.     *)
BeginKfree(p, raw) ==
    /\ hdr' = [hdr EXCEPT ![raw - HDR].is_free = TRUE]
    /\ live' = Without(live, p)
    /\ pc' = "kfree" /\ current' = heap_start /\ req' = NoRequest
    /\ UNCHANGED <<pool, heap_start>>

(* A caller gives back what it holds, an aligned pointer with              *)
(* kfree_aligned, which finds the raw one in front of it.                  *)
Kfree(p) ==
    /\ Idle /\ ~live[p].aligned
    /\ BeginKfree(p, p)

KfreeAligned(p) ==
    /\ Idle /\ live[p].aligned
    /\ BeginKfree(p, live[p].raw)

(* Mutant: absorbing the next block forgets that its header is free too.   *)
merge_without_header(a) ==
    LET b == hdr[a].next
    IN  Without([hdr EXCEPT ![a] = [size |-> hdr[a].size + hdr[b].size,
                                    is_free |-> TRUE, next |-> hdr[b].next]], b)

(* The headers after the free block a has absorbed the free block behind   *)
(* it, whose header is no longer one.                                      *)
merge(a) ==
    LET b == hdr[a].next
    IN  Without([hdr EXCEPT ![a] = [size |-> hdr[a].size + HDR + hdr[b].size,
                                    is_free |-> TRUE, next |-> hdr[b].next]], b)

Mergeable(a) == hdr[a].is_free /\ hdr[hdr[a].next].is_free

(* Mutant: the loop moves on after a merge, so the block behind the merged *)
(* pair is never looked at.                                                *)
CoalesceMergeOnce ==
    /\ pc = "kfree" /\ hdr[current].next # NULL
    /\ Mergeable(current)
    /\ hdr' = merge(current)
    /\ current' = IF hdr'[current].next = NULL THEN current ELSE hdr'[current].next
    /\ UNCHANGED <<pool, heap_start, live, pc, req>>

(* One iteration of kfree's loop: the pair at current is merged, and       *)
(* looked at again, or current moves on.                                   *)
CoalesceMerge ==
    /\ pc = "kfree" /\ hdr[current].next # NULL
    /\ Mergeable(current)
    /\ hdr' = merge(current)
    /\ UNCHANGED <<pool, heap_start, live, pc, current, req>>

(* Mutant: kfree stays at a pair it does not merge.                        *)
CoalesceStay ==
    /\ pc = "kfree" /\ hdr[current].next # NULL
    /\ ~Mergeable(current)
    /\ UNCHANGED vars

CoalesceAdvance ==
    /\ pc = "kfree" /\ hdr[current].next # NULL
    /\ ~Mergeable(current)
    /\ current' = hdr[current].next
    /\ UNCHANGED <<pool, heap_start, hdr, live, pc, req>>

CoalesceDone ==
    /\ pc = "kfree" /\ hdr[current].next = NULL
    /\ Return
    /\ UNCHANGED <<pool, heap_start, hdr, live>>

(* Mutant: krealloc moves a block that it could keep.                      *)
KreallocAlwaysMoves(p, new_size) ==
    /\ Idle
    /\ \/ p = NULL /\ Kmalloc(new_size)
       \/ p # NULL /\ ~live[p].aligned /\ BeginKmalloc(Request(new_size, new_size, 0, p))

(* krealloc of NULL, which is kmalloc, or of a pointer p that kmalloc      *)
(* returned: a size of 0 frees it, a size the block can hold changes       *)
(* nothing in the heap, and any other goes through kmalloc.                *)
Krealloc(p, new_size) ==
    /\ Idle
    /\ \/ p = NULL /\ Kmalloc(new_size)
       \/ /\ p # NULL /\ ~live[p].aligned
          /\ \/ new_size = 0 /\ BeginKfree(p, p)
             \/ /\ 0 < new_size /\ new_size <= hdr[p - HDR].size
                /\ live' = [live EXCEPT ![p].size = new_size]
                /\ UNCHANGED <<pool, heap_start, hdr, pc, current, req>>
             \/ /\ new_size > hdr[p - HDR].size
                /\ BeginKmalloc(Request(new_size, new_size, 0, p))

(* The rest of krealloc: header->size bytes are copied from the old block  *)
(* to the new, and kfree starts on the old one.                            *)
KreallocCopy ==
    /\ pc = "copy"
    /\ LET q == current + HDR
       IN  live' = With(Without(live, req.old), q, [size |-> req.size, raw |-> q,
                                                     aligned |-> FALSE])
    /\ hdr' = [hdr EXCEPT ![req.old - HDR].is_free = TRUE]
    /\ pc' = "kfree" /\ current' = heap_start /\ req' = NoRequest
    /\ UNCHANGED <<pool, heap_start>>

-----------------------------------------------------------------------------
(* What callers start, and what the call in progress does next.            *)
Call ==
    \/ HeapInitialize
    \/ \E n \in PoolRequests : OtherAlloc(n)
    \/ \E n \in Sizes : Kmalloc(n)
    \/ \E n \in Sizes, a \in Alignments : KmallocAligned(n, a)
    \/ \E p \in DOMAIN live : Kfree(p) \/ KfreeAligned(p)
    \/ \E p \in DOMAIN live \cup {NULL}, n \in Sizes : Krealloc(p, n)

Step ==
    \/ KmallocSkip \/ KmallocTake \/ KmallocFail
    \/ KreallocCopy
    \/ CoalesceMerge \/ CoalesceAdvance \/ CoalesceDone

Next == Call \/ Step

Spec == Init /\ [][Next]_vars

(* A call that has started keeps running: nothing can take the processor.  *)
FairSpec == Spec /\ WF_vars(Step)

-----------------------------------------------------------------------------
Header == [size : Nat, is_free : BOOLEAN, next : Nat]
Held   == [size : Nat \ {0}, raw : Nat, aligned : BOOLEAN]

(* Every variable of the heap has its type; the cursor of a loop is on the *)
(* list (or, in kmalloc, at its end), so kmalloc and kfree only ever read  *)
(* headers.                                                                *)
TypeOK ==
    /\ pool \in [next : Nat, limit : Nat]
    /\ heap_start \in Nat
    /\ DOMAIN hdr \subseteq Nat /\ \A a \in DOMAIN hdr : hdr[a] \in Header
    /\ DOMAIN live \subseteq Nat /\ \A p \in DOMAIN live : live[p] \in Held
    /\ pc \in {"idle", "kmalloc", "copy", "kfree"}
    /\ req \in [size : Nat, bytes : Nat, alignment : Nat, old : Nat]
    /\ current \in DOMAIN hdr \cup (IF pc \in {"idle", "kmalloc"} THEN {NULL} ELSE {})

BlockEnd(a) == a + HDR + hdr[a].size

(* The blocks on kmalloc's list tile the heap's page: the first header is  *)
(* at heap_start, each block ends where the next one starts, the last one  *)
(* ends with the page, and no two overlap, however blocks were split and   *)
(* merged.                                                                 *)
BlocksTile ==
    /\ heap_start # NULL <=> heap_start \in DOMAIN hdr
    /\ \A a \in DOMAIN hdr :
          /\ heap_start <= a /\ BlockEnd(a) <= heap_start + PAGE_SIZE
          /\ \/ hdr[a].next = NULL /\ BlockEnd(a) = heap_start + PAGE_SIZE
             \/ hdr[a].next \in DOMAIN hdr /\ BlockEnd(a) = hdr[a].next
    /\ \A a, b \in DOMAIN hdr : a < b => BlockEnd(a) <= b

BlockOf(p) == live[p].raw - HDR

(* Every pointer kmalloc, kmalloc_aligned or krealloc returned, and nobody *)
(* freed, has a block in use to itself, large enough for the bytes asked   *)
(* for and, if it is aligned, for the raw pointer kept in front of it; and *)
(* no block is in use without an owner.                                    *)
LiveOwnBlocks ==
    /\ \A p \in DOMAIN live :
          /\ BlockOf(p) \in DOMAIN hdr
          /\ ~hdr[BlockOf(p)].is_free
          /\ IF live[p].aligned THEN live[p].raw + PTR <= p ELSE p = live[p].raw
          /\ p + live[p].size <= BlockEnd(BlockOf(p))
    /\ \A p, q \in DOMAIN live : BlockOf(p) = BlockOf(q) => p = q
    /\ \A a \in DOMAIN hdr :
          \/ hdr[a].is_free
          \/ \E p \in DOMAIN live : BlockOf(p) = a
          \/ pc = "copy" /\ a = current

(* Between calls no two free blocks are neighbours, and kfree's loop has   *)
(* merged all of those it has passed: a single pass over the list, without *)
(* going back, is enough.                                                  *)
NoFreeNeighbours ==
    \A a \in DOMAIN hdr :
        (pc = "kfree" => a < current) /\ hdr[a].next # NULL =>
            ~(hdr[a].is_free /\ hdr[hdr[a].next].is_free)

(* When every pointer has been freed and no call is running, the heap is   *)
(* again the one free block that heap_initialize made.                     *)
AllFreedIsFresh ==
    Idle /\ DOMAIN live = {} /\ heap_start # NULL =>
        hdr = [a \in {heap_start} |-> [size |-> PAGE_SIZE - HDR,
                                       is_free |-> TRUE, next |-> NULL]]

(* kmalloc passes over no block that fits: it takes the lowest one, and    *)
(* when it gives up there is none in the whole heap.                       *)
FirstFit ==
    pc = "kmalloc" =>
        \A a \in DOMAIN hdr : current = NULL \/ a < current =>
            ~(hdr[a].is_free /\ hdr[a].size >= needed)

(* krealloc copies header->size bytes: the old block still is in use, and  *)
(* all it holds fits into the new one, a different block.                  *)
CopyFits ==
    pc = "copy" =>
        /\ req.old \in DOMAIN live
        /\ req.old - HDR # current
        /\ hdr[req.old - HDR].size <= hdr[current].size

(* heap_get_stats: the sums over the list.                                 *)
heap_get_stats ==
    LET sum(free) == MapThenSumSet(LAMBDA a : hdr[a].size,
                                   {a \in DOMAIN hdr : hdr[a].is_free = free})
    IN  [total |-> sum(FALSE) + sum(TRUE), used |-> sum(FALSE), free_mem |-> sum(TRUE)]

(* The total heap_get_stats reports is the page less one header per block, *)
(* and what it reports as used covers what the callers asked for.          *)
StatsAddUp ==
    heap_start # NULL =>
        /\ heap_get_stats.total + HDR * Cardinality(DOMAIN hdr) = PAGE_SIZE
        /\ heap_get_stats.used >= MapThenSumSet(LAMBDA p : live[p].size, DOMAIN live)

(* No step moves or resizes the block of a pointer that stays with its     *)
(* caller: splitting and coalescing touch free blocks only.                *)
OwnedBlocksUntouched ==
    [][\A p \in DOMAIN live \cap DOMAIN live' :
          live'[p].raw = live[p].raw /\ hdr'[BlockOf(p)].size = hdr[BlockOf(p)].size]_vars

(* Every call returns: kmalloc's walk ends, and so does kfree's loop,      *)
(* which does not advance when it merges.                                  *)
CallsReturn == pc # "idle" ~> pc = "idle"

(* The heap is an allocator: callers never get bytes that another caller   *)
(* holds, nor bytes outside the page pool.                                 *)
A == INSTANCE Allocator WITH
        Lo <- kernel_end, Hi <- pool_end,
        live <- [p \in DOMAIN live |-> live[p].size]
ImplementsAllocator == A!Spec
=============================================================================
