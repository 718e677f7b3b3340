------------------------------ MODULE Liballoc ------------------------------
(***************************************************************************)
(* malloc, free, calloc and realloc of src/kernel/mem/liballoc.c.  Chunks  *)
(* of pages are cut into blocks, each behind a boundary tag that links it  *)
(* to the blocks it was split from (split_left, split_right) and, while it *)
(* is free, to the other free blocks of its size class (next, prev).       *)
(*                                                                         *)
(* The search of malloc and the two melting loops of free are one action   *)
(* per iteration.  liballoc_lock and liballoc_unlock do nothing (memory.c) *)
(* and nothing runs concurrently, so a call runs to its end (pc = "idle"). *)
(***************************************************************************)
EXTENDS Memory, Integers, FiniteSets, FiniteSetsExt, Functions

CONSTANTS
    UINT_MOD,      \* 2^32: tags keep sizes, and addresses, as unsigned int
    l_pageCount,   \* 16: the smallest chunk, in pages
    MINEXP,        \* 8: the first size class in use
    MAXEXP,        \* 32: the number of size classes
    MAXCOMPLETE,   \* 5: the free chunks kept per size class
    Sizes,         \* the sizes callers pass to malloc and realloc
    Counts,        \* the object counts callers pass to calloc
    PoolRequests,  \* the page counts other users of the pool ask for
    MaxLive        \* bound: the pointers held at one time

TAG == 48          \* sizeof(struct boundary_tag)
Classes == 0..(MAXEXP - 1)

ASSUME ClassAssumption ==
    /\ MINEXP \in Nat /\ MAXEXP \in Nat /\ MINEXP < MAXEXP /\ MAXCOMPLETE \in Nat
    /\ l_pageCount \in Nat \ {0}
(* The pool lies below 4 GiB, where a pointer survives the conversion to   *)
(* unsigned int.                                                           *)
ASSUME LowMemoryAssumption ==
    /\ UINT_MOD \in Nat /\ UINT_MOD <= UINTPTR_MOD
    /\ pool_end + l_pageCount * PAGE_SIZE < UINT_MOD
(* No caller asks for so much that a size or calloc's product, which is an *)
(* int, wraps around: malloc would then return too small a block.          *)
ASSUME SizeAssumption ==
    /\ Sizes \subseteq Nat /\ Counts \subseteq Nat
    /\ \A n \in Sizes, c \in Counts \cup {1} :
          c * n + 2 * TAG + PAGE_SIZE + pool_end < UINT_MOD \div 2
ASSUME PoolRequestAssumption ==
    /\ PoolRequests \subseteq Nat
    /\ \A n \in PoolRequests : pool_end + n * PAGE_SIZE < UINTPTR_MOD

VARIABLES
    pool,             \* g_next_page and g_page_limit
    l_initialized,
    l_completePages,  \* per class: how many of its free blocks are whole chunks
    arena,            \* the boundary tags by address, and l_freePages, the
                      \* first free block of each class
    live,             \* the pointers callers hold, with the size they asked for
    pc,               \* where the call in progress is
    tag,              \* the tag that call is at
    req               \* the arguments of the allocation in progress

vars == <<pool, l_initialized, l_completePages, arena, live, pc, tag, req>>

With(f, x, v) == [y \in DOMAIN f \cup {x} |-> IF y = x THEN v ELSE f[y]]
Without(f, x) == Restrict(f, DOMAIN f \ {x})

(* The size, whether calloc is to clear the block, and the pointer that    *)
(* realloc is to replace.                                                  *)
Request(size, clear, old) == [size |-> size, clear |-> clear, old |-> old]
NoRequest == Request(0, FALSE, NULL)

NoBlocks == [i \in Classes |-> NULL]
NoChunks == [i \in Classes |-> 0]

Init ==
    /\ pool = unset_pool
    /\ l_initialized = 0
    /\ l_completePages = NoChunks
    /\ arena = [tags |-> [a \in {} |-> NULL], l_freePages |-> NoBlocks]
    /\ live = [p \in {} |-> 0]
    /\ pc = "idle"
    /\ tag = NULL
    /\ req = NoRequest

Idle == pc = "idle"
Return == pc' = "idle" /\ tag' = NULL /\ req' = NoRequest
-----------------------------------------------------------------------------
(* The size class of a size: the largest power of two that is not above    *)
(* it, or -1 below the smallest class.                                     *)
getexp(size) ==
    IF size < 2^MINEXP
    THEN -1
    ELSE CHOOSE e \in MINEXP..(MAXEXP - 1) :
            2^e <= size /\ (e = MAXEXP - 1 \/ size < 2^(e + 1))

(* The list a block with that much room is kept on, and looked for on.     *)
class(size) == IF getexp(size) < MINEXP THEN MINEXP ELSE getexp(size)

(* Mutant: the old head of the list is not linked back to the new one.     *)
insert_tag_one_way(m, t, index) ==
    LET head   == m.l_freePages[index]
        linked == IF head = NULL THEN m ELSE [m EXCEPT !.tags[t].next = head]
    IN  [linked EXCEPT !.tags[t].index = index, !.l_freePages[index] = t]

(* Block t becomes the first on the list of its class.  When the list is   *)
(* empty t keeps the links it has.                                         *)
insert_tag(m, t, index) ==
    LET head   == m.l_freePages[index]
        linked == IF head = NULL THEN m
                  ELSE [m EXCEPT !.tags[head].prev = t, !.tags[t].next = head]
    IN  [linked EXCEPT !.tags[t].index = index, !.l_freePages[index] = t]

(* Block t leaves the list it is on.                                       *)
remove_tag(m, t) ==
    LET g    == m.tags[t]
        head == IF m.l_freePages[g.index] # t THEN m
                ELSE [m EXCEPT !.l_freePages[g.index] = g.next]
        left == IF g.prev = NULL THEN head
                ELSE [head EXCEPT !.tags[g.prev].next = g.next]
        both == IF g.next = NULL THEN left
                ELSE [left EXCEPT !.tags[g.next].prev = g.prev]
    IN  [both EXCEPT !.tags[t] = [g EXCEPT !.next = NULL, !.prev = NULL, !.index = -1]]

(* Block a takes in block b on its right, whose tag is then no longer one. *)
join(m, a, b) ==
    LET right == m.tags[b].split_right
        sum   == (m.tags[a].real_size + m.tags[b].real_size) % UINT_MOD
        grown == [m.tags EXCEPT ![a].real_size = sum, ![a].split_right = right]
        tied  == IF right = NULL THEN grown ELSE [grown EXCEPT ![right].split_left = a]
    IN  [m EXCEPT !.tags = Without(tied, b)]

melt_left(m, t)    == join(m, m.tags[t].split_left, t)
absorb_right(m, t) == LET b == m.tags[t].split_right IN join(remove_tag(m, b), t, b)

(* Mutant: the block on the right is not told of its new left neighbour.   *)
split_tag_untied(m, t) ==
    LET g       == m.tags[t]
        rest    == (g.real_size - TAG - g.size) % UINT_MOD
        new_tag == (t + TAG + g.size) % UINT_MOD
        cut     == [m.tags EXCEPT ![t].real_size = (g.real_size - rest) % UINT_MOD,
                                  ![t].split_right = new_tag]
        fresh   == [size |-> 0, real_size |-> rest, index |-> -1, split_left |-> t,
                    split_right |-> g.split_right, next |-> NULL, prev |-> NULL]
    IN  insert_tag([m EXCEPT !.tags = With(cut, new_tag, fresh)],
                   new_tag, class(rest - TAG))

(* Block t keeps its tag and t.size bytes; the rest becomes a free block,  *)
(* whose size nobody sets, or reads before malloc sets it.                 *)
split_tag(m, t) ==
    LET g       == m.tags[t]
        rest    == (g.real_size - TAG - g.size) % UINT_MOD
        new_tag == (t + TAG + g.size) % UINT_MOD
        cut     == [m.tags EXCEPT ![t].real_size = (g.real_size - rest) % UINT_MOD,
                                  ![t].split_right = new_tag]
        tied    == IF g.split_right = NULL THEN cut
                   ELSE [cut EXCEPT ![g.split_right].split_left = new_tag]
        fresh   == [size |-> 0, real_size |-> rest, index |-> -1, split_left |-> t,
                    split_right |-> g.split_right, next |-> NULL, prev |-> NULL]
    IN  insert_tag([m EXCEPT !.tags = With(tied, new_tag, fresh)],
                   new_tag, class(rest - TAG))

(* Mutant: the chunk is sized without its tag.                             *)
allocate_new_tag_tight(size) ==
    LET exact == (size \div PAGE_SIZE) + (IF size % PAGE_SIZE = 0 THEN 0 ELSE 1)
        pages == IF exact < l_pageCount THEN l_pageCount ELSE exact
        r     == memory_alloc_pages(pool, pages)
    IN  [pool |-> r.pool, tag |-> r.ptr,
         real_size |-> (pages * PAGE_SIZE) % UINT_MOD]

(* A chunk for size bytes, as a record of what liballoc_alloc left of the  *)
(* pool and the tag, which is NULL if the pool is short, with its pages.   *)
allocate_new_tag(size) ==
    LET usage == (size + TAG) % UINT_MOD
        exact == (usage \div PAGE_SIZE) + (IF usage % PAGE_SIZE = 0 THEN 0 ELSE 1)
        pages == IF exact < l_pageCount THEN l_pageCount ELSE exact
        r     == memory_alloc_pages(pool, pages)
    IN  [pool |-> r.pool, tag |-> r.ptr,
         real_size |-> (pages * PAGE_SIZE) % UINT_MOD]
-----------------------------------------------------------------------------
(* malloc up to its search, for the request r: the lists are set up the    *)
(* first time, and the search starts at the head of the list for the size. *)
BeginMalloc(r) ==
    /\ l_initialized' = 1
    /\ IF l_initialized = 0
       THEN /\ arena' = [arena EXCEPT !.l_freePages = NoBlocks]
            /\ l_completePages' = NoChunks
       ELSE UNCHANGED <<arena, l_completePages>>
    /\ pc' = "search"
    /\ tag' = arena'.l_freePages[class(r.size % UINT_MOD)]
    /\ req' = r
    /\ UNCHANGED <<pool, live>>

room(t) == arena.tags[t].real_size - TAG

(* Mutant: a block is taken that has no room for the size.                 *)
EnoughHalf(t) == 2 * room(t) >= req.size

(* The room a block must have: malloc asks for that of a second tag too.   *)
Enough(t) == room(t) >= (req.size + TAG) % UINTPTR_MOD

SearchSkip ==
    /\ pc = "search" /\ tag # NULL
    /\ ~Enough(tag)
    /\ tag' = arena.tags[tag].next
    /\ UNCHANGED <<pool, l_initialized, l_completePages, arena, live, pc, req>>

Whole(g) == g.split_left = NULL /\ g.split_right = NULL

(* The block t gets its size, and is split if a tag and at least the       *)
(* smallest class of bytes are left over.  remainder is unsigned, and      *)
(* looked at as an int.                                                    *)
trim(m, t) ==
    LET remainder == (m.tags[t].real_size - req.size - 2 * TAG) % UINT_MOD
        m1        == [m EXCEPT !.tags[t].size = req.size % UINT_MOD]
    IN  IF 0 < remainder /\ remainder < UINT_MOD \div 2 /\ getexp(remainder) >= 0
        THEN split_tag(m1, t)
        ELSE m1

(* The rest of a call once malloc has the block t (NULL: it has none).     *)
(* calloc and realloc go on with the pointer without looking at it.        *)
Deliver(t) ==
    IF req.clear \/ req.old # NULL
    THEN /\ pc' = IF req.clear THEN "clear" ELSE "copy"
         /\ tag' = t
         /\ UNCHANGED <<live, req>>
    ELSE /\ live' = IF t = NULL THEN live ELSE With(live, t + TAG, req.size)
         /\ Return

(* A free block with enough room leaves its list.                          *)
SearchTake ==
    /\ pc = "search" /\ tag # NULL
    /\ Enough(tag)
    /\ arena' = trim(remove_tag(arena, tag), tag)
    /\ l_completePages' = IF Whole(arena.tags[tag])
                          THEN [l_completePages EXCEPT ![class(req.size % UINT_MOD)] = @ - 1]
                          ELSE l_completePages
    /\ Deliver(tag)
    /\ UNCHANGED <<pool, l_initialized>>

(* The list ends: malloc makes a new chunk, or returns NULL.               *)
SearchEnd ==
    /\ pc = "search" /\ tag = NULL
    /\ LET c     == allocate_new_tag(req.size % UINT_MOD)
           fresh == [size |-> req.size % UINT_MOD, real_size |-> c.real_size,
                     index |-> -1, split_left |-> NULL, split_right |-> NULL,
                     next |-> NULL, prev |-> NULL]
       IN  /\ pool' = c.pool
           /\ arena' = IF c.tag = NULL THEN arena
                       ELSE trim([arena EXCEPT !.tags = With(@, c.tag, fresh)], c.tag)
           /\ Deliver(c.tag)
    /\ UNCHANGED <<l_initialized, l_completePages>>
-----------------------------------------------------------------------------
(* free up to its loops, for the pointer p.  The magic number is not       *)
(* modelled: callers free what they hold, and its tag always has it.       *)
BeginFree(p) ==
    /\ pc' = "melt_left" /\ tag' = p - TAG /\ req' = NoRequest
    /\ UNCHANGED <<pool, l_initialized, l_completePages, arena>>

IsFree(t) == t # NULL /\ arena.tags[t].index >= 0

(* The block melts into the free block on its left, which leaves its list. *)
MeltLeft ==
    /\ pc = "melt_left" /\ IsFree(arena.tags[tag].split_left)
    /\ tag' = arena.tags[tag].split_left
    /\ arena' = remove_tag(melt_left(arena, tag), tag')
    /\ UNCHANGED <<pool, l_initialized, l_completePages, live, pc, req>>

(* Mutant: a free block on the left is left alone.                         *)
MeltLeftNever ==
    /\ pc = "melt_left"
    /\ pc' = "melt_right"
    /\ UNCHANGED <<pool, l_initialized, l_completePages, arena, live, tag, req>>

MeltLeftDone ==
    /\ pc = "melt_left" /\ ~IsFree(arena.tags[tag].split_left)
    /\ pc' = "melt_right"
    /\ UNCHANGED <<pool, l_initialized, l_completePages, arena, live, tag, req>>

(* Mutant: melting to the right never ends.                                *)
AbsorbRightStays ==
    /\ pc = "melt_right" /\ IsFree(arena.tags[tag].split_right)
    /\ UNCHANGED vars

(* The block takes in the free block on its right.                         *)
AbsorbRight ==
    /\ pc = "melt_right" /\ IsFree(arena.tags[tag].split_right)
    /\ arena' = absorb_right(arena, tag)
    /\ UNCHANGED <<pool, l_initialized, l_completePages, live, pc, tag, req>>

Surplus == Whole(arena.tags[tag]) /\ l_completePages[class(room(tag))] = MAXCOMPLETE

(* The block goes to the list of its class; a whole chunk is counted there.*)
FreeList ==
    /\ pc = "melt_right" /\ ~IsFree(arena.tags[tag].split_right)
    /\ ~Surplus
    /\ arena' = insert_tag(arena, tag, class(room(tag)))
    /\ l_completePages' = IF Whole(arena.tags[tag])
                          THEN [l_completePages EXCEPT ![class(room(tag))] = @ + 1]
                          ELSE l_completePages
    /\ Return
    /\ UNCHANGED <<pool, l_initialized, live>>

(* Enough whole chunks of the class are standing by: liballoc_free gets    *)
(* this one, and does nothing with it, so its pages are lost.              *)
FreeChunk ==
    /\ pc = "melt_right" /\ ~IsFree(arena.tags[tag].split_right)
    /\ Surplus
    /\ arena' = [arena EXCEPT !.tags = Without(@, tag)]
    /\ Return
    /\ UNCHANGED <<pool, l_initialized, l_completePages, live>>
-----------------------------------------------------------------------------
(* What callers may start between calls.                                   *)
MayAsk == Idle /\ Cardinality(DOMAIN live) < MaxLive

Malloc(size) == MayAsk /\ BeginMalloc(Request(size, FALSE, NULL))

(* The product is an int: negative from half of UINT_MOD on, and malloc    *)
(* then sees it sign-extended.                                             *)
Calloc(nobj, size) ==
    LET real_size == (nobj * size) % UINT_MOD
        extended  == IF real_size < UINT_MOD \div 2 THEN real_size
                     ELSE (UINTPTR_MOD - UINT_MOD) + real_size
    IN  MayAsk /\ BeginMalloc(Request(extended, TRUE, NULL))

Free(p) ==
    /\ Idle
    /\ live' = Without(live, p)
    /\ BeginFree(p)

(* A size of 0 frees p (free does nothing with NULL), NULL is allocated    *)
(* for, and anything else is moved to a new block, even if it would fit.   *)
Realloc(p, size) ==
    /\ Idle
    /\ \/ size = 0 /\ p # NULL /\ Free(p)
       \/ size # 0 /\ p = NULL /\ Malloc(size)
       \/ size # 0 /\ p # NULL /\ BeginMalloc(Request(size, FALSE, p))

(* realloc copies to malloc's pointer, NULL or not, and frees the old one. *)
ReallocCopy ==
    /\ pc = "copy"
    /\ live' = LET kept == Without(live, req.old)
               IN  IF tag = NULL THEN kept ELSE With(kept, tag + TAG, req.size)
    /\ BeginFree(req.old)

(* calloc clears what malloc returned, NULL or not, and returns it.        *)
CallocClear ==
    /\ pc = "clear"
    /\ live' = IF tag = NULL THEN live ELSE With(live, tag + TAG, req.size)
    /\ Return
    /\ UNCHANGED <<pool, l_initialized, l_completePages, arena>>

OtherAlloc(n) ==
    /\ Idle
    /\ pool' = memory_alloc_pages(pool, n).pool
    /\ UNCHANGED <<l_initialized, l_completePages, arena, live, pc, tag, req>>

Call ==
    \/ \E n \in PoolRequests : OtherAlloc(n)
    \/ \E n \in Sizes : Malloc(n)
    \/ \E c \in Counts, n \in Sizes : Calloc(c, n)
    \/ \E p \in DOMAIN live : Free(p)
    \/ \E p \in DOMAIN live \cup {NULL}, n \in Sizes : Realloc(p, n)

Step ==
    \/ SearchSkip \/ SearchTake \/ SearchEnd
    \/ ReallocCopy \/ CallocClear
    \/ MeltLeft \/ MeltLeftDone \/ AbsorbRight \/ FreeList \/ FreeChunk

Next == Call \/ Step

Spec == Init /\ [][Next]_vars

(* A call that has started keeps running: nothing can take the processor.  *)
FairSpec == Spec /\ WF_vars(Step)
-----------------------------------------------------------------------------
Tag == [size : Nat, real_size : Nat, index : {-1} \cup (MINEXP..(MAXEXP - 1)),
        split_left : Nat, split_right : Nat, next : Nat, prev : Nat]

tags == arena.tags
l_freePages == arena.l_freePages

(* Every variable has its type; no loop ever follows a pointer to          *)
(* something that is not a boundary tag.                                   *)
TypeOK ==
    /\ pool \in [next : Nat, limit : Nat]
    /\ l_initialized \in {0, 1}
    /\ l_completePages \in [Classes -> 0..MAXCOMPLETE]
    /\ DOMAIN tags \subseteq Nat /\ \A t \in DOMAIN tags : tags[t] \in Tag
    /\ l_freePages \in [Classes -> DOMAIN tags \cup {NULL}]
    /\ DOMAIN live \subseteq Nat /\ \A p \in DOMAIN live : live[p] \in Nat
    /\ pc \in {"idle", "search", "copy", "clear", "melt_left", "melt_right"}
    /\ tag \in DOMAIN tags \cup (IF pc \in {"melt_left", "melt_right"} THEN {} ELSE {NULL})
    /\ req \in [size : Nat, clear : BOOLEAN, old : Nat]

TagEnd(t) == t + tags[t].real_size

OnPage(a) == (a - kernel_end) % PAGE_SIZE = 0

(* Splitting and melting lose no byte and give none away twice: the blocks *)
(* lie in pages the pool has granted and do not overlap; each one ends     *)
(* where its right neighbour starts, and neighbours know each other; and   *)
(* where there is no neighbour a chunk of whole pages starts or ends.      *)
TagsTile ==
    /\ \A t \in DOMAIN tags :
          LET l == tags[t].split_left
              r == tags[t].split_right
          IN  /\ kernel_end <= t /\ TagEnd(t) <= pool.next
              /\ tags[t].real_size >= TAG
              /\ IF r = NULL THEN OnPage(TagEnd(t))
                 ELSE r \in DOMAIN tags /\ r = TagEnd(t) /\ tags[r].split_left = t
              /\ IF l = NULL THEN OnPage(t)
                 ELSE l \in DOMAIN tags /\ tags[l].split_right = t
    /\ \A t, u \in DOMAIN tags : t < u => TagEnd(t) <= u

BlockOf(p) == p - TAG

(* Every pointer that malloc, calloc or realloc returned and nobody freed  *)
(* has a block to itself, on no free list and with room for the bytes      *)
(* asked for; and every block is on a free list, or held, or the one that  *)
(* the call in progress is working on.                                     *)
LiveOwnTags ==
    /\ \A p \in DOMAIN live :
          /\ BlockOf(p) \in DOMAIN tags
          /\ tags[BlockOf(p)].index = -1
          /\ p + live[p] <= TagEnd(BlockOf(p))
    /\ \A t \in DOMAIN tags :
          \/ tags[t].index # -1
          \/ t + TAG \in DOMAIN live
          \/ pc \in {"copy", "clear", "melt_left", "melt_right"} /\ t = tag

(* The blocks that a walk along the list of class i passes: those in every *)
(* set that has the first one and, with each one, the next.                *)
OnList(i) ==
    LET Passed == {S \in SUBSET DOMAIN tags :
                      /\ l_freePages[i] # NULL => l_freePages[i] \in S
                      /\ \A t \in S : tags[t].next # NULL => tags[t].next \in S}
    IN  {t \in DOMAIN tags : \A S \in Passed : t \in S}

(* The counts that decide which chunks are given back to the pool are the  *)
(* numbers of whole chunks on the lists.                                   *)
CompletePagesCount ==
    \A i \in Classes :
        l_completePages[i] = Cardinality({t \in DOMAIN tags :
                                            tags[t].index = i /\ Whole(tags[t])})

(* The list of each class holds exactly the free blocks of that class, as  *)
(* large as the class says, doubly linked; a block that is not free has no *)
(* links left (insert_tag relies on that: it clears none); and the counts  *)
(* of whole chunks are those of the lists.                                 *)
ListsSound ==
    /\ TypeOK /\ CompletePagesCount
    /\ \A i \in MINEXP..(MAXEXP - 1) : OnList(i) = {t \in DOMAIN tags : tags[t].index = i}
    /\ \A t \in DOMAIN tags :
          LET g == tags[t]
          IN  IF g.index = -1
              THEN g.next = NULL /\ g.prev = NULL
              ELSE /\ g.index = class(g.real_size - TAG)
                   /\ g.next # NULL => tags[g.next].prev = t
                   /\ IF g.prev = NULL THEN l_freePages[g.index] = t
                      ELSE tags[g.prev].next = t

(* No two neighbours are both free: the two loops of free melt all that    *)
(* can be melted, however far it reaches.                                  *)
NoFreeNeighbours ==
    \A t \in DOMAIN tags :
        tags[t].index # -1 /\ tags[t].split_right # NULL =>
            tags[tags[t].split_right].index = -1

(* Every call returns: the search ends, and so do both melting loops.      *)
CallsReturn == pc # "idle" ~> pc = "idle"

(* malloc and free are an allocator: callers never get bytes that another  *)
(* caller holds, nor bytes outside the page pool.                          *)
A == INSTANCE Allocator WITH Lo <- kernel_end, Hi <- pool_end
ImplementsAllocator == A!Spec
-----------------------------------------------------------------------------
(* What the source says and the code does not do.                          *)

(* malloc means to "find one big enough" and to return NULL when "we ran   *)
(* out of memory": it returns NULL only if no free block has the room that *)
(* it asks for.                                                            *)
NullOnlyOutOfMemory ==
    pc = "search" /\ tag = NULL /\ allocate_new_tag(req.size % UINT_MOD).tag = NULL =>
        \A t \in DOMAIN tags : tags[t].index # -1 => ~Enough(t)

=============================================================================
