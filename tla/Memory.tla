------------------------------- MODULE Memory -------------------------------
(***************************************************************************)
(* The boot-time page pool of src/kernel/mem/memory.c, as operators on its *)
(* two globals.  The pool is a bump allocator: [next |-> g_next_page,      *)
(* limit |-> g_page_limit].  Every allocator of the kernel (heap.c,        *)
(* liballoc.c, allocate_physical_frame) draws from it, so the modules of   *)
(* those allocators extend this one.                                       *)
(*                                                                         *)
(* Addresses are natural numbers; uintptr_t and size_t arithmetic is taken *)
(* modulo UINTPTR_MOD (2^64 in the build).                                 *)
(***************************************************************************)
EXTENDS Naturals

CONSTANTS
    PAGE_SIZE,    \* 4096 (memory.h)
    POOL_PAGES,   \* 1024: the pages memory_init puts in the pool
    END,          \* the address of the linker symbol __end
    UINTPTR_MOD   \* 2^64: where uintptr_t and size_t wrap around

ASSUME PageAssumption == PAGE_SIZE \in Nat \ {0}
ASSUME PoolAssumption == POOL_PAGES \in Nat \ {0} /\ END \in Nat \ {0}
(* The kernel and its 4 MiB pool lie at the bottom of the address space.   *)
ASSUME SpaceAssumption ==
    /\ UINTPTR_MOD \in Nat
    /\ END + PAGE_SIZE + POOL_PAGES * PAGE_SIZE < UINTPTR_MOD

NULL == 0

(* (value + mask) & ~mask for a power of two; 0 asks for no alignment.     *)
align_up(value, alignment) ==
    IF alignment = 0
    THEN value
    ELSE LET v == (value + (alignment - 1)) % UINTPTR_MOD
         IN  v - (v % alignment)

kernel_end == align_up(END, PAGE_SIZE)
pool_end   == kernel_end + POOL_PAGES * PAGE_SIZE

(* The globals before any call, and as memory_init leaves them.            *)
unset_pool  == [next |-> 0, limit |-> 0]
memory_init == [next |-> kernel_end, limit |-> pool_end]

(* Mutant of memory_alloc_pages: the last page of the pool is never given  *)
(* out.                                                                    *)
alloc_pages_off_by_one(g, pages) ==
    LET ready == IF g.next = 0 THEN memory_init ELSE g
        end   == (ready.next + (pages * PAGE_SIZE)) % UINTPTR_MOD
    IN  IF pages = 0 \/ end >= ready.limit
        THEN [pool |-> ready, ptr |-> NULL]
        ELSE [pool |-> [ready EXCEPT !.next = end], ptr |-> ready.next]

(***************************************************************************)
(* memory_alloc_pages(pages) on the globals g: it runs memory_init if      *)
(* nobody has, refuses zero pages and whatever ends beyond the limit, and  *)
(* otherwise bumps g_next_page.  The result is the globals it leaves and   *)
(* the pointer it returns.                                                 *)
(***************************************************************************)
memory_alloc_pages(g, pages) ==
    LET ready == IF g.next = 0 THEN memory_init ELSE g
        end   == (ready.next + (pages * PAGE_SIZE)) % UINTPTR_MOD
    IN  IF pages = 0 \/ end > ready.limit
        THEN [pool |-> ready, ptr |-> NULL]
        ELSE [pool |-> [ready EXCEPT !.next = end], ptr |-> ready.next]
=============================================================================
