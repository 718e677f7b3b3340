------------------------------ MODULE PagePool ------------------------------
(***************************************************************************)
(* The page pool of src/kernel/mem/memory.c as a state machine: the        *)
(* globals, and its callers.  memory_init, memory_alloc_pages (directly or *)
(* through liballoc's hook liballoc_alloc), allocate_physical_frame and    *)
(* memory_free_pages (through liballoc_free) are one action each.  The     *)
(* kernel runs on one processor with interrupts disabled, so every call is *)
(* one step.                                                               *)
(***************************************************************************)
EXTENDS Memory, Sequences

CONSTANT Requests   \* the page counts that callers ask for

(* No caller asks for so many pages that start + pages * PAGE_SIZE wraps:  *)
(* liballoc asks for at most 2^20 (a 32-bit byte count), all others for 1. *)
ASSUME RequestAssumption ==
    /\ Requests \subseteq Nat
    /\ \A n \in Requests \cup {1} : pool_end + n * PAGE_SIZE < UINTPTR_MOD

VARIABLES
    pool,     \* g_next_page and g_page_limit
    grants,   \* history: the ranges returned to callers, in order
    granted,  \* history: the number of pages in those ranges
    held,     \* history: the indices of the grants not given back yet
    refused,  \* history: the page count of the last call if it got NULL, or 0
    halted    \* allocate_physical_frame is in its cli; hlt loop

vars == <<pool, grants, granted, held, refused, halted>>

Init ==
    /\ pool = unset_pool
    /\ grants = <<>>
    /\ granted = 0
    /\ held = {}
    /\ refused = 0
    /\ halted = FALSE

-----------------------------------------------------------------------------
(* Mutant: memory_init called again after pages were handed out.           *)
MemoryInitAgain ==
    /\ ~halted
    /\ pool' = memory_init
    /\ UNCHANGED <<grants, granted, held, refused, halted>>

(* kernel_main calls memory_init once, before anything allocates.          *)
MemoryInit ==
    /\ ~halted
    /\ pool = unset_pool
    /\ pool' = memory_init
    /\ UNCHANGED <<grants, granted, held, refused, halted>>

(* The outcome of an allocation of n pages, recorded in the history.       *)
Record(n, r) ==
    /\ pool' = r.pool
    /\ IF r.ptr = NULL
       THEN /\ refused' = n
            /\ UNCHANGED <<grants, granted, held>>
       ELSE /\ refused' = 0
            /\ grants' = Append(grants, [ptr |-> r.ptr, pages |-> n])
            /\ granted' = granted + n
            /\ held' = held \cup {Len(grants) + 1}

(* memory_alloc_pages(n), and liballoc_alloc(n), which only calls it.      *)
AllocPages(n) ==
    /\ ~halted
    /\ Record(n, memory_alloc_pages(pool, n))
    /\ UNCHANGED halted

(* allocate_physical_frame: one page, or a halt when there is none.        *)
AllocFrame ==
    /\ ~halted
    /\ LET r == memory_alloc_pages(pool, 1)
       IN  /\ Record(1, r)
           /\ halted' = (r.ptr = NULL)

(* memory_free_pages, and liballoc_free, which calls it and reports        *)
(* success: the globals stay as they are.                                  *)
FreePages(i) ==
    /\ ~halted
    /\ held' = held \ {i}
    /\ refused' = 0
    /\ UNCHANGED <<pool, grants, granted, halted>>

Next ==
    \/ MemoryInit
    \/ \E n \in Requests : AllocPages(n)
    \/ AllocFrame
    \/ \E i \in held : FreePages(i)

Spec == Init /\ [][Next]_vars

-----------------------------------------------------------------------------
Grant == [ptr : Nat, pages : Nat \ {0}]

(* Every variable of the page pool has its type.                           *)
TypeOK ==
    /\ pool \in [next : Nat, limit : Nat]
    /\ grants \in Seq(Grant)
    /\ granted \in Nat
    /\ held \subseteq DOMAIN grants
    /\ refused \in Nat
    /\ halted \in BOOLEAN

EndOf(i) == grants[i].ptr + grants[i].pages * PAGE_SIZE

(* Whatever the callers do, the ranges memory_alloc_pages has returned lie *)
(* in the pool behind the kernel image and no two of them overlap, the     *)
(* ones that were given back included.                                     *)
GrantsDisjoint ==
    /\ \A i \in DOMAIN grants : kernel_end <= grants[i].ptr /\ EndOf(i) <= pool_end
    /\ \A i, j \in DOMAIN grants : i < j => EndOf(i) <= grants[j].ptr

(* memory_alloc_pages and allocate_physical_frame refuse a request only if *)
(* it exceeds the pages that were never handed out: no page of the pool is *)
(* lost to rounding, to a refused request or to the late memory_init.      *)
RefusedOnlyWhenShort ==
    refused > 0 => granted + refused > POOL_PAGES

(* allocate_physical_frame stops the machine only once every page of the   *)
(* pool has been handed out.                                               *)
HaltOnlyWhenExhausted == halted => granted = POOL_PAGES

=============================================================================
