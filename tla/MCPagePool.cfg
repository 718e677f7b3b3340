SPECIFICATION Spec
CONSTANTS
    PAGE_SIZE = 4
    POOL_PAGES = 6
    END = 9
    UINTPTR_MOD = 256
    Requests <- MCRequests
INVARIANTS
    GrantsDisjoint
    RefusedOnlyWhenShort
\* After allocate_physical_frame has halted the machine nothing runs.
CHECK_DEADLOCK FALSE
