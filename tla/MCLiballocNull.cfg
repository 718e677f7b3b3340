SPECIFICATION Spec
CONSTANTS
    PAGE_SIZE = 512
    POOL_PAGES = 4
    END = 300
    UINTPTR_MOD = 131072
    UINT_MOD = 65536
    l_pageCount = 2
    MINEXP = 8
    MAXEXP = 12
    MAXCOMPLETE = 1
    MaxLive = 2
    Sizes <- MCSizes
    Counts <- MCCounts
    PoolRequests <- MCPoolRequests
INVARIANTS
    NullOnlyOutOfMemory
