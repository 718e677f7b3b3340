SPECIFICATION FairSpec
CONSTANTS
    PAGE_SIZE = 256
    POOL_PAGES = 2
    END = 200
    UINTPTR_MOD = 65536
    UINT_MOD = 4096
    MaxLive = 4
    Sizes <- MCSizes
    Alignments <- MCAlignments
    PoolRequests <- MCPoolRequests
INVARIANTS
    BlocksTile
    LiveOwnBlocks
    NoFreeNeighbours
    FirstFit
    CopyFits
    StatsAddUp
PROPERTIES
    CallsReturn
    ImplementsAllocator
