SPECIFICATION FairSpec
CONSTANTS
    PAGE_SIZE = 16
    POOL_PAGES = 8
    END = 200
    UINTPTR_MOD = 16777216
    ENTRIES = 8
    page_table_l4 = 32
    IDENTITY_TABLES = 8
    BYTE = 8
    DEVICES = 2
    FUNCTIONS = 2
    PCIE_MAX_DEVICES = 10
    FIRST_VECTOR = 64
    END_VECTOR = 68
    MAX_CAPABILITIES = 4
    MSIX_ENTRY = 4
    Machines <- MCMachines
    OCTET = 8
    INTERRUPTS <- MCInterrupts
    x86_64_ISR_ASM <- MCStubs
    g_TSS = 300000
    Strikes <- MCStrikes
    MaxStrikes = 1
    multiboot_addr = 208
    Infos <- MCInfos
    Cpus <- MCCpus
    l_pageCount = 3
    Masked = {128}
    Resources <- MCResources
    MaxRanges = 6
INVARIANTS
    TagsFound
    InfoReadBeforeReused
    IdentityKept
    EcamTranslates
    BarsRestored
    BarsRight
    RangesDisjoint
    WritesMissKernel
    VectorsSound
    EveryFunctionRecorded
    DescriptorsServe
PROPERTIES
    BootEnds
\* The boot checks may halt the machine.
CHECK_DEADLOCK FALSE
