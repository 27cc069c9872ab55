CONSTANTS
    NUM_CACHES = 3
    NUM_TAGS = 2
    COHERENCE_CACHE_LINES = 1
    COHERENCE_DIR_ENTRIES = 1
    Line = {z, d1}
    ZeroLine = z
    NoData = null
    NUM_PAGES = 3
    PHYSICAL_MEMORY_PAGES = 2
    TLB_SIZE = 2
    UINT32 = 16
    MaxLookups = 4
    MaxDirect = 2
    DecodedBanks = {0, 1}
    BANKS = {0}
    Rows = {1, 2}
    tRCD = 1
    tRP = 1
    tRFC = 2
    tREFI = 12
    DRAM_REQ_QUEUE_SIZE = 2
    BATCH_AGE = 4
    MaxWait = 14
    INTERCONNECT_MAX_NODES = 16
    MeshWidths = {0, 1, 2, 3}
    Cores = {c1}
    Single = solo
    Configs <- MCConfigs
    CACHE_MAX_SETS = 4
    Addresses = {0, 2, 4, 8}
    MaxAccesses = 4
    PIPELINE_IMEM_SIZE = 8
    PIPELINE_DMEM_SIZE = 3
    Programs <- MCPrograms
    Memories <- MCMemories
    MaxCycles = 12
    Immediates <- MCImmediates
    PRED_BHT_SIZE = 4
    PRED_PHT_SIZE = 16
    PRED_BTB_SIZE = 4
    PRED_RAS_SIZE = 2
    HISTORY_BITS = 3
    TWO_LEVEL_SHIFT = 2
    PHT_COLS = 4
    TAG_BITS = 2
    THRESHOLD = 19
    PREFETCH_QUEUE_SIZE = 2
    LINE = 2
    Traces <- MCTraces
    WarmUp = 20
    MaxSteps = 24
    Calls = 4
    Strides = {2}
SPECIFICATION MemSpec
CHECK_DEADLOCK FALSE
INVARIANTS
    SingleWriter
    CopiesAreLatest
    DirectoryNamesOwner
    TranslationSound
    RoutesDeliver
    LevelsServe
    PipelineSequential
    PredictorsSound
