CONSTANTS
    SWITCH_MAX_PORTS = 3
    NUM_PORTS = 2
    SWITCH_MAC_TABLE_SIZE = 2
    Macs = {m1, m2}
    QosClasses <- MCQosClasses
    QOS_DEFAULT_MTU = 4
    Dscps = {1, 2}
    PacketSizes = {2, 7}
    MaxServed = 3
    LineBytes = {0, 1, 15, 28, 31, 47, 63, 227, 255}
    ScramblerWidth = 4
    ScramblerTaps = {0, 1}
    Seeds = {1, 6}
    WordBits = 3
    WordMask = 5
    NS_PER_SECOND = 3
    MaxTime = 7
    Offsets = {0, 2, 4}
    CycleTime = 3
    ETHERNET_MTU = 2
    ByteBits = 2
    CrcWidth = 3
    CrcTaps = {2, 3}
    SegmentSizes = {1, 2, 3}
    PCIE_TLP_MAX_DATA = 2
    ConfigBytes = 7
    Lanes = {0, 1, 2}
    DIV_STACK = 2
    LaneMasks = {{}, {0}}
    MaxIssued = 2
    SM_WARPS = 3
    SM_REGISTERS = 7
    SM_SHARED = 3
    SM_MAX_THREADS_PER_BLOCK = 6
    SM_REGISTERS_PER_THREAD_MAX = 2
    SM_MAX_THREAD_BLOCKS = 4
    MaxKernels = 1
    MaxSmCycles = 6
    WarpSize = 2
    Granularity = 4
    BlockShapes <- MCBlockShapes
    SIMD_LANES = 4
    PushedMasks = {{}, {2}}
    IndexRange = {0, 1}
    MASK_STACK = 1
    CACHE_NUM_SETS = 2
    CACHE_ASSOC = 2
    Lines = {0, 2, 4, 1}
    TLB_ENTRIES = 2
    Pages = {1, 2, 3}
    MaxAccesses = 4
    MEM_MAX_PENDING = 3
    SMEM_NUM_BANKS = 6
    SMEM_BANK_WIDTH = 4
    CachelineSize = 8
    SMEM_WORDS = 8
    SharedWords = {0, 6, 7, 8}
    Latencies = {1, 3}
    MaxCycle = 4
    NumSms = 2
    Durations = {1, 2, 3}
    MaxTasks = 5
    PufBits = {1, 2}
    ReadingCounts = {3, 4, 28, 29}
    KEY_SLOTS = 1
    COUNTER_COUNT = 1
    COUNTER_MAX = 2
    ProvisionedKeys = {"k1", "k2"}
    MAX_REGIONS = 2
    LINE_SIZE = 2
    RegionShapes <- MCRegionShapes
    LineAddresses = {0, 2, 4}
    LineData = {"x"}
    REPLAY_SLOTS = 4
    MaxClaim = 3
    MAX_SPARSE_ENTRIES = 7
    BCSR_BLOCK_SIZE = 2
    ELL_WIDTH = 2
    SparseMatrices <- MCSparseMatrices
    Vectors <- MCVectors
    Weights <- MCWeights
    Fills <- MCFills
    Shapes <- MCShapes
    Tile = 4
    TileRange = {8, 16, 24, 32}
    IntMax = 2
    SIZE = 3
    MAX_SYSTOLIC_SIZE = 4
    Leftovers = {0, 7}
    WeightSets <- MCWeightSets
    Activations <- MCActivations
    MaxCycles = 5
    UB_SIZE = 20
    ALIGNMENT = 4
    AllocSizes = {0, 1, 4, 6}
    Regions = {"a", "b", "c"}
    Instructions <- MCInstructions
    MaxFed = 6
    MAX_KV_CACHE_LEN = 3
    MaxTokens = 8
SPECIFICATION AccelSpec
CHECK_DEADLOCK FALSE
INVARIANTS
    LinksHold
    GpuHolds
    TrustSound
    TensorsHold
