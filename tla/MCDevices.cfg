CONSTANTS
    NUM_SMS = 2
    MAX_GRIDS = 2
    MAX_BLOCKS = 3
    MAX_WARPS_PER_BLOCK = 2
    BLOCKS_PER_SM = 2
    MaxReports = 2
    Schedulers = {s1, s2}
    Warps = {w0, w1}
    QUEUE_ENTRIES = 3
    MaxEnqueued = 3
    NIC_MAX_DESCRIPTORS = 3
    RDMA_CQ_DEPTH = 2
    RDMA_MAX_QP = 2
    Lengths = {2, 3}
    MaxPosted = 5
    RATE = 2
    MAX_BUCKET = 3
    MaxTime = 3
    MaxPackets = 3
    STAGES = 2
    PCRs = {0, 1}
    MAX_EVENTS = 7
    Keys = {0}
    BootPolicy = {"ENFORCE", "VERIFY"}
    Chains <- MCChains
    Setups <- MCSetups
    Masks <- MCMasks
    MaxExtends = 3
    MaxLives = 2
    MAX_ENCLAVES = 3
    Identities <- MCIdentities
    ATTRIBUTE_RANGE = 65536
    MaxSurplus = 1
SPECIFICATION DevSpec
CHECK_DEADLOCK FALSE
INVARIANTS
    BlocksSound
    WarpsSound
    TrafficSound
    BootMeasured
    EnclavesHold
