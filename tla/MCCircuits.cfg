CONSTANTS
    FSM_MAX_STATES = 6
    FSM_MAX_TRANSITIONS = 2
    Alphabet = {1, 2}
    Patterns <- MCPatterns
    MaxHeard = 5
    MaxStates = 2
    RegWidth = 3
    CounterBits = 3
    BUS_MASTERS = 3
    TdmaSlots = {2, 3, 4}
    DcSets = 1
    DcWays = 2
    DcLineSize = 2
    DcAddresses = {0, 1, 2, 5}
    DcValues = {1, 2}
    DtlbEntries = 2
    Vpns = {1, 2}
    Ppns = {7, 8}
    MaxBusCycles = 4
    MaxDcAccesses = 4
    GateTypes = {"AND", "OR", "NAND", "NOR", "XOR", "XNOR", "NOT", "BUF"}
    GATE_NET_MAX_GATES = 3
    NetWires = 5
    GateMenu <- MCGateMenu
    Width = 4
    TIMING_MAX_NODES = 3
    TIMING_MAX_PATHS = 3
    TimingArcs <- MCTimingArcs
    Periods = {2, 4}
    Setup = 1
    Hold = 2
    NumVars = 3
    BA_MAX_TERMS = 8
    MaxDepth = 3
    TermMenu <- MCTermMenu
    MaxTerms = 3
    RS_K = 3
    RS_T = 1
    RsSymbols <- MCRsSymbols
    LDPC_MAX_ITER = 3
    LdpcShape <- MCLdpcShape
    LdpcInfos <- MCLdpcInfos
    Reliabilities <- MCReliabilities
    MaxFlips = 2
    NVME_QUEUE_DEPTH = 3
    NVME_MAX_IO_QUEUES = 3
    PRP_ENTRIES = 2
    MaxCommands = 4
    Bursts = {0, 1, 3}
    Weights = {0, 2}
    MaxTurns = 5
    QosCredits <- MCQosCredits
    IdleTimes = {0, 200000, 2000000, 20000000}
    Temperatures = {35, 70, 75, 85}
    GcPages = 20
    GcBlocks <- MCGcBlocks
    MaxChoices = 6
SPECIFICATION CircSpec
CHECK_DEADLOCK FALSE
INVARIANTS
    
    ClockedSound
    CombinationalHolds
    StorageQueuesSound
