CONSTANTS
    MAX_RS = 2
    MAX_ROB = 3
    MAX_REGISTERS = 3
    MaxIssued = 4
    Instructions <- MCInstructions
    Buses <- MCBuses
    LevelGeometries <- MCLevelGeometries
    LevelAddresses = {0, 4, 8}
    MaxLevelAccesses = 4
    TLB_ENTRIES = 2
    num_entries = 2
    MmuFrames = {f1, f2}
    GlobalPages = {7, 8}
    MaxMmuCalls = 5
    CtrlAddresses <- MCCtrlAddresses
    queue_capacity = 3
    MaxCtrlRequests = 4
    InOrderPrograms <- MCInOrderPrograms
    MEMORY_SIZE = 28
    DataAt <- MCDataAt
    MaxInOrderCycles = 8
    MAX_ROB_ENTRIES = 4
    SuperPrograms <- MCSuperPrograms
    SuperRegisters = {0, 1, 2, 3, 4}
    SuperMemory <- MCSuperMemory
    MaxSuperSteps = 7
    PortWrites <- MCPortWrites
SPECIFICATION ProcSpec
CHECK_DEADLOCK FALSE
INVARIANTS
    ResultsInProgramOrder
    SnoopSound
    MemorySystemSound
    PipelinesInterpret
PROPERTIES
    AllCommitted
    GlobalsStay
