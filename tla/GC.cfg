CONSTANTS
    FTL_MAX_LBAS = 2
    NUM_BLOCKS = 3
    FTL_PAGES_PER_BLOCK = 2
    FTL_MAX_PHYSICAL_PAGES = 8
    Data = {z, d1}
    Zero = z
    Policy = "GREEDY"
    Threshold = 67
    MaxErases = 2
SPECIFICATION GCSpec
INVARIANTS
    GCSound
PROPERTIES
    VictimDrained
    CollectionPreservesData
    ReliableWithRoom
