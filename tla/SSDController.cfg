CONSTANTS
    FTL_MAX_LBAS = 2
    NUM_BLOCKS = 1
    FTL_PAGES_PER_BLOCK = 2
    FTL_MAX_PHYSICAL_PAGES = 4
    Data = {z, d1}
    Zero = z
    SSDC_CHANNELS = 2
    SSDC_QUEUE_DEPTH = 2
    MaxCommands = 4
SPECIFICATION SSDSpec
INVARIANTS
    SSDSound
PROPERTIES
    BatchAnswered
