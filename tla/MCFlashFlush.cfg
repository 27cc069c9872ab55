CONSTANTS
    FTL_MAX_LBAS = 2
    NUM_BLOCKS = 2
    FTL_PAGES_PER_BLOCK = 2
    FTL_MAX_PHYSICAL_PAGES = 6
    Data = {z, d1}
    Zero = z
    FTL_SLC_BUFFER_PAGES = 2
    UINT32 = 16
    MaxWrites = 4
    WL_MAX_BLOCKS = 3
    WLThreshold = 2
    WLBurst = 2
    MaxWear = 4
    MaxBalances = 2
SPECIFICATION FlashSpec
PROPERTIES
    FlushPreservesData
