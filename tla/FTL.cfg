CONSTANTS
    FTL_MAX_LBAS = 3
    NUM_BLOCKS = 2
    FTL_PAGES_PER_BLOCK = 2
    FTL_MAX_PHYSICAL_PAGES = 6
    Data = {z, d1, d2}
    Zero = z
SPECIFICATION Spec
INVARIANTS
    TypeOK
    TablesConsistent
PROPERTIES
    ProgramOnce
    ImplementsBlockDevice
