\* Two files open at once and growing into each other's neighbourhood, no faults.
SPECIFICATION Spec
CONSTANTS
    NoCard = NoCard
    INVALID_BLOCK_ADDR = INVALID_BLOCK_ADDR
    Unread = Unread
    NoFile = NoFile
    Card = card
    ReadErrors = {}
    WriteErrors = {}
    BlockSize = 1
    SectorsPerCluster = 1
    EntriesPerSector = 3
    SectorsPerFat = 2
    U16 = 64
    Files = {fA, fB}
    Fds = {0, 1}
    Lens = {1}
    Offsets = {0}
    Capacity = 2
    Usage = {}
SYMMETRY Symmetry
INVARIANTS AllocationExact FatCopiesAgree
