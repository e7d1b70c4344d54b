\* Two files, every read and write of the card may fail, the computer is reset at any moment, the card mounted again at will.
SPECIFICATION Spec
CONSTANTS
    NoCard = NoCard
    INVALID_BLOCK_ADDR = INVALID_BLOCK_ADDR
    Unread = Unread
    NoFile = NoFile
    Card = card
    ReadErrors = {"TIMEOUT"}
    WriteErrors = {"WRITE_ERROR"}
    BlockSize = 1
    SectorsPerCluster = 1
    EntriesPerSector = 5
    SectorsPerFat = 1
    U16 = 64
    Files = {fA, fB}
    Fds = {0}
    Lens = {1}
    Offsets = {0}
    Capacity = 2
    Usage = {"reset", "remount"}
SYMMETRY Symmetry
INVARIANTS FatLinksSound SettledFilesIntact
PROPERTIES UsesBlockCache
