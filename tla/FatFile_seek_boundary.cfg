\* fat_seek to a cluster boundary inside a file.
SPECIFICATION Spec
CONSTANTS
    NoCard = NoCard
    INVALID_BLOCK_ADDR = INVALID_BLOCK_ADDR
    Unread = Unread
    NoFile = NoFile
    Card = card
    ReadErrors = {}
    WriteErrors = {}
    BlockSize = 2
    SectorsPerCluster = 2
    EntriesPerSector = 3
    SectorsPerFat = 2
    U16 = 64
    Files = {fA}
    Fds = {0}
    Lens = {5}
    Offsets = {0, 4}
    Capacity = 9
    Usage = {"seek_boundary"}
INVARIANTS CursorMatchesOffset
