\* One descriptor on one file, chains of three clusters across two FAT sectors; any read of the card may fail.
SPECIFICATION FairSpec
CONSTANTS
    NoCard = NoCard
    INVALID_BLOCK_ADDR = INVALID_BLOCK_ADDR
    Unread = Unread
    NoFile = NoFile
    Card = card
    ReadErrors = {"TIMEOUT"}
    WriteErrors = {}
    BlockSize = 2
    SectorsPerCluster = 2
    EntriesPerSector = 3
    SectorsPerFat = 2
    U16 = 64
    Files = {fA}
    Fds = {0}
    Lens = {1, 2, 5}
    Offsets = {0, 1, 3, 6, 9}
    Capacity = 10
    Usage = {}
INVARIANTS TypeOK CursorMatchesOffset LengthsMatchChain TransferInOwnFile CountMatchesOffsetOnReady
PROPERTIES EventuallyReturns
