\* A directory without an end mark is listed; otherwise as FatDir.cfg.
SPECIFICATION Spec
CONSTANTS
    BaseLen = 2
    ExtLen = 1
    BlockSize = 512
    EntriesPerBlock = 2
    MinFat16 = 3
    MinFat32 = 6
    U32 = 1024
    EntriesPerSector = 4
    EOC = 8
    Images <- MCImages
    Fds = {0, 1}
    Names <- MCNames
    Paths <- MCPaths
    Masks = {{}, {"HIDDEN"}}
    Usage = {"full"}
INVARIANT ListsEachOnce
