\* Programs in Lo RAM (three pages of two bytes), above it, too large, empty; none shorter than a page.
SPECIFICATION FairSpec
CONSTANTS
    Page = 2
    LoPages = 3
    MaxSize = 11
    Sizes = {0, 2, 3, 4, 5, 6, 7, 9, 10, 11, 12}
    Cols = 5
    Row = 8
    Room = 10
    Memory = 32
INVARIANTS TypeOK LoadedWhole NoDescriptorLeak BarOnScreen
PROPERTIES ExecReturns
