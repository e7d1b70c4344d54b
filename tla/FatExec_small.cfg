\* A program of one byte, less than a page.
SPECIFICATION FairSpec
CONSTANTS
    Page = 2
    LoPages = 3
    MaxSize = 11
    Sizes = {1, 2}
    Cols = 5
    Row = 8
    Room = 10
    Memory = 32
PROPERTIES ExecReturns
