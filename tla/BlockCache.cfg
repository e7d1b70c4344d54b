\* The buffer on two cards of two blocks, every card error possible.
SPECIFICATION Spec
CONSTANTS
    NoCard = NoCard
    INVALID_BLOCK_ADDR = INVALID_BLOCK_ADDR
    Unread = Unread
    ReadErrors = {"NO_CARD", "NOT_INITIALIZED", "TIMEOUT", "BLOCK_CMD_FAILED", "OUT_OF_RANGE", "LOCKED"}
    WriteErrors = {"NO_CARD", "NOT_INITIALIZED", "TIMEOUT", "BLOCK_CMD_FAILED", "WRITE_ERROR", "CRC_ERROR", "BAD_DATA_RESPONSE"}
    Cards = {c1, c2}
    Blocks = {b1, b2}
    Data = {d1, d2}
INVARIANTS TypeOK Coherent SameCard
PROPERTIES OwnCardWrites
