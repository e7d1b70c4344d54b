\* Limit is 4: frames shorter than, equal to and longer than it follow each other.
SPECIFICATION Spec
CONSTANTS
    TX_BUF_LEN = 12
    PREAMBLE_LEN = 3
    Bytes = {{}, {0, 1, 2, 7}}
    MaxSize = 5
    Word = 16
INVARIANTS TypeOK WireFrameIntact FcsCorrect ReceiverAccepts
