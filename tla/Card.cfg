\* Two blocks on the card, an index past its end, one that the shift takes for a block of the
\* card and one that it takes for one past its end; two contents, two polls.
SPECIFICATION FairSpec
CONSTANTS
    Blocks = {1, 2, 3, 6, 7}
    CardBlocks = {1, 2}
    Addressable = 4
    Data = {d1, d2}
    NoData = NoData
    CmdPolls = 2
    TokenPolls = 2
INVARIANTS TypeOK SuccessMeansStored CommandsInStep NotReadyRefused
PROPERTIES ReturnsOrPulled
