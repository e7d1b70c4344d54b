\* Four keys, three strokes, one garbled transfer, every command, a keyboard that is pulled and replugged.
SPECIFICATION FairSpec
CONSTANTS
    Keys <- MCKeys
    KeyCaps <- MCKeyCaps
    Args = {2}
    Buffer = 5
    MaxStrokes = 3
    MaxFaults = 1
INVARIANTS TypedTextArrives MaskFollowsKeys LedsAsAsked EveryCharacterHasAKey
PROPERTIES SendReturns WaitReturns
CONSTRAINT NothingLost
