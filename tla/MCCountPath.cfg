SPECIFICATION FairSpec
CONSTANTS
    b1 = b1
    Bins = {b1}
    None = None
    Loop = Loop
    MaxEpoch = 2
    MaxParts = 2
    MaxMoves = 2
    MaxFaults = 1
INVARIANTS PartsConserved CountIsLedger NoFutureStamp OnlyOvertakenSkipped
PROPERTY DiscardIsAnswered
CHECK_DEADLOCK FALSE
