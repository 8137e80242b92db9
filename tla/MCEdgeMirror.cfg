SPECIFICATION FairSpec
CONSTANTS
    Waits = 1
    Faults <- AllKinds
    MaxHits = 1
    MaxClicks = 1
    MaxQueue = 1
INVARIANTS QuietBoardsAgree AbortReachesCore
PROPERTY BoardsMeet
CHECK_DEADLOCK FALSE
