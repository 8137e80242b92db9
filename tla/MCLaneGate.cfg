SPECIFICATION FairSpec
CONSTANTS
    a = a
    b = b
    c = c
    r = r
    x = x
    y = y
    None = None
    Scan = scan
    Hand = hand
    Stores = {a, b}
    Picks = {r}
    Rank <- MCRank
    Origin <- Rivals
    Depth = 2
    Bin0 <- LastBin
    Passes = {e1}
    MaxHits = 1
INVARIANTS OneInside SentOnce DeadLeavesLane NeverOvertaken
PROPERTIES WaitsForASlotOnly
CHECK_DEADLOCK FALSE
