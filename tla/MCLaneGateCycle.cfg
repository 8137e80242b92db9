SPECIFICATION FairSpec
CONSTANTS
    a = a
    b = b
    c = c
    r = r
    x = x
    y = y
    None = None
    Scan = scan
    Hand = hand
    Stores = {b}
    Picks = {r}
    Rank <- RankPair
    Origin <- Alone
    Depth = 2
    Bin0 <- LastBin
    Passes = {e1}
    MaxHits = 1
PROPERTY NoCycleCloses
CHECK_DEADLOCK FALSE
