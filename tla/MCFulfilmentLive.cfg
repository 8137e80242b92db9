SPECIFICATION FairSpec
CONSTANTS
    o1 = o1
    o2 = o2
    l1 = l1
    b1 = b1
    b2 = b2
    s1 = s1
    s2 = s2
    None = None
    Plain = {o1, o2}
    Legs = {}
    Bins = {b1}
    Slots = {s1, s2}
    Dest <- OwnDest
    Budget <- BudgetLive
PROPERTIES AcquiringProgresses TerminalReleases
CHECK_DEADLOCK FALSE
