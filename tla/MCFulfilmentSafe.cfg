SPECIFICATION Spec
CONSTANTS
    o1 = o1
    o2 = o2
    l1 = l1
    b1 = b1
    b2 = b2
    s1 = s1
    s2 = s2
    None = None
    Plain = {o1, o2}
    Legs = {l1}
    Bins = {b1, b2}
    Slots = {s1}
    Dest <- SameDest
    Budget <- BudgetSafe
INVARIANTS DispatchedHoldsBin DispatchedHoldsSlot OneInFlightPerNode LandedFailsOnlyByReplay
PROPERTY TerminalIsForever
CHECK_DEADLOCK FALSE
SYMMETRY SymSame
