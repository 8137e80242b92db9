SPECIFICATION Spec
CONSTANTS
    Target = 2
    Procs = {p1, p2}
    None = None
    MaxChapters = 2
    MaxWakes = 1
    Faults = {"fail", "stop", "refuse", "config", "cancel", "crash", "rival", "write", "lost"}
    MaxHits = 1
INVARIANTS SentOnce  ParentAwaitsLegs DemandServed ServedOnce CancelReachesLegs
SYMMETRY Goroutines
CHECK_DEADLOCK FALSE
