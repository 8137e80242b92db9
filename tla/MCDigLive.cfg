SPECIFICATION FairSpec
CONSTANTS
    Target = 2
    Procs = {p1}
    None = None
    MaxChapters = 2
    MaxWakes = 1
    Faults = {"fail", "stop", "refuse", "intrude", "config", "cancel", "crash", "rival", "write", "lost"}
    MaxHits = 2
PROPERTIES ChapterEnds
CHECK_DEADLOCK FALSE
