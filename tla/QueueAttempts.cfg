SPECIFICATION FairSpec
CONSTANTS
    Procs = {p1, p2}
    Items = {i1}
    None = None
    MaxAttempts = 2
    MaxJobs = 1
    Recoverable = TRUE
INVARIANTS
    QueueInv
    TablesAgree
    CompletedIsBacked
PROPERTIES
    FinishedIsFinal
    EveryInputEnds
