SPECIFICATION Spec
CONSTANTS
    Procs = {p1}
    Items = {i1}
    None = None
    MaxAttempts = 2
    MaxJobs = 1
    Recoverable = FALSE
INVARIANTS
    AnswerNotPaidTwice
