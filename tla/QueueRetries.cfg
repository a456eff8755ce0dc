SPECIFICATION Spec
CONSTANTS
    Procs = {p1, p2}
    Items = {i1}
    None = None
    MaxAttempts = 1
    MaxJobs = 2
    Recoverable = FALSE
SYMMETRY ProcSymmetry
INVARIANTS
    NoSilentResubmission
PROPERTIES
    ImplementsPaidWork
