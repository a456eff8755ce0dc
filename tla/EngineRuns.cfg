SPECIFICATION Spec
CONSTANTS
    c1 = c1  c2 = c2  k1 = k1  k2 = k2
    Callers = {c1, c2}
    Keys = {k1, k2}
    RulesKey = rules
    Files = {1, 2}
    None = None
    MaxFaults = 2
    Reviewed = {k2}
    WithFile = {k2}
    Batch <- OneAndTwo
SYMMETRY Alike
INVARIANTS
    PaidOnce
    EarlierSubmissionsSeen
    ReviewIsBinding
    DecidedByRecordedRules
    NobodyWaits
