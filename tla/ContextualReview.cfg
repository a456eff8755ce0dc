CONSTANTS
    NULL = NULL
    BAD = BAD
    Spelling <- MCSpelling
    ControlOk = {"T1"}
    Baseline <- MCBaseline
    Alternatives <- MCAlternatives
    Crashes = {NULL, "amount"}
    MaxChanges = 2
    Calls <- MCCalls
    Remarks <- MCRemarks
    MaxReviewed = 1
SPECIFICATION SpecReviewed
CHECK_DEADLOCK FALSE
INVARIANTS
    PaidIsPayable
    RejectionIsProved
    ReadyIsConclusive
    WeakerNeverPays
    UnattendedIsPayable
    ExportedWasNotDoubted
