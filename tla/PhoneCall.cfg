SPECIFICATION FairSpec
CONSTANTS
    None = None
    Norte = Norte
    Sur = Sur
    Companies <- MCCompanies
    NifDigits <- MCNifDigits
    OrderOwner <- MCOrderOwner
    EntryOwner <- MCEntryOwner
    Evaluated <- MCEvaluated
    Turns <- MCTurns
    MaxCalls = 1
    MaxInFlight = 2
    MaxLost = 1
CHECK_DEADLOCK FALSE
INVARIANTS
    OwnerHears
    UnderstoodAsMeant
    SilenceWins
PROPERTIES
    CallsEnd
