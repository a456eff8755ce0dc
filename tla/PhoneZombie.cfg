SPECIFICATION Spec
CONSTANTS
    None = None
    Norte = Norte
    Sur = Sur
    Companies <- MCCompanies
    NifDigits <- MCNifDigits
    OrderOwner <- MCOrderOwner
    EntryOwner <- MCEntryOwner
    Evaluated <- MCEvaluated
    Turns <- MCZombieTurns
    MaxCalls = 2
    MaxInFlight = 2
    MaxLost = 1
CHECK_DEADLOCK FALSE
INVARIANTS
    NoZombieSession
