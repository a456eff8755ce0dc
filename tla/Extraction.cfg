CONSTANTS
    NULL = NULL
    OptionLimit = 10
    MaxQuestions = 16
    MaxBatch = 9
    MaxCalls = 8
    MaxAttempts = 2
    MaxOdd = 1
    Batches <- MCBatches
    MaxCommands = 2
SPECIFICATION SpecCascade
CHECK_DEADLOCK FALSE
INVARIANTS
    NativeIsUnambiguous
    RoutesReadAlike
    ChoicesAreSpans
    NothingLaundered
    AnswersBoughtOnce
