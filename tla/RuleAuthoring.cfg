CONSTANTS
    NULL = NULL
    BAD = BAD
    Spelling = {}
    ControlOk = {}
    Revisions = {r1, r2}
    Books <- MCBooks
    Profiles <- MCProfiles
    JevAnswers <- MCJevAnswers
    DeepAnswers <- MCDeepAnswers
    Drafts <- MCDrafts
    MaxFaults = 1
SYMMETRY AnyRevision
SPECIFICATION Spec
CHECK_DEADLOCK FALSE
INVARIANTS
    EnabledIsExecutable
    NormIsKept
    ParametersAreStated
    SameInputsSameRules
    ServedFromItsSources
