\* An error limit, -w and -de, and CTFE reaching its recursion limit.
CONSTANTS
    ErrorLimit = 2
    Warnings = "error"
    UseDeprecated = "error"
    GagModulus = 8
    CtfeLimitHit = TRUE
    MaxErrors = 3
    MaxWarnings = 1
    MaxDepth = 2
SPECIFICATION Spec
INVARIANTS TypeOK ErrorLimitRespected SuccessMeansClean
\* The compilation ends.
CHECK_DEADLOCK FALSE
