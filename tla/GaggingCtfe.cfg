\* CTFE reaches its recursion limit inside a gagged scope.
CONSTANTS
    ErrorLimit = 0
    Warnings = "inform"
    UseDeprecated = "inform"
    GagModulus = 8
    CtfeLimitHit = TRUE
    MaxErrors = 2
    MaxWarnings = 1
    MaxDepth = 3
SPECIFICATION Spec
PROPERTIES EndGaggingRestoresGag
\* The compilation ends.
CHECK_DEADLOCK FALSE
