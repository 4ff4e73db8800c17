\* A deprecation gagged in trySemantic before a nested gagged scope.
CONSTANTS
    ErrorLimit = 0
    Warnings = "inform"
    UseDeprecated = "inform"
    GagModulus = 8
    CtfeLimitHit = FALSE
    MaxErrors = 2
    MaxWarnings = 1
    MaxDepth = 3
SPECIFICATION Spec
PROPERTIES GaggedWarningsShown
\* The compilation ends.
CHECK_DEADLOCK FALSE
