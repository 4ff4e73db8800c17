\* Scopes nested three deep: isolation of the scopes from each other.
CONSTANTS
    ErrorLimit = 0
    Warnings = "inform"
    UseDeprecated = "inform"
    GagModulus = 8
    CtfeLimitHit = FALSE
    MaxErrors = 2
    MaxWarnings = 1
    MaxDepth = 3
SPECIFICATION Spec
INVARIANTS SavedCountsNest
PROPERTIES EndGaggingRestoresGag ImplementsScopes
\* The compilation ends.
CHECK_DEADLOCK FALSE
