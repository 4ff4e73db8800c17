CONSTANTS
    f1 = f1
    f2 = f2
    Fields = {f1, f2}
    Immutable = {f1}
    MustInit = {f2}
    ExitsInLoops = TRUE
    MaxStatements = 4
    MaxDepth = 1
SPECIFICATION Spec
INVARIANTS NoSecondCall
CHECK_DEADLOCK FALSE
