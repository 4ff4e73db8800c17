CONSTANTS
    f1 = f1
    f2 = f2
    Fields = {f1, f2}
    Immutable = {f1}
    MustInit = {f2}
    ExitsInLoops = FALSE
    MaxStatements = 6
    MaxDepth = 3
SPECIFICATION Spec
INVARIANTS TypeOK OneConstructorCall NoFieldSkipped DoubleInitReported FlagsTellPaths ComplaintsJustified BranchesCommute
CHECK_DEADLOCK FALSE
