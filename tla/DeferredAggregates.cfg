SPECIFICATION FairSpec
CONSTANTS
  Struct = {"S1", "S2", "S3"}
  Class = {"C1", "C2"}
  Main = "main"
  Imported = "imported"
  Programs <- AllPrograms
INVARIANTS
  TypeOK
  CyclesReported
  ForwardReferencesResolve
  AssertionsHold
  PartsAnalysedFirst
  NothingLost
  FieldsComplete
PROPERTIES
  ScopeAtHand
  Terminates
