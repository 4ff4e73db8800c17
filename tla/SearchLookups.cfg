SPECIFICATION Spec
CONSTANTS
  Module = {"a", "b", "c"}
  Ident = {"x", "y"}
  Programs <- AllPrograms
INVARIANTS
  TypeOK
  FirstAnswerRight
  CacheSound
  OwnChangesSeen
