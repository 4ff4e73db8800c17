SPECIFICATION Spec
CONSTANTS
  Template = {"T", "U", "V"}
  Symbol = {"S"}
  Modules <- ModulesMN
  Home <- HomeTU
  FunctionTemplate = {"T"}
  MaxNest = 4
  Programs <- Nested
INVARIANT ErrorsReproduced
