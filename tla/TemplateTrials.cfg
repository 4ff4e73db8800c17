SPECIFICATION Spec
CONSTANTS
  Template = {"T", "U", "V"}
  Symbol = {"S"}
  Modules <- ModulesMN
  Home <- HomeTU
  FunctionTemplate = {"T"}
  MaxNest = 4
  Programs <- AllTrials
INVARIANTS TypeOK AssertionsHold ListedOnce ChainsEnd DeclarationErrorsReproduced NoFalseAlarm OneInstance
