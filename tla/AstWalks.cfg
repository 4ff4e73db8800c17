SPECIFICATION Spec
CONSTANT Visits <- WalkVisits
INVARIANTS
  TypeOK
  RightMethod
  PostOrder
  AnswerRight
  FlagsFollowCalls
PROPERTIES
  StopHolds
  Terminates
