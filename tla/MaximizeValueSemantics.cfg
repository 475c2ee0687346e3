SPECIFICATION Spec
CONSTANTS
  Families <- ManyUses
  NumOps <- MCNumOps
  Functions <- MCFunctions
INVARIANTS
  TypeOK
  ResultsPreserved
  ViewsBecomeValues
PROPERTY StaysWellTyped
CHECK_DEADLOCK FALSE
