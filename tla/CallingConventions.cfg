SPECIFICATION Spec
CONSTANTS
  NumFuncs = 2
  MaxArity = 2
  Modules <- MCModules
INVARIANTS
  TypeOK
  SignaturesAgree
CHECK_DEADLOCK FALSE
