SPECIFICATION Spec
CONSTANTS
  Families <- TwoSources
  NumOps <- MCNumOps
  Functions <- MCFunctions
INVARIANT ResultsPreserved
CHECK_DEADLOCK FALSE
