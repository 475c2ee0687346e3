SPECIFICATION PipelineSpec
CONSTANTS
  Families <- AnyUse
  NumOps <- MCNumOps
  Functions <- MCFunctions
INVARIANTS
  PipelinePreservesResults
  FunctionalProgramsBecomeValues
PROPERTY RewritesMakeProgress
CHECK_DEADLOCK FALSE
