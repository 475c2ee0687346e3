SPECIFICATION FairSpec
CONSTANTS
  A = A
  B = B
  BodyLen = 3
  SlotsFirst = TRUE
  WithYields = TRUE
  Rounds = 2
  Variants <- AllVariants
  Slot <- MCSlot
  Value <- MCValue
  NumOps <- MCNumOps
  Modules <- MCModules
INVARIANTS
  TypeOK
  FixpointIsLeast
  InliningPreservesBehaviour
PROPERTIES
  NeverSafeAgain
  PassTerminates
  ImplementsOptimisticAnalysis
CHECK_DEADLOCK FALSE
