SPECIFICATION Spec
CONSTANTS
  A = A
  B = B
  BodyLen = 4
  SlotsFirst = TRUE
  WithYields = TRUE
  Rounds = 1
  Variants <- OneVariant
  Slot <- MCSlot
  Value <- MCValue
  NumOps <- MCNumOps
  Modules <- MCModules
INVARIANT InlinedObjectsAreUnmutated
CHECK_DEADLOCK FALSE
