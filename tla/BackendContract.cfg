SPECIFICATION FairSpec
CONSTANTS
  Programs <- AllPrograms
  Options <- AllOptions
  CounterBound = 6
INVARIANTS
  TypeOK
  OutcomeIsRight
  RefinedTypesAreTrue
  TypesAreInferred
  EnoughIterations
PROPERTIES
  TypesOnlyGetMorePrecise
  PassTerminates
CHECK_DEADLOCK FALSE
