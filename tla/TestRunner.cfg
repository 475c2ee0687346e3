SPECIFICATION FairSpec
CONSTANTS
  NumTests = 4
  NumProcesses = 2
  ChunkSize = 2
  MaxProcesses = 3
  ExitCodes = {"nonzero"}
INVARIANTS
  TypeOK
  EveryTestIsAccountedFor
  SlowTestsAreContained
PROPERTY RunEnds
CHECK_DEADLOCK FALSE
