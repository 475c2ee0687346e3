SPECIFICATION FairSpec
CONSTANTS
  Root = Root
  Sub = Sub
  Leaf = Leaf
  s1 = s1
  s2 = s2
  t = t
  n = n
  forward = forward
  subMethod = subMethod
  leafMethod = leafMethod
  pair = pair
  PairIsMethod = FALSE
  Privates <- SomePublic
  WithOther = TRUE
  Instance <- MCInstance
  Class <- MCClass
  Attr <- MCAttr
  ModuleAttr <- MCModuleAttr
  Func <- MCFunc
  Programs <- MCPrograms
INVARIANTS
  TypeOK
  NamesAreAccessPaths
  SharedModulesAreRejected
  TrackedAreLeast
  ModuleIsWellFormed
PROPERTY PassTerminates
CHECK_DEADLOCK FALSE
