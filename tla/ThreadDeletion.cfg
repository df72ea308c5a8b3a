SPECIFICATION Spec
CHECK_DEADLOCK FALSE
CONSTANTS
  NThreads = 2
  Parent <- MCParent
  Hosted = {1, 2}
  Limit = 1
  Loops = {l1}
  MaxLatest = 1
  MaxLease = 2
  MaxFault = 1
  MaxCrash = 1
INVARIANTS NoRootIsForgotten ClearedRootsStayGone
PROPERTY ClearableBatchDrains
