SPECIFICATION FairSpec
CONSTANTS
  r1 = r1
  r2 = r2
  Reconcilers = {r1}
PROPERTIES
  OrphanReclaimed
  AbandonedDecided
CHECK_DEADLOCK FALSE
