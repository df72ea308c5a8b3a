SPECIFICATION FairSpec
CONSTANTS
  h1 = h1  h2 = h2  p1 = p1  p2 = p2  k1 = k1  k2 = k2
  Coordinators = {h1, h2}
  Reconcilers = {p1, p2}
  Keys = {k1, k2}
INVARIANTS SuccessMeansReleased
PROPERTIES ImplementsLeaseLife ReleaseCompletes
CHECK_DEADLOCK FALSE
