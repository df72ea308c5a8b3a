SPECIFICATION Spec
CONSTANTS
  r1 = r1
  r2 = r2
  Reconcilers <- MCReconcilers
SYMMETRY Symmetry
INVARIANTS
  LeasedSandboxLives
  SuccessIsDurable
  ReclaimedIsGone
PROPERTIES
  LeasedSnapshotIsKept
CHECK_DEADLOCK FALSE
