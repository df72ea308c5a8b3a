SPECIFICATION Spec
CHECK_DEADLOCK FALSE
CONSTANTS
  MaxLease = 2
  MaxSnapshot = 2
  MaxEntry = 2
  MaxRetry = 2
  MaxFault = 1
  MaxCrash = 1
INVARIANTS AnnouncedPatchIsDurable RecordedSnapshotSurvives HeldLeaseIsNotDropped
PROPERTIES FinalizationIsNeverUndone CleanupSettles
