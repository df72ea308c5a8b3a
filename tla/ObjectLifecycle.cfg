SPECIFICATION Spec
CHECK_DEADLOCK FALSE
CONSTANTS
  Preparations = {"p", "q"}
  Uploads = {"u", "v"}
  Locations = {"shared", "own"}
  SourceObject = "source"
  ObjectsOf <- MCObjectsOf
  Location <- MCLocation
  Limit = 1
  MaxFault = 1
INVARIANTS AvailableContentExists ReferencedObjectIsAvailable StoredContentIsAccounted ReclaimedPreparationIsGone
PROPERTY ReclamationFinishes
