SPECIFICATION Spec
CONSTANTS
  None = None
  c1 = c1  c2 = c2  p1 = p1  f1 = f1
  Conns = {c1, c2}
  Ops = {p1, f1}
  Filesystem = {f1}
  CodeMode = {p1}
  MaxGeneration = 1
SYMMETRY Symmetry
INVARIANTS FinishedIsOver CaptureIsAccounted AttachedTracksProcesses
CHECK_DEADLOCK FALSE
