SPECIFICATION Spec
CONSTANTS
  Procs = {p, q}
  Recent = 1
  Rooms = {1, 3}
  MaxTurns = 3
  MaxArtifacts = 1
  None = None
INVARIANT DemandsKept
CHECK_DEADLOCK FALSE
