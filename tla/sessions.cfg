SPECIFICATION Spec
CONSTANTS
  Requests = {r1, r2}
  TokenLife = 1
  SessionLife = 2
  ResetLife = 1
  MaxTime = 2
  MaxSessions = 3
  MaxResets = 2
  MaxCalls = 6
  MaxFailures = 1
SYMMETRY Symmetry
CHECK_DEADLOCK FALSE
INVARIANTS
  EndedForGood
  RotationReplaces
  NewLinkSupersedes
