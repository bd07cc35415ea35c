SPECIFICATION Spec
CONSTANTS
  Requests = {r1}
  Agents = {a1, a2}
  Ops = {"resolve", "close", "reopen", "escalate", "assign", "message", "update", "reassign"}
  None = None
  MaxTime = 1
  MaxHistory = 5
  MaxAssignments = 2
  MaxEdits = 2
  MaxFailures = 1
CHECK_DEADLOCK FALSE
INVARIANTS
  TrailIsExact
PROPERTIES
  ImplementsMachine
  FirstResponseStable
