SPECIFICATION Spec
CONSTANTS
  Requests = {r1, r2}
  Agents = {a1, a2}
  Ops = {"resolve", "close", "reopen", "escalate", "assign", "message", "reassign"}
  None = None
  MaxTime = 0
  MaxHistory = 3
  MaxAssignments = 2
  MaxEdits = 1
  MaxFailures = 1
CHECK_DEADLOCK FALSE
SYMMETRY Symmetry
INVARIANTS
  TrailExplainsTicket
  AssigneeIsOnRecord
  NoAnswerIsLost
