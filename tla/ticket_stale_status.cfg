SPECIFICATION Spec
CONSTANTS
  Requests = {r1, r2}
  Agents = {a1, a2}
  Ops = {"assign", "close"}
  None = None
  MaxTime = 1
  MaxHistory = 5
  MaxAssignments = 3
  MaxEdits = 2
  MaxFailures = 0
CHECK_DEADLOCK FALSE
PROPERTY TransitionsAreValidated
