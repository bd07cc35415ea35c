SPECIFICATION FairSpec
CONSTANTS
  Requests = {r1}
  Agents = {a1}
  Ops = {"message", "resolve", "close", "escalate", "reopen"}
  None = None
  MaxTime = 2
  MaxHistory = 3
  MaxAssignments = 0
  MaxEdits = 1
  MaxFailures = 1
  Scans = {s1}
  AttachDue <- DueAtOne
  OverrideDues = {2}
  MatrixLevels = {1, 2, 3, 4}
  ListLimit = 2
  RateWindow = 1
CHECK_DEADLOCK FALSE
INVARIANTS
  TrailExplainsTicket
  EscalationsAreOwed
  MetOrBreached
  ReportsAgree
  UnansweredIsShown
PROPERTIES
  OverdueIsJudged
  BreachIsEscalated
