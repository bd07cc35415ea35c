SPECIFICATION FairSpec
CONSTANTS
  e1 = e1
  e2 = e2
  e3 = e3
  p1 = p1
  Clients = {c1}
  Partitions = {p1}
  Emails = {e1, e2, e3}
  PartitionOf <- Sender
  RepliesTo <- Subject
  WithMessageId = {e1, e2}
  None = None
  Base = 2
  Width = 2
  MaxTickets = 2
  MaxDeliveries = 3
  MaxFailures = 1
  MaxCrashes = 1
CHECK_DEADLOCK FALSE
INVARIANTS
  NumbersAreSequential
  OneTicketPerEmail
PROPERTIES
  EmailIsKept
