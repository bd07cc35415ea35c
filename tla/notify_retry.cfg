SPECIFICATION FairSpec
CONSTANTS
  Senders = {s1}
  Crons = {c1}
  Recipients = {p1, p2}
  RecipientSets <- ToEverybody
  Channels = {"EMAIL", "PUSH", "IN_APP", "WEBHOOK"}
  RetryLimits = {2}
  Batch = 1
  MaxNotes = 2
  MaxFailures = 1
CHECK_DEADLOCK FALSE
INVARIANTS
  RecordsAreTrue
PROPERTIES
  NotTriedOnceDelivered
  FailedIsRetried
  SendingEnds
