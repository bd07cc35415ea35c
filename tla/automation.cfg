SPECIFICATION AutomationSpec
CONSTANTS
  c1 = c1
  Requests = {r1, r2}
  Tickets = {t1}
  Texts <- SomeTexts
  Categories = {c1}
  CategoryFor <- OneCategory
  NoCategory = NoCategory
  Corrections = {"LOW", "same"}
  RuleLists <- AllRules
  Scenes <- SomeScenes
  Senders = {s1}
  Crons = {w1, w2}
  Recipients = {p1}
  RecipientSets <- ToSomebody
  Channels = {"EMAIL"}
  RetryLimits = {1}
  Batch = 2
  MaxNotes = 2
  MaxFailures = 1
SYMMETRY Symmetry
CHECK_DEADLOCK FALSE
INVARIANTS
  LogIsSound
  ActionsTriedInOrder
  SuccessLeavesItsRow
  RetriesWithinRuns
