SPECIFICATION Spec
CONSTANTS
  Requests = {r1, r2}
  Names = {n1, n2}
  Keys = {k1, k2}
  Scenes <- AllScenes
  MaxRecords = 3
SYMMETRY Symmetry
CHECK_DEADLOCK FALSE
INVARIANTS
  TablesAreSound
  LoneRestartMakesGood
PROPERTIES
  ReplacedWithoutGap
  LoneReplacementIsExact
  LoneRestartFillsIn
