SPECIFICATION FairSpec
CONSTANTS
  Blocks <- MCBlocks
  Entry = 1
  Codes <- MCCodes
  Graphs <- MCGraphs
  Points <- MCPoints
  Locals <- MCLocals
INVARIANTS TypeOK SelectedIsLast HomeIsExact DeadIsDead BudgetSuffices
PROPERTY AnalysisEnds
CHECK_DEADLOCK FALSE
