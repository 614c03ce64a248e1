SPECIFICATION FairSpec
CONSTANTS
  MaxWorkers = 2
  MaxLines = 2
INVARIANTS TypeOK
PROPERTIES OutInOrder InInOrder DisconnectEnds OneRemains
CHECK_DEADLOCK FALSE
