\* see README
SPECIFICATION FairSpec
CONSTANTS
  Type = {"insert", "update"}
  MaxBatch = 2
  MaxDocs = 3
  MaxRuns = 2
  MaxWrites = 3
INVARIANTS
  AtMostOnce
  InOrder
  SuccessMeansApplied
  CountIsComplete
  RefusedAreBad
  LaterCommandsStay
  FailureExplained
  FailedStreamIsDropped
PROPERTIES
  CallsEnd
\* when all calls of execute are made a script may stop
CHECK_DEADLOCK FALSE
