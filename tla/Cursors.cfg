SPECIFICATION FairSpec
CONSTANTS
  MaxDocuments = 3
  MaxTables = 2
  MaxDepth = 3
  MaxCalls = 5
CHECK_DEADLOCK FALSE
INVARIANTS
  KeptWhileUnpacked
PROPERTIES
  DeliversStream
  NilMeansEnd
  CallsEnd
