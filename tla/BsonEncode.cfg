SPECIFICATION FairSpec
CONSTANTS
  NTables = 3
  MaxStack = 7
  MaxEntries = 2
  Heap <- Graphs
CHECK_DEADLOCK FALSE
INVARIANTS
  DocumentAccounted
  RefsArePath
  BuiltIffEncodable
  ErrorNamesPath
PROPERTY Terminates
