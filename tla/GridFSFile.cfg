SPECIFICATION FairSpec
CONSTANTS
  ChunkSize = 2
  BufferSize = 2
  ChunksPerBatch = 2
  FileLengths = {}
  ReadLengths = {3}
  WriteLengths = {0, 2}
  MaxLength = 5
  MaxWrites = 2
  MaxFailures = 1
CHECK_DEADLOCK FALSE
INVARIANTS
  FileHoldsContent
  ReadReturnsContent
  SavedIsStored
  StoredIsReadable
PROPERTY CallsEnd
