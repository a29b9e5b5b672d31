SPECIFICATION FairSpec
CONSTANTS
  ChunkSize = 2
  BufferSize = 2
  ChunksPerBatch = 2
  FileLengths = {5}
  ReadLengths = {3}
  WriteLengths = {3}
  MaxLength = 5
  MaxWrites = 1
  MaxFailures = 0
CHECK_DEADLOCK FALSE
INVARIANT WrittenIsKept
