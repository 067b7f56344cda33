SPECIFICATION Spec
CONSTANTS
  ChunkSize = 3
  Sizes = {1, 2, 4}
  MaxWrites = 5
  Compress = {TRUE, FALSE}
  Writeout = {TRUE, FALSE}
INVARIANTS
  ChunksSound
PROPERTIES
  IsChunkStream
  FinalizeReturns
