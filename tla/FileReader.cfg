SPECIFICATION Spec
CONSTANTS
  Layouts <- MCLayouts
  Preloads = {0, 1}
  MaxRead = 3
  Isolated = FALSE
  PageSize = 2
  Word = 64
  MaxChunks = 3
  MaxChunk = 2
  MaxSize = 5
  WithRange = FALSE
INVARIANTS
  PositionsSound
  WindowSound
PROPERTIES
  BlockedReaderGetsData
  DecompressorJoins
