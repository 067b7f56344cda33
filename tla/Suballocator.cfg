SPECIFICATION Spec
SYMMETRY ThreadSymmetry
CONSTANTS
  Threads = {t1, t2}
  Objects = {1, 2, 3, 4}
  Plans <- MCPlans
  MemoryTypes <- MCMemoryTypes
  MinHeap = 5
  MaxAllocations = 2
  Mixed = {TRUE, FALSE}
  Runs = {TRUE, FALSE}
  MaxSwap = 1
  MaxFailures = 1
INVARIANTS
  HeapsSound
  PlacedAsRequired
  AliasDistanceKept
  MemoryAccounted
  
