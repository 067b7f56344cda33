INIT PartsInit
NEXT PartsNext
CHECK_DEADLOCK FALSE
CONSTANTS
    b1 = b1
    b2 = b2
    Buffer = {b1, b2}
    BufSize <- MCBufSize
    BufAddress <- MCBufAddress
    IsSbt = {b1}
    Set = {s1, s2}
    Binding = {1, 2, 3}
    DynBinding = {2, 3}
    Cmd = {d1, d2}
    Slices <- MCSlices
    Templates <- MCTemplates
    Regions <- MCRegions
    Partial = FALSE
    MaxCalls = 3
    Buffers = {"a", "b"}
    Size = 4
    Updates <- MCUpdates
    Commands <- MCCommands
    MaxPackets = 3
    MaxCommands = 2
    Streams = {0, 1}
    Payloads = {1}
    MaxInput = 4
    MaxThreads = 2
    QueueKnown = FALSE
    Resources <- MCResources
    Memories <- MCMemories
    MemorySize = 6
    AddressSize = 2
    Places <- MCPlaces
    Spans <- MCSpans
    FixupOffsets = {2, 3}
    InstanceSize = 2
    ReferenceOffset = 0
    InitSizes = {2}
    InstanceCounts = {0, 1}
    MaxBlocks = 4
    ChunkUnits = 4
    ValueSizes = {1, 2, 5}
    MaxUnits = 11
    MaxEnded = 2
    Queries <- MCQueries
INVARIANTS
  
  
  
  
  
  ThreadsParked
  PacketsFound
