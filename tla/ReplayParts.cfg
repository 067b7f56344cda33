INIT PartsInit
NEXT PartsNext
CHECK_DEADLOCK FALSE
SYMMETRY Symmetric
CONSTANTS
    Stored = 2
    Real = 2
    MaxFrame = 2
    MaxRender = 2
    ShotSpecs <- MCShotSpecs
    BoundaryImages <- MCBoundaryImages
    CommandBuffers = {c, d}
    SubmitFences = {f, g}
    SubmitQueues = {"p", "q"}
    SharedQueues = {"p"}
    Builds <- MCBuilds
    ScratchAlignment = 2
    AppScratch = 4
    MaxSubmits = 3
    Bases = {10, 12}
    Sizes = {2, 4}
    MaxObjects = 3
    MaxRewrites = 2
    Slots = {1}
    Pipelines = {1, 2}
    KeptPipelines = {2}
    Groups = {0, 1}
    HandleShift = 50
    EarlyCreate = FALSE
    ReuseStructures = FALSE
    DescriptorsNameAddress = FALSE
    Templates <- MCTemplates
    HandleValues = {1, 2}
    MaxNumbered = 3
    Chunk = 2
    MaxLog = 5
    MaxSession = 3
    MaxUpdates = 4
INVARIANTS
  
  ScreenshotsExact
  ReplayedSafely
  ScratchSeparate
  ValuesReplayed
  
  
  LogKept
