SPECIFICATION Spec
CONSTANTS
  NumThreads = 2
  Objects = {o1}
  Kinds = {"create", "sync", "destroy", "reset", "present"}
  MaxCalls = 4
PROPERTIES
  ReplayTerminates
