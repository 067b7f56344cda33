SPECIFICATION Spec
CONSTANTS
  NumThreads = 3
  Objects = {o1}
  Kinds = {"create", "use", "touch", "destroy"}
  MaxCalls = 5
INVARIANTS
  UsedWhileAlive
  TouchOrder
