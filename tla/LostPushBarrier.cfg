SPECIFICATION Spec
CONSTANTS
  NumThreads = 2
  Objects = {o1}
  Kinds = {"create", "wait", "use"}
  MaxCalls = 4
INVARIANTS
  PushBarrierHolds
