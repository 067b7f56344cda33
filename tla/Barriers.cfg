SPECIFICATION Spec
CONSTANTS
  NumThreads = 2
  Objects = {o1, o2}
  Kinds = {"create", "submit", "destroy", "wait"}
  MaxCalls = 4
INVARIANTS
  TypeOK
  LocalBarrierOrder
  
