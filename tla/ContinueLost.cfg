SPECIFICATION Spec
CONSTANTS
    Threads = {0, 1}
    Traces <- PlainTraces
    Commands = {"step", "continue"}
    MaxCommands = 2
CHECK_DEADLOCK FALSE
PROPERTY
  ContinueCompletes
