SPECIFICATION Spec
CONSTANTS
    Threads = {0, 1}
    Traces <- MCTraces
    Commands = {"step", "goto", "thread", "isolate", "parameters", "instrument", "self-test", "continue", "stop", "diagnose"}
    MaxCommands = 2
CHECK_DEADLOCK FALSE
INVARIANTS
  SteppingSound
  
PROPERTIES
  StopEndsReplay
  StopReleasesRequests
