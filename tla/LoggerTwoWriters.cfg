SPECIFICATION Spec
CONSTANTS
  Caller = {"engine", "watcher"}
  Records = 1
  Capacity = 2
INVARIANTS
  NothingIsLostSilently
CHECK_DEADLOCK FALSE
