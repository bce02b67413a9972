SPECIFICATION Spec
CONSTANTS
  Agent = {"a"}
  Convention = {"x"}
  MaxTurmoil = 2
INVARIANT ShutdownFlushes
CHECK_DEADLOCK FALSE
