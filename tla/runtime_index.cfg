SPECIFICATION Spec
CONSTANTS
  Agent = {"a"}
  Convention = {"x"}
  MaxTurmoil = 2
INVARIANT IndexCurrent
CHECK_DEADLOCK FALSE
