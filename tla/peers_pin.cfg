SPECIFICATION Spec
CONSTANTS
  Name = {1}
  Host = {"h", "g"}
  Cli = {"c"}
  FirstRegistry <- MCOneRegistry
  MaxTime = 2
  MaxTurmoil = 2
INVARIANT PinnedProjection
CHECK_DEADLOCK FALSE
