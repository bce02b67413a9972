SPECIFICATION Spec
CONSTANTS
  Name = {1, 2}
  Host = {"h", "g"}
  Cli = {"c"}
  FirstRegistry <- MCOneRegistry
  MaxTime = 2
  MaxTurmoil = 2
INVARIANTS TypeOK NotifiedViewCurrent
PROPERTIES UnracedAttemptDecides PollerConverges
CHECK_DEADLOCK FALSE
