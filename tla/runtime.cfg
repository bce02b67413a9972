SPECIFICATION Spec
CONSTANTS
  Agent = {"a", "b"}
  Convention = {"x", "y"}
  MaxTurmoil = 2
INVARIANTS TypeOK SearchNotBehindAnnouncement
PROPERTIES MaterialChangeSaved IndexCatchesUp
CHECK_DEADLOCK FALSE
