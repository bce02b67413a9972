SPECIFICATION LiveSpec
CONSTANTS
  Agent = {"a"}
  Convention = {"x"}
  MaxTurmoil = 1
  Page = {"p"}
  Query = {"q"}
  MaxMoves = 0
PROPERTY PageCatchesUp
CHECK_DEADLOCK FALSE
