SPECIFICATION MCLiveSpec
CONSTANTS
  Agent = {"a"}
  Convention = {"x", "y"}
  MaxTurmoil = 2
  Page = {"p"}
  Query = {"q", "r"}
  MaxMoves = 1
INVARIANT EventsOnlyForChanges ShowsWhatWasAsked
PROPERTIES NeverGoesBack SearchNeverSilentlyOld ChangeReachesPage
CHECK_DEADLOCK FALSE
