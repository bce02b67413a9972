SPECIFICATION Spec
CONSTANTS
  Place = {"a"}
  Root <- MCRoot
  PlaceOf <- MCPlaceOf
  LegacyRepo <- MCLegacyRepo
  Adapter = {"codex", "claude"}
  Agent = {"Codex", "Claude"}
  AgentOf <- MCAgentOf
  LegacyAdapterForAgent <- MCLegacyAdapter
  Cwd = {"w"}
  Pid = {1, 2}
  Runs <- MCOneEach
  LegacyID <- MCLegacyID
  Convention = {"none"}
  FirstFile <- MCFirstFile
  HeartbeatPersistInterval = 2
  FirstStart = 2
  MaxTime = 4
CHECK_DEADLOCK FALSE
INVARIANT LifecycleDurable
