CONSTANTS
    Links <- MCLinks
    HostRank <- MCHostRank
    RootRank <- MCRootRank
    IDRank <- MCIDRank
    Hostname = "builder"
    Process = {"mcp", "serve", "federation"}
    HostID = {"h1", "h2"}
    NoID = ""
    Worlds <- MCUnreadablePeerWorlds
    Worker = {"session", "page1", "page2", "peer"}
    Session = "session"
    Owner <- MCOwner
    TTL = 2

SPECIFICATION Spec
INVARIANT PeerFailureStaysItsOwn
CHECK_DEADLOCK FALSE
