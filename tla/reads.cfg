CONSTANTS
    Links <- MCLinks
    HostRank <- MCHostRank
    RootRank <- MCRootRank
    IDRank <- MCIDRank
    Hostname = "builder"
    Process = {"mcp", "serve", "federation"}
    HostID = {"h1", "h2"}
    NoID = ""
    Worlds <- MCWorlds
    Worker = {"session", "page1", "page2", "peer"}
    Session = "session"
    Owner <- MCOwner
    TTL = 2

SPECIFICATION Spec
INVARIANTS
    ReadTypeOK
    OneHostIdentity
    AcceptedOnCurrentEvidence
    AcceptanceViewsAgree
    RepositoryViewsAgree
    HostTotals
    SnapshotFailsOnlyForLost
    InitKeepsConvention
    GroupsSound
    NewestDecides
    InstanceSelectable
    AttentionLinked
    ForgeContextSound
    ForgeContextFresh
    ResponsesMatchRequests
PROPERTIES
    ImplementsAgreement
CHECK_DEADLOCK FALSE
