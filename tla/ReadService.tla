----------------------------- MODULE ReadService -----------------------------
(***************************************************************************)
(* The read side of one machine: "specview mcp" answers the lines of its   *)
(* client one by one, and the HTTP handlers of "specview serve" and        *)
(* "specview federation serve" answer requests side by side.  Every answer *)
(* takes several reads of a machine that goes on changing, and the forge   *)
(* is asked through a cache per source-control service.                    *)
(***************************************************************************)
EXTENDS HostSnapshots, WebPages, HostIdentity

CONSTANTS
    Worlds,    \* by name: the states of a machine and what happens to it
    Worker,    \* handlers that answer requests
    Session,   \* the worker that serves the MCP session
    Owner,     \* the process each worker belongs to
    TTL        \* for how long a forge context is served from the cache

ASSUME TTLAssumption == TTL \in Nat \ {0}
\* The IDs that are drawn are Host IDs, and openCatalog names a machine that
\* has no name "localhost" (catalog.go:143).
ASSUME HostAssumption == HostID \subseteq Hosts /\ Hostname # ""
ASSUME OwnerAssumption == Session \in Worker /\ Owner \in [Worker -> Process]

\* What a client can write on a line.
LineForms == {"blank", "garbage", "request"}

\* The bounds of a world are numbers, and its machine and client are possible.
ASSUME WorldsAssumption ==
    \A name \in DOMAIN Worlds :
        /\ Worlds[name].starts \subseteq Worlds[name].machines
        /\ {Worlds[name].changes, Worlds[name].requests, Worlds[name].ticks} \subseteq Nat
        /\ \A session \in Worlds[name].sessions :
              /\ session \in Seq(ToSet(session))
              /\ \A line \in ToSet(session) : line.form \in LineForms

\* Files have paths of their own, and the times and IDs in them are numbers.
\* The records of a work item differ in one of the two: Project.Evidence sorts
\* by them only, with a sort that is not stable (project.go:137), so that two
\* records with both alike would come in any order.
PossibleFiles(files) ==
    /\ IsFiniteSet(files)
    /\ \A r \in files : {r.path, r.id, r.observed} \subseteq Nat
    /\ \A r, s \in files : r.path = s.path => r = s
    /\ \A r, s \in files :
          r.item # 0 /\ <<r.item, r.observed, r.id>> = <<s.item, s.observed, s.id>> => r = s

\* git lists worktrees one after the other and counts what is dirty in them.
PossibleTrees(trees) ==
    /\ trees \in Seq(ToSet(trees))
    /\ \A t \in ToSet(trees) : {t.dirty, Len(CanonicalPath(t.path))} \subseteq Nat

\* The artifacts of a project have paths of their own, and numbers for IDs.
PossibleArtifacts(artifacts) ==
    /\ IsFiniteSet(artifacts)
    /\ \A a \in artifacts : {a.item, a.path} \subseteq Nat
    /\ \A a, b \in artifacts : a.path = b.path => a = b

\* A directory has the fields of any other.
PossibleDir(dir) ==
    /\ DOMAIN dir = DOMAIN EmptyDir
    /\ dir.config \in {"absent", "present", "unreadable"}
    /\ dir.evidence.ok => PossibleFiles(dir.evidence.val)
    /\ \A path \in DOMAIN dir.items :
          dir.items[path].ok => PossibleArtifacts(dir.items[path].val)

\* The sessions of a repository are kept by their IDs.
PossiblePast(sessions) ==
    /\ IsFiniteSet(sessions)
    /\ \A s \in sessions : {s.id, s.lastSeen} \subseteq Nat
    /\ \A s, t \in sessions : s.id = t.id => s = t

\* A catalog holds repositories by their IDs, of which none is blank, and an ID
\* that is the hash of a root is that of its repository.
PossibleCatalog(catalog) ==
    /\ IsFiniteSet(catalog)
    /\ \A r \in catalog :
          /\ r.id # <<>> /\ r.id \in DOMAIN IDRank
          /\ r.root \in DOMAIN RootRank /\ r.lastSeen \in Nat /\ PossiblePast(r.sessions)
          /\ \A s \in catalog : r.id = s.id => r = s
          /\ \A root \in DOMAIN RootRank : r.id = RepositoryIDForRoot(root) => r.root = root

PossibleSessions(live) ==
    IsFiniteSet(live) /\ \A s \in live : s.root \in DOMAIN RootRank \union {<<>>}

\* A snapshot that was built or validated: an observation is validated whenever
\* its file is read.
PossibleSnapshot(s) ==
    /\ ValidSnapshot(s)
    /\ s.observed \in Nat
    /\ s.instances \in Seq(ToSet(s.instances))
    /\ \A i \in ToSet(s.instances) : i.root \in DOMAIN RootRank

PossibleSnapshots(snapshots) ==
    snapshots \in Seq(ToSet(snapshots)) /\ \A s \in ToSet(snapshots) : PossibleSnapshot(s)

\* No repository is moved: a root is set once, when its record is made
\* (catalog.go:346).
RootsKept(machines) ==
    LET recorded == UNION {m.catalog.val : m \in {x \in machines : x.catalog.ok}}
    IN  \A r, s \in recorded : r.id = s.id => r.root = s.root

ASSUME RootsAssumption == \A name \in DOMAIN Worlds : RootsKept(Worlds[name].machines)

ASSUME MachinesAssumption ==
    \A name \in DOMAIN Worlds : \A machine \in Worlds[name].machines :
        /\ machine.catalog.ok => PossibleCatalog(machine.catalog.val)
        /\ machine.live.ok => PossibleSessions(machine.live.val)
        /\ machine.registry.ok => machine.registry.val \in Seq(ToSet(machine.registry.val))
        /\ \A peer \in DOMAIN machine.observations :
              machine.observations[peer].ok =>
                 PossibleSnapshots(machine.observations[peer].val.snapshots)
        /\ \A root \in DOMAIN machine.git :
              machine.git[root].ok => PossibleTrees(machine.git[root].val.worktrees)
        /\ \A root \in DOMAIN machine.tree : PossibleDir(machine.tree[root])

VARIABLES
    world,     \* the world
    now,       \* the state the machine is in
    changes,   \* changes of the machine left
    requests,  \* HTTP requests left
    clock,     \* the time, at most that of the world
    cache,     \* the provider cache of each service, by remote
    lines,     \* the lines of the MCP client
    taken,     \* how many of them were taken
    output,    \* what was answered to them
    work       \* the request each worker is at, or was last

worldVars == <<world, now, changes, requests>>
sessionVars == <<lines, taken, output>>
readVars == <<worldVars, clock, cache, sessionVars, work>>
vars == <<identityVars, readVars>>

World == Worlds[world]

\* What a read of some name finds in the machine: one part of it.  What git
\* says of it depends on the root.
Found(machine, name) ==
    CASE name \in {"catalog", "sessionCatalog", "hostCatalog", "history"} -> machine.catalog
      [] name \in {"live", "sessionLive", "scan"} -> machine.live
      [] name \in {"convention", "config", "again", "items", "records", "titles", "entries",
                   "evidence", "host"} -> machine.tree
      [] name = "registry" -> machine.registry
      [] name = "observations" -> machine.observations

----------------------------------------------------------------------------
(* A request is [phase, op, args, id, see, next, forge, asked, at, answer]: *)
(* see says what each step of it has read, a step being <<name, <<>>>> or,  *)
(* once per repository, <<name, <<its ID>>>>; next holds the step to be     *)
(* read, if there is one; at is the time it was answered.                  *)

Idle == [phase |-> "idle"]

Request(op, args, id) ==
    [phase |-> "read", op |-> op, args |-> args, id |-> id, see |-> <<>>, next |-> <<>>,
     forge |-> <<>>, asked |-> Error, at |-> 0, answer |-> Error]

Busy(q) == q.phase \notin {"idle", "done"}

\* A tool of the MCP server, or the path of a page; the pages of the federation
\* ask for what its tools do and go by the same names.
SnapshotOps == {"/federation/v1/snapshot", "/federation/v2/snapshot"}
FederationOps == {"get_federation_status", "get_federation_host", "get_federation_repository",
                  "/federation/host"}
RepositoryOps == {"get_repository", "list_worktrees"}
ItemOps == {"list_work_items", "get_work_item", "get_evidence", "get_acceptance"}
HostOps == {"get_host_control_plane", "/"}
StorePages == {"/project", "/project/spec"}
FilePages == {"/project/evidence", "/project/acceptance"}

Arg(q, name) == q.args[name].val

View(q, sub) ==
    LET names == {s[1] : s \in {x \in DOMAIN q.see : x[2] = sub}}
    IN  [n \in names |-> q.see[<<n, sub>>]]

Solo(names) == [i \in DOMAIN names |-> <<names[i], <<>>>>]
Of(names, id) == [i \in DOMAIN names |-> <<names[i], <<id>>>>]

\* The steps, and once they are read what follows from them.
After(q, steps, more) ==
    steps \o (IF ToSet(steps) \subseteq DOMAIN q.see THEN more ELSE <<>>)

Policied(see, id) ==
    Then(SeenRepository(see, id), LAMBDA r :
        Then(SeenProject(see, r.root), LAMBDA p : IF p.policy # <<>> THEN Ok(p) ELSE Error)).ok

ItemSteps(q) ==
    LET see == View(q, <<>>)
        id  == Arg(q, "repository_id")
        git == /\ q.op = "get_acceptance"
               /\ Policied(see, id)
               /\ GetWorkItem(see, id, Arg(q, "work_item_id")).ok
    IN  After(q, Solo(<<"catalog", "live", "convention", "config", "items">>),
              Solo((IF git THEN <<"git">> ELSE <<>>)
                   \o (IF q.op \in {"get_evidence", "get_acceptance"}
                       THEN <<"evidence">> ELSE <<>>)))

SummarySteps(q) ==
    After(q, Solo(<<"catalog", "live", "convention", "config", "items", "records", "titles">>),
          Solo((IF Policied(View(q, <<>>), Arg(q, "repository_id"))
                THEN <<"git">> ELSE <<>>) \o <<"entries", "evidence">>))

\* A page of the project shows what git says once its store is read.
StoreSteps(q) ==
    LET see == View(q, <<>>)
        Shows(store) ==
            IF q.op = "/project" THEN store.ok \/ store = NoStore
            ELSE store.ok /\ \E a \in ToSet(store.val) : a.path = Arg(q, "path")
        git == Then(RememberedRepository(see, Arg(q, "id")), LAMBDA r :
                   IF Shows(ProjectStore(see, r.root)) THEN Ok(r) ELSE Error).ok
    IN  After(q, Solo(<<"catalog", "convention", "config", "items">>),
              IF git THEN Solo(<<"git", "again", "records", "titles", "entries", "evidence">>)
                     ELSE <<>>)

FileSteps(q) ==
    LET see == View(q, <<>>)
        r   == RememberedRepository(see, Arg(q, "id"))
        git == r.ok /\ q.op = "/project/acceptance" /\ Policied(see, Arg(q, "id"))
    IN  After(q, Solo(<<"catalog", "convention", "config">>),
              Solo((IF git THEN <<"git">> ELSE <<>>)
                   \o (IF q.op = "/project/acceptance" THEN <<"entries", "evidence">>
                                                       ELSE <<"records", "titles">>)))

\* Catalog.Repositories and ListRepositories, in the order they are gone through.
InOrder(repositories) ==
    Sorted(repositories,
        LAMBDA a, b : \/ a.active /\ ~b.active
                      \/ a.active = b.active /\ a.lastSeen > b.lastSeen
                      \/ /\ a.active = b.active
                         /\ a.lastSeen = b.lastSeen
                         /\ RootRank[a.root] < RootRank[b.root])

HostSteps(q) ==
    LET ForRepository(r) ==
            After(q, Of(<<"host">>, r.id),
                  IF NeedsGit(ProjectAt(View(q, <<r.id>>)["host"], r.root))
                  THEN Of(<<"hostGit">>, r.id) ELSE <<>>)
        ForAll(catalog) ==
            IF ~catalog.ok THEN <<>>
            ELSE LET order == InOrder({[id |-> r.id, root |-> r.root, active |-> FALSE,
                                        lastSeen |-> r.lastSeen] : r \in catalog.val})
                 IN  FlattenSeq([i \in DOMAIN order |-> ForRepository(order[i])])
    IN  After(q, Solo(<<"hostCatalog">>), ForAll(View(q, <<>>)["hostCatalog"]))

Read(q, steps) == ToSet(steps) \subseteq DOMAIN q.see

Listed(q) == LET see == View(q, <<>>) IN ListRepositories(see["catalog"], see["live"])

\* The repositories are asked for one by one, up to the first that is gone.
DetailSteps(q) ==
    LET Mine(id) == After(q, Of(<<"catalog", "live">>, id),
                          IF SeenRepository(View(q, <<id>>), id).ok
                          THEN Of(<<"scan", "git", "config">>, id) ELSE <<>>)
        Gone(r) == /\ Read(q, Of(<<"catalog", "live">>, r.id))
                   /\ ~SeenRepository(View(q, <<r.id>>), r.id).ok
        UpTo(order, end) == IF end = 0 THEN order ELSE SubSeq(order, 1, end)
        All(asked) == FlattenSeq([i \in DOMAIN asked |-> Mine(asked[i].id)])
        ForAll(order) == All(UpTo(order, SelectInSeq(order, Gone)))
    IN  ForAll(InOrder(Listed(q).val.repositories))

SnapshotSteps(q) ==
    LET Sessions(steps) ==
            After(q, steps, IF View(q, <<>>)["hostCatalog"].ok
                            THEN DetailSteps(q) ELSE <<>>)
    IN  After(q, Solo(<<"catalog", "live">>),
              IF ~Listed(q).ok THEN <<>>
              ELSE Sessions(Solo(<<"sessionCatalog", "sessionLive">>) \o HostSteps(q)))

Steps(q) ==
    CASE q.op \in {"list_repositories", "list_active_sessions"} -> Solo(<<"catalog", "live">>)
      [] q.op \in RepositoryOps ->
            After(q, Solo(<<"catalog", "live">>),
                  IF SeenRepository(View(q, <<>>), Arg(q, "repository_id")).ok
                  THEN Solo(<<"scan", "git">>) ELSE <<>>)
      [] q.op \in ItemOps -> ItemSteps(q)
      [] q.op = "get_repository_control_plane" -> SummarySteps(q)
      [] q.op \in HostOps -> HostSteps(q)
      [] q.op \in StorePages -> StoreSteps(q)
      [] q.op \in FilePages -> FileSteps(q)
      [] q.op = "get_execution_history" -> Solo(<<"catalog">>)
      [] q.op = "/history" -> Solo(<<"history", "catalog">>)
      [] q.op = "/history/session" -> Solo(<<"history">>)
      [] q.op \in SnapshotOps \union FederationOps ->
            After(q, SnapshotSteps(q), IF q.op \in FederationOps
                                       THEN Solo(<<"registry", "observations">>) ELSE <<>>)

\* What the steps of a request follow from.
Wanted(q) == [op |-> q.op, args |-> q.args, see |-> q.see]

\* The request, to go on with the first step that is not read yet.
Onward(q) ==
    LET From(steps, i) == [q EXCEPT !.next = IF i = 0 THEN <<>> ELSE <<steps[i]>>]
        First(steps) == From(steps, SelectInSeq(steps, LAMBDA s : s \notin DOMAIN q.see))
    IN  First(Steps(Wanted(q)))

IsGit(step) == step[1] \in {"git", "hostGit"}

\* The root at which a step of a request asks git.
RootOf(q, step) ==
    LET id == IF step[2] # <<>> THEN step[2][1]
              ELSE IF q.op \in StorePages \union FilePages THEN Arg(q, "id")
              ELSE Arg(q, "repository_id")
        hosts == {r \in View(q, <<>>)["hostCatalog"].val : r.id = id}
    IN  IF step[1] = "hostGit" THEN (CHOOSE r \in hosts : TRUE).root
        ELSE SeenRepository(View(q, step[2]), id).val.root

\* What a step reads of the machine: git is asked at one root.
Observed(q, step, machine) ==
    IF IsGit(step) THEN InspectGit(machine.git, RootOf(q, step)) ELSE Found(machine, step[1])

----------------------------------------------------------------------------
(* The answers.                                                            *)

\* What the answer to a request is made of.
Made(q) == [op |-> q.op, args |-> q.args, see |-> q.see, forge |-> q.forge, at |-> q.at]

Source(q, step) ==
    Then(q.see[step], LAMBDA git : Ok([git |-> git, forge |-> q.forge[step]]))

HostAnswer(q) ==
    LET catalog == View(q, <<>>)["hostCatalog"]
        ids == {r.id : r \in catalog.val}
    IN  GetHostControlPlane(catalog,
            [id \in ids |-> q.see[<<"host", <<id>>>>]],
            [id \in ids |-> LET step == <<"hostGit", <<id>>>>
                            IN  IF step \in DOMAIN q.see THEN q.see[step] ELSE Error])

Detail(q, id) ==
    LET see == View(q, <<id>>)
        answer == GetRepository(see["catalog"], see["live"], see["scan"],
                                Source(q, <<"git", <<id>>>>), id)
    IN  IF Read(q, Of(<<"catalog", "live", "git">>, id))
        THEN [detail |-> answer, dir |-> DirAt(see["config"], answer.val.repository.root)]
        ELSE [detail |-> Error]

SnapshotAnswer(q, hostID) ==
    LET see == View(q, <<>>)
        Built(list) ==
            BuildSnapshot(hostID, q.at + 1, list,
                ListActiveSessions(see["sessionCatalog"], see["sessionLive"]),
                HostAnswer(q), [id \in {r.id : r \in list.val.repositories} |-> Detail(q, id)])
    IN  Built(Listed(q))

ProjectionAnswer(q, hostID) ==
    LET see == View(q, <<>>)
    IN  BuildProjection(SnapshotAnswer(q, hostID), see["registry"],
                        see["observations"])

\* Handler.ServeHTTP: the older path is sent the older schema.
Served(q, snapshot) ==
    Then(snapshot, LAMBDA s : IfValid(IF q.op = "/federation/v1/snapshot" THEN V1(s) ELSE s))

\* What a tool of the federation shows of the projection.
Selected(q, projection) ==
    CASE q.op = "get_federation_status" -> Ok(projection)
      [] q.op = "get_federation_host" -> ProjectFederationHost(projection, Arg(q, "host_id"))
      [] q.op = "/federation/host" -> FederationHostPage(projection, Arg(q, "host_id"))
      [] q.op = "get_federation_repository" ->
            ProjectFederationRepository(projection, Arg(q, "host_id"), Arg(q, "instance_id"))

Answer(q, hostID) ==
    LET see  == View(q, <<>>)
        id   == Arg(q, "repository_id")
        item == Arg(q, "work_item_id")
        page == Arg(q, "id")
        git  == <<"git", <<>>>>
        catalog == see["catalog"]
        live == see["live"]
    IN  CASE q.op = "list_repositories" -> ListRepositories(catalog, live)
          [] q.op = "list_active_sessions" -> ListActiveSessions(catalog, live)
          [] q.op = "get_repository" ->
                GetRepository(catalog, live, see["scan"], Source(q, git), id)
          [] q.op = "list_worktrees" -> ListWorktrees(catalog, live, Source(q, git), id)
          [] q.op = "list_work_items" -> ListWorkItems(see, id)
          [] q.op = "get_work_item" -> GetWorkItem(see, id, item)
          [] q.op = "get_evidence" -> GetEvidence(see, id, item)
          [] q.op = "get_acceptance" -> GetAcceptance(see, id, item)
          [] q.op = "get_repository_control_plane" -> GetRepositoryControlPlane(see, id)
          [] q.op \in HostOps -> HostAnswer(q)
          [] q.op = "/project" -> ProjectPage(see, page, Source(q, git))
          [] q.op = "/project/spec" -> SpecPage(see, page, Arg(q, "path"), Source(q, git))
          [] q.op = "/project/evidence" -> EvidencePage(see, page)
          [] q.op = "/project/acceptance" -> AcceptancePage(see, page, Source(q, git))
          [] q.op = "get_execution_history" ->
                Then(catalog, LAMBDA repositories : Ok(History(repositories)))
          [] q.op = "/history" -> HistoryPage(see, page)
          [] q.op = "/history/session" -> SessionPage(see, page, Arg(q, "session"))
          [] q.op \in SnapshotOps -> Served(q, SnapshotAnswer(q, hostID))
          [] q.op \in FederationOps ->
                Then(ProjectionAnswer(q, hostID), LAMBDA projection : Selected(q, projection))

----------------------------------------------------------------------------
(* The wire of the MCP server.  A line is [form, id, version, method,      *)
(* params], form "blank", "garbage" or "request", id NoLineID when the     *)
(* line has none.  params is Ok when it decodes strictly; the params of a  *)
(* tool call hold its name and its arguments, Ok when they decode, each    *)
(* value of them Error when it is blank.                                   *)

NoLineID == 0
NullID == -1

Tools ==
    [t \in {"list_repositories", "get_host_control_plane", "list_active_sessions",
            "get_execution_history", "get_federation_status"} |-> {}]
    @@ [t \in {"get_repository", "get_repository_control_plane", "list_worktrees",
               "list_work_items"} |-> {"repository_id"}]
    @@ [t \in {"get_work_item", "get_evidence", "get_acceptance"} |->
               {"repository_id", "work_item_id"}]
    @@ ("get_federation_host" :> {"host_id"})
    @@ ("get_federation_repository" :> {"host_id", "instance_id"})

\* The decoders of the arguments: exactly the required ones, none blank.
Decodes(args, required) ==
    args.ok /\ DOMAIN args.val = required /\ \A f \in required : args.val[f].ok

\* What a line is answered without any read, if it is a tool call at all.
CallKind(params) ==
    IF ~params.ok THEN "invalidParams"
    ELSE IF params.val.name = "" THEN "invalidParams"
    ELSE IF params.val.name \notin DOMAIN Tools THEN "toolError"
    ELSE IF Decodes(params.val.args, Tools[params.val.name]) THEN "call"
    ELSE "invalidParams"

\* Mutant: a notification is known by its method.
IsNotificationByMethod(line) == line.method = "notifications/initialized"

IsNotification(line) == line.id = NoLineID

Kind(line) ==
    CASE line.form = "blank" -> "none"
      [] line.form = "garbage" -> "parseError"
      [] OTHER ->
            IF ~line.version \/ line.method = ""
            THEN IF IsNotification(line) THEN "none" ELSE "invalidRequest"
            ELSE IF IsNotification(line) THEN "none"
            ELSE CASE line.method = "initialize" ->
                         IF line.params.ok THEN "result" ELSE "invalidParams"
                   [] line.method \in {"ping", "tools/list"} -> "result"
                   [] line.method = "tools/call" -> CallKind(line.params)
                   [] OTHER -> "methodNotFound"

Response(line, kind) ==
    [id |-> IF line.form = "garbage" THEN NullID ELSE line.id, kind |-> kind]

----------------------------------------------------------------------------
(* The processes.                                                          *)

Services == Process \X BOOLEAN

\* The federation reader of a process has a service of its own.
Service(w, q) == <<Owner[w], q.op \in FederationOps>>

NoCache == <<>>
NoForge == [matched |-> FALSE]

Init ==
    /\ world \in DOMAIN Worlds
    /\ kills = World.kills
    /\ IdentityInit
    /\ now \in World.starts
    /\ changes = World.changes
    /\ requests = World.requests
    /\ clock = 0
    /\ cache = [s \in Services |-> NoCache]
    /\ lines \in World.sessions
    /\ taken = 0
    /\ output = <<>>
    /\ work = [w \in Worker |-> Idle]

Running(w) == start[Owner[w]] = "up"

Begin(p) ==
    /\ p \in World.processes
    /\ IdentityStep(p)
    /\ UNCHANGED readVars

\* A process ends, and all its memory with it; its client starts over.
Die(p) ==
    /\ Kill(p)
    /\ cache' = [s \in Services |-> IF s[1] = p THEN NoCache ELSE cache[s]]
    /\ work' = [w \in Worker |-> IF Owner[w] = p THEN Idle ELSE work[w]]
    /\ taken' = IF Owner[Session] = p THEN 0 ELSE taken
    /\ output' = IF Owner[Session] = p THEN <<>> ELSE output
    /\ UNCHANGED <<worldVars, clock, lines>>

\* Server.Serve: the next line is taken when the last one was answered.
TakeLine ==
    LET line == lines[taken + 1]
        kind == Kind(line)
        call == line.params.val
    IN  /\ Running(Session)
        /\ ~Busy(work[Session])
        /\ taken < Len(lines)
        /\ taken' = taken + 1
        /\ \/ /\ kind = "call"
              /\ work' = [work EXCEPT
                    ![Session] = Onward(Request(call.name, call.args.val, line.id))]
              /\ UNCHANGED output
           \/ /\ kind # "call"
              /\ output' = IF kind = "none" THEN output
                           ELSE Append(output, Response(line, kind))
              /\ work' = [work EXCEPT ![Session] = Idle]
        /\ UNCHANGED <<identityVars, worldVars, clock, cache, lines>>

\* A request arrives at an HTTP handler.
Browse(w) ==
    /\ w # Session
    /\ Running(w)
    /\ ~Busy(work[w])
    /\ requests > 0
    /\ requests' = requests - 1
    /\ \E page \in World.pages[w] :
          work' = [work EXCEPT ![w] = Onward(Request(page.op, page.args, 0))]
    /\ UNCHANGED <<identityVars, world, now, changes, clock, cache, sessionVars>>

\* Mutant: the forge is asked about every remote.
AsksAlways(step, git) == IsGit(step) /\ git.ok

\* Service.Inspect: the provider is asked about remotes it supports.
Asks(step, git) == IsGit(step) /\ git.ok /\ SupportsGitHub(git.val.remote)

\* The next read; git is read before the cache is looked at.
ReadNext(w) ==
    LET q    == work[w]
        step == Head(q.next)
        seen == [q EXCEPT !.see = With(@, step, Observed(q, step, now))]
        git  == seen.see[step]
    IN  /\ q.phase = "read"
        /\ q.next # <<>>
        /\ work' = [work EXCEPT ![w] = Onward(
              IF Asks(step, git) THEN [seen EXCEPT !.phase = "lookup", !.asked = Ok(step)]
              ELSE IF IsGit(step) THEN [seen EXCEPT !.forge = With(@, step, NoForge)]
              ELSE seen)]
        /\ UNCHANGED <<identityVars, worldVars, clock, cache, sessionVars>>

\* The context goes into the answer: looked and stored are the times it was
\* looked up and put into the cache.
Got(w, context, stored) ==
    work' = [work EXCEPT ![w].phase = "read",
                         ![w].asked = Error,
                         ![w].forge = With(@, work[w].asked.val,
                             [matched |-> TRUE, context |-> context,
                              stored |-> stored, looked |-> clock])]

RemoteOf(q) == q.see[q.asked.val].val.remote

\* Mutant: an entry is served for one moment too long.
FreshTooLong(entry) == clock - entry.stored <= TTL

Fresh(entry) == clock - entry.stored < TTL

\* Mutant: whatever the cache holds is taken for the context of any remote.
LookupAnyRemote(w) ==
    LET q       == work[w]
        entries == cache[Service(w, q)]
        fresh   == {r \in DOMAIN entries : Fresh(entries[r])}
    IN  /\ q.phase = "lookup"
        /\ \/ \E r \in fresh : Got(w, entries[r].context, entries[r].stored)
           \/ fresh = {} /\ work' = [work EXCEPT ![w].phase = "ask"]
        /\ UNCHANGED <<identityVars, worldVars, clock, cache, sessionVars>>

\* cachedProvider.
Lookup(w) ==
    LET q       == work[w]
        entries == cache[Service(w, q)]
        remote  == RemoteOf(q)
        hit     == remote \in DOMAIN entries /\ Fresh(entries[remote])
    IN  /\ q.phase = "lookup"
        /\ \/ hit /\ Got(w, entries[remote].context, entries[remote].stored)
           \/ ~hit /\ work' = [work EXCEPT ![w].phase = "ask"]
        /\ UNCHANGED <<identityVars, worldVars, clock, cache, sessionVars>>

Branches(git) == {t.branch : t \in {x \in ToSet(git.worktrees) : ~x.detached}} \ {""}

Unavailable(remote) ==
    [repository |-> ForgeRepository(remote), available |-> FALSE, pulls |-> {}]

\* GitHubCLIAdapter.Inspect: the open pull requests of the local branches.
Pulls(forge, git) ==
    IF git.remote \notin DOMAIN forge THEN Unavailable(git.remote)
    ELSE IF ~forge[git.remote].ok THEN Unavailable(git.remote)
    ELSE [repository |-> ForgeRepository(git.remote), available |-> TRUE,
          pulls |-> {p \in forge[git.remote].val : p.head \in Branches(git)}]

Answered(w, context) ==
    /\ work[w].phase = "ask"
    /\ work' = [work EXCEPT ![w].phase = "store", ![w].answer = Ok(context)]
    /\ UNCHANGED <<identityVars, worldVars, clock, cache, sessionVars>>

Ask(w) ==
    Answered(w, Pulls(now.forge, work[w].see[work[w].asked.val].val))

\* The HTTP client goes away: gh is stopped, and that is its answer.
Cancel(w) == w # Session /\ Answered(w, Unavailable(RemoteOf(work[w])))

\* storeProvider, which keeps errors too.
Store(w) ==
    LET q == work[w]
    IN  /\ q.phase = "store"
        /\ cache' = [cache EXCEPT ![Service(w, q)] =
                        With(@, RemoteOf(q), [stored |-> clock, context |-> q.answer.val])]
        /\ Got(w, q.answer.val, clock)
        /\ UNCHANGED <<identityVars, worldVars, clock, sessionVars>>

\* All is read: the answer is made, and written to the MCP client.
Reply(w) ==
    LET q == [work[w] EXCEPT !.phase = "done", !.at = clock]
        Delivered(answer) ==
            /\ work' = [work EXCEPT ![w] = [q EXCEPT !.answer = answer]]
            /\ output' = IF w = Session
                         THEN Append(output, [id |-> q.id,
                                              kind |-> IF answer.ok THEN "result" ELSE "toolError"])
                         ELSE output
    IN  /\ work[w].phase = "read"
        /\ work[w].next = <<>>
        /\ Delivered(Answer(Made(q), held[Owner[w]]))
        /\ UNCHANGED <<identityVars, worldVars, clock, cache, lines, taken>>

\* Files, sessions, branches and pull requests change.
Environment ==
    /\ changes > 0
    /\ changes' = changes - 1
    /\ now' \in World.machines \ {now}
    /\ UNCHANGED <<identityVars, world, requests, clock, cache, sessionVars, work>>

Tick ==
    /\ clock < World.ticks
    /\ clock' = clock + 1
    /\ UNCHANGED <<identityVars, worldVars, cache, sessionVars, work>>

Step(w) == ReadNext(w) \/ Lookup(w) \/ Ask(w) \/ Store(w) \/ Reply(w)

Next ==
    \/ \E p \in Process : Begin(p) \/ Die(p)
    \/ TakeLine
    \/ \E w \in Worker : Browse(w) \/ Step(w) \/ Cancel(w)
    \/ Environment
    \/ Tick

Spec == Init /\ [][Next]_vars
=============================================================================
