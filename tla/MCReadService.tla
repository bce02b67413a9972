---------------------------- MODULE MCReadService ----------------------------
(***************************************************************************)
(* Worlds for TLC: one per question, each as small as it can be asked in.  *)
(***************************************************************************)
EXTENDS ReadProperties

Api == <<"srv", "api">>
Web == <<"srv", "web">>
Lib == <<"srv", "lib">>
Old == <<"mnt", "api">>

MCHostRank == [h \in {"h1", "h2", "h3", "h4"} |->
                  CASE h = "h1" -> 1 [] h = "h2" -> 2 [] h = "h3" -> 3 [] OTHER -> 4]
MCRootRank == (Api :> 1) @@ (Web :> 2) @@ (Lib :> 3) @@ (Old :> 4)
MCIDRank == (RepositoryIDForRoot(Api) :> 1) @@ (RepositoryIDForRoot(Web) :> 2)
            @@ (RepositoryIDForRoot(Old) :> 3) @@ ([hash |-> <<"old">>] :> 4)
MCLinks == (Old :> Api)

ID(root) == Ok(RepositoryIDForRoot(root))

----------------------------------------------------------------------------
(* Files.                                                                  *)

Item(item, path, status) ==
    [item |-> item, path |-> path, kind |-> "spec", plane |-> "", role |-> "",
     status |-> status, bad |-> FALSE]
Broken(item, path) == [Item(item, path, "new") EXCEPT !.bad = TRUE]
Note(item, path) == [Item(item, path, "new") EXCEPT !.plane = "knowledge"]

Config(required, allowed) ==
    << Line(0, "pair", "version", "2"), Line(0, "header", "specs", ""),
       Line(2, "pair", "path", "specs"), Line(2, "pair", "pattern", "*.md"),
       Line(0, "header", "acceptance", ""), Line(2, "header", "required", "") >>
    \o [i \in DOMAIN required |-> Line(4, "item", "", required[i])]
    \o (IF allowed = <<>> THEN <<>> ELSE <<Line(2, "header", "allow_skipped", "")>>)
    \o [i \in DOMAIN allowed |-> Line(4, "item", "", allowed[i])]

Bare(path) ==
    << Line(0, "pair", "version", "2"), Line(0, "header", "project", ""),
       Line(2, "pair", "id", "p1"), Line(0, "header", "specs", ""),
       Line(2, "pair", "path", path), Line(2, "pair", "pattern", "*.md") >>

Dir(lines_, items, evidence) ==
    [config |-> "present", lines |-> lines_, dirs |-> {}, items |-> ("specs" :> Ok(items)),
     evidence |-> evidence]

Record(id, revision, check, result, observed) ==
    [path |-> id, decodes |-> TRUE, version |-> 1, id |-> id, item |-> 1,
     revision |-> <<"git", revision>>, check |-> check, kind |-> "test", provider |-> "go",
     result |-> result, observed |-> observed, started |-> 0, finished |-> observed]

Tree(path, branch, head, dirty) ==
    [path |-> path, branch |-> branch, detached |-> FALSE, head |-> head, dirty |-> dirty]

GitHub(name) == [form |-> "url", host |-> "github.com", name |-> name]
ApiName == << <<"o", "api">>, "o/api" >>
WebName == << <<"o", "web">>, "o/web" >>

Git(remote, trees) == Ok([remote |-> remote, worktrees |-> trees])

Entry(root, lastSeen, sessions) ==
    [id |-> RepositoryIDForRoot(root), root |-> root, lastSeen |-> lastSeen, sessions |-> sessions]
Past(id, active) == [id |-> id, agent |-> "codex", lastSeen |-> id, active |-> active]
Live(id, agent, root) == [id |-> id, agent |-> agent, root |-> root]

Blank == [catalog |-> Ok({}), live |-> Ok({}), tree |-> <<>>, git |-> <<>>, forge |-> <<>>,
          registry |-> Ok(<<>>), observations |-> <<>>]

----------------------------------------------------------------------------
(* Lines of a client and requests of a browser.                            *)

NoArgs == Ok(<<>>)
Call(id, name, args) ==
    [form |-> "request", id |-> id, version |-> TRUE, method |-> "tools/call",
     params |-> Ok([name |-> name, args |-> args])]
ById(root) == ("repository_id" :> ID(root))
OfItem(root, item) == ById(root) @@ ("work_item_id" :> Ok(item))
Page(op, args) == [op |-> op, args |-> args]
NoPages == [w \in Worker |-> {}]

Small(machines, starts, sessions) ==
    [machines |-> machines, starts |-> starts, changes |-> 0, requests |-> 0, ticks |-> 0,
     kills |-> 0, processes |-> {"mcp"}, sessions |-> sessions, pages |-> NoPages]

----------------------------------------------------------------------------
(* Every pair of records, over clean, dirty and nested worktrees and three *)
(* policies; nothing changes.                                              *)

Pair(r1, x1, r2, x2, o2) == <<r1, x1, r2, x2, o2>>
Pairs == {Pair(r1, x1, r2, x2, o2) :
             r1 \in {"new", "old"}, x1 \in {"passed", "failed"}, r2 \in {"new", "old"},
             x2 \in {"passed", "failed", "skipped", "running"}, o2 \in {1, 2}}

First == Record(1, "new", "unit", "passed", 1)
Odd == [none |-> {},
        undecodable |-> {First, [Record(2, "new", "unit", "passed", 2) EXCEPT !.decodes = FALSE]},
        unfinished |-> {First, [Record(2, "new", "unit", "passed", 2) EXCEPT !.finished = 0]},
        skipped |-> {First, Record(2, "new", "lint", "skipped", 2)},
        stale |-> {First, Record(2, "old", "lint", "passed", 2)},
        other |-> {First, [Record(2, "new", "unit", "failed", 2) EXCEPT !.item = 2]}]

Evidences == Pairs \union {<<o>> : o \in DOMAIN Odd}

EvidenceOf(e) ==
    IF Len(e) = 1 THEN Odd[e[1]]
    ELSE {Record(1, e[1], "unit", e[2], 1), Record(2, e[3], "unit", e[4], e[5])}

Policies == [none |-> Config(<<>>, <<>>), unit |-> Config(<<"unit">>, <<"unit">>),
             both |-> Config(<<"unit", "lint">>, <<"lint">>)]

Worktrees == [clean |-> <<Tree(Api, "main", "new", 0)>>, dirty |-> <<Tree(Api, "main", "new", 1)>>,
              nested |-> <<Tree(<<"srv">>, "main", "old", 0), Tree(Api, "dev", "new", 0)>>]

Items == {Item(1, 1, "done"), Item(2, 2, "in_progress"), Broken(3, 3), Note(4, 4)}

Judged(evidence, policy, trees) ==
    [Blank EXCEPT !.catalog = Ok({Entry(Api, 1, {})}),
                  !.tree = (Api :> Dir(policy, Items, Ok(evidence))),
                  !.git = (Api :> Git(NoRemote, trees))]

AcceptanceMachines ==
    {Judged(EvidenceOf(m[1]), Policies[m[2]], Worktrees[m[3]]) :
        m \in (Evidences \X {"unit"} \X (DOMAIN Worktrees))
               \union ({<<o>> : o \in DOMAIN Odd} \X (DOMAIN Policies) \X {"clean"})}

AcceptanceWorld ==
    Small(AcceptanceMachines, AcceptanceMachines,
          {<<Call(1, "get_acceptance", Ok(OfItem(Api, 1)))>>})

----------------------------------------------------------------------------
(* The wire: any two lines of a client, and a kill.                        *)

Wire(id, method, params) ==
    [form |-> "request", id |-> id, version |-> TRUE, method |-> method, params |-> params]

WireLines(id) ==
    {[form |-> "blank"], [form |-> "garbage"],
     Wire(id, "initialize", Ok(<<>>)), Wire(id, "initialize", Error),
     Wire(NoLineID, "notifications/initialized", Ok(<<>>)), Wire(NoLineID, "", Ok(<<>>)),
     Wire(id, "ping", Ok(<<>>)), Wire(id, "tools/list", Ok(<<>>)),
     Wire(id, "resources/list", Ok(<<>>)),
     [Wire(id, "ping", Ok(<<>>)) EXCEPT !.version = FALSE], Wire(NullID, "ping", Ok(<<>>)),
     Wire(id, "tools/call", Error), Call(id, "", NoArgs), Call(id, "no_such_tool", NoArgs),
     Call(id, "list_repositories", NoArgs), Call(id, "list_repositories", Ok(ById(Api))),
     Call(id, "get_repository", NoArgs), Call(id, "get_repository", Ok("repository_id" :> Error)),
     Call(id, "get_repository", Ok(ById(Api)))}

Listing == [Blank EXCEPT !.catalog = Ok({Entry(Web, 1, {})})]

WireWorld ==
    [Small({Listing}, {Listing}, {<<a, b>> : a \in WireLines(1), b \in WireLines(2)})
     EXCEPT !.kills = 1]

----------------------------------------------------------------------------
(* States of a machine nobody asks: what is in the catalog, live, in the   *)
(* files of Api and said by git; and the directories before "specview      *)
(* init".                                                                  *)

Still(machines) == [Small(machines, machines, {<<>>}) EXCEPT !.processes = {}]

Catalogs == [broken |-> Error,
             one |-> Ok({Entry(Api, 1, {Past(1, TRUE)})}),
             old |-> Ok({[Entry(Api, 1, {Past(1, TRUE)}) EXCEPT !.id = [hash |-> <<"old">>]]}),
             two |-> Ok({Entry(Api, 1, {Past(1, TRUE), Past(2, FALSE)}),
                         Entry(Web, 2, {Past(3, TRUE)})})]

Lives == [broken |-> Error, none |-> Ok({}),
          some |-> Ok({Live(1, "codex", Api), Live(2, "claude", Lib), Live(3, "codex", Lib)}),
          nowhere |-> Ok({Live(1, "codex", <<>>), Live(2, "claude", Web)}),
          nobody |-> Ok({Live(1, "", Api)})]

Files == {First, Record(2, "new", "unit", "failed", 1), [Record(3, "old", "unit", "passed", 3)
             EXCEPT !.decodes = FALSE]}

Dirs == [absent |-> EmptyDir,
         kit |-> [EmptyDir EXCEPT !.dirs = {".specify"}, !.items = ("specs" :> Ok(Items))],
         kiro |-> [EmptyDir EXCEPT !.dirs = {".kiro/specs"}],
         several |-> [EmptyDir EXCEPT !.dirs = {".specify", ".kiro/specs"}],
         unreadable |-> [EmptyDir EXCEPT !.config = "unreadable"],
         wrong |-> Dir(<<Line(0, "other", "", "")>>, Items, Ok(Files)),
         free |-> Dir(Config(<<>>, <<>>), Items, Ok(Files)),
         judged |-> Dir(Config(<<"unit">>, <<>>), Items \union {Item(5, 5, "new")}, Ok(Files)),
         unproven |-> Dir(Config(<<"unit">>, <<>>), Items, Error),
         nameless |-> Dir(Config(<<"unit">>, <<>>), Items \union {Item(0, 6, "new")}, Ok(Files))]

HostMachines ==
    {[Blank EXCEPT !.catalog = Catalogs[m[1]], !.live = Lives[m[2]],
                   !.tree = (Api :> Dirs[m[3]]) @@ (Web :> Dirs["judged"]),
                   !.git = (Web :> Git(NoRemote, <<Tree(Web, "main", "new", 0)>>))
                           @@ (Api :> IF m[4] THEN Git(NoRemote, Worktrees["clean"]) ELSE Error)] :
        m \in (DOMAIN Catalogs) \X (DOMAIN Lives) \X (DOMAIN Dirs) \X BOOLEAN}

InitMachines ==
    {[Blank EXCEPT !.tree = (Api :> [EmptyDir EXCEPT !.dirs = dirs])] :
        dirs \in SUBSET {".specify", ".kiro/specs", "_bmad-output", "openspec", "openspec/specs"}}

----------------------------------------------------------------------------
(* Repositories of two peers; nothing else.                                *)

Instance(host, root, print) ==
    [id |-> <<host, root>>, source |-> RepositoryIDForRoot(root), name |-> print.name,
     root |-> root, active |-> TRUE, agents |-> {"codex"}, fingerprint |-> print,
     sessions |-> {}, worktrees |-> {}, warned |-> FALSE]

Published(host, observed, instances) ==
    [version |-> 1, hostID |-> host, hostname |-> host, observed |-> observed,
     controlPlane |-> NoControlPlane, warned |-> FALSE, instances |-> instances]

Fork == << <<"o", "api">>, "O/API" >>
Prints ==
    [plain |-> Fingerprint("", ApiName, NoRemote, "", NoName),
     cloned |-> Fingerprint("", ApiName, GitHub(ApiName), "github", ApiName),
     spelled |-> Fingerprint("", Fork, [GitHub(Fork) EXCEPT !.form = "scp"], "github", Fork),
     named |-> Fingerprint("p1", ApiName, NoRemote, "", NoName),
     both |-> Fingerprint("p1", ApiName, GitHub(ApiName), "github", ApiName),
     torn |-> Fingerprint("p1", ApiName, GitHub(WebName), "github", WebName),
     other |-> Fingerprint("p2", WebName, GitHub(WebName), "github", WebName)]

Peers(observations) ==
    [Blank EXCEPT
        !.registry = Ok(<<[name |-> 1, hostID |-> "h3"], [name |-> 2, hostID |-> "h4"]>>),
        !.observations = observations]

Correlated(a, b, c) ==
    Peers((1 :> Ok([snapshots |-> <<Published("h3", 1, <<Instance("h3", Api, Prints[a]),
                                                         Instance("h3", Web, Prints[b])>>)>>]))
          @@ (2 :> Ok([snapshots |-> <<Published("h4", 2, <<Instance("h4", Api, Prints[c])>>)>>])))

\* Snapshots of one Host of several times, as three peers of one Host leave
\* them; the Host may be this machine.
Retold(host, times, a, b, c) ==
    [Correlated(a, b, c) EXCEPT
        !.registry = Ok([n \in 1..3 |-> [name |-> n, hostID |-> host]]),
        !.observations =
            [n \in 1..3 |-> Ok([snapshots |-> <<Published(host, times[n],
                <<Instance(host, Api, Prints[<<a, b, c>>[n]])>>)>>])]]

CorrelationMachines == {Correlated(m[1], m[2], m[3]) : m \in [1..3 -> DOMAIN Prints]}
RetoldMachines ==
    {Retold(h, times, m[1], m[2], m[3]) :
        h \in {"h1", "h3"}, times \in {<<1, 2, 2>>, <<1, 2, 1>>},
        m \in [1..3 -> {"plain", "cloned"}]}

AskedForStatus(machines) ==
    Small(machines, machines, {<<Call(1, "get_federation_status", NoArgs)>>})

----------------------------------------------------------------------------
(* The worlds in which a machine changes while it is read.                 *)

Whole ==
    [Correlated("both", "other", "cloned") EXCEPT
        !.catalog = Ok({Entry(Api, 2, {Past(1, TRUE)}), Entry(Web, 1, {})}),
        !.live = Ok({Live(1, "codex", Api), Live(2, "claude", Lib)}),
        !.tree = (Api :> Dir(Config(<<"unit">>, <<>>), Items, Ok({First})))
                 @@ (Web :> [Dirs["kit"] EXCEPT !.evidence = Ok({First})]),
        !.git = (Api :> Git(GitHub(ApiName), Worktrees["clean"]))
                @@ (Web :> Git(NoRemote, <<Tree(Web, "main", "old", 0)>>)),
        !.forge = (GitHub(ApiName) :> Ok({[number |-> 1, head |-> "main"],
                                          [number |-> 2, head |-> "dev"]}))]

\* The agents have ended, work went on and the forge is out of reach.
Later ==
    [Whole EXCEPT
        !.catalog = Ok({Entry(Web, 3, {})}),
        !.live = Ok({}),
        !.tree = (Api :> Dir(Config(<<"unit", "lint">>, <<>>), Items, Ok({First})))
                 @@ (Web :> Dirs["unreadable"]),
        !.git = (Api :> Git(GitHub(ApiName), Worktrees["dirty"])),
        !.forge = (GitHub(ApiName) :> Error)]

Unreadable ==
    [Whole EXCEPT
        !.catalog = Error, !.live = Error, !.git = <<>>,
        !.tree = (Api :> [Dirs["judged"] EXCEPT !.items = ("specs" :> Error), !.evidence = Error]),
        !.observations = [n \in 1..2 |-> Error]]

Changing == {Whole, Later, Unreadable}

Calls ==
    {Call(1, t, NoArgs) : t \in {x \in DOMAIN Tools : Tools[x] = {}}}
    \union {Call(1, t, Ok(ById(Api))) : t \in {x \in DOMAIN Tools : Tools[x] = {"repository_id"}}}
    \union {Call(1, t, Ok(OfItem(Api, 1))) :
               t \in {x \in DOMAIN Tools : "work_item_id" \in Tools[x]}}
    \union {Call(1, "get_repository", Ok(ById(Lib))),
            Call(1, "get_federation_host", Ok("host_id" :> Ok("h3"))),
            Call(1, "get_federation_repository",
                 Ok(("host_id" :> Ok("h3")) @@ ("instance_id" :> Ok(<<"h3", Web>>))))}

ToolsWorld ==
    [Small(Changing, {Whole}, {<<c>> : c \in Calls}) EXCEPT !.changes = 1]

ServedBy(process, machines, starts, pages) ==
    [Small(machines, starts, {<<>>})
     EXCEPT !.processes = {process}, !.pages = pages, !.requests = 1]

\* The pages take the catalog from memory, whatever became of its file.
Remembered == {Whole, Later, [Unreadable EXCEPT !.catalog = Whole.catalog]}

PagesWorld ==
    [ServedBy("serve", Remembered, {Whole}, [NoPages EXCEPT !["page1"] =
        {Page("/", <<>>), Page("/project", "id" :> ID(Api)), Page("/project", "id" :> ID(Web)),
         Page("/project/spec", ("id" :> ID(Api)) @@ ("path" :> Ok(1))),
         Page("/project/evidence", "id" :> ID(Api)),
         Page("/project/acceptance", "id" :> ID(Api)), Page("/history", "id" :> ID(Api)),
         Page("/history/session", ("id" :> ID(Api)) @@ ("session" :> Ok(1))),
         Page("/federation/host", "host_id" :> Ok("h1")),
         Page("/federation/host", "host_id" :> Ok("h3"))}])
     EXCEPT !.changes = 1]

\* Another machine with a copy of host.json is a peer, and its clock is ahead.
Copied ==
    [Whole EXCEPT !.registry = Ok(<<[name |-> 1, hostID |-> "h1"]>>),
                  !.observations = (1 :> Ok([snapshots |-> <<Published("h1", 2,
                                                <<Instance("h1", Lib, Prints["other"])>>)>>]))]

CopiedWorld ==
    ServedBy("serve", {Copied}, {Copied},
             [NoPages EXCEPT !["page1"] = {Page("/federation/host", "host_id" :> Ok("h1"))}])

PeerWorld ==
    [ServedBy("federation", Changing, {Whole}, [NoPages EXCEPT !["peer"] =
        {Page(op, <<>>) : op \in SnapshotOps}])
     EXCEPT !.changes = 1]

\* Two clones of one repository and another one, asked for side by side.
Cloned ==
    [Whole EXCEPT !.catalog = Ok({Entry(Api, 1, {}), Entry(Old, 1, {}), Entry(Web, 1, {})}),
                  !.tree = [r \in {Api, Old, Web} |-> Dir(Config(<<"unit">>, <<>>), {}, Ok({}))],
                  !.git = (Api :> Git(GitHub(ApiName), <<Tree(Api, "main", "new", 0)>>))
                          @@ (Old :> Git(GitHub(ApiName), <<Tree(Old, "dev", "new", 0)>>))
                          @@ (Web :> Git(GitHub(WebName), <<Tree(Web, "main", "new", 0)>>)),
                  !.forge = (GitHub(ApiName) :> Ok({[number |-> 1, head |-> "main"],
                                                    [number |-> 2, head |-> "dev"]}))
                            @@ (GitHub(WebName) :> Ok({[number |-> 3, head |-> "main"]}))]

Acceptances(roots) == {Page("/project/acceptance", "id" :> ID(r)) : r \in roots}

Forges == {Cloned, [Cloned EXCEPT !.forge = <<>>]}

\* Two handlers share the cache, and its entries expire.
ForgeWorld ==
    [ServedBy("serve", Forges, Forges,
              [NoPages EXCEPT !["page1"] = Acceptances({Api, Web}),
                              !["page2"] = Acceptances({Old})])
     EXCEPT !.requests = 2, !.ticks = 2]

\* One handler asks a forge that comes and goes.
FlappingWorld ==
    [ServedBy("serve", Forges, Forges, [NoPages EXCEPT !["page1"] = Acceptances({Api})])
     EXCEPT !.requests = 2, !.ticks = 3, !.changes = 1]

\* The observation of one peer cannot be read.
OneUnreadable == [Whole EXCEPT !.observations[2] = Error]

IdentityWorld ==
    [Small({Blank}, {Blank}, {<<>>})
     EXCEPT !.processes = Process, !.kills = 2]

----------------------------------------------------------------------------
MCOwner == [w \in Worker |-> CASE w = "session" -> "mcp" [] w = "peer" -> "federation"
                               [] OTHER -> "serve"]

MCWorlds ==
    [acceptance |-> AcceptanceWorld, wire |-> WireWorld, hosts |-> Still(HostMachines),
     inits |-> Still(InitMachines), retold |-> AskedForStatus(RetoldMachines),
     correlation |-> AskedForStatus(CorrelationMachines), tools |-> ToolsWorld,
     pages |-> PagesWorld, peer |-> PeerWorld, copied |-> CopiedWorld, forge |-> ForgeWorld,
     flapping |-> FlappingWorld, identity |-> IdentityWorld]

\* The worlds of the two runs that find the federation to differ from its documents.
MCOrderWorlds == [retold |-> AskedForStatus(RetoldMachines)]
MCUnreadablePeerWorlds == [unreadable |-> AskedForStatus({OneUnreadable})]
=============================================================================
