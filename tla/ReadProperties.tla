--------------------------- MODULE ReadProperties ---------------------------
(***************************************************************************)
(* What the answers of a machine promise.  Some properties speak of what   *)
(* the answers would be if nothing changed while they are made (AllNow), the  *)
(* others of the answers that were made while the machine did change.      *)
(***************************************************************************)
EXTENDS ReadService

\* What depends on the machine alone is looked at once for each of its states.
Quiet == \A p \in Process : start[p] = "off"

ReadNames == {"catalog", "live", "scan", "convention", "config", "items", "git", "again",
              "records", "titles", "entries", "evidence"}

AllNow(root) ==
    [n \in ReadNames |-> IF n = "git" THEN InspectGit(now.git, root) ELSE Found(now, n)]

SourceNow(root) ==
    LET git == InspectGit(now.git, root)
    IN  IF git.ok THEN Ok([git |-> git.val, forge |-> NoForge]) ELSE Error

Done(w, ops) == work[w].phase = "done" /\ work[w].op \in ops

Recorded == IF Quiet /\ now.catalog.ok THEN now.catalog.val ELSE {}

----------------------------------------------------------------------------
(* Types: every request is in a phase of its own, what it has read are     *)
(* states of its machine, and a service keeps only contexts of remotes.    *)

Phases == {"idle", "read", "lookup", "ask", "store", "done"}

SeenIn(found, step, machine) ==
    IF IsGit(step)
    THEN found = Error \/ \E root \in DOMAIN machine.git : found = machine.git[root]
    ELSE found = Found(machine, step[1])

ReadTypeOK ==
    /\ IdentityTypeOK
    /\ OneWriter
    /\ world \in DOMAIN Worlds
    /\ now \in World.machines
    /\ changes \in 0..World.changes
    /\ requests \in 0..World.requests
    /\ clock \in 0..World.ticks
    /\ lines \in World.sessions
    /\ taken \in 0..Len(lines)
    /\ \A w \in Worker :
          /\ work[w].phase \in Phases
          /\ work[w] # Idle => Running(w)
          /\ work[w].phase \in {"lookup", "ask", "store"} => work[w].asked.ok
          /\ work[w] # Idle => \A s \in DOMAIN work[w].see :
                \E m \in World.machines : SeenIn(work[w].see[s], s, m)
    /\ \A s \in Services : \A r \in DOMAIN cache[s] :
          /\ SupportsGitHub(r)
          /\ cache[s][r].stored \in 0..clock

----------------------------------------------------------------------------
(* Acceptance.                                                             *)

\* An accepted answer is one the evidence bears out: the project lies in a
\* worktree, the innermost one, that was clean at the revision of the answer
\* when git was read, and every required check has a valid record of that
\* revision, newer than its others there, that passed or was allowed to be
\* skipped (docs/decisions/ADR-004, README.md:268; acceptance.go:72).  What is
\* stale, of another revision or of a dirty worktree accepts nothing, however
\* the machine changed between the reads.
Supports(r, requirement) ==
    /\ r.decodes
    /\ ValidRecord(r)
    /\ r.result = "passed" \/ (r.result = "skipped" /\ requirement.allowSkipped)

BorneOut(q) ==
    LET see     == View(q, <<>>)
        project == SeenProject(see, SeenRepository(see, Arg(q, "repository_id")).val.root).val
        files   == DirAt(see["evidence"], project.root).evidence.val
        trees   == ToSet(see["git"].val.worktrees)
        around  == {t \in trees : IsPrefix(CanonicalPath(t.path), CanonicalPath(project.root))}
        result  == q.answer.val
    IN  /\ project.policy # <<>>
        /\ \E m \in World.machines : see["git"] = InspectGit(m.git, project.repositoryRoot)
        /\ \E t \in around :
              /\ t.dirty = 0
              /\ t.head # ""
              /\ result.decision.revision = <<"git", t.head>>
              /\ \A u \in around : Len(CanonicalPath(u.path)) <= Len(CanonicalPath(t.path))
        /\ \A i \in DOMAIN project.policy :
              LET own == {r \in files : /\ r.item = Arg(q, "work_item_id")
                                        /\ r.check = project.policy[i].check
                                        /\ r.revision = result.decision.revision}
              IN  \E r \in own :
                     /\ Supports(r, project.policy[i])
                     /\ \A s \in own : s.observed <= r.observed

AcceptedOnCurrentEvidence ==
    \A w \in Worker :
        Done(w, {"get_acceptance"}) =>
            LET q == work[w]
            IN  q.answer.ok => (q.answer.val.decision.state = "accepted" => BorneOut(q))

EntryAgrees(e, id, source, summary, one, spec) ==
    /\ one.ok
    /\ one.val.decision.state = e.state
    /\ one.val.pending = e.pending
    /\ summary.configured => one.val.evidenceCount = e.evidenceCount
    /\ source.ok => /\ spec.ok
                    /\ spec.val.acceptance.ok
                    /\ spec.val.acceptance.val.decision = one.val.decision

PagesAgree(id, all, source, tool, page, onPage) ==
    LET parts == {"acceptance", "evidence", "intent", "execution"}
        summary == tool.acceptance.val
    IN  /\ page.ok => [p \in parts |-> page.val[p]] = [p \in parts |-> tool[p]]
        /\ onPage = tool.acceptance
        /\ tool.acceptance.ok =>
              \A e \in {x \in ToSet(summary.items) : x.item # 0} :
                 EntryAgrees(e, id, source, summary, GetAcceptance(all, id, e.item),
                             SpecPage(all, id, e.path, source))

\* Five views of acceptance are one, while nothing changes: the overview of
\* the repository page, of the acceptance page and of the control-plane tool,
\* the page of each work item and get_acceptance (web/repository_control_plane.go:80,
\* controlplane/repository_control_plane.go:137, projectstate/project.go:146).
AcceptanceViewsAgree ==
    \A r \in Recorded :
        LET all    == AllNow(r.root)
            source == SourceNow(r.root)
        IN  PagesAgree(r.id, all, source, GetRepositoryControlPlane(all, r.id).val,
                       ProjectPage(all, r.id, source),
                       AcceptancePage(all, r.id, source).val.overview)

----------------------------------------------------------------------------
(* The Host: its repositories, sessions and totals.                        *)

\* Every listed repository can be read by its ID, also one that only lives
\* (the promise of controlplane/work_reader.go:152), and the list, the detail
\* and the sessions say the same of who is active.  A session without an agent
\* is left out: the list counts it and the detail does not (reader.go:139).  A
\* record under an ID of an old catalog is listed by that ID, and its sessions
\* by the hash of its root.
RepositoryViewsAgree ==
    LET list     == ListRepositories(now.catalog, now.live)
        sessions == ListActiveSessions(now.catalog, now.live)
        At(id)   == GetRepository(now.catalog, now.live, now.live, Error, id)
    IN  Quiet /\ list.ok =>
        /\ \A r \in list.val.repositories :
              /\ At(r.id).ok
              /\ At(r.id).val.repository.root = r.root
              /\ now.live.ok /\ (\A s \in now.live.val : s.agent # "") =>
                    /\ At(r.id).val.repository.active = r.active
                    /\ At(r.id).val.repository.agents = r.agents
                    /\ r.active <=> \E s \in sessions.val :
                                      s.repositoryID = RepositoryIDForRoot(r.root)
        /\ now.live.ok => \A s \in sessions.val : s.root # <<>> =>
              \E r \in list.val.repositories :
                 r.root = s.root /\ (r.id = s.repositoryID \/ r.id \in {x.id : x \in Recorded})

OwnSummaries ==
    {[id |-> r.id, own |-> GetRepositoryControlPlane(AllNow(r.root), r.id).val] : r \in Recorded}

TotalsOf(host, summaries) ==
    LET Sum(part, name) ==
            SumFunction([s \in {x \in summaries : x.own[part].ok} |-> s.own[part].val[name]])
        Calls == {"blocked", "waiting"}
    IN  /\ host.activeSessions = SumFunction([s \in summaries |-> s.own.execution.active])
        /\ host.counts.workItems = Sum("intent", "total")
        /\ host.counts.invalidItems = Sum("intent", "invalid")
        /\ host.counts.records = Sum("evidence", "total")
        /\ \A c \in {"new", "inProgress", "done"} : host.counts[c] = Sum("intent", c)
        /\ host.counts.failed = Sum("evidence", "failed")
        /\ \A c \in Calls \union {"accepted"} : host.counts[c] = Sum("acceptance", c)
        /\ \A s \in {x \in summaries : x.own.acceptance.ok} :
              (\E c \in Calls : s.own.acceptance.val[c] > 0)
              => s.id \in {a.id : a \in host.attention}

\* The totals of the Host are those of its repositories: both are counted by
\* code of their own, and every repository that cannot be read is left out of
\* both (host_control_plane.go:87, repository_control_plane.go:68).  The Host
\* names every repository with a blocked or a waiting work item.
HostTotals ==
    LET ids  == {r.id : r \in Recorded}
        root == [id \in ids |-> (CHOOSE r \in Recorded : r.id = id).root]
    IN  Quiet /\ now.catalog.ok =>
        TotalsOf(GetHostControlPlane(now.catalog, [id \in ids |-> now.tree],
                                     [id \in ids |-> InspectGit(now.git, root[id])]).val,
                 OwnSummaries)

\* When a repository was asked for, its record could not be read or there was
\* none, and no live session either.
Lost(q, id) ==
    LET catalog == View(q, <<id>>)["catalog"]
        live == View(q, <<id>>)["live"]
    IN  \/ ~catalog.ok
        \/ /\ id \notin {r.id : r \in catalog.val}
           /\ live.ok => id \notin {RepositoryIDForRoot(root) : root \in LiveRoots(live.val)}

\* A snapshot of this Host fails for one of three reasons only: the catalog
\* could not be read, a repository that was listed because of a live session
\* is in no catalog and its session was gone when it was asked for, or live
\* sessions could not be read then (federation/snapshot.go:128).  No state of
\* the files of a project, of git or of the forge makes a Host unreadable.
SnapshotFailsOnlyForLost ==
    \A w \in Worker :
        Done(w, SnapshotOps) =>
            LET q    == work[w]
                see  == View(q, <<>>)
            IN  \/ q.answer.ok
                \/ ~see["catalog"].ok
                \/ ~see["hostCatalog"].ok
                \/ \E s \in DOMAIN q.see : s[1] = "live" /\ s[2] # <<>> /\ Lost(q, s[2][1])

\* config.Init leaves a project with the convention it was detected to have,
\* if that is one Specview supports, in a file that loads (config.go:316).
InitKeepsConvention ==
    Quiet => \A root \in DOMAIN now.tree :
        LET dir     == now.tree[root]
            before  == DetectConvention(dir)
            chosen  == DetectInitConvention(dir.dirs)
            after   == [dir EXCEPT !.config = "present",
                                   !.lines = InitialConfig(chosen.val[1], chosen.val[2])]
        IN  dir.config = "absent" /\ chosen.ok =>
            /\ LoadConfig(after.lines).ok
            /\ DetectConvention(after).ok
            /\ Resolve(root, after, after).val.root = root
            /\ before.ok /\ before.val.supported => DetectConvention(after) = before

----------------------------------------------------------------------------
(* The federation.                                                         *)

\* The snapshots with which no later one of the same Host competes.
NewestOf(snapshots) ==
    {s \in snapshots : \A t \in snapshots : t.hostID = s.hostID => t.observed <= s.observed}

\* Two different snapshots of one Host and time.
Conflicting(snapshots) ==
    \E s, t \in snapshots : s # t /\ s.hostID = t.hostID /\ s.observed = t.observed

\* The groups of a projection share out the instances of the newest snapshots,
\* all of them and no others, every two members of a group match, and every two
\* instances that are ambiguous or in conflict are reported and apart
\* (federation/aggregate.go:62).
GroupsSound ==
    \A w \in Worker :
        Done(w, {"get_federation_status"}) /\ work[w].answer.ok =>
            LET p == work[w].answer.val.federation
                see == View(work[w], <<>>)
                snapshots == {SnapshotAnswer(Made(work[w]), held[Owner[w]]).val} \union
                    UNION {ToSet(Observation(see["observations"], x.name).val.snapshots) :
                              x \in ToSet(see["registry"].val)}
                members == UNION {ToSet(g.instances) : g \in p.repositories}
                Outcome(a, b) == CorrelateRepositories(a.fingerprint, b.fingerprint)
            IN  /\ members = UNION {{Sourced(s, s.instances[i]) : i \in DOMAIN s.instances} :
                                      s \in NewestOf(snapshots)}
                /\ \A g, h \in p.repositories :
                      g # h => ToSet(g.instances) \intersect ToSet(h.instances) = {}
                /\ \A g \in p.repositories : \A a, b \in ToSet(g.instances) :
                      a # b => Outcome(a, b) = "match"
                /\ \A a, b \in members :
                      a # b /\ Outcome(a, b) \in {"ambiguous", "conflict"} =>
                          \E i \in p.issues : /\ i.between = {a.id, b.id}
                                              /\ i.outcome = Outcome(a, b)

\* What the peers have shown, peer after peer; nothing while that cannot be read.
SeenOfPeers ==
    LET Known(p) == Observation(now.observations, p.name)
        readable == /\ now.registry.ok
                    /\ \A i \in DOMAIN now.registry.val : Known(now.registry.val[i]).ok
    IN  IF readable
        THEN FlattenSeq([i \in DOMAIN now.registry.val |->
                            Known(now.registry.val[i]).val.snapshots])
        ELSE <<>>

Reordered(seen) ==
    {[i \in DOMAIN seen |-> seen[f[i]]] : f \in Bijection(DOMAIN seen, DOMAIN seen)}

\* In whatever order the snapshots of the peers are read, they are aggregated to
\* the newest of each Host, grouped in the order of Hosts and roots, or refused:
\* refused if two newest ones of a Host differ, and accepted if no two different
\* ones have one Host and time (federation/aggregate.go:166).  In between, where
\* older ones conflict, the order decides; OrderIndependent is about those.
NewestDecides ==
    Quiet => \A order \in Reordered(SeenOfPeers) :
        LET seen   == ToSet(SeenOfPeers)
            newest == NewestOf(seen)
            result == Aggregate(order)
        IN  /\ Conflicting(newest) => ~result.ok
            /\ ~Conflicting(seen) => result.ok
            /\ result.ok =>
                  result = Ok(Federation(newest, PlacedCandidates(Candidates(newest))))

\* What is aggregated, and whether it is refused, does not depend on the order
\* in which the snapshots of the peers are read, as ADR-009 and H20 have it.  The
\* code refuses two different snapshots of one Host and time unless the newest
\* is read between them (federation/aggregate.go:172).
OrderIndependent ==
    Quiet => \A order \in Reordered(SeenOfPeers) : Aggregate(order) = Aggregate(SeenOfPeers)

\* The peers whose observation cannot be read are left out of a projection of
\* the others, as ADR-012 has it: the others and this Host still appear.  The
\* code gives up the projection (federationruntime/projection.go:101).
PeerFailureStaysItsOwn ==
    \A w \in Worker :
        Done(w, {"get_federation_status"}) =>
            LET q    == work[w]
                see  == View(q, <<>>)
                own  == SnapshotAnswer(Made(q), held[Owner[w]])
                read == [n \in {m \in DOMAIN see["observations"] : see["observations"][m].ok} |->
                            see["observations"][n]]
            IN  BuildProjection(own, see["registry"], read).ok => q.answer.ok

\* Every instance of a projection can be selected by its Host and its ID, with
\* the group it is in, and the answer for a Host shows all of its instances and
\* no others (federationruntime/select.go:10, mcpserver/federation_host.go:28),
\* as long as each observation is of the Host its peer is expected to be, which
\* is compared when it is recorded only (federationpeers/observation.go:95).
InstanceSelectable ==
    \A w \in Worker :
        Done(w, {"get_federation_status"}) /\ work[w].answer.ok =>
            LET p == work[w].answer.val
                see == View(work[w], <<>>)
                pinned == \A peer \in ToSet(see["registry"].val) :
                    \A s \in ToSet(Observation(see["observations"], peer.name).val.snapshots) :
                       s.hostID = peer.hostID
                members == UNION {ToSet(g.instances) : g \in p.federation.repositories}
            IN  pinned => \A i \in members :
                   /\ ProjectFederationRepository(p, i.hostID, i.id).ok
                   /\ ProjectFederationRepository(p, i.hostID, i.id).val.instance = i
                   /\ \E g \in p.federation.repositories :
                         /\ i \in ToSet(g.instances)
                         /\ ProjectFederationRepository(p, i.hostID, i.id).val.groupID = g.id
                   /\ {r.instance : r \in ProjectFederationHost(p, i.hostID).val.repositories}
                         = {m \in members : m.hostID = i.hostID}

\* No peer has shown a later snapshot of a Host than the one at hand, as a
\* machine with a copy of host.json does when its clock is ahead.
NoLaterSnapshot(see, hostID, observed) ==
    \A p \in ToSet(see["registry"].val) :
        \A s \in ToSet(Observation(see["observations"], p.name).val.snapshots) :
            s.hostID = hostID => s.observed <= observed

\* The page of a Host links what needs attention to an instance of that Host
\* that came from the very repository, and on this machine it links all of it
\* as long as the list and the totals were made from one catalog and no peer
\* has a later snapshot of this Host (web/federation_host_page.go:85).
LinkedPage(page, see) ==
    LET Alone(id) == \A r, s \in see["catalog"].val : r.id = id /\ s.root = r.root => s = r
    IN  \A a \in page.attention :
           /\ a.href # <<>> => \E r \in page.repositories : /\ r.instance.id = a.href
                                                            /\ r.instance.source = a.item.id
                                                            /\ r.instance.hostID = page.host.hostID
           /\ /\ page.host.source = "local"
              /\ see["hostCatalog"] = see["catalog"]
              /\ Alone(a.item.id)
              /\ NoLaterSnapshot(see, page.host.hostID, page.host.observed)
              => a.href # <<>>

\* Every answered page of a Host is linked that way.
AttentionLinked ==
    \A w \in Worker :
        Done(w, {"/federation/host"}) /\ work[w].answer.ok =>
            LinkedPage(work[w].answer.val, View(work[w], <<>>))

----------------------------------------------------------------------------
(* The forge and the session.                                              *)

\* The pull requests a forge lists for a remote, in some state of the machine.
PullsListed(machines, remote) ==
    UNION {m.forge[remote].val :
              m \in {x \in machines : remote \in DOMAIN x.forge /\ x.forge[remote].ok}}

ContextOf(machines, remote, context) ==
    /\ context.repository = ForgeRepository(remote)
    /\ context.pulls \subseteq PullsListed(machines, remote)

\* A forge context in an answer is about the remote git has in that answer and
\* lists only pull requests its forge has listed for that remote, whichever
\* handler stored it in the cache and whatever others asked meanwhile
\* (sourcecontrol/context.go:186).
ForgeContextSound ==
    \A w \in Worker : \A step \in IF work[w] = Idle THEN {} ELSE DOMAIN work[w].forge :
        work[w].forge[step].matched =>
            ContextOf(World.machines, work[w].see[step].val.remote,
                      work[w].forge[step].context)

\* No forge context was as old as TTL when it was taken from the cache, though
\* time passes between the answer of the forge, its storing and every look, and
\* a slow answer may replace a newer one (sourcecontrol/context.go:222).
ForgeContextFresh ==
    \A w \in Worker : \A step \in IF work[w] = Idle THEN {} ELSE DOMAIN work[w].forge :
        LET got == work[w].forge[step]
        IN  got.matched => got.looked - got.stored < TTL

\* A line that is neither blank nor a notification.
AsksAnswer(line) ==
    \/ line.form = "garbage"
    \/ line.form = "request" /\ line.id # NoLineID

\* The lines that ask for one, up to some line.
Asked(last) == {i \in 1..last : AsksAnswer(lines[i])}

ResponseID(line) == IF line.form = "garbage" THEN NullID ELSE line.id

\* The MCP server answers every line that asks for an answer, once, in the
\* order of the lines and under the ID of its line; it answers no notification
\* (mcpserver/server.go:160).
ResponsesMatchRequests ==
    /\ Len(output) + (IF Busy(work[Session]) THEN 1 ELSE 0) = Cardinality(Asked(taken))
    /\ \A i \in Asked(taken) :
          LET answer == Cardinality(Asked(i))
          IN  answer \in DOMAIN output => output[answer].id = ResponseID(lines[i])
=============================================================================
