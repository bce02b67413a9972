---------------------------- MODULE ControlPlane ----------------------------
(***************************************************************************)
(* internal/controlplane and internal/executionhistory: the answers of the *)
(* control-plane reader.  A machine is                                     *)
(*   [catalog, live, tree, git, forge]                                     *)
(* catalog the repositories of catalog.json, live the sessions of a scan,  *)
(* git what git says at a root (each Ok or Error), forge by remote.  An    *)
(* answer takes several reads, and the machine changes between them: see   *)
(* maps the name of a read to the machine it saw.                          *)
(***************************************************************************)
EXTENDS Correlation

CONSTANT IDRank  \* the order of the IDs of repositories

ASSUME IDRankAssumption == IDRank \in [DOMAIN IDRank -> Nat] /\ IsInjective(IDRank)

RepositoryIDForRoot(root) == [hash |-> root]

\* The last two names of the path.
DisplayName(root) ==
    << SubSeq(root, IF Len(root) > 2 THEN Len(root) - 1 ELSE 1, Len(root)), "" >>

InspectGit(git, root) == IF root \in DOMAIN git THEN git[root] ELSE Error

----------------------------------------------------------------------------
(* Repositories and sessions.                                              *)

Active(repository) == \E s \in repository.sessions : s.active

RepositorySummary(repository) ==
    [id |-> repository.id, name |-> DisplayName(repository.root),
     root |-> repository.root, active |-> Active(repository), agents |-> {},
     lastSeen |-> repository.lastSeen]

TransientRepository(root) ==
    [id |-> RepositoryIDForRoot(root), root |-> root, lastSeen |-> 0, sessions |-> {}]

LiveRoots(live) == {s.root : s \in live} \ {<<>>}

AgentsAt(live, root) == {s.agent : s \in {x \in live : x.root = root}} \ {""}

\* The catalog's repositories, the live sessions laid over them.  Of two
\* records of one root the one seen longest ago is shown.
ListRepositories(catalog, live) ==
    LET listed == {r \in catalog.val :
                      \A s \in catalog.val : s.root = r.root => s.lastSeen >= r.lastSeen}
        known  == {r.root : r \in listed}
        At(root) == RepositorySummary(IF root \in known
                                      THEN CHOOSE r \in listed : r.root = root
                                      ELSE TransientRepository(root))
    IN  IF ~catalog.ok THEN Error
        ELSE IF ~live.ok
        THEN Ok([warned |-> TRUE, repositories |-> {At(root) : root \in known}])
        ELSE Ok([warned |-> FALSE,
                 repositories |->
                    {[At(root) EXCEPT !.active = root \in LiveRoots(live.val),
                                      !.agents = AgentsAt(live.val, root)] :
                        root \in known \union LiveRoots(live.val)}])

\* Mutant: a repository that only lives is not found.
FindRecorded(catalog, live, id) ==
    Then(catalog, LAMBDA recorded :
        IF \E r \in recorded : r.id = id THEN Ok(CHOOSE r \in recorded : r.id = id) ELSE Error)

\* Reader.repository: the catalog's record, or a repository that only lives.
FindRepository(catalog, live, id) ==
    LET Living(roots) == IF roots = {} THEN Error
                         ELSE Ok(TransientRepository(CHOOSE root \in roots : TRUE))
    IN  Then(catalog, LAMBDA recorded :
            IF \E r \in recorded : r.id = id THEN Ok(CHOOSE r \in recorded : r.id = id)
            ELSE Then(live, LAMBDA sessions :
                     Living({root \in LiveRoots(sessions) : RepositoryIDForRoot(root) = id})))

\* source is Ok([git, forge]) or Error.
GetRepository(catalog, live, scan, source, id) ==
    LET Scanned(summary, agents) == [summary EXCEPT !.agents = agents, !.active = agents # {}]
    IN  Then(FindRepository(catalog, live, id), LAMBDA r :
            Ok([warned |-> ~scan.ok \/ ~source.ok, source |-> source,
                repository |-> IF ~scan.ok THEN RepositorySummary(r)
                               ELSE Scanned(RepositorySummary(r), AgentsAt(scan.val, r.root))]))

ListActiveSessions(catalog, live) ==
    IF ~catalog.ok \/ ~live.ok THEN Error
    ELSE Ok({[id |-> s.id, agent |-> s.agent, root |-> s.root,
              repositoryID |-> RepositoryIDForRoot(s.root)] : s \in live.val})

ListWorktrees(catalog, live, source, id) ==
    Then(FindRepository(catalog, live, id), LAMBDA r :
        Ok([warned |-> ~source.ok, repositoryID |-> r.id,
            worktrees |-> IF source.ok THEN ToSet(source.val.git.worktrees) ELSE {}]))

----------------------------------------------------------------------------
(* Execution history.                                                      *)

History(repositories) ==
    LET Entry(r, s) == [repositoryID |-> r.id, root |-> r.root, session |-> s.id,
                        agent |-> s.agent, lastSeen |-> s.lastSeen, active |-> s.active]
        Before(a, b) ==
            \/ a.lastSeen > b.lastSeen
            \/ a.lastSeen = b.lastSeen /\ IDRank[a.repositoryID] < IDRank[b.repositoryID]
            \/ /\ a.lastSeen = b.lastSeen
               /\ a.repositoryID = b.repositoryID
               /\ a.session < b.session
    IN  Sorted(UNION {{Entry(r, s) : s \in r.sessions} : r \in repositories}, Before)

FindExecution(history, repositoryID, session) ==
    IF session = 0 THEN Error
    ELSE FirstWhere(history, LAMBDA e : e.repositoryID = repositoryID /\ e.session = session)

----------------------------------------------------------------------------
(* Work items, evidence and acceptance of one repository.                  *)

SeenRepository(see, id) == FindRepository(see["catalog"], see["live"], id)

SeenProject(see, root) ==
    Resolve(root, DirAt(see["convention"], root), DirAt(see["config"], root))

\* A repository and its project, which every operation on work items needs.
OfProject(see, id) ==
    Then(SeenRepository(see, id), LAMBDA r :
        Then(SeenProject(see, r.root), LAMBDA p : Ok([repository |-> r, project |-> p])))

ListWorkItems(see, id) ==
    Then(OfProject(see, id), LAMBDA found :
        Then(WorkItems(found.project, see["items"]), LAMBDA items :
            Ok([repositoryID |-> found.repository.id, items |-> items])))

GetWorkItem(see, id, item) ==
    Then(OfProject(see, id), LAMBDA found : FindWorkItem(found.project, see["items"], item))

GetEvidence(see, id, item) ==
    Then(GetWorkItem(see, id, item), LAMBDA a :
        Evidence(OfProject(see, id).val.project, see["evidence"], item))

\* Git is asked only when there is a policy.
GitFor(project, git) == IF project.policy = <<>> THEN Ok([worktrees |-> <<>>]) ELSE git

\* Git is asked when there is a policy, before the evidence is read.
GetAcceptance(see, id, item) ==
    LET Judged(r, p) ==
            Then(GitFor(p, see["git"]), LAMBDA git :
                Then(EvaluateAcceptance(p, item, git, see["evidence"]), LAMBDA result :
                    Ok([policy |-> p.policy, item |-> item, decision |-> result.decision,
                        revision |-> result.revision, pending |-> result.pending,
                        evidenceCount |-> result.evidenceCount])))
    IN  Then(GetWorkItem(see, id, item), LAMBDA a :
            Then(OfProject(see, id), LAMBDA found : Judged(found.repository, found.project)))

----------------------------------------------------------------------------
(* The summaries: of a repository, and of the whole Host.                  *)

IntentCounts(items) ==
    LET Count(status) == CountIf(items, LAMBDA a : ~a.bad /\ a.status = status)
    IN  [total |-> Len(items), invalid |-> CountIf(items, LAMBDA a : a.bad), new |-> Count("new"),
         inProgress |-> Count("in_progress"), done |-> Count("done")]

Latest(s) == IF s = <<>> THEN Error ELSE Ok(Head(s))

\* Every part has an error of its own.
RepositoryExecution(history) ==
    [active |-> CountIf(history, LAMBDA e : e.active), latest |-> Latest(history)]

GetRepositoryControlPlane(see, id) ==
    LET Acceptance(r, p) ==
            Then(GitFor(p, see["git"]), LAMBDA git :
                AcceptanceOverview(p, git, see["entries"], see["evidence"]))
        Summary(r, project) ==
            [execution  |-> RepositoryExecution(History({r})),
             intent     |-> Then(project, LAMBDA p :
                                Then(WorkItems(p, see["items"]), LAMBDA items :
                                    Ok(IntentCounts(items)))),
             evidence   |-> Then(project, LAMBDA p :
                                EvidenceOverview(p, see["records"], see["titles"])),
             acceptance |-> Then(project, LAMBDA p : Acceptance(r, p))]
    IN  Then(SeenRepository(see, id), LAMBDA r : Ok(Summary(r, SeenProject(see, r.root))))

One(test) == IF test THEN 1 ELSE 0

CountNames ==
    {"managed", "workItems", "new", "inProgress", "done", "invalidItems", "intentUnavailable",
     "records", "passed", "failed", "invalidRecords", "affected", "evidenceUnavailable",
     "configured", "unconfiguredRepositories", "accepted", "waiting", "blocked",
     "unconfigured", "invalidEntries", "pending", "acceptanceUnavailable"}

Nothing == [c \in CountNames |-> 0]

\* Git is asked of a repository with a recognized convention and a policy.
NeedsGit(project) ==
    project.ok /\ project.val.convention.recognized /\ project.val.policy # <<>>

ProjectAt(tree, root) == LET dir == DirAt(tree, root) IN Resolve(root, dir, dir)

\* Mutant: work items that do not parse are no work items.
ItemCountsParsed(known, items) ==
    LET From(intent) ==
            [workItems |-> intent.total - intent.invalid, invalidItems |-> intent.invalid,
             new |-> intent.new, inProgress |-> intent.inProgress, done |-> intent.done]
    IN  IF items.ok THEN From(IntentCounts(items.val)) ELSE [intentUnavailable |-> One(known)]

\* What one repository adds to the counts of the Host: its files as they were
\* in one state of their tree, git what was seen at its root.
ItemCounts(known, items) ==
    LET From(intent) ==
            [workItems |-> intent.total, invalidItems |-> intent.invalid, new |-> intent.new,
             inProgress |-> intent.inProgress, done |-> intent.done]
    IN  IF items.ok THEN From(IntentCounts(items.val)) ELSE [intentUnavailable |-> One(known)]

RecordCounts(managed, overview) ==
    LET From(e) == [records |-> e.total, passed |-> e.passed, failed |-> e.failed,
                    invalidRecords |-> e.invalid, affected |-> One(e.failed + e.invalid > 0)]
    IN  IF overview.ok THEN From(overview.val) ELSE [evidenceUnavailable |-> One(managed)]

EntryCounts(overview) ==
    LET From(a) == [configured |-> One(a.configured),
                    unconfiguredRepositories |-> One(~a.configured),
                    accepted |-> a.accepted, waiting |-> a.waiting, blocked |-> a.blocked,
                    unconfigured |-> a.unconfigured, invalidEntries |-> a.invalid,
                    pending |-> One(a.pending)]
    IN  IF overview.ok THEN From(overview.val) ELSE [acceptanceUnavailable |-> 1]

HostCounts(tree, git, r) ==
    LET Unread == [intentUnavailable |-> 1, evidenceUnavailable |-> 1, acceptanceUnavailable |-> 1]
        Acceptance(p) == Then(GitFor(p, git), LAMBDA g : AcceptanceOverview(p, g, tree, tree))
        Counted(p, known, managed) ==
            Over([managed |-> One(managed)],
            Over(ItemCounts(known, WorkItems(p, tree)),
            Over(RecordCounts(managed, EvidenceOverview(p, tree, tree)),
                 IF known THEN EntryCounts(Acceptance(p)) ELSE Nothing)))
        Of(project) ==
            IF ~project.ok THEN Unread
            ELSE Counted(project.val, project.val.convention.recognized,
                         project.val.convention.recognized /\ project.val.convention.supported)
    IN  Over(Of(ProjectAt(tree, r.root)), Nothing)

Signals == {"intentUnavailable", "invalidItems", "evidenceUnavailable", "failed",
            "invalidRecords", "acceptanceUnavailable", "blocked", "waiting", "invalidEntries"}

\* The newest record of the Host: of equal times the lower ID, then the root.
LatestEvidence(files, repositories) ==
    LET Overview(r) == Then(ProjectAt(files[r.id], r.root), LAMBDA p :
                           EvidenceOverview(p, files[r.id], files[r.id]))
        overviews == {[root |-> r.root, seen |-> Overview(r)] : r \in repositories}
        Before(a, b) ==
            \/ a.record.observed > b.record.observed
            \/ a.record.observed = b.record.observed /\ a.record.id < b.record.id
            \/ /\ a.record.observed = b.record.observed
               /\ a.record.id = b.record.id
               /\ RootRank[a.root] < RootRank[b.root]
    IN  Latest(Sorted({[root |-> o.root, record |-> Head(o.seen.val.records).record] :
                          o \in {x \in overviews : x.seen.ok /\ x.seen.val.total > 0}}, Before))

\* What needs attention in a repository, from its counts.
Raised(n) == {x \in Signals : n.counts[x] > 0}

\* The totals of a Host, from the history of its agents and what was counted in
\* each repository.
HostSummary(latestEvidence, history, counted) ==
    [latestEvidence |-> latestEvidence,
     activeSessions |-> CountIf(history, LAMBDA e : e.active),
     activeRepositories |->
        Cardinality({e.repositoryID : e \in {x \in ToSet(history) : x.active}}),
     latest |-> Latest(history),
     counts |-> [c \in CountNames |-> SumFunction([n \in counted |-> n.counts[c]])],
     attention |-> {[id |-> n.id, signals |-> {<<c, n.counts[c]>> : c \in Raised(n)}] :
                       n \in {x \in counted : Raised(x) # {}}}]

\* BuildHostControlPlane: files and git map the ID of a repository to the
\* tree its files were read in and to what git said at its root.
GetHostControlPlane(catalog, files, git) ==
    Then(catalog, LAMBDA repositories :
        Ok(HostSummary(LatestEvidence(files, repositories), History(repositories),
                       {[id |-> r.id, counts |-> HostCounts(files[r.id], git[r.id], r)] :
                           r \in repositories})))
=============================================================================
