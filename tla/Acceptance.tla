----------------------------- MODULE Acceptance -----------------------------
(***************************************************************************)
(* internal/evidence, internal/acceptance, internal/revision and           *)
(* internal/projectstate: the work items and the evidence of a project,    *)
(* and what the two say of a clean revision.                               *)
(* A tree maps the directories of a machine to                             *)
(*   [config, lines, dirs, items, evidence]                                *)
(* where items maps a specification path to the artifacts read there and   *)
(* evidence is the files read: Ok(a set), or Error when they cannot be.    *)
(* IDs and times are numbers, 0 the blank ID and the zero time; a revision *)
(* is <<"git", head>>, and <<>> the blank one.                             *)
(***************************************************************************)
EXTENDS Conventions

CONSTANT Links  \* where the symbolic links of the machine lead, by path

NoRevision == <<>>
EmptyDir == [config |-> "absent", lines |-> <<>>, dirs |-> {}, items |-> <<>>, evidence |-> Ok({})]

DirAt(tree, path) == IF path \in DOMAIN tree THEN tree[path] ELSE EmptyDir

----------------------------------------------------------------------------
(* Evidence.  decodes: the file holds one JSON value of known fields; the  *)
(* fields of a file that does not are those that were decoded all the same. *)

Results == {"queued", "running", "passed", "failed", "error", "skipped"}
Kinds == {"compile", "typecheck", "static_analysis", "lint", "test", "acceptance",
          "contract", "property", "fuzz", "mutation", "architecture", "security",
          "migration", "performance", "hardware", "review", "ci", "custom"}

Terminal(r) == r.result \in {"passed", "failed", "error", "skipped"}

ValidRecord(r) ==
    /\ r.version = 1
    /\ 0 \notin {r.id, r.item, r.observed}
    /\ r.revision # NoRevision
    /\ "" \notin {r.check, r.provider}
    /\ r.kind \in Kinds
    /\ r.result \in Results
    /\ Terminal(r) => r.finished # 0
    /\ r.started # 0 /\ r.finished # 0 => r.finished >= r.started

HasError(r) == ~r.decodes \/ ~ValidRecord(r)

\* NativeAdapter.Scan: every file becomes a record, an invalid one with its error.
Scan(evidence) ==
    Then(evidence, LAMBDA files : Ok(Sorted(files, LAMBDA a, b : a.path < b.path)))

ForWorkItem(records, item) == Kept(records, LAMBDA r : r.item = item)

Newer(a, b) == a.observed > b.observed \/ (a.observed = b.observed /\ a.id > b.id)

----------------------------------------------------------------------------
(* The acceptance decision.                                                *)

ValidPolicy(policy) ==
    LET checks == [i \in DOMAIN policy |-> policy[i].check]
    IN  "" \notin ToSet(checks) /\ Distinct(checks)

StateForRecord(r) ==
    IF HasError(r) \/ r.result \notin Results THEN "invalid" ELSE r.result

\* The newest of some of the records, the first one of equals.
Newest(records, some) ==
    records[CHOOSE i \in some :
               \A j \in some : /\ ~Newer(records[j], records[i])
                               /\ j < i => Newer(records[i], records[j])]

CheckDecision(requirement, records, current, otherwise) ==
    IF current = {}
    THEN [check |-> requirement.check, evidence |-> 0, state |-> otherwise]
    ELSE [check |-> requirement.check, evidence |-> Newest(records, current).id,
          state |-> StateForRecord(Newest(records, current))]

\* The records of a work item for a check.
Matching(requirement, item, records) ==
    {i \in DOMAIN records : records[i].item = item /\ records[i].check = requirement.check}

\* Mutant: a record of any revision decides.
EvaluateAnyRevision(requirement, item, revision, records) ==
    CheckDecision(requirement, records, Matching(requirement, item, records), "missing")

EvaluateRequirement(requirement, item, revision, records) ==
    LET matching == Matching(requirement, item, records)
    IN  CheckDecision(requirement, records, {i \in matching : records[i].revision = revision},
               IF matching # {} THEN "stale" ELSE "missing")

Satisfies(requirement, state) ==
    state = "passed" \/ (state = "skipped" /\ requirement.allowSkipped)

Blocks(requirement, state) ==
    \/ state \in {"failed", "error", "invalid"}
    \/ state = "skipped" /\ ~requirement.allowSkipped

Decision(item, revision, state, checks) ==
    [item |-> item, revision |-> revision, state |-> state, checks |-> checks]

DecisionState(policy, checks) ==
    IF \E i \in DOMAIN policy : Blocks(policy[i], checks[i].state) THEN "blocked"
    ELSE IF \A i \in DOMAIN policy : Satisfies(policy[i], checks[i].state) THEN "accepted"
    ELSE "waiting"

Evaluate(policy, item, revision, records) ==
    LET Decided(checks) == Decision(item, revision, DecisionState(policy, checks), checks)
    IN  IF ~ValidPolicy(policy) THEN Error
        ELSE IF policy = <<>> THEN Ok(Decision(item, revision, "unconfigured", <<>>))
        ELSE IF item = 0 \/ revision = NoRevision THEN Error
        ELSE Ok(Decided([i \in DOMAIN policy |->
                            EvaluateRequirement(policy[i], item, revision, records)]))

----------------------------------------------------------------------------
(* The revision: the head of the innermost worktree around the project.    *)

CanonicalPath(path) == IF path \in DOMAIN Links THEN Links[path] ELSE path

NoWorktree == [path |-> <<>>]

ContainingWorktree(root, worktrees) ==
    LET path(i) == CanonicalPath(worktrees[i].path)
        around  == {i \in DOMAIN worktrees : IsPrefix(path(i), CanonicalPath(root))}
        Longest(i) == \A j \in around : Len(path(j)) <= Len(path(i))
        First(i) == \A j \in around : Longest(j) => i <= j
    IN  IF around = {} THEN NoWorktree ELSE worktrees[CHOOSE i \in around : Longest(i) /\ First(i)]

Resolution(revision, worktree, reason) ==
    [revision |-> revision, worktree |-> worktree, reason |-> reason,
     available |-> reason = ""]

ResolveGit(root, git) ==
    LET Resolved(w) ==
            IF w = NoWorktree THEN Resolution(NoRevision, <<>>, "worktree_not_found")
            ELSE IF w.dirty > 0 THEN Resolution(NoRevision, w.path, "dirty_worktree")
            ELSE IF w.head = "" THEN Resolution(NoRevision, w.path, "head_unavailable")
            ELSE Resolution(<<"git", w.head>>, w.path, "")
    IN  Resolved(ContainingWorktree(root, git.worktrees))

----------------------------------------------------------------------------
(* projectstate.  Resolve reads .specview.yaml twice: the convention in    *)
(* one directory state, the configuration in a later one.                  *)

Project(root, at, convention, path, policy) ==
    [repositoryRoot |-> root, root |-> at, convention |-> convention,
     path |-> path, policy |-> policy]

Configured(root, cfg) ==
    LET adapter == cfg.values[<<"specs", "adapter">>]
        path    == cfg.values[<<"specs", "path">>]
    IN  Project(root, ResolveProjectRoot(cfg, root), Convention(adapter, path), path,
                AcceptancePolicy(cfg))

Resolve(root, first, second) ==
    Then(DetectConvention(first), LAMBDA detected :
        CASE second.config = "unreadable" -> Error
          [] second.config = "absent" -> Ok(Project(root, root, detected, detected.path, <<>>))
          [] OTHER -> Then(LoadConfig(second.lines), LAMBDA cfg : Ok(Configured(root, cfg))))

\* NewAdapter: two adapters insist on the name of their directory.
AdapterFits(project) ==
    CASE project.convention.adapter = "github-spec-kit" -> project.path = "specs"
      [] project.convention.adapter = "openspec" -> project.path = "openspec"
      [] OTHER -> TRUE

IsBoardItem(a) ==
    IF a.plane = "" /\ a.role = "" THEN a.kind = "spec"
    ELSE a.plane = "work" /\ a.role = "primary"

WorkItems(project, tree) ==
    LET items == DirAt(tree, project.root).items
        found == IF project.path \in DOMAIN items THEN items[project.path] ELSE Ok({})
        Before(a, b) == a.item < b.item \/ (a.item = b.item /\ a.path < b.path)
    IN  IF \/ ~project.convention.recognized
           \/ ~project.convention.supported
           \/ ~AdapterFits(project)
        THEN Error
        ELSE Then(found, LAMBDA artifacts :
                 Ok(Sorted({a \in artifacts : IsBoardItem(a)}, Before)))

FindWorkItem(project, tree, item) ==
    IF item = 0 THEN Error
    ELSE Then(WorkItems(project, tree), LAMBDA items :
             FirstWhere(items, LAMBDA a : a.item = item))

Evidence(project, tree, item) ==
    LET Before(a, b) == Newer(a, b) \/ (~Newer(b, a) /\ a.path < b.path)
    IN  IF item = 0 THEN Error
        ELSE Then(Scan(DirAt(tree, project.root).evidence), LAMBDA records :
                 Ok(Sorted({r \in ToSet(records) : r.item = item}, Before)))

AcceptanceResult(decision, revision, count, pending) ==
    [decision |-> decision, revision |-> revision, evidenceCount |-> count, pending |-> pending]

NoResolution == [Resolution(NoRevision, <<>>, "") EXCEPT !.available = FALSE]

EvaluateAcceptance(project, item, git, tree) ==
    LET Evaluated(at, records) ==
            IF ~at.available
            THEN Ok(AcceptanceResult(Decision(item, NoRevision, "waiting", <<>>),
                                     at, Len(records), TRUE))
            ELSE Then(Evaluate(project.policy, item, at.revision, records), LAMBDA decision :
                     Ok(AcceptanceResult(decision, at, Len(records), FALSE)))
    IN  IF item = 0 THEN Error
        ELSE IF project.policy = <<>>
        THEN Ok(AcceptanceResult(Decision(0, NoRevision, "unconfigured", <<>>),
                                 NoResolution, 0, FALSE))
        ELSE Then(Evidence(project, tree, item), LAMBDA records :
                 Evaluated(ResolveGit(project.root, git), records))

----------------------------------------------------------------------------
(* The overviews of a whole project.                                       *)

\* Mutant: an entry counts the evidence of the whole project.
AcceptanceEntryOfAll(project, item, at, records) ==
    LET entry(state, pending) ==
            [item |-> item.item, path |-> item.path, evidenceCount |-> Len(records),
             state |-> state, pending |-> pending]
    IN  IF project.policy = <<>> THEN Ok(entry("unconfigured", FALSE))
        ELSE IF ~at.available THEN Ok(entry("waiting", TRUE))
        ELSE Then(Evaluate(project.policy, item.item, at.revision, records), LAMBDA decision :
                 Ok(entry(decision.state, FALSE)))

\* One entry per work item that could be parsed.
AcceptanceEntry(project, item, at, records) ==
    LET own == ForWorkItem(records, item.item)
        entry(state, pending) ==
            [item |-> item.item, path |-> item.path, evidenceCount |-> Len(own),
             state |-> state, pending |-> pending]
    IN  IF project.policy = <<>> THEN Ok(entry("unconfigured", FALSE))
        ELSE IF ~at.available THEN Ok(entry("waiting", TRUE))
        ELSE Then(Evaluate(project.policy, item.item, at.revision, own), LAMBDA decision :
                 Ok(entry(decision.state, FALSE)))

AcceptanceTotals(configured, at, invalid, entries) ==
    LET Count(state) == CountIf(entries, LAMBDA e : e.state = state)
    IN  [configured |-> configured, revision |-> at,
         evidenceCount |-> SumFunction([i \in DOMAIN entries |-> entries[i].evidenceCount]),
         pending  |-> \E i \in DOMAIN entries : entries[i].pending,
         accepted |-> Count("accepted"), waiting |-> Count("waiting"),
         blocked  |-> Count("blocked"), unconfigured |-> Count("unconfigured"),
         invalid  |-> invalid,
         items    |-> entries]

AcceptanceOverview(project, git, itemTree, evidenceTree) ==
    LET configured == project.policy # <<>>
        revision == IF configured THEN ResolveGit(project.root, git) ELSE NoResolution
        scanned  == IF configured THEN Scan(DirAt(evidenceTree, project.root).evidence)
                                  ELSE Ok(<<>>)
        Counted(at, invalid, entries) ==
            IF \E i \in DOMAIN entries : ~entries[i].ok THEN Error
            ELSE Ok(AcceptanceTotals(configured, at, invalid,
                                     [i \in DOMAIN entries |-> entries[i].val]))
        Entries(parsed, at, records) ==
            [i \in DOMAIN parsed |-> AcceptanceEntry(project, parsed[i], at, records)]
        Overviewed(items, at, records) ==
            Counted(at, CountIf(items, LAMBDA a : a.bad),
                    Entries(Kept(items, LAMBDA a : ~a.bad), at, records))
    IN  Then(WorkItems(project, itemTree), LAMBDA items :
            Then(scanned, LAMBDA records :
                Overviewed(items, revision, records)))

EvidenceOverview(project, evidenceTree, itemTree) ==
    LET PathOf(item) ==
            LET found == Then(WorkItems(project, itemTree), LAMBDA items :
                             FirstWhere(items, LAMBDA a : a.item = item))
            IN  IF found.ok THEN found.val.path ELSE 0
        Earlier(a, b) ==
            \/ a.observed > b.observed
            \/ a.observed = b.observed /\ a.id < b.id
            \/ a.observed = b.observed /\ a.id = b.id /\ a.path < b.path
        Overviewed(records, sorted) ==
            [total  |-> Len(records),
             passed |-> CountIf(records, LAMBDA r : ~HasError(r) /\ r.result = "passed"),
             failed |-> CountIf(records, LAMBDA r :
                            ~HasError(r) /\ r.result \in {"failed", "error"}),
             invalid |-> CountIf(records, HasError),
             itemError |-> ~WorkItems(project, itemTree).ok,
             records |-> [i \in DOMAIN sorted |->
                 [record |-> sorted[i],
                  itemPath |-> PathOf(sorted[i].item)]]]
    IN  Then(Scan(DirAt(evidenceTree, project.root).evidence), LAMBDA records :
            Ok(Overviewed(records, SortSeq(records, Earlier))))
=============================================================================
