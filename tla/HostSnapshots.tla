---------------------------- MODULE HostSnapshots ----------------------------
(***************************************************************************)
(* internal/federation/snapshot.go: the snapshot a Host publishes, built   *)
(* from several answers of its control-plane reader.                       *)
(***************************************************************************)
EXTENDS ControlPlane

CONSTANT Hostname  \* os.Hostname of this machine

\* parseGitHubRemote: the forge identity is read off the remote.
SupportsGitHub(remote) ==
    remote.form \in {"url", "scp"} /\ remote.host = "github.com" /\ Len(remote.name[1]) = 2

ForgeRepository(remote) == IF SupportsGitHub(remote) THEN remote.name ELSE NoName

ExplicitProjectID(dir) ==
    LET Named(cfg) == IF cfg.ok THEN cfg.val.values[<<"project", "id">>] ELSE ""
    IN  IF dir.config = "present" THEN Named(LoadConfig(dir.lines)) ELSE ""

\* detail is the repository part and the source of a GetRepository.
BuildInstance(hostID, detail, sessions, dir) ==
    LET repository == detail.repository
        id     == RepositoryInstanceID(hostID, repository.root)
        source == detail.source
        remote == IF source.ok THEN source.val.git.remote ELSE NoRemote
        provider == IF SupportsGitHub(remote) THEN "github" ELSE ""
    IN  IF ~id.ok THEN Error
        ELSE Ok([id |-> id.val, source |-> repository.id, name |-> repository.name,
                 root |-> repository.root, active |-> repository.active,
                 agents |-> repository.agents,
                 fingerprint |-> Fingerprint(ExplicitProjectID(dir), repository.name, remote,
                                             provider, ForgeRepository(remote)),
                 sessions |-> {s \in sessions : s.repositoryID = repository.id},
                 worktrees |-> IF source.ok THEN ToSet(source.val.git.worktrees) ELSE {},
                 warned |-> detail.warned])

\* details maps the ID of each listed repository to its [detail, dir].
BuildSnapshot(hostID, observed, list, sessions, host, details) ==
    LET known == IF sessions.ok THEN sessions.val ELSE {}
        Built(d) == Then(d.detail, LAMBDA detail : BuildInstance(hostID, detail, known, d.dir))
        Snapshot(summary, instances) ==
            [version |-> 2, hostID |-> hostID, hostname |-> Hostname, observed |-> observed,
             controlPlane |-> With(summary, "host", Hostname),
             warned |-> list.val.warned \/ ~sessions.ok,
             instances |-> Sorted(instances, LAMBDA a, b : RootRank[a.root] < RootRank[b.root])]
        Assembled(summary, instances) ==
            IF \E a, b \in instances : a # b /\ a.id = b.id THEN Error
            ELSE IfValid(Snapshot(summary, instances))
        Published(built) ==
            IF Error \in built THEN Error
            ELSE Then(host, LAMBDA summary : Assembled(summary, {b.val : b \in built}))
    IN  Then(list, LAMBDA listed : Published({Built(details[r.id]) : r \in listed.repositories}))

\* Mutant: the older schema is sent with a control plane.
V1WithControlPlane(snapshot) == [snapshot EXCEPT !.version = 1]

\* HostSnapshot.V1: what a peer of the older schema is sent.
V1(snapshot) == [snapshot EXCEPT !.version = 1, !.controlPlane = NoControlPlane]
=============================================================================
