---------------------------- MODULE Correlation ----------------------------
(***************************************************************************)
(* internal/identity/repository.go, internal/federation and the projection *)
(* of internal/federationruntime: which repository instances of several    *)
(* Hosts are one repository.                                               *)
(* A name is <<folded, spelling>>, folded the path without case, ".git"    *)
(* and outer slashes; a remote is [form, host, name], form "url", "scp" or *)
(* "local".                                                                *)
(* Hashes are injective: the hash of a root, an instance or a group is     *)
(* named by what is hashed, and ordered by the ranks.                      *)
(***************************************************************************)
EXTENDS Acceptance

CONSTANTS HostRank,  \* the order of the Host IDs
          RootRank   \* the order of the hashes of the roots of one Host

ASSUME RankAssumption ==
    /\ HostRank \in [DOMAIN HostRank -> Nat] /\ IsInjective(HostRank)
    /\ RootRank \in [DOMAIN RootRank -> Nat] /\ IsInjective(RootRank)
    /\ <<>> \notin DOMAIN RootRank

NoName == << <<>>, "" >>
NoRemote == [form |-> "local", host |-> "", name |-> NoName]

Fingerprint(explicit, name, remote, provider, repository) ==
    [explicitID |-> explicit, name |-> name, remote |-> remote,
     provider |-> provider, repository |-> repository]

NormalizeRepositoryName(name) == name[1]

\* A URL and the scp form of one remote are the same; a local path is none.
NormalizeGitRemote(remote) ==
    LET path == NormalizeRepositoryName(remote.name)
    IN  IF remote.form = "local" \/ remote.host = "" \/ path = <<>> THEN <<>>
        ELSE <<remote.host, path>>

ForgeIdentity(f) ==
    LET repository == NormalizeRepositoryName(f.repository)
    IN  IF f.provider = "" \/ repository = <<>> THEN <<>> ELSE <<f.provider, repository>>

CorrelateRepositories(left, right) ==
    LET Same(a, b, none) == a # none /\ a = b
        Differ(a, b, none) == none \notin {a, b} /\ a # b
        leftName  == NormalizeRepositoryName(left.name)
        rightName == NormalizeRepositoryName(right.name)
        remotes == <<NormalizeGitRemote(left.remote), NormalizeGitRemote(right.remote)>>
        forges  == <<ForgeIdentity(left), ForgeIdentity(right)>>
        contradicted   == Differ(remotes[1], remotes[2], <<>>) \/ Differ(forges[1], forges[2], <<>>)
        corroborated == Same(remotes[1], remotes[2], <<>>) \/ Same(forges[1], forges[2], <<>>)
    IN  IF Differ(left.explicitID, right.explicitID, "") THEN "distinct"
        ELSE IF Same(left.explicitID, right.explicitID, "")
        THEN IF contradicted THEN "conflict" ELSE "match"
        ELSE IF Differ(leftName, rightName, <<>>) \/ contradicted THEN "distinct"
        ELSE IF Same(leftName, rightName, <<>>) /\ corroborated THEN "match"
        ELSE "ambiguous"

----------------------------------------------------------------------------
(* Host snapshots.                                                         *)

Hosts == DOMAIN HostRank

RepositoryInstanceID(host, root) ==
    IF host \in Hosts /\ root # <<>> THEN Ok(<<host, root>>) ELSE Error

NoControlPlane == [host |-> ""]

ValidSnapshot(s) ==
    /\ \/ s.version = 1 /\ s.controlPlane = NoControlPlane
       \/ /\ s.version = 2
          /\ s.controlPlane # NoControlPlane
          /\ s.controlPlane.host = s.hostname
    /\ s.hostID \in Hosts
    /\ s.hostname # ""
    /\ s.observed # 0
    /\ \A i \in DOMAIN s.instances :
          /\ s.instances[i].source # <<>>
          /\ RepositoryInstanceID(s.hostID, s.instances[i].root) = Ok(s.instances[i].id)
    /\ Distinct([i \in DOMAIN s.instances |-> s.instances[i].id])

IfValid(s) == IF ValidSnapshot(s) THEN Ok(s) ELSE Error

----------------------------------------------------------------------------
(* Aggregate: the newest snapshot of every Host, and groups of instances   *)
(* built one by one in the order of Hosts and instances.                   *)

\* Mutant: the snapshot that is read last is kept.
KeepLast(current, s) ==
    IF ~current.ok \/ ~ValidSnapshot(s) THEN Error
    ELSE Ok({x \in current.val : x.hostID # s.hostID} \union {s})

KeepNewest(current, s) ==
    LET same == {x \in current.val : x.hostID = s.hostID}
    IN  IF ~current.ok \/ ~ValidSnapshot(s) THEN Error
        ELSE IF \A x \in same : s.observed > x.observed
        THEN Ok((current.val \ same) \union {s})
        ELSE IF \E x \in same : x.observed = s.observed /\ x # s THEN Error
        ELSE current

CurrentSnapshots(snapshots) ==
    LET kept[n \in 0..Len(snapshots)] ==
            IF n = 0 THEN Ok({}) ELSE KeepNewest(kept[n - 1], snapshots[n])
    IN  kept[Len(snapshots)]

Sourced(s, i) ==
    [hostID |-> s.hostID, hostname |-> s.hostname, observed |-> s.observed,
     id |-> i.id, source |-> i.source, name |-> i.name, root |-> i.root, active |-> i.active,
     agents |-> i.agents, fingerprint |-> i.fingerprint, sessions |-> i.sessions,
     worktrees |-> i.worktrees, warned |-> i.warned]

InstanceBefore(a, b) ==
    \/ HostRank[a.hostID] < HostRank[b.hostID]
    \/ a.hostID = b.hostID /\ RootRank[a.root] < RootRank[b.root]

Candidates(current) ==
    Sorted(UNION {{Sourced(s, s.instances[i]) : i \in DOMAIN s.instances} : s \in current},
                 InstanceBefore)

Issue(a, b, outcome) == [between |-> {a.id, b.id}, outcome |-> outcome]

\* Mutant: a candidate is compared with the first member of a group only.
EligibleByFirst(groups, c) ==
    {g \in DOMAIN groups :
        CorrelateRepositories(c.fingerprint, Head(groups[g]).fingerprint) = "match"}

\* The groups all of whose members the candidate matches.
Eligible(groups, c) ==
    {g \in DOMAIN groups : \A m \in ToSet(groups[g]) :
        CorrelateRepositories(c.fingerprint, m.fingerprint) = "match"}

\* The candidate joins the only group all of whose members it matches.
PlaceCandidate(s, c) ==
    LET Outcome(m) == CorrelateRepositories(c.fingerprint, m.fingerprint)
        members  == UNION {ToSet(s.groups[g]) : g \in DOMAIN s.groups}
        doubts   == {i \in {Issue(m, c, Outcome(m)) : m \in members} :
                        i.outcome \in {"ambiguous", "conflict"}}
        Placed(eligible) ==
            [issues |-> s.issues \union doubts
                        \union (IF Cardinality(eligible) > 1
                                THEN {Issue(Head(s.groups[g]), c, "ambiguous") : g \in eligible}
                                ELSE {}),
             groups |-> IF Cardinality(eligible) = 1
                        THEN [g \in DOMAIN s.groups |->
                                 IF g \in eligible THEN Append(s.groups[g], c) ELSE s.groups[g]]
                        ELSE Append(s.groups, <<c>>)]
    IN  Placed(Eligible(s.groups, c))

BuildRepositoryGroup(members) ==
    LET named == SelectSeq(members, LAMBDA m : m.name # NoName)
        group == ToSet(members)
    IN  [id        |-> {m.id : m \in group},
         name      |-> IF named = <<>> THEN NoName ELSE Head(named).name,
         active    |-> \E m \in group : m.active,
         agents    |-> UNION {m.agents : m \in group} \ {""},
         instances |-> members]

Federation(current, placed) ==
    [hosts  |-> {[hostID |-> s.hostID, hostname |-> s.hostname, observed |-> s.observed] :
                    s \in current},
     repositories |-> {BuildRepositoryGroup(g) : g \in ToSet(placed.groups)},
     issues |-> placed.issues]

PlacedCandidates(candidates) ==
    LET placed[n \in 0..Len(candidates)] ==
            IF n = 0 THEN [groups |-> <<>>, issues |-> {}]
            ELSE PlaceCandidate(placed[n - 1], candidates[n])
    IN  placed[Len(candidates)]

Aggregate(snapshots) ==
    Then(CurrentSnapshots(snapshots), LAMBDA current :
        Ok(Federation(current, PlacedCandidates(Candidates(current)))))

----------------------------------------------------------------------------
(* federationruntime: the projection of this Host and its peers, and what  *)
(* the tools select from it.  A peer is [name, hostID], its observation    *)
(* Ok([snapshots]) with at most one snapshot, or none in a file.           *)

Observation(observations, name) ==
    IF name \in DOMAIN observations THEN observations[name] ELSE Ok([snapshots |-> <<>>])

LocalHostStatus(s) ==
    [source |-> "local", peer |-> 0, hostID |-> s.hostID, hostname |-> s.hostname,
     hasSnapshot |-> TRUE, observed |-> s.observed, controlPlane |-> s.controlPlane]

PeerHostStatus(peer, snapshots) ==
    LET Status(hostname, has, observed, controlPlane) ==
            [source |-> "peer", peer |-> peer.name, hostID |-> peer.hostID,
             hostname |-> hostname, hasSnapshot |-> has, observed |-> observed,
             controlPlane |-> controlPlane]
    IN  IF snapshots = <<>> THEN Status("", FALSE, 0, NoControlPlane)
        ELSE Status(snapshots[1].hostname, TRUE, snapshots[1].observed,
                    snapshots[1].controlPlane)

\* registry: the peers in the order of their names, or Error.
BuildProjection(local, registry, observations) ==
    LET Seen(p) == Observation(observations, p.name).val.snapshots
        Projection(here, peers, federation) ==
            [hosts |-> <<LocalHostStatus(here)>>
                       \o [i \in DOMAIN peers |-> PeerHostStatus(peers[i], Seen(peers[i]))],
             federation |-> federation]
        Projected(here, peers) ==
            IF \E i \in DOMAIN peers : ~Observation(observations, peers[i].name).ok THEN Error
            ELSE Then(Aggregate(<<here>> \o FlattenSeq([i \in DOMAIN peers |-> Seen(peers[i])])),
                      LAMBDA federation : Ok(Projection(here, peers, federation)))
    IN  Then(local, LAMBDA s : Then(IfValid(s), LAMBDA here :
            Then(registry, LAMBDA peers : Projected(here, peers))))

SelectHost(projection, hostID) ==
    LET found == SelectInSeq(projection.hosts, LAMBDA h : h.hostID = hostID)
    IN  IF found = 0 THEN Error ELSE Ok(projection.hosts[found])

\* Mutant: a group belongs to the Host of its first instance.
RepositoriesForFirstHost(projection, hostID) ==
    {[group |-> g, instance |-> Head(g.instances)] :
        g \in {x \in projection.federation.repositories : Head(x.instances).hostID = hostID}}

RepositoriesForHost(projection, hostID) ==
    UNION {{[group |-> g, instance |-> i] :
               i \in {x \in ToSet(g.instances) : x.hostID = hostID}} :
           g \in projection.federation.repositories}

SelectRepository(projection, hostID, instanceID) ==
    LET found == {r \in RepositoriesForHost(projection, hostID) : r.instance.id = instanceID}
    IN  Then(SelectHost(projection, hostID), LAMBDA host :
            IF found = {} THEN Error
            ELSE Ok([host |-> host, selection |-> CHOOSE r \in found : TRUE]))

\* mcpserver: what get_federation_host and get_federation_repository answer.
ProjectFederationHost(projection, hostID) ==
    Then(SelectHost(projection, hostID), LAMBDA host :
        Ok([host |-> host,
            repositories |-> {[groupID |-> r.group.id, name |-> r.group.name,
                               active |-> r.group.active, agents |-> r.group.agents,
                               instance |-> r.instance] :
                                 r \in RepositoriesForHost(projection, hostID)}]))

ProjectFederationRepository(projection, hostID, instanceID) ==
    LET Shown(host, group, instance) ==
            [host |-> host, groupID |-> group.id, name |-> group.name,
             active |-> group.active, agents |-> group.agents, instance |-> instance]
    IN  Then(SelectRepository(projection, hostID, instanceID), LAMBDA found :
            Ok(Shown(found.host, found.selection.group, found.selection.instance)))
=============================================================================
