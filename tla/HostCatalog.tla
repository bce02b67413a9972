----------------------------- MODULE HostCatalog -----------------------------
(***************************************************************************)
(* The Host catalog (internal/hoststate): repositories and the execution   *)
(* sessions seen in them, kept in memory under one mutex and written whole *)
(* to catalog.json.                                                        *)
(*                                                                         *)
(* An observation turns the process table into logical executions (the     *)
(* adapters), attaches each to a repository record, starts, continues or   *)
(* ends sessions, and then decides whether to write the file: a lifecycle  *)
(* ("material") change is written at once, a heartbeat at most once per    *)
(* HeartbeatPersistInterval.  A write may fail, the process may be killed  *)
(* and restarted at any time, and the first file may be of version 1.      *)
(*                                                                         *)
(* Times are natural numbers; 0 is Go's zero time and a nil EndedAt.       *)
(***************************************************************************)
EXTENDS Naturals, FiniteSetsExt

CONSTANTS
  Place,        \* directories of the filesystem, after symlinks are resolved
  Root,         \* spellings of repository roots, numbered in their sort order
  PlaceOf,      \* [Root -> Place]: normalizeFilesystemPath
  LegacyRepo,   \* repository IDs of old catalogs that no root derives
  Adapter,      \* execution adapters
  Agent,        \* agent labels
  AgentOf,      \* [Adapter -> Agent]: the label an adapter reports
  LegacyAdapterForAgent,  \* [Agent -> Adapter \cup {"legacy"}]
  Cwd,          \* working directories a repository's agents run in
  Pid,          \* process IDs, in the order the scan lists them
  Runs,         \* [Pid -> SUBSET Process]: what each process may turn out to be
  LegacyID,     \* session IDs of process-shaped (v1) history
  Convention,   \* results of specification-convention detection
  FirstFile,    \* the catalog files the first start may find
  HeartbeatPersistInterval,
  FirstStart,   \* clock at the first start
  MaxTime       \* bound on the clock

\* repositoryID hashes the cleaned root: the ID of a root is the root itself.
RepoID == Root \cup LegacyRepo

\* executionSessionID hashes adapter, resolved root and working directory.
LogicalID == Adapter \X Place \X Cwd
SessionID == LogicalID \cup LegacyID

\* The catalog key of a session: logicalSessionKey.
SessionKey == RepoID \X SessionID

Repository == [root: Root, convention: Convention, seen: Nat]

\* kind "v1" is a session of a version 1 file, which has no identity kind.
Session ==
  [kind: {"v1", "legacy_pid", "logical"}, adapter: Adapter \cup {"legacy"},
   agent: Agent, pids: SUBSET Pid, started: Nat, seen: Nat, ended: Nat,
   active: BOOLEAN]

\* Functions from a subset of D to R.
IsPartial(f, D, R) == DOMAIN f \subseteq D /\ f \in [DOMAIN f -> R]

IsFile(file) ==
  /\ file.version \in {0, 1, 2}       \* 0: there is no file
  /\ IsPartial(file.repos, RepoID, Repository)
  /\ IsPartial(file.sessions, SessionKey, Session)

\* No session starts after it was last seen or is seen after it ended, only an
\* ended one has an end, and its repository was seen no earlier than it.
IsConsistent(rs, ss) ==
  \A k \in DOMAIN ss :
     /\ ss[k].started <= ss[k].seen
     /\ ss[k].active => ss[k].ended = 0
     /\ ~ss[k].active => ss[k].seen <= ss[k].ended
     /\ k[1] \in DOMAIN rs
     /\ ss[k].seen <= rs[k[1]].seen

ASSUME RootAssumption == Root \subseteq Nat /\ Pid \subseteq Nat
ASSUME PlaceOfAssumption == PlaceOf \in [Root -> Place]
ASSUME AgentAssumption ==
  /\ AgentOf \in [Adapter -> Agent]
  /\ LegacyAdapterForAgent \in [Agent -> Adapter \cup {"legacy"}]
ASSUME IDAssumption ==
  /\ Root \cap LegacyRepo = {}
  /\ LogicalID \cap LegacyID = {}
ASSUME RunsAssumption ==
  Runs \in [Pid -> SUBSET [adapter: Adapter, root: Root, cwd: Cwd]]
ASSUME TimeAssumption ==
  /\ HeartbeatPersistInterval \in Nat \ {0}
  /\ FirstStart \in Nat \ {0}
  /\ MaxTime \in Nat
\* A first file is missing or holds process-shaped history: an old release
\* wrote it, with derived IDs for roots and consistent times.
ASSUME FirstFileAssumption ==
  \A file \in FirstFile :
     /\ IsFile(file)
     /\ IsConsistent(file.repos, file.sessions)
     /\ file.version \in {0, 1}
     /\ file.version = 0 => DOMAIN file.repos = {}
     /\ \A id \in DOMAIN file.repos :
           id \in Root => file.repos[id].root = id
     /\ \A id \in DOMAIN file.repos : file.repos[id].seen <= FirstStart
     /\ \A k \in DOMAIN file.sessions :
           /\ k[2] \in LegacyID
           /\ file.sessions[k].kind = "v1"
           /\ file.sessions[k].ended <= FirstStart

VARIABLES
  repos,            \* Catalog.repos without their sessions
  sessions,         \* SessionKey -> Session, the sessions of all repositories
  materialDirty,
  heartbeatDirty,
  lastPersistedAt,
  disk,             \* catalog.json
  phase,            \* "running", or "stopped" once the runtime loop returned
  outcome,          \* history: what the last operation did
  torn,             \* history: an aborted observation left unrecorded changes
  lastScan,         \* history: the IDs of the last observation that completed
  now               \* wall clock

memory == <<repos, sessions>>
flags == <<materialDirty, heartbeatDirty, lastPersistedAt>>
history == <<outcome, torn, lastScan>>
vars == <<memory, flags, disk, phase, history, now>>

-----------------------------------------------------------------------------
(***************************************************************************)
(* Execution adapters.  A scan finds agent processes; each adapter groups  *)
(* its own by resolved root and working directory, one execution a group,  *)
(* and takes the root's spelling from the first process of the group.  An  *)
(* adapter that fails is skipped; the scan fails when nothing is left.     *)
(***************************************************************************)
Execution == [id: LogicalID, root: Root, pids: SUBSET Pid]

ProcessTables ==
  {procs \in UNION {[running -> UNION {Runs[p] : p \in running}] :
                      running \in SUBSET Pid} :
     \A p \in DOMAIN procs : procs[p] \in Runs[p]}

Executions(procs, healthy) ==
  LET key(p) == <<procs[p].adapter, PlaceOf[procs[p].root], procs[p].cwd>>
      matched == {p \in DOMAIN procs : procs[p].adapter \in healthy}
      group(id) == {p \in matched : key(p) = id}
  IN {[id |-> id, root |-> procs[Min(group(id))].root, pids |-> group(id)] :
        id \in {key(p) : p \in matched}}

ScanFails(procs, healthy) ==
  Executions(procs, healthy) = {} /\ healthy # Adapter

\* What Registry.Sessions may return without an error.
Scans ==
  {Executions(s[1], s[2]) :
     s \in {t \in ProcessTables \X SUBSET Adapter : ~ScanFails(t[1], t[2])}}

-----------------------------------------------------------------------------
(***************************************************************************)
(* Attaching an execution to a repository: the record its root derives, or *)
(* else the only one with the same directory, or else a new one.  Several  *)
(* with the same directory are an error, and it aborts the observation at  *)
(* that execution, in the order of the roots.                              *)
(***************************************************************************)
SamePlace(id, root) == PlaceOf[repos[id].root] = PlaceOf[root]

Candidates(root) == {id \in DOMAIN repos : SamePlace(id, root)}

Ambiguous(root) ==
  /\ root \notin DOMAIN repos
  /\ \E a, b \in Candidates(root) : a # b

Aborts(ex) == \E e \in ex : Ambiguous(e.root)

\* The executions an observation of ex gets through.
Handled(ex) == {e \in ex : \A f \in ex : Ambiguous(f.root) => e.root < f.root}

\* Mutant: the record of another spelling of the directory is not looked for.
AttachByDerivedID(ex, e) ==
  IF e.root \in DOMAIN repos THEN e.root
  ELSE Min({f.root : f \in {g \in ex : PlaceOf[g.root] = PlaceOf[e.root]}})

Attach(ex, e) ==
  IF e.root \in DOMAIN repos THEN e.root
  ELSE IF Candidates(e.root) # {} THEN CHOOSE id \in Candidates(e.root) : TRUE
  ELSE Min({f.root : f \in {g \in ex : PlaceOf[g.root] = PlaceOf[e.root]}})

KeyOf(ex, e) == <<Attach(ex, e), e.id>>

ObservedKeys(ex) == {KeyOf(ex, e) : e \in ex}

TouchedRepos(ex) == {Attach(ex, e) : e \in ex}

-----------------------------------------------------------------------------
(***************************************************************************)
(* What an observation of the executions ex makes of the catalog.          *)
(***************************************************************************)
\* Mutant: the heartbeat of a known repository is not taken.
ObservedReposNoHeartbeat(ex, conv) ==
  [id \in DOMAIN repos \cup TouchedRepos(ex) |->
     IF id \in DOMAIN repos THEN repos[id]
     ELSE [root |-> id, convention |-> conv[PlaceOf[id]], seen |-> now]]

\* detect(root) has found conv[p] in directory p.
ObservedRepos(ex, conv) ==
  [id \in DOMAIN repos \cup TouchedRepos(ex) |->
     IF id \notin TouchedRepos(ex) THEN repos[id]
     ELSE IF id \in DOMAIN repos
     THEN [repos[id] EXCEPT !.convention = conv[PlaceOf[repos[id].root]],
                            !.seen = Max({repos[id].seen, now})]
     ELSE [root |-> id, convention |-> conv[PlaceOf[id]], seen |-> now]]

RepositoryChanged(ex, conv) ==
  \E id \in TouchedRepos(ex) :
     id \in DOMAIN repos => repos[id].convention # conv[PlaceOf[repos[id].root]]

AdapterCompatible(legacyAdapter, logicalAdapter) ==
  legacyAdapter \in {"legacy", logicalAdapter}

\* Mutant: fragments that have ended are collapsed too.
EndedFragmentMatches(s, e) ==
  /\ s.kind = "legacy_pid"
  /\ s.agent = AgentOf[e.id[1]]
  /\ AdapterCompatible(s.adapter, e.id[1])
  /\ s.pids \cap e.pids # {}

LegacyFragmentMatches(s, e) ==
  /\ s.active /\ s.kind = "legacy_pid"
  /\ s.agent = AgentOf[e.id[1]]
  /\ AdapterCompatible(s.adapter, e.id[1])
  /\ s.pids \cap e.pids # {}

\* Process-shaped fragments of the execution e that its new session replaces.
Fragments(ex, e) ==
  {k \in DOMAIN sessions : /\ KeyOf(ex, e) \notin DOMAIN sessions
                           /\ k[1] = Attach(ex, e)
                           /\ LegacyFragmentMatches(sessions[k], e)}

StartedSession(ex, e) ==
  [kind |-> "logical", adapter |-> e.id[1], agent |-> AgentOf[e.id[1]],
   pids |-> e.pids,
   started |-> Min({now} \cup ({sessions[k].started : k \in Fragments(ex, e)} \ {0})),
   seen |-> now, ended |-> 0, active |-> TRUE]

\* applyLogicalExecution and the heartbeat: a known session goes on.
ContinuedSession(s, e) ==
  [kind |-> "logical", adapter |-> e.id[1], agent |-> AgentOf[e.id[1]],
   pids |-> e.pids, started |-> IF s.started = 0 THEN now ELSE s.started,
   seen |-> now, ended |-> 0, active |-> TRUE]

LogicalExecutionChanged(s, e) ==
  \/ s.kind # "logical" \/ s.adapter # e.id[1] \/ s.agent # AgentOf[e.id[1]]
  \/ s.pids # e.pids \/ s.started = 0
  \/ ~s.active \/ s.ended # 0

EndSession(s) == [s EXCEPT !.active = FALSE, !.ended = now]

\* Mutant: sessions end only in repositories the observation met.
EndingInTouched(ex) ==
  {k \in DOMAIN sessions \ ObservedKeys(ex) :
     sessions[k].active /\ k[1] \in TouchedRepos(ex)}

Ending(ex) == {k \in DOMAIN sessions \ ObservedKeys(ex) : sessions[k].active}

\* complete: the observation reached its end, so what it did not see has ended.
ObservedSessions(ex, complete) ==
  LET collapsed == UNION {Fragments(ex, e) : e \in ex}
      at(k) == CHOOSE e \in ex : KeyOf(ex, e) = k
  IN [k \in (DOMAIN sessions \ collapsed) \cup ObservedKeys(ex) |->
        IF k \in ObservedKeys(ex)
        THEN IF k \in DOMAIN sessions
             THEN ContinuedSession(sessions[k], at(k))
             ELSE StartedSession(ex, at(k))
        ELSE IF complete /\ k \in Ending(ex) THEN EndSession(sessions[k])
        ELSE sessions[k]]

\* Mutant: the end of a session is not a material change.
MaterialChangeButEnds(ex, conv, complete) ==
  \/ RepositoryChanged(ex, conv)
  \/ \E e \in ex :
        KeyOf(ex, e) \in DOMAIN sessions =>
           LogicalExecutionChanged(sessions[KeyOf(ex, e)], e)

MaterialChange(ex, conv, complete) ==
  \/ RepositoryChanged(ex, conv)
  \/ \E e \in ex :
        KeyOf(ex, e) \in DOMAIN sessions =>
           LogicalExecutionChanged(sessions[KeyOf(ex, e)], e)
  \/ complete /\ Ending(ex) \ UNION {Fragments(ex, e) : e \in ex} # {}

HeartbeatChange(ex) ==
  \/ \E k \in ObservedKeys(ex) \cap DOMAIN sessions : sessions[k].seen # now
  \/ \E id \in TouchedRepos(ex) \cap DOMAIN repos : repos[id].seen < now

-----------------------------------------------------------------------------
(***************************************************************************)
(* Operations.  Each runs under Catalog.mu, so it is one step; a kill in   *)
(* the middle of a save leaves the old file or the new one, because the    *)
(* new one is written beside it and renamed over it.                       *)
(***************************************************************************)
\* openCatalog: version 1 sessions become process-shaped legacy sessions.
Migrated(file) ==
  [k \in DOMAIN file.sessions |->
     IF file.sessions[k].kind = "v1"
     THEN [file.sessions[k] EXCEPT !.kind = "legacy_pid",
             !.adapter = LegacyAdapterForAgent[file.sessions[k].agent]]
     ELSE file.sessions[k]]

OpenCatalog(file) ==
  /\ repos' = file.repos
  /\ sessions' = Migrated(file)
  /\ materialDirty' = (file.version = 1)
  /\ heartbeatDirty' = FALSE
  /\ lastPersistedAt' = 0

Init ==
  /\ disk \in FirstFile
  /\ repos = disk.repos
  /\ sessions = Migrated(disk)
  /\ materialDirty = (disk.version = 1)
  /\ heartbeatDirty = FALSE
  /\ lastPersistedAt = 0
  /\ phase = "running"
  /\ outcome = "opened"
  /\ torn = FALSE
  /\ lastScan = {}
  /\ now = FirstStart

\* Mutant: the heartbeat waits until the interval has been exceeded.
WriteDueLate(material, heartbeat) ==
  \/ material
  \/ /\ heartbeat
     /\ \/ lastPersistedAt = 0
        \/ now > lastPersistedAt + HeartbeatPersistInterval

WriteDue(material, heartbeat) ==
  \/ material
  \/ /\ heartbeat
     /\ \/ lastPersistedAt = 0
        \/ now >= lastPersistedAt + HeartbeatPersistInterval

Save ==
  /\ disk' = [version |-> 2, repos |-> repos', sessions |-> sessions']
  /\ materialDirty' = FALSE
  /\ heartbeatDirty' = FALSE
  /\ lastPersistedAt' = now
  /\ torn' = FALSE

KeepDirty(material, heartbeat) ==
  /\ materialDirty' = material
  /\ heartbeatDirty' = heartbeat
  /\ UNCHANGED <<disk, lastPersistedAt, torn>>

\* An observation that reaches its end; writable says whether a save succeeds.
Observe(ex, conv, writable) ==
  LET material == materialDirty \/ MaterialChange(ex, conv, TRUE)
      heartbeat == heartbeatDirty \/ HeartbeatChange(ex)
  IN /\ phase = "running"
     /\ ~Aborts(ex)
     /\ repos' = ObservedRepos(ex, conv)
     /\ sessions' = ObservedSessions(ex, TRUE)
     /\ IF WriteDue(material, heartbeat) /\ writable
        THEN Save
        ELSE KeepDirty(material, heartbeat)
     /\ outcome' = IF WriteDue(material, heartbeat) /\ ~writable
                   THEN "save_failed" ELSE "observed"
     /\ lastScan' = {e.id : e \in ex}
     /\ UNCHANGED <<phase, now>>

\* An observation that meets an ambiguous root returns its error at once: what
\* it did so far stays in memory, no flag is set and no session ends.
AbortedObserve(ex, conv) ==
  /\ phase = "running"
  /\ Aborts(ex)
  /\ repos' = ObservedRepos(Handled(ex), conv)
  /\ sessions' = ObservedSessions(Handled(ex), FALSE)
  /\ torn' = (torn \/ MaterialChange(Handled(ex), conv, FALSE) \/ HeartbeatChange(Handled(ex)))
  /\ outcome' = "aborted"
  /\ lastScan' = {}
  /\ UNCHANGED <<flags, disk, phase, now>>

\* The runtime loop has been cancelled: it flushes the catalog and returns.
Flush(writable) ==
  /\ phase = "running"
  /\ phase' = "stopped"
  /\ lastScan' = {}
  /\ UNCHANGED <<memory, now>>
  /\ IF materialDirty \/ heartbeatDirty
     THEN IF writable
          THEN Save /\ outcome' = "flushed"
          ELSE KeepDirty(materialDirty, heartbeatDirty) /\ outcome' = "save_failed"
     ELSE UNCHANGED <<flags, disk, torn>> /\ outcome' = "flushed"

\* The process ends, by a kill or after Flush, and a new one opens the file.
Restart ==
  /\ OpenCatalog(disk)
  /\ phase' = "running"
  /\ outcome' = "opened"
  /\ torn' = FALSE
  /\ lastScan' = {}
  /\ UNCHANGED <<disk, now>>

Tick ==
  /\ now < MaxTime
  /\ now' = now + 1
  /\ UNCHANGED <<memory, flags, disk, phase, history>>

Next ==
  \/ \E ex \in Scans, conv \in [Place -> Convention], writable \in BOOLEAN :
        Observe(ex, conv, writable)
  \/ \E ex \in Scans, conv \in [Place -> Convention] : AbortedObserve(ex, conv)
  \/ \E writable \in BOOLEAN : Flush(writable)
  \/ Restart
  \/ Tick

Spec == Init /\ [][Next]_vars

-----------------------------------------------------------------------------
(***************************************************************************)
(* Properties.                                                             *)
(***************************************************************************)
\* None of these times is in the future.
IsCurrent(rs, ss) ==
  /\ \A id \in DOMAIN rs : rs[id].seen <= now
  /\ \A k \in DOMAIN ss : ss[k].ended <= now

\* The variables have their types; in memory and in the file alike a session
\* is never seen before it starts or after it ends, lies in a known repository
\* and was not seen after that repository was, and no time is in the future.
TypeOK ==
  /\ IsFile(disk)
  /\ IsPartial(repos, RepoID, Repository)
  /\ IsPartial(sessions, SessionKey, Session)
  /\ materialDirty \in BOOLEAN /\ heartbeatDirty \in BOOLEAN /\ torn \in BOOLEAN
  /\ phase \in {"running", "stopped"}
  /\ outcome \in {"opened", "observed", "save_failed", "aborted", "flushed"}
  /\ lastScan \subseteq LogicalID
  /\ now \in Nat \ {0} /\ lastPersistedAt \in 0..now
  /\ \A k \in DOMAIN sessions : sessions[k].kind # "v1"
  /\ IsConsistent(repos, sessions) /\ IsConsistent(disk.repos, disk.sessions)
  /\ IsCurrent(repos, sessions) /\ IsCurrent(disk.repos, disk.sessions)

\* What a catalog says besides when things were last seen.
Lifecycle(rs, ss) ==
  <<[id \in DOMAIN rs |-> [rs[id] EXCEPT !.seen = 0]],
    [k \in DOMAIN ss |-> [ss[k] EXCEPT !.seen = 0]]>>

DurableLifecycle == Lifecycle(repos, sessions) = Lifecycle(disk.repos, Migrated(disk))

\* A catalog with no pending material change (finishObservationLocked writes
\* only when materialDirty says so) differs from its file in heartbeats alone,
\* whatever writes failed before; the exception is an aborted observation.
CleanMeansDurable == ~materialDirty /\ ~torn => DurableLifecycle

\* H25: "new session persists immediately", "session end persists immediately":
\* after an observation that returned no error the file has its lifecycle.
LifecycleDurable == outcome = "observed" => DurableLifecycle

\* Session t is a later account of session s.
Continues(s, t) ==
  /\ s.started # 0 => t.started = s.started
  /\ s.kind # "logical" /\ ~s.active =>
       [t EXCEPT !.kind = s.kind, !.adapter = s.adapter] = s

\* In the sessions ss the live process fragment s of repository r has been
\* replaced by a logical session of the same agent that starts no later.
Absorbed(s, r, ss) ==
  /\ s.kind # "logical" /\ s.active
  /\ \E l \in DOMAIN ss :
        /\ l[1] = r /\ l[2] \in LogicalID /\ AgentOf[l[2][1]] = s.agent
        /\ ss[l].started # 0
        /\ s.started # 0 => ss[l].started <= s.started

Keeps(ss, tt) ==
  \A k \in DOMAIN ss :
     \/ k \in DOMAIN tt /\ Continues(ss[k], tt[k])
     \/ Absorbed(ss[k], k[1], tt)

\* No write of catalog.json loses history (H26): a session stays in the file
\* with its start, ended process-shaped history stays word for word, and a live
\* process fragment goes only when a session of its agent, in its repository
\* and with its start, takes its place.
HistoryKept == [][Keeps(disk.sessions, disk'.sessions)]_vars

\* The end loop of ObserveExecutions: after an observation that completed, even
\* one whose write failed, the active sessions are those it saw, one record each.
ActiveMatchesScan ==
  phase = "running" /\ outcome \in {"observed", "save_failed"} =>
    /\ {k[2] : k \in {l \in DOMAIN sessions : sessions[l].active}} = lastScan
    /\ \A k, l \in DOMAIN sessions :
          sessions[k].active /\ sessions[l].active /\ k[2] = l[2] => k = l

\* ADR-014: while observations succeed, a kill costs less than one persist
\* interval of heartbeats: a live session is in the file, with a LastSeenAt at
\* most that old.
HeartbeatLagBounded ==
  outcome = "observed" /\ ~torn =>
    \A k \in DOMAIN sessions :
       sessions[k].active =>
         /\ k \in DOMAIN disk.sessions
         /\ sessions[k].seen < disk.sessions[k].seen + HeartbeatPersistInterval

\* ensureExecutionRepositoryLocked never starts a second record for a directory
\* that has one, under whatever spelling and ID.
OneRecordPerPlace ==
  [][\A id \in DOMAIN repos' \ DOMAIN repos, other \in DOMAIN repos' :
       PlaceOf[repos'[id].root] = PlaceOf[repos'[other].root] => id = other]_vars
=============================================================================
