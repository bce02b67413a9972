-------------------------- MODULE HostCatalogProofs --------------------------
(***************************************************************************)
(* Proofs about HostCatalog for every value of its constants: the lock,    *)
(* what is in memory and in the file, one record per directory, the        *)
(* sessions a scan saw, the history of the file and the age of its         *)
(* heartbeats.                                                             *)
(***************************************************************************)
EXTENDS HostCatalog, Counting

(***************************************************************************)
(* What a scan returns, and where its executions go.                       *)
(***************************************************************************)
LEMMA ScanType ==
  ASSUME NEW ex \in Scans
  PROVE  ex \in SUBSET Execution
<1>1. PICK s \in ProcessTables \X SUBSET Adapter : ex = Executions(s[1], s[2])
  BY DEF Scans
<1> DEFINE procs == s[1]
           matched == {p \in DOMAIN procs : procs[p].adapter \in s[2]}
           key(p) == <<procs[p].adapter, PlaceOf[procs[p].root], procs[p].cwd>>
           group(id) == {p \in matched : key(p) = id}
<1>2. /\ DOMAIN procs \subseteq Pid
      /\ \A p \in DOMAIN procs : procs[p] \in [adapter: Adapter, root: Root, cwd: Cwd]
  <2>1. PICK running \in SUBSET Pid :
           /\ procs \in [running -> UNION {Runs[p] : p \in running}]
           /\ \A p \in DOMAIN procs : procs[p] \in Runs[p]
    BY DEF ProcessTables
  <2> QED
    BY <2>1, RunsAssumption
<1>3. SUFFICES ASSUME NEW e \in ex
               PROVE  e \in Execution
  OBVIOUS
<1>4. PICK p \in matched :
         e = [id |-> key(p), root |-> procs[Min(group(key(p)))].root,
              pids |-> group(key(p))]
  BY <1>1 DEF Executions
<1>5. key(p) \in LogicalID
  BY <1>2, PlaceOfAssumption DEF LogicalID
<1>6. group(key(p)) \in SUBSET Nat /\ group(key(p)) # {}
  BY <1>2, RootAssumption
<1>7. Min(group(key(p))) \in group(key(p))
  BY <1>6, MinNat
<1>8. procs[Min(group(key(p)))].root \in Root
  BY <1>2, <1>7
<1> QED
  BY <1>2, <1>4, <1>5, <1>8 DEF Execution

LEMMA AttachType ==
  ASSUME IsPartial(repos, RepoID, Repository), NEW ex \in SUBSET Execution, NEW e \in ex
  PROVE  /\ Attach(ex, e) \in RepoID
         /\ Attach(ex, e) \notin DOMAIN repos => Attach(ex, e) \in Root
<1> DEFINE same == {g \in ex : PlaceOf[g.root] = PlaceOf[e.root]}
           roots == {f.root : f \in same}
<1>1. e.root \in Root /\ roots \subseteq Root
  BY DEF Execution
<1>2. roots \in SUBSET Nat /\ e.root \in roots
  BY <1>1, RootAssumption
<1>3. Min(roots) \in Root
  BY <1>1, <1>2, MinNat
<1>4. DOMAIN repos \subseteq RepoID /\ Candidates(e.root) \subseteq DOMAIN repos
  BY DEF IsPartial, Candidates
<1>5. CASE e.root \in DOMAIN repos
  BY <1>4, <1>5 DEF Attach
<1>6. CASE e.root \notin DOMAIN repos /\ Candidates(e.root) # {}
  BY <1>4, <1>6 DEF Attach
<1>7. CASE e.root \notin DOMAIN repos /\ Candidates(e.root) = {}
  <2>1. Attach(ex, e) = Min(roots)
    BY <1>7 DEF Attach
  <2> QED
    BY <1>3, <2>1 DEF RepoID
<1> QED
  BY <1>5, <1>6, <1>7

LEMMA KeyType ==
  ASSUME IsPartial(repos, RepoID, Repository), NEW ex \in SUBSET Execution, NEW e \in ex
  PROVE  /\ KeyOf(ex, e) \in SessionKey
         /\ KeyOf(ex, e)[1] = Attach(ex, e) /\ KeyOf(ex, e)[2] = e.id
         /\ e.id \in LogicalID
BY AttachType DEF KeyOf, SessionKey, SessionID, Execution

(***************************************************************************)
(* What an observation makes of repositories and sessions.                 *)
(***************************************************************************)
LEMMA ObservedReposType ==
  ASSUME TypeOK, NEW ex \in SUBSET Execution, NEW conv \in [Place -> Convention]
  PROVE  LET R == ObservedRepos(ex, conv)
         IN /\ IsPartial(R, RepoID, Repository)
            /\ DOMAIN R = DOMAIN repos \cup TouchedRepos(ex)
            /\ \A id \in DOMAIN R : R[id].seen <= now
            /\ \A id \in DOMAIN repos : repos[id].seen <= R[id].seen
            /\ \A id \in TouchedRepos(ex) : R[id].seen = now
<1> DEFINE R == ObservedRepos(ex, conv)
<1>1. /\ IsPartial(repos, RepoID, Repository) /\ now \in Nat
      /\ \A id \in DOMAIN repos : repos[id] \in Repository /\ repos[id].seen <= now
  BY DEF TypeOK, IsPartial, IsCurrent
<1>2. \A id \in TouchedRepos(ex) : id \in RepoID /\ (id \notin DOMAIN repos => id \in Root)
  BY <1>1, AttachType DEF TouchedRepos
<1>3. DOMAIN R = DOMAIN repos \cup TouchedRepos(ex)
  BY DEF ObservedRepos
<1>4. ASSUME NEW id \in DOMAIN R
      PROVE  /\ R[id] \in Repository /\ R[id].seen <= now
             /\ id \in DOMAIN repos => repos[id].seen <= R[id].seen
             /\ id \in TouchedRepos(ex) => R[id].seen = now
  <2>1. CASE id \notin TouchedRepos(ex)
    <3>1. id \in DOMAIN repos /\ R[id] = repos[id]
      BY <1>3, <2>1 DEF ObservedRepos
    <3>2. repos[id].seen \in Nat
      BY <1>1, <3>1 DEF Repository
    <3> HIDE DEF R
    <3> QED
      BY <1>1, <2>1, <3>1, <3>2
  <2>2. CASE id \in TouchedRepos(ex) /\ id \in DOMAIN repos
    <3>1. R[id] = [repos[id] EXCEPT !.convention = conv[PlaceOf[repos[id].root]],
                                    !.seen = Max({repos[id].seen, now})]
      BY <2>2 DEF ObservedRepos
    <3>2. repos[id].seen \in Nat /\ repos[id].root \in Root
      BY <1>1, <2>2 DEF Repository
    <3>3. Max({repos[id].seen, now}) = now
      BY <1>1, <2>2, <3>2, MaxPair
    <3>4. conv[PlaceOf[repos[id].root]] \in Convention
      BY <3>2, PlaceOfAssumption
    <3> HIDE DEF R
    <3>5. R[id] = [repos[id] EXCEPT !.convention = conv[PlaceOf[repos[id].root]],
                                    !.seen = now]
      BY <3>1, <3>3
    <3>6. R[id] \in Repository /\ R[id].seen = now
      BY <1>1, <2>2, <3>4, <3>5 DEF Repository
    <3> QED
      BY <1>1, <2>2, <3>2, <3>6
  <2>3. CASE id \in TouchedRepos(ex) /\ id \notin DOMAIN repos
    <3>1. R[id] = [root |-> id, convention |-> conv[PlaceOf[id]], seen |-> now]
      BY <1>3, <2>3 DEF ObservedRepos
    <3> QED
      BY <1>1, <1>2, <2>3, <3>1, PlaceOfAssumption DEF Repository
  <2> QED
    BY <2>1, <2>2, <2>3
<1>5. DOMAIN R \subseteq RepoID
  BY <1>1, <1>2, <1>3 DEF IsPartial
<1>6. R = [id \in DOMAIN R |-> R[id]]
  BY <1>3 DEF ObservedRepos
<1>7. IsPartial(R, RepoID, Repository)
  <2> HIDE DEF R
  <2> QED  BY <1>4, <1>5, <1>6 DEF IsPartial
<1> QED
  BY <1>3, <1>4, <1>7

\* The four ways a session gets into the catalog after an observation.
LEMMA SessionCases ==
  ASSUME NEW ex, NEW complete \in BOOLEAN, NEW k \in DOMAIN ObservedSessions(ex, complete)
  PROVE  LET t == ObservedSessions(ex, complete)[k]
         IN \/ /\ k \in DOMAIN sessions
               /\ \E e \in ex : /\ KeyOf(ex, e) = k
                              /\ t = ContinuedSession(sessions[k], e)
            \/ /\ k \notin DOMAIN sessions
               /\ \E e \in ex : KeyOf(ex, e) = k /\ t = StartedSession(ex, e)
            \/ /\ complete /\ k \in Ending(ex) /\ k \in DOMAIN sessions
               /\ k \notin ObservedKeys(ex)
               /\ t = EndSession(sessions[k])
            \/ /\ k \in DOMAIN sessions /\ k \notin ObservedKeys(ex)
               /\ complete => ~sessions[k].active
               /\ t = sessions[k]
<1> DEFINE at == CHOOSE e \in ex : KeyOf(ex, e) = k
           t == ObservedSessions(ex, complete)[k]
<1>1. k \in (DOMAIN sessions \ UNION {Fragments(ex, e) : e \in ex}) \cup ObservedKeys(ex)
  BY DEF ObservedSessions
<1>2. t = IF k \in ObservedKeys(ex)
          THEN IF k \in DOMAIN sessions
               THEN ContinuedSession(sessions[k], at)
               ELSE StartedSession(ex, at)
          ELSE IF complete /\ k \in Ending(ex) THEN EndSession(sessions[k])
          ELSE sessions[k]
  BY <1>1 DEF ObservedSessions
<1>3. k \in ObservedKeys(ex) => at \in ex /\ KeyOf(ex, at) = k
  BY DEF ObservedKeys
<1> HIDE DEF at, t
<1>4. CASE k \in ObservedKeys(ex)
  BY <1>2, <1>3, <1>4 DEF t
<1>5. CASE k \notin ObservedKeys(ex)
  <2>1. k \in DOMAIN sessions
    BY <1>1, <1>5
  <2>2. k \notin Ending(ex) => ~sessions[k].active
    BY <1>5, <2>1 DEF Ending
  <2> QED
    BY <1>2, <1>5, <2>1, <2>2 DEF t
<1> QED
  BY <1>4, <1>5

LEMMA StartedSessionType ==
  ASSUME TypeOK, NEW ex \in SUBSET Execution, NEW e \in ex
  PROVE  /\ StartedSession(ex, e) \in Session
         /\ StartedSession(ex, e).kind = "logical"
         /\ StartedSession(ex, e).started \in 1..now
         /\ \A k \in Fragments(ex, e) :
              sessions[k].started # 0 =>
                StartedSession(ex, e).started <= sessions[k].started
<1> DEFINE starts == {now} \cup ({sessions[k].started : k \in Fragments(ex, e)} \ {0})
<1>1. /\ now \in Nat \ {0}
      /\ \A k \in Fragments(ex, e) : k \in DOMAIN sessions /\ sessions[k] \in Session
  BY DEF TypeOK, IsPartial, Fragments
<1>2. starts \in SUBSET (Nat \ {0}) /\ now \in starts
  BY <1>1 DEF Session
<1>3. Min(starts) \in starts /\ \A y \in starts : Min(starts) <= y
  BY <1>2, MinNat
<1>4. StartedSession(ex, e) =
        [kind |-> "logical", adapter |-> e.id[1], agent |-> AgentOf[e.id[1]],
         pids |-> e.pids, started |-> Min(starts), seen |-> now, ended |-> 0,
         active |-> TRUE]
  BY DEF StartedSession
<1>5. e.id[1] \in Adapter /\ AgentOf[e.id[1]] \in Agent /\ e.pids \in SUBSET Pid
  BY AgentAssumption DEF Execution, LogicalID
<1>6. \A k \in Fragments(ex, e) :
        sessions[k].started # 0 => sessions[k].started \in starts
  OBVIOUS
<1> HIDE DEF starts
<1>7. Min(starts) \in 1..now /\ Min(starts) \in Nat
  <2>1. Min(starts) \in Nat \ {0} /\ Min(starts) <= now
    BY <1>2, <1>3
  <2> QED
    BY <1>1, <2>1
<1>8. StartedSession(ex, e) \in Session
  BY <1>1, <1>4, <1>5, <1>7 DEF Session
<1> QED
  BY <1>3, <1>4, <1>6, <1>7, <1>8

\* A session that an execution continues keeps its start, if it has one.
LEMMA ContinuedSessionType ==
  ASSUME now \in Nat \ {0}, NEW s, s.started \in 0..now, NEW e \in Execution
  PROVE  /\ ContinuedSession(s, e) \in Session
         /\ ContinuedSession(s, e).started \in 1..now
<1>1. e.id[1] \in Adapter /\ AgentOf[e.id[1]] \in Agent /\ e.pids \in SUBSET Pid
  BY AgentAssumption DEF Execution, LogicalID
<1>2. (IF s.started = 0 THEN now ELSE s.started) \in 1..now
  OBVIOUS
<1> QED
  BY <1>1, <1>2 DEF ContinuedSession, Session

LEMMA ObservedSessionsType ==
  ASSUME TypeOK, NEW ex \in SUBSET Execution, NEW conv \in [Place -> Convention],
         NEW complete \in BOOLEAN
  PROVE  LET R == ObservedRepos(ex, conv)
             S == ObservedSessions(ex, complete)
         IN /\ IsPartial(S, SessionKey, Session)
            /\ \A k \in DOMAIN S : S[k].kind # "v1" /\ S[k].ended <= now
            /\ IsConsistent(R, S)
<1> DEFINE R == ObservedRepos(ex, conv)
           S == ObservedSessions(ex, complete)
<1>1. /\ now \in Nat \ {0}
      /\ IsPartial(repos, RepoID, Repository)
      /\ DOMAIN sessions \subseteq SessionKey
      /\ \A id \in DOMAIN repos : repos[id] \in Repository /\ repos[id].seen <= now
  BY DEF TypeOK, IsPartial, IsCurrent
<1>2. /\ DOMAIN R = DOMAIN repos \cup TouchedRepos(ex)
      /\ \A id \in DOMAIN R : R[id] \in Repository /\ R[id].seen <= now
      /\ \A id \in DOMAIN repos : repos[id].seen <= R[id].seen
      /\ \A id \in TouchedRepos(ex) : R[id].seen = now
  BY ObservedReposType DEF IsPartial
<1>3. \A id \in DOMAIN R : R[id].seen \in Nat
  BY <1>2 DEF Repository
<1>4. \A k \in DOMAIN sessions :
        /\ sessions[k] \in Session /\ sessions[k].kind # "v1"
        /\ sessions[k].started \in Nat /\ sessions[k].seen \in Nat
        /\ sessions[k].ended \in Nat /\ sessions[k].active \in BOOLEAN
        /\ sessions[k].started <= sessions[k].seen
        /\ sessions[k].active => sessions[k].ended = 0
        /\ ~sessions[k].active => sessions[k].seen <= sessions[k].ended
        /\ sessions[k].ended <= now
        /\ k[1] \in DOMAIN repos /\ sessions[k].seen <= repos[k[1]].seen
  BY DEF TypeOK, IsPartial, IsConsistent, IsCurrent, Session
<1>5. \A k \in DOMAIN sessions :
        /\ sessions[k].seen <= R[k[1]].seen /\ k[1] \in DOMAIN R
        /\ sessions[k].seen <= now
  <2> HIDE DEF R
  <2>1. \A id \in DOMAIN repos : repos[id].seen \in Nat
    BY <1>1 DEF Repository
  <2> QED
    BY <1>1, <1>2, <1>3, <1>4, <2>1
<1>6. ASSUME NEW k \in DOMAIN S
      PROVE  /\ k \in SessionKey /\ S[k] \in Session /\ S[k].kind # "v1"
             /\ S[k].ended <= now /\ S[k].started <= S[k].seen
             /\ S[k].active => S[k].ended = 0
             /\ ~S[k].active => S[k].seen <= S[k].ended
             /\ k[1] \in DOMAIN R /\ S[k].seen <= R[k[1]].seen
  <2>1. CASE k \in DOMAIN sessions /\ \E e \in ex : KeyOf(ex, e) = k /\
               S[k] = ContinuedSession(sessions[k], e)
    <3>1. PICK e \in ex : KeyOf(ex, e) = k /\
               S[k] = ContinuedSession(sessions[k], e)
      BY <2>1
    <3>2. k \in SessionKey /\ k[1] \in TouchedRepos(ex)
      BY <1>1, <3>1, KeyType DEF TouchedRepos
    <3> HIDE DEF R, S
    <3>3. sessions[k].started \in 0..now
      BY <1>1, <1>4, <1>5, <2>1
    <3>4. S[k] \in Session /\ S[k].started \in 1..now
      BY <1>1, <3>1, <3>3, ContinuedSessionType
    <3>5. /\ S[k].kind = "logical" /\ S[k].active = TRUE
          /\ S[k].ended = 0 /\ S[k].seen = now
      BY <3>1 DEF ContinuedSession
    <3> QED
      BY <1>1, <1>2, <3>2, <3>4, <3>5
  <2>2. CASE k \notin DOMAIN sessions /\
             \E e \in ex : KeyOf(ex, e) = k /\ S[k] = StartedSession(ex, e)
    <3>1. PICK e \in ex : KeyOf(ex, e) = k /\ S[k] = StartedSession(ex, e)
      BY <2>2
    <3>2. k \in SessionKey /\ k[1] \in TouchedRepos(ex)
      BY <1>1, <3>1, KeyType DEF TouchedRepos
    <3> HIDE DEF R, S
    <3>3. S[k] \in Session /\ S[k].started \in 1..now
      BY <3>1, StartedSessionType
    <3>4. /\ S[k].kind = "logical" /\ S[k].active = TRUE
          /\ S[k].ended = 0 /\ S[k].seen = now
      BY <3>1 DEF StartedSession
    <3> QED
      BY <1>1, <1>2, <3>2, <3>3, <3>4
  <2>3. CASE k \in DOMAIN sessions /\ S[k] = EndSession(sessions[k])
    <3> HIDE DEF R, S
    <3>1. /\ S[k] \in Session /\ S[k].kind = sessions[k].kind /\ ~S[k].active
          /\ S[k].ended = now /\ S[k].seen = sessions[k].seen
          /\ S[k].started = sessions[k].started
      BY <1>1, <1>4, <2>3 DEF EndSession, Session
    <3> QED
      BY <1>1, <1>4, <1>5, <2>3, <3>1
  <2>4. CASE k \in DOMAIN sessions /\ S[k] = sessions[k]
    <3> HIDE DEF R, S
    <3> QED
      BY <1>1, <1>4, <1>5, <2>4
  <2> QED
    BY <2>1, <2>2, <2>3, <2>4, SessionCases
<1>7. S = [k \in DOMAIN S |-> S[k]]
  BY DEF ObservedSessions
<1> HIDE DEF R, S
<1>8. IsPartial(S, SessionKey, Session)
  BY <1>6, <1>7 DEF IsPartial
<1>9. IsConsistent(R, S)
  BY <1>6 DEF IsConsistent
<1> QED
  BY <1>6, <1>8, <1>9 DEF R, S

LEMMA MigratedType ==
  ASSUME NEW file, IsFile(file), IsConsistent(file.repos, file.sessions)
  PROVE  /\ IsPartial(Migrated(file), SessionKey, Session)
         /\ DOMAIN Migrated(file) = DOMAIN file.sessions
         /\ IsConsistent(file.repos, Migrated(file))
         /\ \A k \in DOMAIN Migrated(file) :
              /\ Migrated(file)[k].kind # "v1"
              /\ Migrated(file)[k].ended = file.sessions[k].ended
<1> DEFINE M == Migrated(file)
<1>1. /\ DOMAIN file.sessions \subseteq SessionKey
      /\ \A k \in DOMAIN file.sessions : file.sessions[k] \in Session
  BY DEF IsFile, IsPartial
<1>2. DOMAIN M = DOMAIN file.sessions /\ M = [k \in DOMAIN M |-> M[k]]
  BY DEF Migrated
<1>3. ASSUME NEW k \in DOMAIN M
      PROVE  /\ M[k] \in Session /\ M[k].kind # "v1"
             /\ M[k].started = file.sessions[k].started
             /\ M[k].seen = file.sessions[k].seen
             /\ M[k].ended = file.sessions[k].ended
             /\ M[k].active = file.sessions[k].active
  <2>1. CASE file.sessions[k].kind = "v1"
    <3>1. M[k] = [file.sessions[k] EXCEPT !.kind = "legacy_pid",
                    !.adapter = LegacyAdapterForAgent[file.sessions[k].agent]]
      BY <1>2, <2>1 DEF Migrated
    <3>2. LegacyAdapterForAgent[file.sessions[k].agent] \in Adapter \cup {"legacy"}
      BY <1>1, <1>2, AgentAssumption DEF Session
    <3> HIDE DEF M
    <3> QED
      BY <1>1, <1>2, <3>1, <3>2 DEF Session
  <2>2. CASE file.sessions[k].kind # "v1"
    BY <1>1, <1>2, <2>2 DEF Migrated
  <2> QED
    BY <2>1, <2>2
<1> HIDE DEF M
<1>4. IsPartial(M, SessionKey, Session)
  BY <1>1, <1>2, <1>3 DEF IsPartial
<1>5. IsConsistent(file.repos, M)
  BY <1>2, <1>3 DEF IsConsistent
<1> QED
  BY <1>2, <1>3, <1>4, <1>5 DEF M

(***************************************************************************)
(* Type correctness: TypeOK is inductive.                                  *)
(***************************************************************************)
LEMMA InitType == Init => TypeOK
<1> SUFFICES ASSUME Init PROVE TypeOK
  OBVIOUS
<1>1. /\ IsFile(disk) /\ IsConsistent(disk.repos, disk.sessions)
      /\ \A id \in DOMAIN disk.repos : disk.repos[id].seen <= now
      /\ \A k \in DOMAIN disk.sessions : disk.sessions[k].ended <= now
  BY FirstFileAssumption DEF Init
<1>2. IsPartial(repos, RepoID, Repository)
  BY <1>1 DEF Init, IsFile
<1>3. now \in Nat \ {0} /\ lastPersistedAt \in 0..now
  BY TimeAssumption DEF Init
<1>4. /\ IsPartial(sessions, SessionKey, Session)
      /\ \A k \in DOMAIN sessions : sessions[k].kind # "v1"
      /\ IsConsistent(repos, sessions)
      /\ IsCurrent(repos, sessions)
  BY <1>1, MigratedType DEF Init, IsCurrent
<1>5. (disk.version = 1) \in BOOLEAN
  OBVIOUS
<1> QED
  BY <1>1, <1>2, <1>3, <1>4, <1>5 DEF Init, TypeOK, IsCurrent

\* The part of TypeOK that speaks of the catalog in memory.
MemoryOK ==
  /\ IsPartial(repos, RepoID, Repository)
  /\ IsPartial(sessions, SessionKey, Session)
  /\ \A k \in DOMAIN sessions : sessions[k].kind # "v1"
  /\ IsConsistent(repos, sessions)
  /\ IsCurrent(repos, sessions)

\* The part that speaks of the file.
DiskOK ==
  /\ IsFile(disk)
  /\ IsConsistent(disk.repos, disk.sessions)
  /\ IsCurrent(disk.repos, disk.sessions)

LEMMA ObservationType ==
  ASSUME TypeOK, NEW ex \in SUBSET Execution, NEW conv \in [Place -> Convention],
         NEW complete \in BOOLEAN,
         repos' = ObservedRepos(ex, conv), sessions' = ObservedSessions(ex, complete),
         UNCHANGED now
  PROVE  MemoryOK'
<1>1. /\ IsPartial(repos', RepoID, Repository)
      /\ \A id \in DOMAIN repos' : repos'[id].seen <= now
  BY ObservedReposType
<1>2. /\ IsPartial(sessions', SessionKey, Session)
      /\ \A k \in DOMAIN sessions' : sessions'[k].kind # "v1" /\ sessions'[k].ended <= now
      /\ IsConsistent(repos', sessions')
  BY ObservedSessionsType
<1> QED
  BY <1>1, <1>2 DEF MemoryOK, IsCurrent, IsConsistent

LEMMA SaveType ==
  ASSUME MemoryOK', Save, now \in Nat, UNCHANGED now
  PROVE  /\ DiskOK' /\ lastPersistedAt' \in 0..now'
         /\ materialDirty' \in BOOLEAN /\ heartbeatDirty' \in BOOLEAN /\ torn' \in BOOLEAN
<1>1. disk'.repos = repos' /\ disk'.sessions = sessions' /\ disk'.version = 2
  BY DEF Save
<1>2. DiskOK'
  BY <1>1 DEF MemoryOK, DiskOK, IsFile, IsPartial, IsConsistent, IsCurrent
<1>3. lastPersistedAt' \in 0..now'
  BY DEF Save
<1>4. /\ materialDirty' \in BOOLEAN /\ heartbeatDirty' \in BOOLEAN
      /\ torn' \in BOOLEAN
  BY Zenon DEF Save
<1> QED
  BY <1>2, <1>3, <1>4

LEMMA FlushType ==
  ASSUME TypeOK, NEW writable \in BOOLEAN, Flush(writable)
  PROVE  TypeOK'
<1>1. MemoryOK /\ DiskOK
  BY DEF TypeOK, MemoryOK, DiskOK
<1>2. UNCHANGED <<repos, sessions, now>> /\ lastScan' = {} /\ phase' = "stopped"
  BY DEF Flush, memory
<1>3. MemoryOK'
  BY <1>1, <1>2 DEF MemoryOK, IsCurrent, IsPartial, IsConsistent
<1>4. /\ DiskOK' /\ lastPersistedAt' \in 0..now' /\ outcome' \in {"flushed", "save_failed"}
      /\ materialDirty' \in BOOLEAN /\ heartbeatDirty' \in BOOLEAN /\ torn' \in BOOLEAN
  <2>1. CASE Save /\ outcome' = "flushed"
    BY <1>2, <1>3, <2>1, SaveType DEF TypeOK
  <2>2. CASE /\ outcome' \in {"flushed", "save_failed"}
             /\ UNCHANGED <<disk, lastPersistedAt, torn, materialDirty, heartbeatDirty>>
    <3>1. DiskOK' /\ lastPersistedAt' \in 0..now'
      BY <1>1, <1>2, <2>2 DEF TypeOK, DiskOK, IsCurrent, IsConsistent, IsFile
    <3> QED
      BY <2>2, <3>1 DEF TypeOK
  <2>3. CASE (materialDirty \/ heartbeatDirty) /\ writable
    BY <2>1, <2>3 DEF Flush
  <2>4. CASE (materialDirty \/ heartbeatDirty) /\ ~writable
    BY <2>2, <2>4 DEF Flush, KeepDirty
  <2>5. CASE ~(materialDirty \/ heartbeatDirty)
    BY <2>2, <2>5 DEF Flush, flags
  <2> QED
    BY <2>3, <2>4, <2>5
<1> QED
  BY <1>2, <1>3, <1>4 DEF TypeOK, MemoryOK, DiskOK

LEMMA ObserveType ==
  ASSUME TypeOK, NEW ex \in Scans, NEW conv \in [Place -> Convention],
         NEW writable \in BOOLEAN, Observe(ex, conv, writable)
  PROVE  TypeOK'
<1> DEFINE material == materialDirty \/ MaterialChange(ex, conv, TRUE)
           heartbeat == heartbeatDirty \/ HeartbeatChange(ex)
<1>1. ex \in SUBSET Execution
  BY ScanType
<1>2. /\ repos' = ObservedRepos(ex, conv) /\ sessions' = ObservedSessions(ex, TRUE)
      /\ UNCHANGED <<phase, now>>
      /\ lastScan' = {e.id : e \in ex} /\ outcome' \in {"observed", "save_failed"}
  BY DEF Observe
<1>3. MemoryOK'
  BY <1>1, <1>2, ObservationType
<1>4. /\ DiskOK' /\ lastPersistedAt' \in 0..now'
      /\ materialDirty' \in BOOLEAN /\ heartbeatDirty' \in BOOLEAN /\ torn' \in BOOLEAN
  <2>1. CASE Save
    BY <1>2, <1>3, <2>1, SaveType DEF TypeOK
  <2>2. CASE KeepDirty(material, heartbeat)
    <3>1. DiskOK' /\ lastPersistedAt' \in 0..now'
      BY <1>2, <2>2 DEF TypeOK, DiskOK, KeepDirty, IsCurrent, IsConsistent, IsFile
    <3>2. /\ materialDirty' = material /\ heartbeatDirty' = heartbeat
          /\ torn' = torn
      BY <2>2 DEF KeepDirty
    <3>3. material \in BOOLEAN /\ heartbeat \in BOOLEAN
      OBVIOUS
    <3>4. torn \in BOOLEAN
      BY DEF TypeOK
    <3> QED
      BY <3>1, <3>2, <3>3, <3>4
  <2> QED
    BY <2>1, <2>2 DEF Observe
<1>5. lastScan' \subseteq LogicalID
  BY <1>1, <1>2 DEF Execution
<1> QED
  BY <1>2, <1>3, <1>4, <1>5 DEF TypeOK, MemoryOK, DiskOK

LEMMA AbortedObserveType ==
  ASSUME TypeOK, NEW ex \in Scans, NEW conv \in [Place -> Convention],
         AbortedObserve(ex, conv)
  PROVE  TypeOK'
<1> DEFINE aborted == torn \/ MaterialChange(Handled(ex), conv, FALSE)
                           \/ HeartbeatChange(Handled(ex))
<1>1. Handled(ex) \in SUBSET Execution
  BY ScanType DEF Handled
<1>2. /\ repos' = ObservedRepos(Handled(ex), conv)
      /\ sessions' = ObservedSessions(Handled(ex), FALSE)
      /\ torn' = aborted /\ outcome' = "aborted" /\ lastScan' = {}
      /\ UNCHANGED <<materialDirty, heartbeatDirty, lastPersistedAt, disk, phase, now>>
  BY DEF AbortedObserve, flags
<1>3. MemoryOK'
  BY <1>1, <1>2, ObservationType
<1>4. DiskOK'
  BY <1>2 DEF TypeOK, DiskOK, IsCurrent, IsConsistent, IsFile
<1>5. torn' \in BOOLEAN
  <2>1. aborted \in BOOLEAN
    OBVIOUS
  <2> QED
    BY <1>2, <2>1
<1> QED
  BY <1>2, <1>3, <1>4, <1>5 DEF TypeOK, MemoryOK, DiskOK

LEMMA RestartType ==
  ASSUME TypeOK, Restart
  PROVE  TypeOK'
<1>1. /\ repos' = disk.repos /\ sessions' = Migrated(disk)
      /\ materialDirty' = (disk.version = 1) /\ heartbeatDirty' = FALSE
      /\ torn' = FALSE /\ lastPersistedAt' = 0
      /\ phase' = "running" /\ outcome' = "opened" /\ lastScan' = {}
      /\ UNCHANGED <<disk, now>>
  BY DEF Restart, OpenCatalog
<1>2. DiskOK /\ DiskOK'
  BY <1>1 DEF TypeOK, DiskOK, IsCurrent, IsConsistent, IsFile
<1>3. MemoryOK'
  BY <1>1, <1>2, MigratedType DEF MemoryOK, DiskOK, IsCurrent, IsConsistent, IsFile
<1>4. materialDirty' \in BOOLEAN /\ heartbeatDirty' \in BOOLEAN /\ torn' \in BOOLEAN
  BY <1>1, Zenon
<1>5. now' \in Nat \ {0} /\ lastPersistedAt' \in 0..now'
  BY <1>1 DEF TypeOK
<1> QED
  BY <1>1, <1>2, <1>3, <1>4, <1>5 DEF TypeOK, MemoryOK, DiskOK

LEMMA TickType ==
  ASSUME TypeOK, Tick
  PROVE  TypeOK'
<1>1. /\ UNCHANGED <<repos, sessions, materialDirty, heartbeatDirty, lastPersistedAt,
                    disk, phase, outcome, torn, lastScan>>
      /\ now' = now + 1
  BY DEF Tick, memory, flags, history
<1>2. now \in Nat \ {0} /\ now' \in Nat \ {0} /\ now <= now'
      /\ lastPersistedAt' \in 0..now'
  BY <1>1 DEF TypeOK
<1>3. ASSUME NEW rs, NEW ss, IsPartial(rs, RepoID, Repository),
             IsPartial(ss, SessionKey, Session), IsCurrent(rs, ss)
      PROVE  /\ \A id \in DOMAIN rs : rs[id].seen <= now'
             /\ \A k \in DOMAIN ss : ss[k].ended <= now'
  BY <1>1, <1>2, <1>3 DEF IsPartial, IsCurrent, Repository, Session
<1>4. IsCurrent(repos, sessions)' /\ IsCurrent(disk.repos, disk.sessions)'
  BY <1>1, <1>3 DEF TypeOK, IsCurrent, IsFile
<1> QED
  BY <1>1, <1>2, <1>4 DEF TypeOK, IsConsistent, IsPartial, IsFile

LEMMA StepType == TypeOK /\ [Next]_vars => TypeOK'
<1> SUFFICES ASSUME TypeOK, [Next]_vars PROVE TypeOK'
  OBVIOUS
<1>1. CASE UNCHANGED vars
  BY <1>1 DEF vars, memory, flags, history, TypeOK, IsFile, IsPartial, IsConsistent,
              IsCurrent
<1>2. CASE \E ex \in Scans, conv \in [Place -> Convention], writable \in BOOLEAN :
             Observe(ex, conv, writable)
  BY <1>2, ObserveType
<1>3. CASE \E ex \in Scans, conv \in [Place -> Convention] : AbortedObserve(ex, conv)
  BY <1>3, AbortedObserveType
<1>4. CASE \E writable \in BOOLEAN : Flush(writable)
  BY <1>4, FlushType
<1>5. CASE Restart
  BY <1>5, RestartType
<1>6. CASE Tick
  BY <1>6, TickType
<1> QED
  BY <1>1, <1>2, <1>3, <1>4, <1>5, <1>6 DEF Next

\* The catalog keeps its types and the order of its times, in memory and in the
\* file, through observations, aborts, failed writes, kills and restarts.
THEOREM TypeCorrect == Spec => []TypeOK
BY InitType, StepType, PTL DEF Spec

(***************************************************************************)
(* Durability.  CleanMeansDurable is inductive relative to TypeOK: the     *)
(* flags may stay down only when an observation changed nothing but times  *)
(* last seen, and a save makes the file equal to the memory.               *)
(***************************************************************************)
\* Records that differ in the time last seen alone.
LEMMA SeenOnly ==
  ASSUME NEW s \in Session, NEW later
  PROVE  [[kind |-> s.kind, adapter |-> s.adapter, agent |-> s.agent, pids |-> s.pids,
           started |-> s.started, seen |-> later, ended |-> s.ended,
           active |-> s.active] EXCEPT !.seen = 0] = [s EXCEPT !.seen = 0]
BY DEF Session

LEMMA NoMaterialChange ==
  ASSUME TypeOK, NEW ex \in SUBSET Execution, NEW conv \in [Place -> Convention],
         NEW complete \in BOOLEAN, ~MaterialChange(ex, conv, complete)
  PROVE  Lifecycle(ObservedRepos(ex, conv), ObservedSessions(ex, complete))
           = Lifecycle(repos, sessions)
<1> DEFINE R == ObservedRepos(ex, conv)
           S == ObservedSessions(ex, complete)
<1>1. /\ now \in Nat
      /\ \A id \in DOMAIN repos : repos[id] \in Repository
      /\ \A k \in DOMAIN sessions : sessions[k] \in Session
  BY DEF TypeOK, IsPartial
<1>2. \A id \in TouchedRepos(ex) :
        id \in DOMAIN repos /\ repos[id].convention = conv[PlaceOf[repos[id].root]]
  BY DEF MaterialChange, RepositoryChanged
<1>3. \A e \in ex : /\ KeyOf(ex, e) \in DOMAIN sessions
                   /\ ~LogicalExecutionChanged(sessions[KeyOf(ex, e)], e)
  BY DEF MaterialChange
<1>4. \A e \in ex : Fragments(ex, e) = {}
  BY <1>3 DEF Fragments
<1>5. DOMAIN R = DOMAIN repos
  BY <1>2 DEF ObservedRepos
<1>6. ASSUME NEW id \in DOMAIN repos
      PROVE  [R[id] EXCEPT !.seen = 0] = [repos[id] EXCEPT !.seen = 0]
  <2>1. CASE id \notin TouchedRepos(ex)
    BY <2>1 DEF ObservedRepos
  <2>2. CASE id \in TouchedRepos(ex)
    <3>1. R[id] = [repos[id] EXCEPT !.convention = conv[PlaceOf[repos[id].root]],
                                    !.seen = Max({repos[id].seen, now})]
      BY <2>2 DEF ObservedRepos
    <3>2. repos[id].convention = conv[PlaceOf[repos[id].root]]
      BY <1>2, <2>2
    <3> HIDE DEF R
    <3> QED
      BY <1>1, <3>1, <3>2 DEF Repository
  <2> QED
    BY <2>1, <2>2
<1>7. DOMAIN S = DOMAIN sessions
  <2>1. ObservedKeys(ex) \subseteq DOMAIN sessions
    BY <1>3 DEF ObservedKeys
  <2>2. DOMAIN S = (DOMAIN sessions \ UNION {Fragments(ex, e) : e \in ex}) \cup ObservedKeys(ex)
    BY DEF ObservedSessions
  <2> QED
    BY <1>4, <2>1, <2>2
<1>8. ASSUME NEW k \in DOMAIN sessions
      PROVE  [S[k] EXCEPT !.seen = 0] = [sessions[k] EXCEPT !.seen = 0]
  <2>1. CASE \E e \in ex : KeyOf(ex, e) = k /\ S[k] = ContinuedSession(sessions[k], e)
    <3>1. PICK e \in ex : KeyOf(ex, e) = k /\ S[k] = ContinuedSession(sessions[k], e)
      BY <2>1
    <3>2. /\ sessions[k].kind = "logical" /\ sessions[k].adapter = e.id[1]
          /\ sessions[k].agent = AgentOf[e.id[1]] /\ sessions[k].pids = e.pids
          /\ sessions[k].started # 0 /\ sessions[k].ended = 0
          /\ sessions[k].active
      BY <1>3, <3>1 DEF LogicalExecutionChanged
    <3>3. sessions[k].active = TRUE
      BY <1>1, <3>2 DEF Session
    <3>4. ContinuedSession(sessions[k], e)
            = [kind |-> sessions[k].kind, adapter |-> sessions[k].adapter,
               agent |-> sessions[k].agent, pids |-> sessions[k].pids,
               started |-> sessions[k].started, seen |-> now,
               ended |-> sessions[k].ended, active |-> sessions[k].active]
      BY <3>2, <3>3 DEF ContinuedSession
    <3>5. [ContinuedSession(sessions[k], e) EXCEPT !.seen = 0]
            = [sessions[k] EXCEPT !.seen = 0]
      BY <1>1, <3>4, SeenOnly
    <3> HIDE DEF S
    <3> QED
      BY <3>1, <3>5
  <2>2. CASE complete /\ k \in Ending(ex)
    BY <1>4, <2>2 DEF MaterialChange
  <2>3. CASE S[k] = sessions[k]
    BY <2>3
  <2> QED
    BY <1>7, <2>1, <2>2, <2>3, SessionCases
<1> HIDE DEF R, S
<1> QED
  BY <1>5, <1>6, <1>7, <1>8 DEF Lifecycle, R, S

LEMMA SaveDurable ==
  ASSUME MemoryOK', Save
  PROVE  DurableLifecycle'
<1>1. disk'.repos = repos' /\ disk'.sessions = sessions'
  BY DEF Save
<1>2. Migrated(disk') = sessions'
  BY <1>1 DEF MemoryOK, Migrated, IsPartial
<1> QED
  BY <1>1, <1>2 DEF DurableLifecycle, Lifecycle

LEMMA InitDurable == Init => CleanMeansDurable
BY DEF Init, CleanMeansDurable, DurableLifecycle

LEMMA StepDurable == TypeOK /\ CleanMeansDurable /\ [Next]_vars => CleanMeansDurable'
<1> SUFFICES ASSUME TypeOK, CleanMeansDurable, [Next]_vars PROVE CleanMeansDurable'
  OBVIOUS
<1>1. CASE UNCHANGED <<repos, sessions, disk, materialDirty, torn>>
  BY <1>1 DEF CleanMeansDurable, DurableLifecycle, Lifecycle, Migrated
<1>2. MemoryOK'
  BY StepType DEF TypeOK, MemoryOK
<1>3. CASE Save
  BY <1>2, <1>3, SaveDurable DEF CleanMeansDurable
<1>4. ASSUME NEW ex \in Scans, NEW conv \in [Place -> Convention], NEW complete \in BOOLEAN,
             NEW before,
             repos' = ObservedRepos(before, conv),
             sessions' = ObservedSessions(before, complete),
             before \in SUBSET Execution,
             UNCHANGED disk,
             ~materialDirty' /\ ~torn' =>
               ~materialDirty /\ ~torn /\ ~MaterialChange(before, conv, complete)
      PROVE  CleanMeansDurable'
  <2> SUFFICES ASSUME ~materialDirty' /\ ~torn'
               PROVE  DurableLifecycle'
    BY DEF CleanMeansDurable
  <2>1. DurableLifecycle /\ ~MaterialChange(before, conv, complete)
    BY <1>4 DEF CleanMeansDurable
  <2>2. Lifecycle(ObservedRepos(before, conv), ObservedSessions(before, complete))
          = Lifecycle(repos, sessions)
    BY <1>4, <2>1, NoMaterialChange
  <2>3. Lifecycle(repos, sessions)' = Lifecycle(repos, sessions)
    BY <1>4, <2>2 DEF Lifecycle
  <2>4. Lifecycle(disk.repos, Migrated(disk))' = Lifecycle(disk.repos, Migrated(disk))
    BY <1>4 DEF Lifecycle, Migrated
  <2> QED
    BY <2>1, <2>3, <2>4 DEF DurableLifecycle
<1>5. ASSUME NEW ex \in Scans, NEW conv \in [Place -> Convention], NEW writable \in BOOLEAN,
             Observe(ex, conv, writable)
      PROVE  CleanMeansDurable'
  <2>1. ex \in SUBSET Execution
    BY ScanType
  <2>2. CASE KeepDirty(materialDirty \/ MaterialChange(ex, conv, TRUE),
                       heartbeatDirty \/ HeartbeatChange(ex))
    BY <1>4, <1>5, <2>1, <2>2 DEF Observe, KeepDirty
  <2> QED
    BY <1>3, <1>5, <2>2 DEF Observe
<1>6. ASSUME NEW ex \in Scans, NEW conv \in [Place -> Convention],
             AbortedObserve(ex, conv)
      PROVE  CleanMeansDurable'
  <2>1. Handled(ex) \in SUBSET Execution
    BY ScanType DEF Handled
  <2> QED
    BY <1>4, <1>6, <2>1 DEF AbortedObserve, flags
<1>7. ASSUME NEW writable \in BOOLEAN, Flush(writable)
      PROVE  CleanMeansDurable'
  <2>1. CASE ~Save
    BY <1>1, <1>7, <2>1 DEF Flush, KeepDirty, flags, memory
  <2> QED
    BY <1>3, <2>1
<1>8. CASE Restart
  BY <1>8 DEF Restart, OpenCatalog, CleanMeansDurable, DurableLifecycle, Lifecycle, Migrated
<1>9. CASE Tick
  BY <1>1, <1>9 DEF Tick, memory, flags, history
<1>10. CASE UNCHANGED vars
  BY <1>1, <1>10 DEF vars, memory, flags, history
<1> QED
  BY <1>5, <1>6, <1>7, <1>8, <1>9, <1>10 DEF Next

\* While no material change is pending and no observation was aborted, the file
\* has the lifecycle the memory has: a kill loses times last seen only.
THEOREM LifecycleIsDurable == Spec => []CleanMeansDurable
<1>1. TypeOK /\ CleanMeansDurable /\ [Next]_vars => TypeOK' /\ CleanMeansDurable'
  BY StepType, StepDurable
<1> QED
  BY <1>1, InitType, InitDurable, PTL DEF Spec

(***************************************************************************)
(* One record per directory.                                               *)
(***************************************************************************)
\* A record in the file is in memory too.
RecordsInv == DOMAIN disk.repos \subseteq DOMAIN repos

\* The root whose ID a new record for the directory of e gets.
FirstRoot(ex, e) == Min({f.root : f \in {g \in ex : PlaceOf[g.root] = PlaceOf[e.root]}})

\* A record that an observation adds is that of the first root among those in
\* its directory, and no record was there before.
LEMMA NewRecord ==
    ASSUME NEW ex, NEW conv, NEW id \in DOMAIN ObservedRepos(ex, conv) \ DOMAIN repos
    PROVE  /\ ObservedRepos(ex, conv)[id].root = id
           /\ \E e \in ex : Candidates(e.root) = {} /\ id = FirstRoot(ex, e)
<1>1. id \in TouchedRepos(ex) /\ ObservedRepos(ex, conv)[id].root = id
  BY DEF ObservedRepos
<1>2. PICK e \in ex : id = Attach(ex, e)
  BY <1>1 DEF TouchedRepos
<1>3. e.root \notin DOMAIN repos
  BY <1>2 DEF Attach
<1>4. Candidates(e.root) = {}
  BY <1>2, <1>3 DEF Attach, Candidates
<1> QED
  BY <1>1, <1>2, <1>3, <1>4 DEF Attach, FirstRoot

LEMMA OldRecord ==
    ASSUME TypeOK, NEW ex, NEW conv, NEW id \in DOMAIN repos
    PROVE  /\ id \in DOMAIN ObservedRepos(ex, conv)
           /\ ObservedRepos(ex, conv)[id].root = repos[id].root
<1>1. repos[id] \in Repository
  BY DEF TypeOK, IsPartial
<1> QED
  BY <1>1 DEF ObservedRepos, Repository

\* No two records an observation leaves are of one directory when one is new.
LEMMA NewRecordsApart ==
    ASSUME TypeOK, NEW ex \in SUBSET Execution, NEW conv,
           repos' = ObservedRepos(ex, conv),
           NEW id \in DOMAIN repos' \ DOMAIN repos, NEW other \in DOMAIN repos',
           PlaceOf[repos'[id].root] = PlaceOf[repos'[other].root]
    PROVE  id = other
<1> DEFINE mates(e) == {g \in ex : PlaceOf[g.root] = PlaceOf[e.root]}
<1>1. ASSUME NEW e \in ex
      PROVE  PlaceOf[FirstRoot(ex, e)] = PlaceOf[e.root]
  <2>1. {f.root : f \in mates(e)} \in SUBSET Nat /\ e.root \in {f.root : f \in mates(e)}
    BY RootAssumption DEF Execution
  <2>2. FirstRoot(ex, e) \in {f.root : f \in mates(e)}
    BY <2>1, MinNat DEF FirstRoot
  <2> QED
    BY <2>2
<1>2. \A i \in DOMAIN repos' \ DOMAIN repos :
        repos'[i].root = i /\ \E e \in ex : Candidates(e.root) = {} /\ i = FirstRoot(ex, e)
  BY NewRecord
<1>3. PICK e \in ex : Candidates(e.root) = {} /\ id = FirstRoot(ex, e) /\ repos'[id].root = id
  BY <1>2
<1>4. CASE other \in DOMAIN repos
  <2>1. repos'[other].root = repos[other].root
    BY <1>4, OldRecord
  <2>2. other \in Candidates(e.root)
    BY <1>1, <1>3, <1>4, <2>1 DEF Candidates, SamePlace
  <2> QED
    BY <1>3, <2>2
<1>5. CASE other \notin DOMAIN repos
  <2>1. PICK f \in ex : other = FirstRoot(ex, f) /\ repos'[other].root = other
    BY <1>2, <1>5
  <2>2. PlaceOf[e.root] = PlaceOf[f.root]
    BY <1>1, <1>3, <2>1
  <2>3. mates(e) = mates(f)
    BY <2>2
  <2>4. FirstRoot(ex, e) = FirstRoot(ex, f)
    BY <2>3 DEF FirstRoot
  <2> QED
    BY <1>3, <2>1, <2>4
<1> QED
  BY <1>4, <1>5

\* What each step makes of the records.
LEMMA RecordsStep ==
    ASSUME TypeOK, RecordsInv, [Next]_vars
    PROVE  /\ RecordsInv'
           /\ \A id \in DOMAIN repos' \ DOMAIN repos, other \in DOMAIN repos' :
                 PlaceOf[repos'[id].root] = PlaceOf[repos'[other].root] => id = other
<1>1. ASSUME NEW ex \in SUBSET Execution, NEW conv, repos' = ObservedRepos(ex, conv),
             disk' = disk \/ disk'.repos = repos'
      PROVE  /\ RecordsInv'
             /\ \A id \in DOMAIN repos' \ DOMAIN repos, other \in DOMAIN repos' :
                   PlaceOf[repos'[id].root] = PlaceOf[repos'[other].root] => id = other
  <2>1. DOMAIN repos \subseteq DOMAIN repos'
    BY <1>1, OldRecord
  <2> QED
    BY <1>1, <2>1, NewRecordsApart DEF RecordsInv
<1>2. CASE repos' = repos /\ (disk' = disk \/ disk'.repos = repos')
  BY <1>2 DEF RecordsInv
<1>3. CASE repos' = disk.repos /\ disk' = disk
  BY <1>3 DEF RecordsInv
<1>4. ASSUME NEW ex \in Scans, NEW conv \in [Place -> Convention], NEW writable \in BOOLEAN,
             Observe(ex, conv, writable)
      PROVE  repos' = ObservedRepos(ex, conv) /\ (disk' = disk \/ disk'.repos = repos')
  <2>1. CASE Save
    BY <1>4, <2>1 DEF Observe, Save
  <2>2. CASE ~Save
    BY <1>4, <2>2 DEF Observe, KeepDirty
  <2> QED
    BY <2>1, <2>2
<1>5. ASSUME NEW ex \in Scans, NEW conv \in [Place -> Convention], AbortedObserve(ex, conv)
      PROVE  repos' = ObservedRepos(Handled(ex), conv) /\ disk' = disk
  BY <1>5 DEF AbortedObserve
<1>6. \A ex \in Scans : ex \in SUBSET Execution /\ Handled(ex) \in SUBSET Execution
  BY ScanType DEF Handled
<1>7. ASSUME NEW writable \in BOOLEAN, Flush(writable)
      PROVE  repos' = repos /\ (disk' = disk \/ disk'.repos = repos')
  BY <1>7 DEF Flush, Save, KeepDirty, memory
<1>8. CASE Tick \/ UNCHANGED vars
  BY <1>2, <1>8 DEF Tick, vars, memory
<1>9. CASE Restart
  BY <1>3, <1>9 DEF Restart, OpenCatalog
<1> QED
  BY <1>1, <1>2, <1>4, <1>5, <1>6, <1>7, <1>8, <1>9 DEF Next

\* However directories are spelled and whatever old IDs the first file brings,
\* no observation and no restart adds a record for a directory that has one.
THEOREM OneRecordPerDirectory == Spec => OneRecordPerPlace
<1>1. Init => RecordsInv
  BY DEF Init, RecordsInv
<1>2. TypeOK /\ RecordsInv /\ [Next]_vars => RecordsInv'
  BY RecordsStep
<1>3. TypeOK /\ RecordsInv /\ [Next]_vars =>
        [\A id \in DOMAIN repos' \ DOMAIN repos, other \in DOMAIN repos' :
            PlaceOf[repos'[id].root] = PlaceOf[repos'[other].root] => id = other]_vars
  BY RecordsStep
<1> QED
  BY <1>1, <1>2, <1>3, InitType, StepType, PTL DEF Spec, OneRecordPerPlace

(***************************************************************************)
(* The sessions of a scan.                                                 *)
(***************************************************************************)
\* A scan groups processes: one execution for each ID.
LEMMA ScanIDs ==
    ASSUME NEW ex \in Scans, NEW e \in ex, NEW f \in ex, e.id = f.id
    PROVE  e = f
<1>1. PICK s \in ProcessTables \X SUBSET Adapter : ex = Executions(s[1], s[2])
  BY DEF Scans
<1> DEFINE procs == s[1]
           key(p) == <<procs[p].adapter, PlaceOf[procs[p].root], procs[p].cwd>>
           matched == {p \in DOMAIN procs : procs[p].adapter \in s[2]}
           group(id) == {p \in matched : key(p) = id}
<1>2. ex = {[id |-> id, root |-> procs[Min(group(id))].root, pids |-> group(id)] :
              id \in {key(p) : p \in matched}}
  BY <1>1 DEF Executions
<1> HIDE DEF group, matched, key, procs
<1>3. \A g \in ex : g = [id |-> g.id, root |-> procs[Min(group(g.id))].root,
                         pids |-> group(g.id)]
  BY <1>2
<1> QED
  BY <1>3

OneExecutionPerID(ex) == \A e, f \in ex : e.id = f.id => e = f

LEMMA ScansTell ==
    ASSUME NEW ex \in Scans
    PROVE  /\ ex \in SUBSET Execution /\ OneExecutionPerID(ex)
           /\ Handled(ex) \in SUBSET Execution /\ OneExecutionPerID(Handled(ex))
BY ScanType, ScanIDs DEF OneExecutionPerID, Handled

\* What becomes of the session of an execution.
LEMMA SessionOfExecution ==
    ASSUME TypeOK, NEW ex \in SUBSET Execution, OneExecutionPerID(ex), NEW e \in ex,
           NEW complete \in BOOLEAN
    PROVE  LET k == KeyOf(ex, e)
               S == ObservedSessions(ex, complete)
           IN /\ k \in DOMAIN S
              /\ S[k] = IF k \in DOMAIN sessions THEN ContinuedSession(sessions[k], e)
                        ELSE StartedSession(ex, e)
<1> DEFINE k == KeyOf(ex, e)
           S == ObservedSessions(ex, complete)
<1>1. k \in ObservedKeys(ex)
  BY DEF ObservedKeys
<1>2. k \in DOMAIN S
  BY <1>1 DEF ObservedSessions
<1>3. ASSUME NEW f \in ex, KeyOf(ex, f) = k
      PROVE  f = e
  <2>1. KeyOf(ex, f)[2] = f.id /\ k[2] = e.id
    BY DEF KeyOf
  <2> QED
    BY <1>3, <2>1 DEF OneExecutionPerID
<1> HIDE DEF S, k
<1>4. \/ k \in DOMAIN sessions /\ S[k] = ContinuedSession(sessions[k], e)
      \/ k \notin DOMAIN sessions /\ S[k] = StartedSession(ex, e)
  BY <1>1, <1>2, <1>3, SessionCases DEF S
<1> QED
  BY <1>2, <1>4 DEF S, k

\* After an observation that reached its end, the active sessions are its own.
LEMMA ActiveObserved ==
    ASSUME TypeOK, NEW ex \in SUBSET Execution, OneExecutionPerID(ex),
           sessions' = ObservedSessions(ex, TRUE)
    PROVE  \A k \in DOMAIN sessions' : sessions'[k].active <=> k \in ObservedKeys(ex)
<1> SUFFICES ASSUME NEW k \in DOMAIN sessions'
             PROVE  sessions'[k].active <=> k \in ObservedKeys(ex)
  OBVIOUS
<1>1. CASE k \in ObservedKeys(ex)
  <2>1. PICK e \in ex : k = KeyOf(ex, e)
    BY <1>1 DEF ObservedKeys
  <2>2. sessions'[k] = ContinuedSession(sessions[k], e) \/ sessions'[k] = StartedSession(ex, e)
    BY <2>1, SessionOfExecution
  <2>3. ContinuedSession(sessions[k], e).active = TRUE
    BY DEF ContinuedSession
  <2>4. StartedSession(ex, e).active = TRUE
    BY DEF StartedSession
  <2>5. sessions'[k].active = TRUE
    BY <2>2, <2>3, <2>4
  <2> QED
    BY <1>1, <2>5
<1>2. CASE k \notin ObservedKeys(ex)
  <2>1. \A e \in ex : KeyOf(ex, e) # k
    BY <1>2 DEF ObservedKeys
  <2>2. \/ k \in DOMAIN sessions /\ sessions'[k] = EndSession(sessions[k])
        \/ sessions'[k] = sessions[k] /\ ~sessions[k].active
    BY <2>1, SessionCases
  <2>3. k \in DOMAIN sessions => sessions[k] \in Session
    BY DEF TypeOK, IsPartial
  <2> QED
    BY <1>2, <2>2, <2>3 DEF EndSession, Session
<1> QED
  BY <1>1, <1>2

ScanInv ==
  outcome \in {"observed", "save_failed"} /\ phase = "running" =>
    /\ {k[2] : k \in {l \in DOMAIN sessions : sessions[l].active}} = lastScan
    /\ \A k, l \in DOMAIN sessions :
          sessions[k].active /\ sessions[l].active /\ k[2] = l[2] => k = l

LEMMA ObserveScan ==
    ASSUME TypeOK, NEW ex \in Scans, sessions' = ObservedSessions(ex, TRUE),
           lastScan' = {e.id : e \in ex}
    PROVE  ScanInv'
<1>1. ex \in SUBSET Execution /\ OneExecutionPerID(ex)
  BY ScansTell
<1>2. \A k \in DOMAIN sessions' : sessions'[k].active <=> k \in ObservedKeys(ex)
  BY <1>1, ActiveObserved
<1>3. ObservedKeys(ex) \subseteq DOMAIN sessions'
  BY DEF ObservedSessions
<1>4. {l \in DOMAIN sessions' : sessions'[l].active} = ObservedKeys(ex)
  BY <1>2, <1>3
<1>5. {k[2] : k \in ObservedKeys(ex)} = lastScan'
  <2>1. \A e \in ex : KeyOf(ex, e)[2] = e.id
    BY DEF KeyOf
  <2>2. {KeyOf(ex, e)[2] : e \in ex} = {e.id : e \in ex}
    BY <2>1
  <2>3. {k[2] : k \in ObservedKeys(ex)} = {KeyOf(ex, e)[2] : e \in ex}
    BY DEF ObservedKeys
  <2> QED
    BY <2>2, <2>3
<1>6. \A k, l \in ObservedKeys(ex) : k[2] = l[2] => k = l
  BY <1>1 DEF ObservedKeys, KeyOf, OneExecutionPerID
<1> QED
  BY <1>2, <1>4, <1>5, <1>6 DEF ScanInv

LEMMA StepScan == TypeOK /\ ScanInv /\ [Next]_vars => ScanInv'
<1> SUFFICES ASSUME TypeOK, ScanInv, [Next]_vars
             PROVE  ScanInv'
  OBVIOUS
<1>1. ASSUME NEW ex \in Scans, NEW conv \in [Place -> Convention], NEW writable \in BOOLEAN,
             Observe(ex, conv, writable)
      PROVE  ScanInv'
  BY <1>1, ObserveScan DEF Observe
<1>2. ASSUME NEW ex \in Scans, NEW conv \in [Place -> Convention], AbortedObserve(ex, conv)
      PROVE  ScanInv'
  BY <1>2 DEF AbortedObserve, ScanInv
<1>3. CASE (\E writable \in BOOLEAN : Flush(writable)) \/ Restart
  BY <1>3 DEF Flush, Restart, ScanInv
<1>4. CASE Tick \/ UNCHANGED vars
  BY <1>4 DEF Tick, vars, memory, history, ScanInv
<1> QED
  BY <1>1, <1>2, <1>3, <1>4 DEF Next

\* After an observation that reached its end, even one that could not write, the
\* active sessions are those of its scan, each in one record.
THEOREM ActiveAreScanned == Spec => []ActiveMatchesScan
<1>1. Init => ScanInv
  BY DEF Init, ScanInv
<1>2. ScanInv => ActiveMatchesScan
  BY DEF ScanInv, ActiveMatchesScan
<1> QED
  BY <1>1, <1>2, InitType, StepType, StepScan, PTL DEF Spec

(***************************************************************************)
(* History.  A session of the file is in memory, or was absorbed there by  *)
(* the logical session that replaced it, so no write can lose it.          *)
(***************************************************************************)
\* Logical sessions are those under a logical ID.
KindInv ==
  /\ \A k \in DOMAIN sessions : sessions[k].kind = "logical" <=> k[2] \in LogicalID
  /\ \A k \in DOMAIN disk.sessions : disk.sessions[k].kind = "logical" <=> k[2] \in LogicalID

KeptInv ==
  \A k \in DOMAIN disk.sessions :
     LET s == disk.sessions[k]
     IN  \/ /\ k \in DOMAIN sessions /\ Continues(s, sessions[k])
            /\ s.kind # "logical" => sessions[k].agent = s.agent
         \/ Absorbed(s, k[1], sessions)

\* A fragment is absorbed by the session that is started for its execution.
LEMMA FragmentAbsorbed ==
    ASSUME TypeOK, NEW ex \in SUBSET Execution, OneExecutionPerID(ex), NEW e \in ex,
           NEW complete \in BOOLEAN, NEW k \in Fragments(ex, e)
    PROVE  LET S == ObservedSessions(ex, complete)
               l == KeyOf(ex, e)
           IN  /\ l \in DOMAIN S /\ l[1] = k[1] /\ l[2] \in LogicalID
               /\ AgentOf[l[2][1]] = sessions[k].agent /\ S[l].started # 0
               /\ sessions[k].started # 0 => S[l].started <= sessions[k].started
<1> DEFINE S == ObservedSessions(ex, complete)
           l == KeyOf(ex, e)
<1>1. /\ l \notin DOMAIN sessions /\ k[1] = Attach(ex, e)
      /\ AgentOf[e.id[1]] = sessions[k].agent
  BY DEF Fragments, LegacyFragmentMatches
<1>2. l[1] = Attach(ex, e) /\ l[2] = e.id /\ e.id \in LogicalID
  BY KeyType DEF TypeOK
<1>3. l \in DOMAIN S /\ S[l] = StartedSession(ex, e)
  BY <1>1, SessionOfExecution
<1>4. /\ StartedSession(ex, e).started \in 1..now
      /\ sessions[k].started # 0 => StartedSession(ex, e).started <= sessions[k].started
  BY StartedSessionType
<1> HIDE DEF S, l
<1>5. S[l].started # 0 /\ (sessions[k].started # 0 => S[l].started <= sessions[k].started)
  BY <1>3, <1>4 DEF TypeOK
<1>6. l[1] = k[1] /\ l[2] \in LogicalID /\ AgentOf[l[2][1]] = sessions[k].agent
  BY <1>1, <1>2
<1> QED
  BY <1>3, <1>5, <1>6 DEF S, l

\* What an observation makes of a session that was there.
LEMMA SessionGoesOn ==
    ASSUME TypeOK, KindInv, NEW ex \in SUBSET Execution, OneExecutionPerID(ex),
           NEW complete \in BOOLEAN, NEW k \in DOMAIN sessions
    PROVE  LET S == ObservedSessions(ex, complete)
           IN  \/ /\ k \in DOMAIN S
                  /\ \/ S[k] = sessions[k]
                     \/ S[k] = EndSession(sessions[k]) /\ sessions[k].active
                     \/ k[2] \in LogicalID
                        /\ \E e \in ex : S[k] = ContinuedSession(sessions[k], e)
               \/ /\ sessions[k].active /\ sessions[k].kind # "logical"
                  /\ \E e \in ex : k \in Fragments(ex, e)
<1> DEFINE S == ObservedSessions(ex, complete)
<1>1. CASE k \notin DOMAIN S
  <2>1. k \in UNION {Fragments(ex, e) : e \in ex}
    BY <1>1 DEF ObservedSessions
  <2>2. PICK e \in ex : k \in Fragments(ex, e)
    BY <2>1
  <2>3. sessions[k].active /\ sessions[k].kind = "legacy_pid"
    BY <2>2 DEF Fragments, LegacyFragmentMatches
  <2> QED
    BY <2>2, <2>3
<1>2. CASE k \in DOMAIN S
  <2>1. ASSUME NEW e \in ex, KeyOf(ex, e) = k
        PROVE  k[2] \in LogicalID
    BY <2>1, KeyType DEF TypeOK
  <2>2. \/ \E e \in ex : KeyOf(ex, e) = k /\ S[k] = ContinuedSession(sessions[k], e)
        \/ k \in Ending(ex) /\ S[k] = EndSession(sessions[k])
        \/ S[k] = sessions[k]
    BY <1>2, SessionCases
  <2> HIDE DEF S
  <2>3. k \in Ending(ex) => sessions[k].active
    BY DEF Ending
  <2>4. \/ S[k] = sessions[k]
        \/ S[k] = EndSession(sessions[k]) /\ sessions[k].active
        \/ k[2] \in LogicalID /\ \E e \in ex : S[k] = ContinuedSession(sessions[k], e)
    BY <2>1, <2>2, <2>3
  <2> QED
    BY <1>2, <2>4 DEF S
<1> QED
  BY <1>1, <1>2

LEMMA ObservationKinds ==
    ASSUME TypeOK, KindInv, NEW ex \in SUBSET Execution, NEW complete \in BOOLEAN,
           NEW k \in DOMAIN ObservedSessions(ex, complete)
    PROVE  ObservedSessions(ex, complete)[k].kind = "logical" <=> k[2] \in LogicalID
<1> DEFINE t == ObservedSessions(ex, complete)[k]
<1>1. CASE \E e \in ex : /\ KeyOf(ex, e) = k
                        /\ \/ t = ContinuedSession(sessions[k], e)
                           \/ t = StartedSession(ex, e)
  <2>1. PICK e \in ex : /\ KeyOf(ex, e) = k
                        /\ \/ t = ContinuedSession(sessions[k], e)
                           \/ t = StartedSession(ex, e)
    BY <1>1
  <2>2. k[2] \in LogicalID
    BY <2>1, KeyType DEF TypeOK
  <2>3. ContinuedSession(sessions[k], e).kind = "logical"
    BY DEF ContinuedSession
  <2>4. StartedSession(ex, e).kind = "logical"
    BY DEF StartedSession
  <2> HIDE DEF t
  <2>5. t.kind = "logical"
    BY <2>1, <2>3, <2>4
  <2> QED
    BY <2>2, <2>5 DEF t
<1>2. CASE k \in DOMAIN sessions /\ t \in {EndSession(sessions[k]), sessions[k]}
  <2>1. sessions[k] \in Session
    BY <1>2 DEF TypeOK, IsPartial
  <2>2. EndSession(sessions[k]).kind = sessions[k].kind
    BY <2>1 DEF EndSession, Session
  <2> HIDE DEF t
  <2>3. t.kind = sessions[k].kind
    BY <1>2, <2>2
  <2> QED
    BY <1>2, <2>3 DEF KindInv, t
<1> QED
  BY <1>1, <1>2, SessionCases

LEMMA ObservationKeeps ==
    ASSUME TypeOK, KindInv, KeptInv, NEW ex \in SUBSET Execution, OneExecutionPerID(ex),
           NEW complete \in BOOLEAN, sessions' = ObservedSessions(ex, complete),
           NEW k \in DOMAIN disk.sessions
    PROVE  LET s == disk.sessions[k]
           IN  \/ /\ k \in DOMAIN sessions' /\ Continues(s, sessions'[k])
                  /\ s.kind # "logical" => sessions'[k].agent = s.agent
               \/ Absorbed(s, k[1], sessions')
<1> DEFINE s == disk.sessions[k]
<1>1. s \in Session /\ \A l \in DOMAIN sessions : sessions[l] \in Session
  BY DEF TypeOK, IsFile, IsPartial
<1>2. s.kind = "logical" <=> k[2] \in LogicalID
  BY DEF KindInv
<1> HIDE DEF s
<1>3. CASE k \in DOMAIN sessions /\ Continues(s, sessions[k])
           /\ (s.kind # "logical" => sessions[k].agent = s.agent)
  <2> DEFINE t == sessions[k]
             u == sessions'[k]
  <2>1. /\ t \in Session /\ (t.kind = "logical" <=> k[2] \in LogicalID)
        /\ s.started # 0 => t.started = s.started
        /\ s.kind # "logical" /\ ~s.active =>
             [t EXCEPT !.kind = s.kind, !.adapter = s.adapter] = s
        /\ s.kind # "logical" => t.agent = s.agent
    BY <1>1, <1>3 DEF KindInv, Continues
  <2>2. s.kind # "logical" /\ t.active => s.active
    <3> HIDE DEF t
    <3> SUFFICES ASSUME s.kind # "logical", ~s.active
                 PROVE  ~t.active
      OBVIOUS
    <3>1. [t EXCEPT !.kind = s.kind, !.adapter = s.adapter].active = t.active
      BY <2>1 DEF Session
    <3> QED
      BY <2>1, <3>1
  <2>3. CASE k \in DOMAIN sessions' /\ u = t
    BY <1>3, <2>3 DEF s
  <2>4. CASE k \in DOMAIN sessions' /\ u = EndSession(t) /\ t.active
    <3> HIDE DEF t, u
    <3>1. u.started = t.started /\ u.agent = t.agent
      BY <2>1, <2>4 DEF EndSession, Session
    <3>2. s.kind # "logical" => s.active
      BY <2>2, <2>4
    <3>3. Continues(s, u)
      BY <2>1, <3>1, <3>2 DEF Continues
    <3> QED
      BY <2>1, <2>4, <3>1, <3>3 DEF u, s
  <2>5. CASE k \in DOMAIN sessions' /\ k[2] \in LogicalID
             /\ \E e \in ex : u = ContinuedSession(t, e)
    <3> HIDE DEF t, u
    <3>1. t.started # 0 => u.started = t.started
      BY <2>5 DEF ContinuedSession
    <3>2. Continues(s, u)
      BY <1>2, <2>1, <2>5, <3>1 DEF Continues
    <3> QED
      BY <1>2, <2>5, <3>2 DEF u, s
  <2>6. CASE t.active /\ t.kind # "logical" /\ \E e \in ex : k \in Fragments(ex, e)
    <3>1. s.kind # "logical" /\ s.active /\ t.agent = s.agent
          /\ (s.started # 0 => t.started = s.started)
      BY <1>2, <2>1, <2>2, <2>6
    <3>2. PICK l \in DOMAIN sessions' :
             /\ l[1] = k[1] /\ l[2] \in LogicalID
             /\ AgentOf[l[2][1]] = t.agent /\ sessions'[l].started # 0
             /\ t.started # 0 => sessions'[l].started <= t.started
      BY <2>6, FragmentAbsorbed
    <3> HIDE DEF t
    <3>3. Absorbed(s, k[1], sessions')
      BY <3>1, <3>2 DEF Absorbed
    <3> QED
      BY <3>3 DEF s
  <2> QED
    BY <1>3, <2>3, <2>4, <2>5, <2>6, SessionGoesOn
<1>4. CASE Absorbed(s, k[1], sessions)
  <2>1. PICK l \in DOMAIN sessions :
           /\ l[1] = k[1] /\ l[2] \in LogicalID /\ AgentOf[l[2][1]] = s.agent
           /\ sessions[l].started # 0
           /\ s.started # 0 => sessions[l].started <= s.started
    BY <1>4 DEF Absorbed
  <2>2. sessions[l].kind = "logical"
    BY <2>1 DEF KindInv
  <2>3. /\ l \in DOMAIN sessions'
        /\ \/ sessions'[l] = sessions[l]
           \/ sessions'[l] = EndSession(sessions[l])
           \/ \E e \in ex : sessions'[l] = ContinuedSession(sessions[l], e)
    BY <2>2, SessionGoesOn
  <2>4. sessions'[l].started = sessions[l].started
    <3>1. EndSession(sessions[l]).started = sessions[l].started
      BY <1>1 DEF EndSession, Session
    <3>2. \A e \in ex : ContinuedSession(sessions[l], e).started = sessions[l].started
      BY <2>1 DEF ContinuedSession
    <3> QED
      BY <2>3, <3>1, <3>2
  <2>5. Absorbed(s, k[1], sessions')
    BY <1>4, <2>1, <2>3, <2>4 DEF Absorbed
  <2> QED
    BY <2>5 DEF s
<1> QED
  BY <1>3, <1>4 DEF KeptInv, s

\* The file and the memory after a start: migration keeps what a session says.
LEMMA OpenKeeps ==
    ASSUME IsFile(disk),
           \A k \in DOMAIN disk.sessions : disk.sessions[k].kind = "logical" <=> k[2] \in LogicalID
    PROVE  \A k \in DOMAIN disk.sessions :
              LET s == disk.sessions[k]
                  t == Migrated(disk)[k]
              IN  /\ k \in DOMAIN Migrated(disk) /\ Continues(s, t) /\ t.agent = s.agent
                  /\ t.kind = "logical" <=> s.kind = "logical"
                  /\ t.seen = s.seen
<1> SUFFICES ASSUME NEW k \in DOMAIN disk.sessions
             PROVE  LET s == disk.sessions[k]
                        t == Migrated(disk)[k]
                    IN  /\ k \in DOMAIN Migrated(disk) /\ Continues(s, t) /\ t.agent = s.agent
                        /\ t.kind = "logical" <=> s.kind = "logical"
                        /\ t.seen = s.seen
  OBVIOUS
<1> DEFINE s == disk.sessions[k]
           t == Migrated(disk)[k]
           adapter == LegacyAdapterForAgent[s.agent]
<1>1. s \in Session
  BY DEF IsFile, IsPartial
<1>2. k \in DOMAIN Migrated(disk)
  BY DEF Migrated
<1>3. t = IF s.kind = "v1" THEN [s EXCEPT !.kind = "legacy_pid", !.adapter = adapter] ELSE s
  BY DEF Migrated
<1> HIDE DEF s, t, adapter
<1>4. /\ t.started = s.started /\ t.agent = s.agent /\ t.seen = s.seen
      /\ t.kind = "logical" <=> s.kind = "logical"
  BY <1>1, <1>3 DEF Session
<1>5. [t EXCEPT !.kind = s.kind, !.adapter = s.adapter] = s
  BY <1>1, <1>3 DEF Session
<1>6. Continues(s, t)
  BY <1>4, <1>5 DEF Continues
<1> QED
  BY <1>2, <1>4, <1>6 DEF s, t

LEMMA InitKept == Init => KindInv /\ KeptInv
<1> SUFFICES ASSUME Init
             PROVE  KindInv /\ KeptInv
  OBVIOUS
<1>1. IsFile(disk) /\ sessions = Migrated(disk) /\ DOMAIN sessions = DOMAIN disk.sessions
  BY FirstFileAssumption DEF Init, Migrated
<1>2. \A k \in DOMAIN disk.sessions : k[2] \notin LogicalID /\ disk.sessions[k].kind = "v1"
  BY FirstFileAssumption, IDAssumption DEF Init
<1> QED
  BY <1>1, <1>2, OpenKeeps DEF KindInv, KeptInv

LEMMA StepKept ==
    ASSUME TypeOK, KindInv, KeptInv, [Next]_vars
    PROVE  KindInv' /\ KeptInv' /\ (disk' # disk => Keeps(disk.sessions, disk'.sessions))
<1>1. TypeOK'
  BY StepType
<1>2. CASE UNCHANGED <<sessions, disk>>
  BY <1>2 DEF KindInv, KeptInv, Absorbed
<1> DEFINE Kept(k) ==
             \/ /\ k \in DOMAIN sessions' /\ Continues(disk.sessions[k], sessions'[k])
                /\ disk.sessions[k].kind # "logical" =>
                     sessions'[k].agent = disk.sessions[k].agent
             \/ Absorbed(disk.sessions[k], k[1], sessions')
           Kinds == \A k \in DOMAIN sessions' : sessions'[k].kind = "logical" <=> k[2] \in LogicalID
<1>3. ASSUME \A k \in DOMAIN disk.sessions : Kept(k), Kinds, Save \/ disk' = disk
      PROVE  KindInv' /\ KeptInv' /\ (disk' # disk => Keeps(disk.sessions, disk'.sessions))
  <2>1. CASE disk' = disk
    BY <1>3, <2>1 DEF KindInv, KeptInv
  <2>2. CASE Save
    <3>1. disk'.sessions = sessions'
      BY <2>2 DEF Save
    <3>2. Keeps(disk.sessions, disk'.sessions)
      BY <1>3, <3>1 DEF Keeps
    <3>3. KindInv'
      BY <1>3, <3>1 DEF KindInv
    <3>4. \A k \in DOMAIN sessions' : Continues(sessions'[k], sessions'[k])
      <4>1. \A k \in DOMAIN sessions' : sessions'[k] \in Session
        BY <1>1 DEF TypeOK, IsPartial
      <4> QED
        BY <4>1 DEF Continues, Session
    <3>5. KeptInv'
      BY <3>1, <3>4 DEF KeptInv
    <3> QED
      BY <3>2, <3>3, <3>5
  <2> QED
    BY <1>3, <2>1, <2>2
<1>4. ASSUME NEW ex \in SUBSET Execution, OneExecutionPerID(ex), NEW complete \in BOOLEAN,
             sessions' = ObservedSessions(ex, complete)
      PROVE  (\A k \in DOMAIN disk.sessions : Kept(k)) /\ Kinds
  BY <1>4, ObservationKeeps, ObservationKinds
<1> HIDE DEF Kept, Kinds
<1>5. ASSUME NEW ex \in Scans, NEW conv \in [Place -> Convention], NEW writable \in BOOLEAN,
             Observe(ex, conv, writable)
      PROVE  KindInv' /\ KeptInv' /\ (disk' # disk => Keeps(disk.sessions, disk'.sessions))
  <2>1. sessions' = ObservedSessions(ex, TRUE)
    BY <1>5 DEF Observe
  <2>2. Save \/ disk' = disk
    BY <1>5 DEF Observe, KeepDirty
  <2> QED
    BY <1>3, <1>4, <2>1, <2>2, ScansTell
<1>6. ASSUME NEW ex \in Scans, NEW conv \in [Place -> Convention], AbortedObserve(ex, conv)
      PROVE  KindInv' /\ KeptInv' /\ (disk' # disk => Keeps(disk.sessions, disk'.sessions))
  <2>1. sessions' = ObservedSessions(Handled(ex), FALSE) /\ disk' = disk
    BY <1>6 DEF AbortedObserve
  <2> QED
    BY <1>3, <1>4, <2>1, ScansTell
<1>7. ASSUME NEW writable \in BOOLEAN, Flush(writable)
      PROVE  KindInv' /\ KeptInv' /\ (disk' # disk => Keeps(disk.sessions, disk'.sessions))
  <2>1. sessions' = sessions
    BY <1>7 DEF Flush, memory
  <2>2. Save \/ disk' = disk
    BY <1>7 DEF Flush, KeepDirty
  <2>3. (\A k \in DOMAIN disk.sessions : Kept(k)) /\ Kinds
    BY <2>1 DEF KindInv, KeptInv, Kept, Kinds
  <2> QED
    BY <1>3, <2>2, <2>3
<1>8. CASE Restart
  <2>1. sessions' = Migrated(disk) /\ disk' = disk
    BY <1>8 DEF Restart, OpenCatalog
  <2>2. DOMAIN Migrated(disk) = DOMAIN disk.sessions
    BY DEF Migrated
  <2>3. (\A k \in DOMAIN disk.sessions : Kept(k)) /\ Kinds
    BY <2>1, <2>2, OpenKeeps DEF KindInv, Kept, Kinds, TypeOK
  <2> QED
    BY <1>3, <2>1, <2>3
<1>9. CASE Tick \/ UNCHANGED vars
  BY <1>2, <1>9 DEF Tick, vars, memory
<1> QED
  BY <1>5, <1>6, <1>7, <1>8, <1>9 DEF Next

\* Whatever aborts, fails or is killed, a write keeps the sessions of the file:
\* each goes on under its key, or was live and process-shaped and is absorbed by
\* a logical session of its repository and agent that starts no later (H26).
THEOREM WritesKeepHistory == Spec => HistoryKept
<1>1. TypeOK /\ KindInv /\ KeptInv /\ [Next]_vars => KindInv' /\ KeptInv'
  BY StepKept
<1>2. TypeOK /\ KindInv /\ KeptInv /\ [Next]_vars =>
        [Keeps(disk.sessions, disk'.sessions)]_vars
  <2> SUFFICES ASSUME TypeOK, KindInv, KeptInv, Next, disk' = disk
               PROVE  Keeps(disk.sessions, disk'.sessions)
    BY StepKept
  <2>1. \A k \in DOMAIN disk.sessions : disk.sessions[k] \in Session
    BY DEF TypeOK, IsFile, IsPartial
  <2>2. \A k \in DOMAIN disk.sessions : Continues(disk.sessions[k], disk.sessions[k])
    BY <2>1 DEF Continues, Session
  <2> QED
    BY <2>2 DEF Keeps
<1> QED
  BY <1>1, <1>2, InitType, StepType, InitKept, PTL DEF Spec, HistoryKept

(***************************************************************************)
(* Heartbeats.  While no material change is pending, the file has every    *)
(* session with the time it was last seen, unless a heartbeat is pending,  *)
(* and the live ones with one no older than the last write.                *)
(***************************************************************************)
LagInv ==
  ~materialDirty /\ ~torn =>
    /\ DOMAIN sessions \subseteq DOMAIN disk.sessions
    /\ ~heartbeatDirty =>
         \A k \in DOMAIN sessions : sessions[k].seen = disk.sessions[k].seen
    /\ phase = "running" /\ lastPersistedAt # 0 =>
         \A k \in DOMAIN sessions :
            sessions[k].active => disk.sessions[k].seen >= lastPersistedAt

\* The sessions an observation leaves active are seen at its time.
LEMMA ActiveSeenNow ==
    ASSUME TypeOK, NEW ex \in SUBSET Execution, OneExecutionPerID(ex),
           sessions' = ObservedSessions(ex, TRUE), NEW k \in DOMAIN sessions', sessions'[k].active
    PROVE  sessions'[k].seen = now
<1>1. PICK e \in ex : k = KeyOf(ex, e)
  BY ActiveObserved DEF ObservedKeys
<1>2. sessions'[k] = ContinuedSession(sessions[k], e) \/ sessions'[k] = StartedSession(ex, e)
  BY <1>1, SessionOfExecution
<1>3. ContinuedSession(sessions[k], e).seen = now
  BY DEF ContinuedSession
<1>4. StartedSession(ex, e).seen = now
  BY DEF StartedSession
<1> QED
  BY <1>2, <1>3, <1>4

\* An observation without a material change keeps the sessions and which of them
\* are active; without a heartbeat either, when they were last seen.
LEMMA QuietSessions ==
    ASSUME TypeOK, NEW ex \in SUBSET Execution, NEW conv \in [Place -> Convention],
           NEW complete \in BOOLEAN, ~MaterialChange(ex, conv, complete)
    PROVE  LET S == ObservedSessions(ex, complete)
           IN  /\ DOMAIN S = DOMAIN sessions
               /\ \A k \in DOMAIN sessions : S[k].active = sessions[k].active
               /\ ~HeartbeatChange(ex) =>
                    \A k \in DOMAIN sessions : S[k].seen = sessions[k].seen
<1> DEFINE R == ObservedRepos(ex, conv)
           S == ObservedSessions(ex, complete)
           Still(ss) == [k \in DOMAIN ss |-> [ss[k] EXCEPT !.seen = 0]]
<1>1. IsPartial(S, SessionKey, Session)
  BY ObservedSessionsType
<1>2. (\A k \in DOMAIN S : S[k] \in Session) /\ \A k \in DOMAIN sessions : sessions[k] \in Session
  BY <1>1 DEF TypeOK, IsPartial
<1>3. Still(S) = Still(sessions)
  <2>1. Lifecycle(R, S) = Lifecycle(repos, sessions)
    BY NoMaterialChange
  <2> HIDE DEF R, S
  <2> QED
    BY <2>1 DEF Lifecycle
<1> HIDE DEF S
<1>4. DOMAIN S = DOMAIN sessions
  <2>1. DOMAIN Still(S) = DOMAIN S /\ DOMAIN Still(sessions) = DOMAIN sessions
    OBVIOUS
  <2> QED
    BY <1>3, <2>1
<1>5. ASSUME NEW k \in DOMAIN sessions
      PROVE  S[k].active = sessions[k].active
  <2>1. Still(S)[k] = Still(sessions)[k]
    BY <1>3
  <2>2. [S[k] EXCEPT !.seen = 0] = [sessions[k] EXCEPT !.seen = 0]
    BY <1>4, <2>1
  <2>3. /\ [S[k] EXCEPT !.seen = 0].active = S[k].active
        /\ [sessions[k] EXCEPT !.seen = 0].active = sessions[k].active
    BY <1>2, <1>4 DEF Session
  <2> QED
    BY <2>2, <2>3
<1>6. ASSUME ~HeartbeatChange(ex), NEW k \in DOMAIN sessions
      PROVE  S[k].seen = sessions[k].seen
  <2>1. \/ \E e \in ex : KeyOf(ex, e) = k /\ S[k] = ContinuedSession(sessions[k], e)
        \/ S[k] = EndSession(sessions[k])
        \/ S[k] = sessions[k]
    BY <1>4, SessionCases DEF S
  <2>2. CASE \E e \in ex : KeyOf(ex, e) = k /\ S[k] = ContinuedSession(sessions[k], e)
    <3>1. S[k].seen = now
      BY <2>2 DEF ContinuedSession
    <3>2. sessions[k].seen = now
      BY <1>6, <2>2 DEF HeartbeatChange, ObservedKeys
    <3> QED
      BY <3>1, <3>2
  <2>3. EndSession(sessions[k]).seen = sessions[k].seen
    BY <1>2 DEF EndSession, Session
  <2> QED
    BY <2>1, <2>2, <2>3
<1> QED
  BY <1>4, <1>5, <1>6 DEF S

\* An observation that writes nothing and leaves no material change pending.
LEMMA QuietLag ==
    ASSUME TypeOK, LagInv, NEW ex \in SUBSET Execution, NEW conv \in [Place -> Convention],
           NEW complete \in BOOLEAN, sessions' = ObservedSessions(ex, complete),
           UNCHANGED <<disk, lastPersistedAt, phase>>,
           ~materialDirty' /\ ~torn' =>
             ~materialDirty /\ ~torn /\ ~MaterialChange(ex, conv, complete),
           ~materialDirty' /\ ~torn' /\ ~heartbeatDirty' =>
             ~heartbeatDirty /\ ~HeartbeatChange(ex)
    PROVE  LagInv'
<1> SUFFICES ASSUME ~materialDirty', ~torn'
             PROVE  /\ DOMAIN sessions' \subseteq DOMAIN disk'.sessions
                    /\ ~heartbeatDirty' =>
                         \A k \in DOMAIN sessions' : sessions'[k].seen = disk'.sessions[k].seen
                    /\ phase' = "running" /\ lastPersistedAt' # 0 =>
                         \A k \in DOMAIN sessions' :
                            sessions'[k].active => disk'.sessions[k].seen >= lastPersistedAt'
  BY DEF LagInv
<1>1. /\ DOMAIN sessions' = DOMAIN sessions
      /\ \A k \in DOMAIN sessions : sessions'[k].active = sessions[k].active
      /\ ~HeartbeatChange(ex) =>
           \A k \in DOMAIN sessions : sessions'[k].seen = sessions[k].seen
  BY QuietSessions
<1> QED
  BY <1>1 DEF LagInv

\* The write of an observation that reached its end.
LEMMA ObserveSaves ==
    ASSUME TypeOK, NEW ex \in Scans, sessions' = ObservedSessions(ex, TRUE), TypeOK', Save
    PROVE  LagInv' /\ HeartbeatLagBounded'
<1>1. disk'.sessions = sessions' /\ lastPersistedAt' = now
  BY DEF Save
<1>2. \A k \in DOMAIN sessions' : sessions'[k].seen \in Nat
  BY DEF TypeOK, IsPartial, Session
<1>3. \A k \in DOMAIN sessions' : sessions'[k].active => sessions'[k].seen = now
  BY ScansTell, ActiveSeenNow
<1>4. LagInv'
  <2>1. ASSUME NEW k \in DOMAIN sessions', sessions'[k].active
        PROVE  disk'.sessions[k].seen >= lastPersistedAt'
    <3>1. now \in Nat /\ now >= now
      BY DEF TypeOK
    <3>2. disk'.sessions[k].seen = now
      BY <1>1, <1>3, <2>1
    <3> QED
      BY <1>1, <3>1, <3>2
  <2>2. \A k \in DOMAIN sessions' : sessions'[k].seen = disk'.sessions[k].seen
    BY <1>1
  <2> QED
    BY <1>1, <2>1, <2>2 DEF LagInv
<1>5. HeartbeatLagBounded'
  <2>1. \A x \in Nat : x < x + HeartbeatPersistInterval
    BY TimeAssumption
  <2>2. \A k \in DOMAIN sessions' :
          /\ k \in DOMAIN disk'.sessions
          /\ sessions'[k].seen < disk'.sessions[k].seen + HeartbeatPersistInterval
    BY <1>1, <1>2, <2>1
  <2> QED
    BY <2>2 DEF HeartbeatLagBounded
<1> QED
  BY <1>4, <1>5

LEMMA ObserveLag ==
    ASSUME TypeOK, LagInv, NEW ex \in Scans, NEW conv \in [Place -> Convention],
           NEW writable \in BOOLEAN, Observe(ex, conv, writable)
    PROVE  LagInv' /\ HeartbeatLagBounded'
<1> DEFINE material == materialDirty \/ MaterialChange(ex, conv, TRUE)
           heartbeat == heartbeatDirty \/ HeartbeatChange(ex)
<1>1. TypeOK' /\ ex \in SUBSET Execution /\ OneExecutionPerID(ex)
  BY ObserveType, ScansTell
<1>2. /\ sessions' = ObservedSessions(ex, TRUE) /\ UNCHANGED <<phase, now>>
      /\ phase = "running"
  BY DEF Observe
<1>3. CASE Save
  BY <1>1, <1>2, <1>3, ObserveSaves
<1>4. CASE ~Save
  <2>1. /\ UNCHANGED <<disk, lastPersistedAt, torn>>
        /\ materialDirty' = material /\ heartbeatDirty' = heartbeat
    BY <1>4 DEF Observe, KeepDirty
  <2>2. LagInv'
    BY <1>1, <1>2, <2>1, QuietLag
  <2>3. outcome' = "observed" => ~WriteDue(material, heartbeat)
    BY <1>4 DEF Observe
  <2>4. SUFFICES ASSUME outcome' = "observed", ~torn', NEW k \in DOMAIN sessions',
                        sessions'[k].active
                 PROVE  /\ k \in DOMAIN disk'.sessions
                        /\ sessions'[k].seen < disk'.sessions[k].seen + HeartbeatPersistInterval
    BY <2>2 DEF HeartbeatLagBounded
  <2>5. /\ ~material
        /\ heartbeat => /\ lastPersistedAt # 0
                        /\ ~(now >= lastPersistedAt + HeartbeatPersistInterval)
    BY <2>3, <2>4 DEF WriteDue
  <2>6. /\ k \in DOMAIN disk.sessions
        /\ ~heartbeat => sessions'[k].seen = disk.sessions[k].seen
        /\ heartbeat => disk.sessions[k].seen >= lastPersistedAt
    BY <1>2, <2>1, <2>2, <2>4, <2>5 DEF LagInv
  <2>7. sessions'[k].seen = now
    BY <1>1, <1>2, <2>4, ActiveSeenNow
  <2>8. /\ disk.sessions[k].seen \in Nat /\ now \in Nat /\ lastPersistedAt \in Nat
        /\ HeartbeatPersistInterval \in Nat \ {0}
    BY <2>6, TimeAssumption DEF TypeOK, IsFile, IsPartial, Session
  <2> QED
    BY <2>1, <2>5, <2>6, <2>7, <2>8
<1> QED
  BY <1>3, <1>4

LEMMA StepLag ==
    ASSUME TypeOK, KindInv, LagInv, HeartbeatLagBounded, [Next]_vars
    PROVE  LagInv' /\ HeartbeatLagBounded'
<1>1. ASSUME NEW ex \in Scans, NEW conv \in [Place -> Convention], NEW writable \in BOOLEAN,
             Observe(ex, conv, writable)
      PROVE  LagInv' /\ HeartbeatLagBounded'
  BY <1>1, ObserveLag
<1>2. ASSUME NEW ex \in Scans, NEW conv \in [Place -> Convention], AbortedObserve(ex, conv)
      PROVE  LagInv' /\ HeartbeatLagBounded'
  <2>1. /\ sessions' = ObservedSessions(Handled(ex), FALSE)
        /\ UNCHANGED <<disk, materialDirty, heartbeatDirty, lastPersistedAt, phase>>
        /\ torn' = (torn \/ MaterialChange(Handled(ex), conv, FALSE)
                         \/ HeartbeatChange(Handled(ex)))
        /\ outcome' = "aborted"
    BY <1>2 DEF AbortedObserve, flags
  <2>2. Handled(ex) \in SUBSET Execution
    BY ScansTell
  <2>3. LagInv'
    BY <2>1, <2>2, QuietLag
  <2> QED
    BY <2>1, <2>3 DEF HeartbeatLagBounded
<1>3. ASSUME NEW writable \in BOOLEAN, Flush(writable)
      PROVE  LagInv' /\ HeartbeatLagBounded'
  <2>1. sessions' = sessions /\ phase' = "stopped" /\ outcome' # "observed"
    BY <1>3 DEF Flush, memory
  <2>2. CASE Save
    <3>1. disk'.sessions = sessions'
      BY <2>2 DEF Save
    <3> QED
      BY <2>1, <3>1 DEF LagInv, HeartbeatLagBounded
  <2>3. CASE ~Save
    <3>1. UNCHANGED <<disk, torn, materialDirty, heartbeatDirty>>
      BY <1>3, <2>3 DEF Flush, KeepDirty, flags
    <3> QED
      BY <2>1, <3>1 DEF LagInv, HeartbeatLagBounded
  <2> QED
    BY <2>2, <2>3
<1>4. CASE Restart
  <2>1. /\ sessions' = Migrated(disk) /\ disk' = disk /\ lastPersistedAt' = 0
        /\ outcome' = "opened" /\ DOMAIN Migrated(disk) = DOMAIN disk.sessions
    BY <1>4 DEF Restart, OpenCatalog, Migrated
  <2>2. \A k \in DOMAIN disk.sessions : Migrated(disk)[k].seen = disk.sessions[k].seen
    BY OpenKeeps DEF TypeOK, KindInv
  <2> QED
    BY <2>1, <2>2 DEF LagInv, HeartbeatLagBounded
<1>5. CASE Tick \/ UNCHANGED vars
  BY <1>5 DEF Tick, vars, memory, flags, history, LagInv, HeartbeatLagBounded
<1> QED
  BY <1>1, <1>2, <1>3, <1>4, <1>5 DEF Next

LEMMA InitLag == Init => LagInv /\ HeartbeatLagBounded
<1> SUFFICES ASSUME Init
             PROVE  LagInv /\ HeartbeatLagBounded
  OBVIOUS
<1>1. KindInv /\ IsFile(disk)
  BY InitKept, InitType DEF TypeOK
<1>2. /\ sessions = Migrated(disk) /\ lastPersistedAt = 0 /\ outcome = "opened"
      /\ DOMAIN Migrated(disk) = DOMAIN disk.sessions
  BY DEF Init, Migrated
<1>3. \A k \in DOMAIN disk.sessions : Migrated(disk)[k].seen = disk.sessions[k].seen
  BY <1>1, OpenKeeps DEF KindInv
<1> QED
  BY <1>2, <1>3 DEF LagInv, HeartbeatLagBounded

\* After an observation that returned no error, a kill costs less than one
\* persist interval of heartbeats, whatever was flushed, restarted or failed to
\* be written before (ADR-014).
THEOREM KillCostsLittle == Spec => []HeartbeatLagBounded
<1>1. /\ Init => KindInv /\ KeptInv /\ LagInv /\ HeartbeatLagBounded
      /\ TypeOK /\ KindInv /\ KeptInv /\ LagInv /\ HeartbeatLagBounded /\ [Next]_vars =>
           KindInv' /\ KeptInv' /\ LagInv' /\ HeartbeatLagBounded'
  BY InitKept, InitLag, StepKept, StepLag
<1> QED
  BY <1>1, InitType, StepType, PTL DEF Spec
==============================================================================
