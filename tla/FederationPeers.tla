---------------------------- MODULE FederationPeers ----------------------------
(***************************************************************************)
(* internal/federationpeers and the Poller of internal/federationruntime:  *)
(* the registry of peers, one observation file per peer name, the poll     *)
(* cycle of "specview serve" and the CLI commands "peer add", "peer        *)
(* remove" and "peer refresh", which are processes of their own.  No lock  *)
(* joins the processes: they meet in the files.                            *)
(*                                                                         *)
(* A snapshot is its host and the time of its facts; clocks of the hosts   *)
(* agree.  A host that is not up stands for everything that makes a fetch  *)
(* fail: network, another Host ID at the URL, a missing credential.  The   *)
(* registry file is saved in one step.                                     *)
(***************************************************************************)
EXTENDS Integers, FiniteSets, FiniteSetsExt, Functions

CONSTANTS
  Name,         \* peer names; numbers, in the order of Registry.List
  Host,         \* Host IDs
  Cli,          \* processes that run CLI commands
  FirstRegistry,  \* the registries serve may find when it starts
  MaxTime,      \* bound on the clock
  MaxTurmoil    \* bound on commands, failed saves, kills, signals and outages

\* Peers by name, each with its expected Host ID.
Registry == UNION {[names -> Host] : names \in SUBSET Name}

ASSUME NameAssumption == Name \subseteq Nat
ASSUME CliAssumption == "serve" \notin Cli
ASSUME RegistryAssumption == FirstRegistry \subseteq Registry
ASSUME BoundsAssumption == MaxTime \in Nat \ {0} /\ MaxTurmoil \in Nat

VARIABLES
  registry,      \* federation-peers.json: peer name -> expected Host ID
  obs,           \* federation/peers/<name>.json
  tmp,           \* federation/peers/<name>.json.tmp
  op,            \* [Process -> what it is doing]
  poll,          \* the Poller: waiting, cycling or stopped
  cycle,         \* the peers Refresh still has to visit
  materials,     \* what it has found out about the others
  lastMaterial,  \* Poller.lastMaterialKey
  cancelled,     \* the context of serve
  up,            \* hosts that answer
  now,           \* the clock
  turmoil,       \* what MaxTurmoil counts
  viewed,        \* history: what a reader saw when the Poller last called onChange,
                 \* unless a command disturbed that cycle
  disturbed      \* history: a CLI command changed a file since the cycle began

pollerVars == <<poll, cycle, materials, lastMaterial, cancelled, viewed>>
worldVars == <<up, now, turmoil>>
vars == <<registry, obs, tmp, op, pollerVars, worldVars, disturbed>>

Process == {"serve"} \cup Cli

-----------------------------------------------------------------------------
(* Observations: time 0 is an absent time, failed says LastError # "".     *)

NoSnapshot == [host |-> "none", at |-> 0]
Snapshot == [host: Host, at: 1..MaxTime]
Failure == NoSnapshot    \* the answer of a fetch that failed

Observation ==
  {o \in [attempt: 0..MaxTime, success: 0..MaxTime, failed: BOOLEAN,
          snapshot: Snapshot \cup {NoSnapshot}] :
     /\ o.snapshot # NoSnapshot => o.success # 0
     /\ o.failed => o.attempt # 0}

EmptyObservation ==
  [attempt |-> 0, success |-> 0, failed |-> FALSE, snapshot |-> NoSnapshot]

\* A file between truncation and write, and one two writers have mixed.
Empty == [data |-> "empty"]
Torn == [data |-> "torn"]
Unreadable == {Empty, Torn}
NoFile == [data |-> "none"]

LatestAttemptFailed(o) == o.failed /\ o.attempt # 0 /\ o.attempt >= o.success

\* No attempt finds a snapshot that was stale when it began: that is for the
\* readers of the projection, and left out.
Freshness(o) ==
  CASE LatestAttemptFailed(o) -> "unreachable"
    [] ~LatestAttemptFailed(o) /\ o.snapshot = NoSnapshot -> "never_retrieved"
    [] OTHER -> "fresh"

\* Mutant: the time of the success is forgotten.
SucceededNoTime(o, time, s) ==
  [attempt |-> time, success |-> o.success, failed |-> FALSE, snapshot |-> s]

Succeeded(o, time, s) ==
  [attempt |-> time, success |-> time, failed |-> FALSE, snapshot |-> s]

\* Mutant: a failure starts from an empty observation.
FailedAfresh(o, time) ==
  [EmptyObservation EXCEPT !.attempt = time, !.failed = TRUE]

Failed(o, time) == [o EXCEPT !.attempt = time, !.failed = TRUE]

\* What a reader of the projection is shown of each registered peer.
View ==
  [n \in DOMAIN registry |->
     [host |-> registry[n],
      shown |-> IF obs[n] \in Unreadable THEN obs[n]
                ELSE [snapshot |-> obs[n].snapshot,
                      failing |-> LatestAttemptFailed(obs[n])]]]

-----------------------------------------------------------------------------
Idle == [at |-> "idle"]

With(f, x, value) == [y \in DOMAIN f \cup {x} |-> IF y = x THEN value ELSE f[y]]

Upset == turmoil < MaxTurmoil /\ turmoil' = turmoil + 1

Init ==
  /\ registry \in FirstRegistry /\ obs = [n \in Name |-> EmptyObservation]
  /\ tmp = [n \in Name |-> NoFile]
  /\ op = [p \in Process |-> Idle]
  /\ poll = "waiting" /\ cycle = <<>> /\ materials = <<>>
  /\ lastMaterial = {} /\ cancelled = FALSE
  /\ up = Host /\ now = 1
  /\ turmoil = 0
  /\ viewed = {} /\ disturbed = FALSE

\* Refresher.Refresh takes the time of the attempt before it fetches.
Fetching(name, host) ==
  [at |-> "fetching", name |-> name, host |-> host, time |-> now]

Fetched(o, answer) ==
  [at |-> "loading", name |-> o.name, host |-> o.host, time |-> o.time, answer |-> answer]

\* raced: another process has the same observation in its hands; file: which
\* file the writer has open.
Loaded(o, next, raced) ==
  [at |-> "opening", name |-> o.name, host |-> o.host, time |-> o.time, answer |-> o.answer,
   next |-> next, raced |-> raced, file |-> "none"]

\* Between Load and Rename a process holds an old copy of the file.
Saving(p) == op[p].at \in {"opening", "writing", "renaming"}
SavingName(n) == {p \in Process : Saving(p) /\ op[p].name = n}

\* The end of Refresh: the Poller keeps what it found out.
Finish(p, ops, entry) ==
  /\ op' = [ops EXCEPT ![p] = Idle]
  /\ IF p = "serve"
     THEN /\ materials' = With(materials, op[p].name, entry)
          /\ UNCHANGED <<poll, cycle, lastMaterial, cancelled, viewed>>
     ELSE UNCHANGED pollerVars

\* Mutant: the material of a peer is its snapshot.
SnapshotMaterial(p, o) == [host |-> op[p].host, snapshot |-> o.snapshot]

\* peerMaterial of an attempt that was recorded, and of one that was not.
Material(p, o) ==
  [host |-> op[p].host, freshness |-> Freshness(o),
   failed |-> o.failed,
   error |-> IF op[p].answer = Failure THEN "fetch" ELSE "none",
   snapshot |-> o.snapshot]
Unrecorded(p) == [host |-> op[p].host, error |-> "record"]

-----------------------------------------------------------------------------
(* Refresher.Refresh, of the Poller and of "peer refresh".                 *)

Fetch(p) ==
  /\ op[p].at = "fetching"
  /\ LET ok == op[p].host \in up /\ ~(p = "serve" /\ cancelled)
         answer == IF ok THEN [host |-> op[p].host, at |-> now] ELSE Failure
     IN op' = [op EXCEPT ![p] = Fetched(@, answer)]
  /\ UNCHANGED <<registry, obs, tmp, pollerVars, worldVars, disturbed>>

\* A file that cannot be read ends RecordSuccess and RecordFailure alike.
LoadFails(p) ==
  /\ op[p].at = "loading" /\ obs[op[p].name] \in Unreadable
  /\ Finish(p, op, Unrecorded(p))
  /\ UNCHANGED <<registry, obs, tmp, worldVars, disturbed>>

Load(p) ==
  /\ op[p].at = "loading" /\ obs[op[p].name] \notin Unreadable
  /\ LET o == obs[op[p].name]
         others == SavingName(op[p].name)
         next == IF op[p].answer = Failure THEN Failed(o, op[p].time)
                 ELSE Succeeded(o, op[p].time, op[p].answer)
     IN op' = [q \in Process |->
                 IF q = p THEN Loaded(op[p], next, others # {})
                 ELSE IF q \in others THEN [op[q] EXCEPT !.raced = TRUE] ELSE op[q]]
  /\ disturbed' = (disturbed \/ p # "serve")
  /\ UNCHANGED <<registry, obs, tmp, pollerVars, worldVars>>

\* os.WriteFile opens the temporary file and truncates it, ...
Open(p) ==
  /\ op[p].at = "opening"
  /\ tmp' = [tmp EXCEPT ![op[p].name] = Empty]
  /\ op' = [op EXCEPT ![p].at = "writing", ![p].file = "tmp"]
  /\ UNCHANGED <<registry, obs, pollerVars, worldVars, disturbed>>

\* ... and then writes: over another writer's bytes the result may be mixed.
Overwritten(old, new) == IF old = Empty THEN {new} ELSE {new, Torn}

Write(p) ==
  /\ op[p].at = "writing"
  /\ LET n == op[p].name  new == op[p].next IN
     CASE op[p].file = "tmp" ->
            /\ \E data \in Overwritten(tmp[n], new) : tmp' = [tmp EXCEPT ![n] = data]
            /\ UNCHANGED obs
       [] op[p].file = "obs" ->
            /\ \E data \in Overwritten(obs[n], new) : obs' = [obs EXCEPT ![n] = data]
            /\ UNCHANGED tmp
       [] OTHER -> UNCHANGED <<obs, tmp>>
  /\ op' = [op EXCEPT ![p].at = "renaming"]
  /\ UNCHANGED <<registry, pollerVars, worldVars, disturbed>>

\* Where the open files of name n are when its paths get new files.
Moved(n, from, race) ==
  [q \in Process |->
     IF q \in SavingName(n) /\ op[q].file \in DOMAIN from
     THEN [op[q] EXCEPT !.file = from[@], !.raced = @ \/ race] ELSE op[q]]

Rename(p) ==
  /\ op[p].at = "renaming"
  /\ LET n == op[p].name IN
     IF tmp[n] = NoFile
     THEN Finish(p, op, Unrecorded(p)) /\ UNCHANGED <<obs, tmp>>
     ELSE /\ obs' = [obs EXCEPT ![n] = tmp[n]]
          /\ tmp' = [tmp EXCEPT ![n] = NoFile]
          /\ Finish(p, Moved(n, [tmp |-> "obs", obs |-> "lost"], FALSE),
                    Material(p, op[p].next))
  /\ UNCHANGED <<registry, worldVars, disturbed>>

SaveFails(p) ==
  /\ Saving(p) /\ Upset
  /\ Finish(p, op, Unrecorded(p))
  /\ UNCHANGED <<registry, obs, tmp, up, now, disturbed>>

RefreshStep(p) ==
  Fetch(p) \/ LoadFails(p) \/ Load(p) \/ Open(p) \/ Write(p) \/ Rename(p)

-----------------------------------------------------------------------------
(* Poller.Refresh and Poller.Run.                                          *)

StartCycle ==
  /\ poll = "waiting"
  /\ poll' = "cycling" /\ cycle' = registry /\ materials' = <<>>
  /\ disturbed' = (\E p \in Cli : Saving(p))
  /\ UNCHANGED <<registry, obs, tmp, op, lastMaterial, cancelled, viewed, worldVars>>

\* Refresh gives up between two peers when the context is done, and Run
\* returns; during a fetch it does not, as the error of the Refresher is
\* never context.Canceled any more.
Stop ==
  /\ cancelled /\ op["serve"] = Idle
  /\ poll = "waiting" \/ (poll = "cycling" /\ cycle # <<>>)
  /\ poll' = "stopped" /\ cycle' = <<>> /\ materials' = <<>>
  /\ UNCHANGED <<registry, obs, tmp, op, lastMaterial, cancelled, viewed, worldVars,
                 disturbed>>

\* Mutant: the cycle goes no further than the first peer that fails.
NextPeerUntilFailure ==
  /\ poll = "cycling" /\ op["serve"] = Idle /\ cycle # <<>> /\ ~cancelled
  /\ \A n \in DOMAIN materials : materials[n].error = "none"
  /\ LET n == Min(DOMAIN cycle) IN
     /\ op' = [op EXCEPT !["serve"] = Fetching(n, cycle[n])]
     /\ cycle' = Restrict(cycle, DOMAIN cycle \ {n})
  /\ UNCHANGED <<registry, obs, tmp, poll, materials, lastMaterial, cancelled, viewed,
                 worldVars, disturbed>>

NextPeer ==
  /\ poll = "cycling" /\ op["serve"] = Idle /\ cycle # <<>> /\ ~cancelled
  /\ LET n == Min(DOMAIN cycle) IN
     /\ op' = [op EXCEPT !["serve"] = Fetching(n, cycle[n])]
     /\ cycle' = Restrict(cycle, DOMAIN cycle \ {n})
  /\ UNCHANGED <<registry, obs, tmp, poll, materials, lastMaterial, cancelled, viewed,
                 worldVars, disturbed>>

EndCycle ==
  /\ poll = "cycling" /\ op["serve"] = Idle /\ cycle = <<>>
  /\ poll' = "waiting" /\ lastMaterial' = {materials}
  /\ viewed' = IF lastMaterial' = lastMaterial THEN viewed
               ELSE IF disturbed THEN {} ELSE {View}
  /\ UNCHANGED <<registry, obs, tmp, op, cycle, materials, cancelled, worldVars, disturbed>>

PollStep == StartCycle \/ Stop \/ NextPeer \/ EndCycle

-----------------------------------------------------------------------------
(* The commands of the CLI.                                                *)

Command ==
  /\ Upset
  /\ UNCHANGED <<registry, obs, tmp, pollerVars, up, now, disturbed>>

BeginRefresh(p) ==
  /\ Command /\ op[p] = Idle
  /\ \E n \in DOMAIN registry : op' = [op EXCEPT ![p] = Fetching(n, registry[n])]

\* Add and Remove save the registry they read, with one peer more or less.
BeginAdd(p) ==
  /\ Command /\ op[p] = Idle
  /\ \E n \in Name \ DOMAIN registry, h \in Host :
       op' = [op EXCEPT ![p] = [at |-> "adding", name |-> n, peers |-> With(registry, n, h)]]

BeginRemove(p) ==
  /\ Command /\ op[p] = Idle
  /\ \E n \in DOMAIN registry :
       op' = [op EXCEPT ![p] = [at |-> "removing", name |-> n,
                                peers |-> Restrict(registry, DOMAIN registry \ {n})]]

SaveRegistry(p) ==
  /\ op[p].at \in {"adding", "removing"}
  /\ registry' = op[p].peers
  /\ op' = [op EXCEPT ![p] = IF @.at = "adding" THEN Idle
                             ELSE [at |-> "forgetting", name |-> @.name]]
  /\ disturbed' = TRUE
  /\ UNCHANGED <<obs, tmp, pollerVars, worldVars>>

\* ObservationStore.Remove
Forget(p) ==
  /\ op[p].at = "forgetting"
  /\ LET n == op[p].name IN
     /\ obs' = [obs EXCEPT ![n] = EmptyObservation]
     /\ op' = [Moved(n, [none |-> "none", tmp |-> "tmp", obs |-> "lost"], TRUE)
                 EXCEPT ![p] = Idle]
  /\ disturbed' = TRUE
  /\ UNCHANGED <<registry, tmp, pollerVars, worldVars>>

CliStep(p) == RefreshStep(p) \/ SaveRegistry(p) \/ Forget(p)

-----------------------------------------------------------------------------
(* The world.  A process may be killed anywhere, or exit: serve does not   *)
(* wait for its Poller.  It is started again; temporary files stay.        *)

Kill(p) ==
  /\ Upset
  /\ op' = [op EXCEPT ![p] = Idle]
  /\ IF p = "serve"
     THEN /\ poll' = "waiting" /\ cycle' = <<>> /\ materials' = <<>>
          /\ lastMaterial' = {} /\ viewed' = {} /\ cancelled' = FALSE
     ELSE op[p] # Idle /\ UNCHANGED pollerVars
  /\ UNCHANGED <<registry, obs, tmp, up, now, disturbed>>

Cancel ==
  /\ ~cancelled /\ Upset
  /\ cancelled' = TRUE
  /\ UNCHANGED <<registry, obs, tmp, op, poll, cycle, materials, lastMaterial, viewed,
                 up, now, disturbed>>

HostDown(h) ==
  /\ h \in up /\ up' = up \ {h} /\ Upset
  /\ UNCHANGED <<registry, obs, tmp, op, pollerVars, now, disturbed>>

HostUp(h) ==
  /\ h \notin up /\ up' = up \cup {h}
  /\ UNCHANGED <<registry, obs, tmp, op, pollerVars, now, turmoil, disturbed>>

Tick ==
  /\ now < MaxTime /\ now' = now + 1
  /\ UNCHANGED <<registry, obs, tmp, op, pollerVars, up, turmoil, disturbed>>

WorldStep ==
  \/ Cancel \/ Tick
  \/ \E h \in Host : HostDown(h) \/ HostUp(h)

Next ==
  \/ RefreshStep("serve") \/ PollStep
  \/ \E p \in Cli : CliStep(p) \/ BeginRefresh(p) \/ BeginAdd(p) \/ BeginRemove(p)
  \/ \E p \in Process : SaveFails(p) \/ Kill(p)
  \/ WorldStep

\* Processes go on, and the Poller's ticker fires.  Turmoil and the clock
\* are free.
Fairness ==
  /\ WF_vars(RefreshStep("serve") \/ PollStep)
  /\ \A p \in Cli : WF_vars(CliStep(p))

Spec == Init /\ [][Next]_vars /\ Fairness

-----------------------------------------------------------------------------
Answer == Snapshot \cup {Failure}

Writer == [at: {"opening", "writing", "renaming"}, name: Name, host: Host, time: 1..now,
           answer: Answer, next: Observation, raced: BOOLEAN,
           file: {"none", "tmp", "obs", "lost"}]

OpType(o) ==
  \/ o = Idle
  \/ o \in [at: {"fetching"}, name: Name, host: Host, time: 1..now]
  \/ o \in [at: {"loading"}, name: Name, host: Host, time: 1..now, answer: Answer]
  \/ o \in Writer
  \/ o \in [at: {"adding", "removing"}, name: Name, peers: Registry]
  \/ o \in [at: {"forgetting"}, name: Name]

\* Every file that can be read passes validateObservation: a snapshot has the
\* time of its success, an error the time of its attempt; the Poller's
\* bookkeeping speaks of peers of the registry it read.
TypeOK ==
  /\ registry \in Registry /\ cycle \in Registry
  /\ obs \in [Name -> Observation \cup Unreadable]
  /\ tmp \in [Name -> Observation \cup Unreadable \cup {NoFile}]
  /\ DOMAIN op = Process /\ \A p \in Process : OpType(op[p])
  /\ now \in 1..MaxTime /\ up \subseteq Host /\ cancelled \in BOOLEAN
  /\ poll \in {"waiting", "cycling", "stopped"}
  /\ DOMAIN cycle \cap DOMAIN materials = {}
  /\ op["serve"] # Idle => poll = "cycling"

Readable(n) == obs[n] \notin Unreadable

\* H22: "A later failed refresh records attempt metadata but keeps the previous
\* valid observation intact."  Whoever changes an observation file, in any
\* order of polls, commands and kills, an attempt that no other process
\* overlapped leaves its answer, or the old snapshot and the failure unless a
\* later attempt had already succeeded; only "peer remove" takes it away.
UnracedAttemptDecides ==
  [][\A n \in Name : obs'[n] # obs[n] =>
       \E p \in Process : /\ op[p] # Idle /\ op[p].name = n
         /\ \/ op[p].at = "forgetting"
            \/ op[p].at \in {"writing", "renaming"} /\ op[p].raced
            \/ /\ op[p].at = "renaming" /\ Readable(n) /\ Readable(n)'
               /\ IF op[p].answer = Failure
                  THEN /\ obs'[n].snapshot = obs[n].snapshot
                       /\ LatestAttemptFailed(obs'[n]) \/ obs[n].success > op[p].time
                  ELSE /\ obs'[n].snapshot = op[p].answer
                       /\ ~LatestAttemptFailed(obs'[n])]_vars

\* H23: the Poller "notifies the host observer only when peer material changes"
\* -- and whenever a reader would see something else: after a cycle that
\* recorded every peer and that no command disturbed, the reader who looked at
\* the last notification, in such a cycle, has seen what the projection shows.
NotifiedViewCurrent ==
  poll = "waiting" /\ ~disturbed /\ viewed # {} =>
    \A m \in lastMaterial :
      (\A n \in DOMAIN m : "snapshot" \in DOMAIN m[n]) => viewed = {View}

\* H23: the runtime keeps "configured federation peers current": a registered
\* peer that answers, with a file that can be read, is in the end always shown
\* with its own snapshot and as reachable, whatever happened before.
PollerConverges ==
  \A n \in Name, h \in Host :
    <>[](/\ n \in DOMAIN registry /\ registry[n] = h /\ h \in up
         /\ ~cancelled /\ Readable(n))
      => <>[](Readable(n) /\ obs[n].snapshot.host = h /\ ~LatestAttemptFailed(obs[n]))

\* ADR-011: "A durable peer is therefore identity-pinned rather than merely
\* hostname-pinned."  No peer is shown with the snapshot of another Host.
PinnedProjection ==
  \A n \in DOMAIN registry :
    Readable(n) => obs[n].snapshot.host \in {"none", registry[n]}
=============================================================================
