------------------------ MODULE FederationPeersProofs ------------------------
(***************************************************************************)
(* Proofs about FederationPeers for every value of its constants: its      *)
(* types, what an attempt that nobody raced leaves behind, and what the    *)
(* Poller has told its observer.                                           *)
(***************************************************************************)
EXTENDS FederationPeers, Counting

USE DEF Process

(***************************************************************************)
(* Types.                                                                  *)
(***************************************************************************)
Attempting == {"fetching", "loading", "opening", "writing", "renaming"}

\* serve runs attempts only, and none of them is of a peer still to be visited.
ServeInv ==
  op["serve"] # Idle =>
    op["serve"].at \in Attempting /\ op["serve"].name \notin DOMAIN cycle

LEMMA RegistryType ==
    ASSUME NEW r
    PROVE  r \in Registry <=> DOMAIN r \in SUBSET Name /\ r \in [DOMAIN r -> Host]
BY DEF Registry

LEMMA EmptyRegistry == <<>> \in Registry
<1>1. DOMAIN <<>> = {} /\ <<>> = [x \in {} |-> x]
  OBVIOUS
<1> QED
  BY <1>1, RegistryType

LEMMA GrownRegistry ==
    ASSUME NEW r \in Registry, NEW n \in Name, NEW h \in Host
    PROVE  With(r, n, h) \in Registry
<1>1. /\ DOMAIN With(r, n, h) \in SUBSET Name
      /\ With(r, n, h) \in [DOMAIN With(r, n, h) -> Host]
  BY RegistryType DEF With
<1> QED
  BY <1>1, RegistryType

LEMMA ShrunkRegistry ==
    ASSUME NEW r \in Registry, NEW n
    PROVE  /\ Restrict(r, DOMAIN r \ {n}) \in Registry
           /\ DOMAIN Restrict(r, DOMAIN r \ {n}) = DOMAIN r \ {n}
<1>1. /\ DOMAIN Restrict(r, DOMAIN r \ {n}) = DOMAIN r \ {n}
      /\ DOMAIN Restrict(r, DOMAIN r \ {n}) \in SUBSET Name
      /\ Restrict(r, DOMAIN r \ {n}) \in [DOMAIN Restrict(r, DOMAIN r \ {n}) -> Host]
  BY RegistryType DEF Restrict
<1> QED
  BY <1>1, RegistryType

\* The answer of an attempt, and what it makes of an observation, are what a
\* file may hold.
LEMMA SucceededType ==
    ASSUME NEW o, NEW time \in 1..MaxTime, NEW s \in Snapshot
    PROVE  Succeeded(o, time, s) \in Observation
<1>1. MaxTime \in Nat
  BY BoundsAssumption
<1>2. time \in 0..MaxTime /\ time # 0
  BY <1>1
<1> QED
  BY <1>2 DEF Succeeded, Observation

LEMMA FailedType ==
    ASSUME NEW o \in Observation, NEW time \in 1..MaxTime
    PROVE  Failed(o, time) \in Observation
<1>1. MaxTime \in Nat
  BY BoundsAssumption
<1>2. time \in 0..MaxTime /\ time # 0
  BY <1>1
<1> QED
  BY <1>2 DEF Failed, Observation

LEMMA EmptyType == EmptyObservation \in Observation
<1>1. 0 \in 0..MaxTime
  BY BoundsAssumption
<1> QED
  BY <1>1 DEF EmptyObservation, Observation

\* What a process at one of its steps has in its hands.
LEMMA OpShape ==
    ASSUME TypeOK, NEW p \in Process
    PROVE  /\ op[p].at = "fetching" =>
                op[p] \in [at: {"fetching"}, name: Name, host: Host, time: 1..now]
           /\ op[p].at = "loading" =>
                op[p] \in [at: {"loading"}, name: Name, host: Host, time: 1..now, answer: Answer]
           /\ Saving(p) =>
                op[p] \in Writer
           /\ op[p].at \in {"adding", "removing"} =>
                op[p] \in [at: {"adding", "removing"}, name: Name, peers: Registry]
           /\ op[p].at = "forgetting" => op[p] \in [at: {"forgetting"}, name: Name]
<1>1. OpType(op[p])
  BY DEF TypeOK
<1> QED
  BY <1>1 DEF OpType, Idle, Saving, Writer

\* A step of p that leaves the others at what they do.
LEMMA OpsStep ==
    ASSUME TypeOK, NEW p \in Process, NEW new, OpType(new), now' = now,
           op' = [op EXCEPT ![p] = new]
    PROVE  (DOMAIN op = Process /\ \A q \in Process : OpType(op[q]))'
<1>1. DOMAIN op' = Process /\ \A q \in Process : op'[q] = IF q = p THEN new ELSE op[q]
  BY DEF TypeOK
<1>2. \A q \in Process : OpType(op'[q])
  BY <1>1 DEF TypeOK
<1>3. \A q \in Process : OpType(op[q])'
  BY <1>2 DEF OpType, Writer
<1> QED
  BY <1>1, <1>3

LEMMA MovedType ==
    ASSUME TypeOK, NEW n, NEW from, NEW race \in BOOLEAN,
           \A f \in DOMAIN from : from[f] \in {"none", "tmp", "obs", "lost"}
    PROVE  /\ DOMAIN Moved(n, from, race) = Process
           /\ \A q \in Process : /\ OpType(Moved(n, from, race)[q])
                                 /\ Moved(n, from, race)[q] = Idle <=> op[q] = Idle
                                 /\ Moved(n, from, race)[q].at = op[q].at
                                 /\ Moved(n, from, race)[q].name = op[q].name
<1>1. DOMAIN Moved(n, from, race) = Process
  BY DEF Moved
<1>2. ASSUME NEW q \in Process
      PROVE  /\ OpType(Moved(n, from, race)[q])
             /\ Moved(n, from, race)[q] = Idle <=> op[q] = Idle
             /\ Moved(n, from, race)[q].at = op[q].at
             /\ Moved(n, from, race)[q].name = op[q].name
  <2>1. CASE q \in SavingName(n) /\ op[q].file \in DOMAIN from
    <3>1. op[q] \in Writer
      BY <2>1, OpShape DEF SavingName
    <3>2. Moved(n, from, race)[q]
            = [op[q] EXCEPT !.file = from[op[q].file], !.raced = op[q].raced \/ race]
      BY <2>1 DEF Moved
    <3>3. (op[q].raced \/ race) \in BOOLEAN
      OBVIOUS
    <3>4. Moved(n, from, race)[q] \in Writer
      BY <2>1, <3>1, <3>2, <3>3 DEF Writer
    <3>5. /\ Moved(n, from, race)[q].at = op[q].at
          /\ Moved(n, from, race)[q].name = op[q].name
      BY <3>1, <3>2 DEF Writer
    <3>6. op[q] # Idle /\ Moved(n, from, race)[q] # Idle
      BY <3>1, <3>4 DEF Idle, Writer
    <3> QED
      BY <3>4, <3>5, <3>6 DEF OpType
  <2>2. CASE ~(q \in SavingName(n) /\ op[q].file \in DOMAIN from)
    <3>1. Moved(n, from, race)[q] = op[q]
      BY <2>2 DEF Moved
    <3> QED
      BY <3>1 DEF TypeOK
  <2> QED
    BY <2>1, <2>2
<1> QED
  BY <1>1, <1>2

\* The files, the registry and the world of TypeOK, and its Poller.
FilesOK ==
  /\ registry \in Registry
  /\ obs \in [Name -> Observation \cup Unreadable]
  /\ tmp \in [Name -> Observation \cup Unreadable \cup {NoFile}]
  /\ now \in 1..MaxTime /\ up \subseteq Host /\ cancelled \in BOOLEAN
PollOK ==
  /\ cycle \in Registry /\ poll \in {"waiting", "cycling", "stopped"}
  /\ DOMAIN cycle \cap DOMAIN materials = {}
  /\ op["serve"] # Idle => poll = "cycling"
OpsOK == DOMAIN op = Process /\ \A p \in Process : OpType(op[p])

LEMMA TypeParts == FilesOK' /\ PollOK' /\ OpsOK' => TypeOK'
BY DEF TypeOK, FilesOK, PollOK, OpsOK

LEMMA FilesSame ==
    ASSUME TypeOK, UNCHANGED <<registry, obs, tmp, now, up, cancelled>>
    PROVE  FilesOK'
BY DEF TypeOK, FilesOK

\* A step of a CLI process, or of serve within an attempt, leaves the Poller.
LEMMA PollSame ==
    ASSUME TypeOK, ServeInv, UNCHANGED <<cycle, poll, materials>>,
           \/ op'["serve"] = op["serve"]
           \/ op'["serve"] = Idle
           \/ /\ op["serve"] # Idle
              /\ op'["serve"].at \in Attempting /\ op'["serve"].name = op["serve"].name
    PROVE  PollOK' /\ ServeInv'
BY DEF TypeOK, PollOK, ServeInv

\* The end of an attempt.
LEMMA FinishType ==
    ASSUME TypeOK, ServeInv, NEW p \in Process, op[p].at \in Attempting, NEW ops, NEW entry,
           DOMAIN ops = Process, \A q \in Process : OpType(ops[q]),
           \A q \in Process : /\ ops[q] = Idle <=> op[q] = Idle
                             /\ ops[q].at = op[q].at /\ ops[q].name = op[q].name,
           Finish(p, ops, entry), now' = now
    PROVE  PollOK' /\ ServeInv' /\ OpsOK'
<1>1. op' = [ops EXCEPT ![p] = Idle]
  BY DEF Finish
<1>2. \A q \in Process : op'[q] = IF q = p THEN Idle ELSE ops[q]
  BY <1>1
<1>3. \A q \in Process : OpType(op'[q])
  BY <1>2 DEF OpType
<1>4. OpsOK'
  BY <1>1, <1>3 DEF OpsOK, OpType, Writer
<1>5. op[p] # Idle
  BY DEF Attempting, Idle
<1>6. CASE p = "serve"
  <2>1. /\ UNCHANGED <<poll, cycle>> /\ materials' = With(materials, op[p].name, entry)
        /\ op'["serve"] = Idle
    BY <1>2, <1>6 DEF Finish
  <2>2. op[p].name \notin DOMAIN cycle
    BY <1>5, <1>6 DEF ServeInv
  <2> QED
    BY <1>4, <2>1, <2>2 DEF TypeOK, PollOK, ServeInv, With
<1>7. CASE p # "serve"
  <2>1. /\ UNCHANGED <<poll, cycle, materials>> /\ op'["serve"] = ops["serve"]
    BY <1>2, <1>7 DEF Finish, pollerVars
  <2> QED
    BY <1>4, <2>1 DEF TypeOK, PollOK, ServeInv
<1> QED
  BY <1>6, <1>7

LEMMA FetchType ==
    ASSUME TypeOK, ServeInv, NEW p \in Process, Fetch(p)
    PROVE  TypeOK' /\ ServeInv'
<1>1. op[p] \in [at: {"fetching"}, name: Name, host: Host, time: 1..now]
  BY OpShape DEF Fetch
<1>2. /\ UNCHANGED <<registry, obs, tmp, now, up, cancelled, cycle, poll, materials>>
      /\ \E answer \in {[host |-> op[p].host, at |-> now], Failure} :
            op' = [op EXCEPT ![p] = Fetched(op[p], answer)]
  BY DEF Fetch, pollerVars, worldVars, TypeOK
<1>3. PICK answer \in {[host |-> op[p].host, at |-> now], Failure} :
         op' = [op EXCEPT ![p] = Fetched(op[p], answer)]
  BY <1>2
<1>4. answer \in Answer
  BY <1>1, <1>3 DEF Answer, Snapshot, TypeOK
<1>5. /\ OpType(Fetched(op[p], answer))
      /\ Fetched(op[p], answer).at = "loading" /\ Fetched(op[p], answer).name = op[p].name
  BY <1>1, <1>4 DEF OpType, Fetched
<1>6. OpsOK'
  BY <1>2, <1>3, <1>5, OpsStep DEF OpsOK
<1>7. PollOK' /\ ServeInv'
  <2>1. op'["serve"] = IF p = "serve" THEN Fetched(op[p], answer) ELSE op["serve"]
    BY <1>3 DEF TypeOK
  <2>2. op[p] # Idle
    BY <1>1 DEF Idle
  <2> QED
    BY <1>2, <1>5, <2>1, <2>2, PollSame DEF Attempting
<1> QED
  BY <1>2, <1>6, <1>7, FilesSame, TypeParts

LEMMA LoadType ==
    ASSUME TypeOK, ServeInv, NEW p \in Process, Load(p)
    PROVE  TypeOK' /\ ServeInv'
<1> DEFINE o == obs[op[p].name]
           others == SavingName(op[p].name)
           next == IF op[p].answer = Failure THEN Failed(o, op[p].time)
                   ELSE Succeeded(o, op[p].time, op[p].answer)
<1>1. /\ op[p] \in [at: {"loading"}, name: Name, host: Host, time: 1..now, answer: Answer]
      /\ o \notin Unreadable /\ op[p].at = "loading"
  BY OpShape DEF Load
<1>2. /\ UNCHANGED <<registry, obs, tmp, now, up, cancelled, cycle, poll, materials>>
      /\ op' = [q \in Process |->
                  IF q = p THEN Loaded(op[p], next, others # {})
                  ELSE IF q \in others THEN [op[q] EXCEPT !.raced = TRUE] ELSE op[q]]
  BY DEF Load, pollerVars, worldVars
<1>3. next \in Observation
  <2>1. o \in Observation /\ op[p].time \in 1..MaxTime
    BY <1>1, BoundsAssumption DEF TypeOK
  <2>2. op[p].answer # Failure => op[p].answer \in Snapshot
    BY <1>1 DEF Answer
  <2> QED
    BY <2>1, <2>2, FailedType, SucceededType
<1>4. (others # {}) \in BOOLEAN
  OBVIOUS
<1>5. /\ OpType(Loaded(op[p], next, others # {}))
      /\ Loaded(op[p], next, others # {}).at = "opening"
      /\ Loaded(op[p], next, others # {}).name = op[p].name
  <2> HIDE DEF next, others
  <2> DEFINE race == others # {}
  <2>1. race \in BOOLEAN
    BY <1>4
  <2> HIDE DEF race
  <2>2. Loaded(op[p], next, race) \in Writer
    BY <1>1, <1>3, <2>1 DEF Loaded, Writer
  <2>3. OpType(Loaded(op[p], next, race))
    BY <2>2 DEF OpType
  <2> QED
    BY <2>3 DEF Loaded, race
<1>6. ASSUME NEW q \in others
      PROVE  /\ OpType([op[q] EXCEPT !.raced = TRUE])
             /\ [op[q] EXCEPT !.raced = TRUE].at = op[q].at
             /\ [op[q] EXCEPT !.raced = TRUE].name = op[q].name
             /\ op[q] # Idle /\ op[q].at \in Attempting
  <2>1. q \in Process /\ Saving(q)
    BY DEF SavingName
  <2>2. op[q] \in Writer
    BY <2>1, OpShape
  <2> QED
    <3>1. [op[q] EXCEPT !.raced = TRUE] \in Writer
      BY <2>2 DEF Writer
    <3>2. /\ [op[q] EXCEPT !.raced = TRUE].at = op[q].at
          /\ [op[q] EXCEPT !.raced = TRUE].name = op[q].name
          /\ op[q] # Idle /\ op[q].at \in Attempting
      BY <2>2 DEF Writer, Idle, Attempting
    <3> QED
      BY <3>1, <3>2 DEF OpType
<1> HIDE DEF next, others, o
<1>7. \A q \in Process :
        /\ q = p => op'[q] = Loaded(op[p], next, others # {})
        /\ q # p /\ q \in others => op'[q] = [op[q] EXCEPT !.raced = TRUE]
        /\ q # p /\ q \notin others => op'[q] = op[q]
  BY <1>2
<1>8. OpsOK'
  <2>1. ASSUME NEW q \in Process
        PROVE  OpType(op'[q])
    <3>1. CASE q = p
      BY <1>5, <1>7, <3>1
    <3>2. CASE q # p /\ q \in others
      BY <1>6, <1>7, <3>2
    <3>3. CASE q # p /\ q \notin others
      BY <1>7, <3>3 DEF TypeOK
    <3> QED
      BY <3>1, <3>2, <3>3
  <2> QED
    BY <1>2, <2>1 DEF OpsOK, OpType, Writer
<1>9. PollOK' /\ ServeInv'
  <2>1. \/ op'["serve"] = op["serve"]
        \/ /\ op["serve"] # Idle
           /\ op'["serve"].at \in Attempting /\ op'["serve"].name = op["serve"].name
    <3>1. CASE p = "serve"
      <4>1. op'["serve"] = Loaded(op[p], next, others # {})
        BY <1>7, <3>1
      <4>2. op[p] # Idle
        BY <1>1 DEF Idle
      <4> QED
        BY <1>5, <3>1, <4>1, <4>2 DEF Attempting
    <3>2. CASE p # "serve" /\ "serve" \in others
      BY <1>6, <1>7, <3>2
    <3>3. CASE p # "serve" /\ "serve" \notin others
      BY <1>7, <3>3
    <3> QED
      BY <3>1, <3>2, <3>3
  <2> QED
    BY <1>2, <2>1, PollSame
<1> QED
  BY <1>2, <1>8, <1>9, FilesSame, TypeParts

\* A writer goes on to its next step.
LEMMA WriterStep ==
    ASSUME TypeOK, ServeInv, NEW p \in Process, Saving(p), NEW new, new \in Writer,
           new.name = op[p].name, op' = [op EXCEPT ![p] = new],
           UNCHANGED <<now, cycle, poll, materials>>
    PROVE  OpsOK' /\ PollOK' /\ ServeInv'
<1>1. OpsOK'
  BY OpsStep DEF OpsOK, OpType
<1>2. op[p] # Idle /\ new.at \in Attempting
  BY DEF Writer, Attempting, Idle, Saving
<1>3. op'["serve"] = IF p = "serve" THEN new ELSE op["serve"]
  BY DEF TypeOK
<1>4. PollOK' /\ ServeInv'
  BY <1>2, <1>3, PollSame
<1> QED
  BY <1>1, <1>4

LEMMA OpenType ==
    ASSUME TypeOK, ServeInv, NEW p \in Process, Open(p)
    PROVE  TypeOK' /\ ServeInv'
<1> DEFINE new == [op[p] EXCEPT !.at = "writing", !.file = "tmp"]
<1>1. op[p] \in Writer /\ Saving(p)
  BY OpShape DEF Open, Saving
<1>2. new \in Writer /\ new.name = op[p].name
  BY <1>1 DEF Writer
<1>3. /\ op' = [op EXCEPT ![p] = new] /\ tmp' = [tmp EXCEPT ![op[p].name] = Empty]
      /\ UNCHANGED <<registry, obs, now, up, cancelled, cycle, poll, materials>>
  BY DEF Open, pollerVars, worldVars
<1>4. FilesOK'
  BY <1>3 DEF TypeOK, FilesOK, Unreadable
<1> HIDE DEF new
<1>5. OpsOK' /\ PollOK' /\ ServeInv'
  BY <1>1, <1>2, <1>3, WriterStep
<1> QED
  BY <1>4, <1>5, TypeParts

LEMMA WriteType ==
    ASSUME TypeOK, ServeInv, NEW p \in Process, Write(p)
    PROVE  TypeOK' /\ ServeInv'
<1> DEFINE new == [op[p] EXCEPT !.at = "renaming"]
           o == op[p]
<1>1. o \in Writer /\ Saving(p) /\ o.name \in Name /\ o.next \in Observation
  <2>1. o \in Writer /\ Saving(p)
    BY OpShape DEF Write, Saving
  <2> QED
    BY <2>1 DEF Writer
<1>2. new \in Writer /\ new.name = op[p].name
  BY <1>1 DEF Writer
<1>3. /\ op' = [op EXCEPT ![p] = new]
      /\ UNCHANGED <<registry, now, up, cancelled, cycle, poll, materials>>
  BY DEF Write, pollerVars, worldVars
<1>4. \A old : \A data \in Overwritten(old, o.next) : data \in Observation \cup Unreadable
  BY <1>1 DEF Overwritten, Unreadable
<1>5. \/ /\ \E data \in Overwritten(tmp[o.name], o.next) : tmp' = [tmp EXCEPT ![o.name] = data]
         /\ obs' = obs
      \/ /\ \E data \in Overwritten(obs[o.name], o.next) : obs' = [obs EXCEPT ![o.name] = data]
         /\ tmp' = tmp
      \/ obs' = obs /\ tmp' = tmp
  BY DEF Write
<1> HIDE DEF new, o
<1>6. FilesOK'
  BY <1>1, <1>3, <1>4, <1>5 DEF TypeOK, FilesOK
<1>7. OpsOK' /\ PollOK' /\ ServeInv'
  BY <1>1, <1>2, <1>3, WriterStep DEF o
<1> QED
  BY <1>6, <1>7, TypeParts

LEMMA RenameType ==
    ASSUME TypeOK, ServeInv, NEW p \in Process, Rename(p)
    PROVE  TypeOK' /\ ServeInv'
<1> DEFINE n == op[p].name
           moved == Moved(n, [tmp |-> "obs", obs |-> "lost"], FALSE)
<1>1. op[p] \in Writer /\ op[p].at \in Attempting /\ n \in Name
  <2>1. op[p] \in Writer
    BY OpShape DEF Rename, Saving
  <2> QED
    BY <2>1 DEF Writer, Attempting
<1>2. UNCHANGED <<registry, now, up>>
  BY DEF Rename, worldVars
<1>3. CASE Finish(p, op, Unrecorded(p)) /\ UNCHANGED <<obs, tmp>>
  <2>1. PollOK' /\ ServeInv' /\ OpsOK'
    BY <1>1, <1>2, <1>3, FinishType DEF TypeOK
  <2>2. cancelled' = cancelled
    BY <1>3 DEF Finish, pollerVars
  <2> QED
    BY <1>2, <1>3, <2>1, <2>2, FilesSame, TypeParts
<1>4. CASE /\ tmp[n] # NoFile
           /\ obs' = [obs EXCEPT ![n] = tmp[n]] /\ tmp' = [tmp EXCEPT ![n] = NoFile]
           /\ Finish(p, moved, Material(p, op[p].next))
  <2>1. DOMAIN moved = Process /\ \A q \in Process :
          /\ OpType(moved[q]) /\ (moved[q] = Idle <=> op[q] = Idle)
          /\ moved[q].at = op[q].at /\ moved[q].name = op[q].name
    <3> DEFINE from == [tmp |-> "obs", obs |-> "lost"]
    <3>1. \A f \in DOMAIN from : from[f] \in {"none", "tmp", "obs", "lost"}
      OBVIOUS
    <3>2. FALSE \in BOOLEAN
      OBVIOUS
    <3>3. moved = Moved(n, from, FALSE)
      OBVIOUS
    <3>4. DOMAIN moved = Process
      BY <3>3 DEF Moved
    <3> HIDE DEF moved, from, n
    <3> QED
      BY <3>1, <3>2, <3>3, <3>4, MovedType, ZenonT(60)
  <2> HIDE DEF moved
  <2>2. PollOK' /\ ServeInv' /\ OpsOK'
    BY <1>1, <1>2, <1>4, <2>1, FinishType, SMTT(30)
  <2>3. cancelled' = cancelled
    BY <1>4 DEF Finish, pollerVars
  <2>4. FilesOK'
    BY <1>1, <1>2, <1>4, <2>3 DEF TypeOK, FilesOK
  <2> QED
    BY <2>2, <2>4, TypeParts
<1> QED
  BY <1>3, <1>4 DEF Rename

LEMMA UnrecordedType ==
    ASSUME TypeOK, ServeInv, NEW p \in Process, op[p].at \in Attempting,
           Finish(p, op, Unrecorded(p)), UNCHANGED <<registry, obs, tmp, up, now>>
    PROVE  TypeOK' /\ ServeInv'
<1>1. PollOK' /\ ServeInv' /\ OpsOK'
  BY FinishType DEF TypeOK
<1>2. cancelled' = cancelled
  BY DEF Finish, pollerVars
<1> QED
  BY <1>1, <1>2, FilesSame, TypeParts

LEMMA RefreshType ==
    ASSUME TypeOK, ServeInv, NEW p \in Process, RefreshStep(p) \/ SaveFails(p)
    PROVE  TypeOK' /\ ServeInv'
<1>1. CASE LoadFails(p)
  BY <1>1, UnrecordedType DEF LoadFails, Attempting, worldVars
<1>2. CASE SaveFails(p)
  BY <1>2, UnrecordedType DEF SaveFails, Saving, Attempting
<1> QED
  BY <1>1, <1>2, FetchType, LoadType, OpenType, WriteType, RenameType DEF RefreshStep

(* The Poller.                                                             *)

LEMMA OpsSame ==
    ASSUME TypeOK, UNCHANGED <<op, now>>
    PROVE  OpsOK'
BY DEF TypeOK, OpsOK, OpType, Writer

LEMMA StartCycleType ==
    ASSUME TypeOK, ServeInv, StartCycle
    PROVE  TypeOK' /\ ServeInv'
<1>1. /\ UNCHANGED <<registry, obs, tmp, op, now, up, cancelled>> /\ poll = "waiting"
      /\ poll' = "cycling" /\ cycle' = registry /\ materials' = <<>>
  BY DEF StartCycle, worldVars
<1>2. PollOK' /\ ServeInv'
  BY <1>1 DEF TypeOK, PollOK, ServeInv
<1> QED
  BY <1>1, <1>2, FilesSame, OpsSame, TypeParts

LEMMA StopType ==
    ASSUME TypeOK, ServeInv, Stop
    PROVE  TypeOK' /\ ServeInv'
<1>1. /\ UNCHANGED <<registry, obs, tmp, op, now, up, cancelled>> /\ op["serve"] = Idle
      /\ poll' = "stopped" /\ cycle' = <<>> /\ materials' = <<>>
  BY DEF Stop, worldVars
<1>2. PollOK' /\ ServeInv'
  BY <1>1, EmptyRegistry DEF TypeOK, PollOK, ServeInv
<1> QED
  BY <1>1, <1>2, FilesSame, OpsSame, TypeParts

LEMMA NextPeerType ==
    ASSUME TypeOK, ServeInv, NextPeer
    PROVE  TypeOK' /\ ServeInv'
<1> DEFINE n == Min(DOMAIN cycle)
           rest == Restrict(cycle, DOMAIN cycle \ {n})
           new == Fetching(n, cycle[n])
<1>1. /\ UNCHANGED <<registry, obs, tmp, now, up, cancelled, materials, poll>>
      /\ poll = "cycling" /\ cycle # <<>>
      /\ op' = [op EXCEPT !["serve"] = new] /\ cycle' = rest
  BY DEF NextPeer, worldVars
<1>2. DOMAIN cycle \in SUBSET Name /\ cycle \in [DOMAIN cycle -> Host]
  BY RegistryType DEF TypeOK
<1>3. n \in DOMAIN cycle
  <2>1. DOMAIN cycle # {}
    BY <1>1, <1>2
  <2>2. DOMAIN cycle \subseteq Nat
    BY <1>2, NameAssumption
  <2> QED
    BY <2>1, <2>2, MinNat
<1> HIDE DEF n
<1>4. n \in Name /\ cycle[n] \in Host
  BY <1>2, <1>3
<1>5. OpType(new) /\ new.at = "fetching" /\ new.name = n
  <2>1. now \in 1..now
    BY DEF TypeOK
  <2> QED
    BY <1>4, <2>1 DEF OpType, Fetching
<1>6. rest \in Registry /\ DOMAIN rest = DOMAIN cycle \ {n}
  BY ShrunkRegistry DEF TypeOK
<1> HIDE DEF new, rest
<1>7. OpsOK'
  BY <1>1, <1>5, OpsStep DEF OpsOK
<1>8. op'["serve"] = new
  BY <1>1 DEF TypeOK
<1>9. PollOK' /\ ServeInv'
  BY <1>1, <1>5, <1>6, <1>8 DEF TypeOK, PollOK, ServeInv, Attempting
<1> QED
  BY <1>1, <1>7, <1>9, FilesSame, TypeParts

LEMMA EndCycleType ==
    ASSUME TypeOK, ServeInv, EndCycle
    PROVE  TypeOK' /\ ServeInv'
<1>1. /\ UNCHANGED <<registry, obs, tmp, op, now, up, cancelled, cycle, materials>>
      /\ op["serve"] = Idle /\ poll' = "waiting"
  BY DEF EndCycle, worldVars
<1>2. PollOK' /\ ServeInv'
  BY <1>1 DEF TypeOK, PollOK, ServeInv
<1> QED
  BY <1>1, <1>2, FilesSame, OpsSame, TypeParts

(* The commands.                                                           *)

\* A command goes on to another step of its own.
LEMMA CliStepType ==
    ASSUME TypeOK, ServeInv, NEW p \in Cli, NEW new, OpType(new),
           op' = [op EXCEPT ![p] = new], UNCHANGED <<now, pollerVars>>
    PROVE  OpsOK' /\ PollOK' /\ ServeInv'
<1>1. OpsOK'
  BY OpsStep DEF OpsOK
<1>2. op'["serve"] = op["serve"]
  BY CliAssumption DEF TypeOK
<1> QED
  BY <1>1, <1>2, PollSame DEF pollerVars

LEMMA BeginType ==
    ASSUME TypeOK, ServeInv, NEW p \in Cli, BeginRefresh(p) \/ BeginAdd(p) \/ BeginRemove(p)
    PROVE  TypeOK' /\ ServeInv'
<1>1. UNCHANGED <<registry, obs, tmp, pollerVars, up, now>>
  BY DEF BeginRefresh, BeginAdd, BeginRemove, Command
<1>2. \E new : OpType(new) /\ op' = [op EXCEPT ![p] = new]
  <2>1. CASE BeginRefresh(p)
    <3>1. PICK n \in DOMAIN registry : op' = [op EXCEPT ![p] = Fetching(n, registry[n])]
      BY <2>1 DEF BeginRefresh
    <3>2. n \in Name /\ registry[n] \in Host
      BY RegistryType DEF TypeOK
    <3>3. now \in 1..now
      BY DEF TypeOK
    <3>4. OpType(Fetching(n, registry[n]))
      BY <3>2, <3>3 DEF OpType, Fetching
    <3> QED
      BY <3>1, <3>4
  <2>2. CASE BeginAdd(p)
    <3>1. PICK n \in Name \ DOMAIN registry, h \in Host :
            op' = [op EXCEPT ![p] = [at |-> "adding", name |-> n,
                                     peers |-> With(registry, n, h)]]
      BY <2>2 DEF BeginAdd
    <3>2. With(registry, n, h) \in Registry
      BY GrownRegistry DEF TypeOK
    <3>3. OpType([at |-> "adding", name |-> n, peers |-> With(registry, n, h)])
      BY <3>2 DEF OpType
    <3> QED
      BY <3>1, <3>3
  <2>3. CASE BeginRemove(p)
    <3>1. PICK n \in DOMAIN registry :
            op' = [op EXCEPT ![p] = [at |-> "removing", name |-> n,
                                     peers |-> Restrict(registry, DOMAIN registry \ {n})]]
      BY <2>3 DEF BeginRemove
    <3>2. Restrict(registry, DOMAIN registry \ {n}) \in Registry /\ n \in Name
      BY ShrunkRegistry, RegistryType DEF TypeOK
    <3>3. OpType([at |-> "removing", name |-> n,
                  peers |-> Restrict(registry, DOMAIN registry \ {n})])
      BY <3>2 DEF OpType
    <3> QED
      BY <3>1, <3>3
  <2> QED
    BY <2>1, <2>2, <2>3
<1>3. PICK new : OpType(new) /\ op' = [op EXCEPT ![p] = new]
  BY <1>2
<1>4. OpsOK' /\ PollOK' /\ ServeInv'
  BY <1>1, <1>3, CliStepType
<1> QED
  BY <1>1, <1>4, FilesSame, TypeParts DEF pollerVars

LEMMA SaveRegistryType ==
    ASSUME TypeOK, ServeInv, NEW p \in Cli, SaveRegistry(p)
    PROVE  TypeOK' /\ ServeInv'
<1>1. op[p] \in [at: {"adding", "removing"}, name: Name, peers: Registry]
  BY OpShape DEF SaveRegistry
<1>2. /\ UNCHANGED <<obs, tmp, pollerVars, up, now>> /\ registry' = op[p].peers
      /\ op' = [op EXCEPT ![p] = IF op[p].at = "adding" THEN Idle
                                 ELSE [at |-> "forgetting", name |-> op[p].name]]
  BY DEF SaveRegistry, worldVars
<1>3. \E new : OpType(new) /\ op' = [op EXCEPT ![p] = new]
  <2>1. OpType([at |-> "forgetting", name |-> op[p].name]) /\ OpType(Idle)
    BY <1>1 DEF OpType
  <2> QED
    BY <1>2, <2>1
<1>4. OpsOK' /\ PollOK' /\ ServeInv'
  BY <1>2, <1>3, CliStepType
<1>5. FilesOK'
  BY <1>1, <1>2 DEF TypeOK, FilesOK, pollerVars
<1> QED
  BY <1>4, <1>5, TypeParts

LEMMA ForgetType ==
    ASSUME TypeOK, ServeInv, NEW p \in Cli, Forget(p)
    PROVE  TypeOK' /\ ServeInv'
<1> DEFINE n == op[p].name
           from == [none |-> "none", tmp |-> "tmp", obs |-> "lost"]
           moved == Moved(n, from, TRUE)
<1>1. op[p] \in [at: {"forgetting"}, name: Name]
  BY OpShape DEF Forget
<1>2. /\ UNCHANGED <<registry, tmp, pollerVars, up, now>>
      /\ obs' = [obs EXCEPT ![n] = EmptyObservation]
      /\ op' = [moved EXCEPT ![p] = Idle]
  BY DEF Forget, worldVars
<1>3. FilesOK'
  BY <1>1, <1>2, EmptyType DEF TypeOK, FilesOK, pollerVars
<1>4. DOMAIN moved = Process /\ \A q \in Process :
        /\ OpType(moved[q]) /\ (moved[q] = Idle <=> op[q] = Idle)
        /\ moved[q].at = op[q].at /\ moved[q].name = op[q].name
  <2>1. \A f \in DOMAIN from : from[f] \in {"none", "tmp", "obs", "lost"}
    OBVIOUS
  <2> DEFINE race == TRUE
  <2>2. race \in BOOLEAN
    OBVIOUS
  <2>3. moved = Moved(n, from, race)
    OBVIOUS
  <2> HIDE DEF moved, from, n, race
  <2>4. DOMAIN moved = Process
    BY <2>1, <2>2, <2>3, MovedType
  <2>5. \A q \in Process :
          /\ OpType(moved[q]) /\ (moved[q] = Idle <=> op[q] = Idle)
          /\ moved[q].at = op[q].at /\ moved[q].name = op[q].name
    BY <2>1, <2>2, <2>3, MovedType
  <2> QED
    BY <2>4, <2>5
<1> HIDE DEF moved, from, n
<1>5. \A q \in Process : op'[q] = IF q = p THEN Idle ELSE moved[q]
  BY <1>2, <1>4
<1>6. OpsOK'
  <2>1. DOMAIN op' = Process /\ \A q \in Process : OpType(op'[q])
    BY <1>2, <1>4, <1>5 DEF OpType
  <2> QED
    BY <1>2, <2>1 DEF OpsOK, OpType, Writer
<1>7. PollOK' /\ ServeInv'
  <2>1. op'["serve"] = moved["serve"]
    BY <1>5, CliAssumption
  <2> QED
    BY <1>2, <1>4, <2>1 DEF TypeOK, PollOK, ServeInv, pollerVars
<1> QED
  BY <1>3, <1>6, <1>7, TypeParts

(* The world.                                                              *)

LEMMA KillType ==
    ASSUME TypeOK, ServeInv, NEW p \in Process, Kill(p)
    PROVE  TypeOK' /\ ServeInv'
<1>1. /\ UNCHANGED <<registry, obs, tmp, up, now>> /\ op' = [op EXCEPT ![p] = Idle]
  BY DEF Kill
<1>2. OpsOK'
  <2>1. OpType(Idle)
    BY DEF OpType
  <2> QED
    BY <1>1, <2>1, OpsStep DEF OpsOK
<1>3. CASE p = "serve"
  <2>1. /\ poll' = "waiting" /\ cycle' = <<>> /\ materials' = <<>> /\ cancelled' = FALSE
        /\ op'["serve"] = Idle
    BY <1>1, <1>3 DEF Kill, TypeOK
  <2>2. PollOK' /\ ServeInv'
    BY <2>1, EmptyRegistry DEF PollOK, ServeInv
  <2>3. FilesOK'
    BY <1>1, <2>1 DEF TypeOK, FilesOK
  <2> QED
    BY <1>2, <2>2, <2>3, TypeParts
<1>4. CASE p # "serve"
  <2>1. /\ UNCHANGED <<poll, cycle, materials, cancelled>> /\ op'["serve"] = op["serve"]
    BY <1>1, <1>4 DEF Kill, TypeOK, pollerVars
  <2> QED
    BY <1>1, <1>2, <2>1, PollSame, FilesSame, TypeParts
<1> QED
  BY <1>3, <1>4

LEMMA WorldType ==
    ASSUME TypeOK, ServeInv, WorldStep
    PROVE  TypeOK' /\ ServeInv'
<1>1. UNCHANGED <<registry, obs, tmp, op, poll, cycle, materials>>
  BY DEF WorldStep, Cancel, Tick, HostDown, HostUp, pollerVars
<1>2. PollOK' /\ ServeInv'
  BY <1>1 DEF TypeOK, PollOK, ServeInv
<1>3. FilesOK' /\ now' \in Nat /\ now =< now'
  <2>1. MaxTime \in Nat /\ now \in Nat
    BY BoundsAssumption DEF TypeOK
  <2>2. CASE Cancel
    BY <1>1, <2>1, <2>2 DEF TypeOK, FilesOK, Cancel
  <2>3. CASE Tick
    BY <1>1, <2>1, <2>3 DEF TypeOK, FilesOK, Tick, pollerVars
  <2>4. CASE \E h \in Host : HostDown(h) \/ HostUp(h)
    BY <1>1, <2>1, <2>4 DEF TypeOK, FilesOK, HostDown, HostUp, pollerVars
  <2> QED
    BY <2>2, <2>3, <2>4 DEF WorldStep
<1>4. OpsOK'
  <2>1. \A t \in 1..now : t \in 1..now'
    BY <1>3 DEF TypeOK
  <2>2. ASSUME NEW p \in Process
        PROVE  OpType(op[p])'
    <3>1. op'[p] = op[p] /\ OpType(op[p])
      BY <1>1 DEF TypeOK
    <3> QED
      BY <2>1, <3>1 DEF OpType, Writer
  <2> QED
    BY <1>1, <2>2 DEF OpsOK, TypeOK
<1> QED
  BY <1>2, <1>3, <1>4, TypeParts

LEMMA InitType == Init => TypeOK /\ ServeInv
<1> SUFFICES ASSUME Init
             PROVE  TypeOK /\ ServeInv
  OBVIOUS
<1>1. registry \in Registry /\ cycle \in Registry
  BY RegistryAssumption, EmptyRegistry DEF Init
<1>2. 1 \in 1..MaxTime
  BY BoundsAssumption
<1>3. /\ obs \in [Name -> Observation \cup Unreadable]
      /\ tmp \in [Name -> Observation \cup Unreadable \cup {NoFile}]
  BY EmptyType DEF Init
<1>4. DOMAIN op = Process /\ \A p \in Process : op[p] = Idle
  BY DEF Init
<1> QED
  <2>1. \A p \in Process : OpType(op[p])
    BY <1>4 DEF OpType
  <2>2. now \in 1..MaxTime /\ up \subseteq Host /\ cancelled \in BOOLEAN
    BY <1>2 DEF Init
  <2>3. DOMAIN cycle = {} /\ poll = "waiting"
    BY DEF Init
  <2>4. TypeOK
    BY <1>1, <1>3, <1>4, <2>1, <2>2, <2>3 DEF TypeOK
  <2> QED
    BY <1>4, <2>4 DEF ServeInv

LEMMA StepType == TypeOK /\ ServeInv /\ [Next]_vars => TypeOK' /\ ServeInv'
<1> SUFFICES ASSUME TypeOK, ServeInv, [Next]_vars
             PROVE  TypeOK' /\ ServeInv'
  OBVIOUS
<1>1. CASE RefreshStep("serve")
  BY <1>1, RefreshType
<1>2. CASE PollStep
  BY <1>2, StartCycleType, StopType, NextPeerType, EndCycleType DEF PollStep
<1>3. ASSUME NEW p \in Cli,
             CliStep(p) \/ BeginRefresh(p) \/ BeginAdd(p) \/ BeginRemove(p)
      PROVE  TypeOK' /\ ServeInv'
  BY <1>3, RefreshType, SaveRegistryType, ForgetType, BeginType DEF CliStep
<1>4. ASSUME NEW p \in Process, SaveFails(p) \/ Kill(p)
      PROVE  TypeOK' /\ ServeInv'
  BY <1>4, RefreshType, KillType
<1>5. CASE WorldStep
  BY <1>5, WorldType
<1>6. CASE UNCHANGED vars
  <2>1. FilesOK'
    BY <1>6, FilesSame DEF vars, pollerVars, worldVars
  <2>2. OpsOK'
    BY <1>6, OpsSame DEF vars, worldVars
  <2>3. PollOK' /\ ServeInv'
    BY <1>6, PollSame DEF vars, pollerVars
  <2> QED
    BY <2>1, <2>2, <2>3, TypeParts
<1> QED
  BY <1>1, <1>2, <1>3, <1>4, <1>5, <1>6 DEF Next

\* Whatever the processes do to each other's files, what can be read passes
\* validateObservation, and the Poller never holds a peer twice.
THEOREM FederationTypes == Spec => []TypeOK
<1>1. Init => TypeOK /\ ServeInv
  BY InitType
<1>2. (TypeOK /\ ServeInv) /\ [Next]_vars => (TypeOK /\ ServeInv)'
  BY StepType
<1> QED
  BY <1>1, <1>2, PTL DEF Spec

(***************************************************************************)
(* What an attempt that nobody raced leaves behind.                        *)
(***************************************************************************)
SavingSteps == {"opening", "writing", "renaming"}

Outcome(o, old) ==
  IF o.answer = Failure THEN Failed(old, o.time) ELSE Succeeded(old, o.time, o.answer)

\* A process between Load and Rename that nobody has raced is alone with its
\* name, still knows the file as it is, and has the temporary file to itself.
Alone(p) ==
  op[p].at \in SavingSteps /\ ~op[p].raced =>
    LET n == op[p].name IN
    /\ \A q \in Process : op[q].at \in SavingSteps /\ op[q].name = n => q = p
    /\ obs[n] \notin Unreadable
    /\ op[p].next = Outcome(op[p], obs[n])
    /\ op[p].at = "opening" => op[p].file = "none"
    /\ op[p].at # "opening" => op[p].file = "tmp"
    /\ op[p].at = "writing" => tmp[n] = Empty
    /\ op[p].at = "renaming" => tmp[n] = op[p].next

AloneInv == \A p \in Process : Alone(p)

\* What p does to its name leaves the processes with other names alone.
LEMMA Elsewhere ==
    ASSUME TypeOK, AloneInv, NEW q \in Process, op'[q] = op[q],
           op[q].at \in SavingSteps =>
             /\ obs'[op[q].name] = obs[op[q].name] /\ tmp'[op[q].name] = tmp[op[q].name]
             /\ \A r \in Process : op'[r].at \in SavingSteps /\ op'[r].name = op[q].name
                                     => op[r].at \in SavingSteps /\ op[r].name = op[q].name
    PROVE  Alone(q)'
<1>1. CASE op[q].at \in SavingSteps /\ ~op[q].raced
  <2> DEFINE n == op[q].name
  <2>1. /\ \A r \in Process : op[r].at \in SavingSteps /\ op[r].name = n => r = q
        /\ obs[n] \notin Unreadable /\ op[q].next = Outcome(op[q], obs[n])
        /\ op[q].at = "opening" => op[q].file = "none"
        /\ op[q].at # "opening" => op[q].file = "tmp"
        /\ op[q].at = "writing" => tmp[n] = Empty
        /\ op[q].at = "renaming" => tmp[n] = op[q].next
    BY <1>1 DEF AloneInv, Alone
  <2>2. /\ op'[q].name = n /\ obs'[n] = obs[n] /\ tmp'[n] = tmp[n]
        /\ \A r \in Process : op'[r].at \in SavingSteps /\ op'[r].name = n => r = q
    BY <1>1, <2>1
  <2> QED
    BY <2>1, <2>2 DEF Alone, Unreadable, Empty, Torn
<1>2. CASE ~(op[q].at \in SavingSteps /\ ~op[q].raced)
  BY <1>2 DEF Alone
<1> QED
  BY <1>1, <1>2

LEMMA OutcomeSame ==
    ASSUME NEW o, NEW p, NEW old, p.answer = o.answer, p.time = o.time
    PROVE  Outcome(p, old) = Outcome(o, old)
BY DEF Outcome

LEMMA NotAlone ==
    ASSUME NEW q, op'[q].at \notin SavingSteps \/ op'[q].raced
    PROVE  Alone(q)'
BY DEF Alone

\* Steps that save nothing.
LEMMA AloneQuiet ==
    ASSUME TypeOK, AloneInv, UNCHANGED <<obs, tmp>>,
           \A q \in Process : op'[q] = op[q] \/ op'[q].at \notin SavingSteps
    PROVE  AloneInv'
<1>1. ASSUME NEW q \in Process
      PROVE  Alone(q)'
  <2>1. CASE op'[q] = op[q]
    <3>1. \A r \in Process : op'[r].at \in SavingSteps /\ op'[r].name = op[q].name
                               => op[r].at \in SavingSteps /\ op[r].name = op[q].name
      OBVIOUS
    <3> QED
      BY <2>1, <3>1, Elsewhere
  <2>2. CASE op'[q].at \notin SavingSteps
    BY <2>2 DEF Alone
  <2> QED
    BY <2>1, <2>2
<1> QED
  BY <1>1 DEF AloneInv

\* A step of p that takes it out of the way, or gives it something else to do.
LEMMA AloneAside ==
    ASSUME TypeOK, AloneInv, UNCHANGED <<obs, tmp>>, NEW p \in Process, NEW new,
           op' = [op EXCEPT ![p] = new], new.at \notin SavingSteps
    PROVE  AloneInv'
<1>1. \A q \in Process : op'[q] = IF q = p THEN new ELSE op[q]
  BY DEF TypeOK
<1> QED
  BY <1>1, AloneQuiet

LEMMA AloneLoad ==
    ASSUME TypeOK, AloneInv, NEW p \in Process, Load(p)
    PROVE  AloneInv'
<1> DEFINE n == op[p].name
           others == SavingName(n)
           next == Outcome(op[p], obs[n])
<1>1. /\ UNCHANGED <<obs, tmp>> /\ op[p].at = "loading" /\ obs[n] \notin Unreadable
      /\ op' = [q \in Process |->
                  IF q = p THEN Loaded(op[p], next, others # {})
                  ELSE IF q \in others THEN [op[q] EXCEPT !.raced = TRUE] ELSE op[q]]
  BY DEF Load, Outcome
<1>2. \A q \in Process : q \in others <=> op[q].at \in SavingSteps /\ op[q].name = n
  BY DEF SavingName, Saving, SavingSteps
<1>3. \A q \in others : op[q] \in Writer
  BY OpShape DEF SavingName
<1> HIDE DEF others
<1>4. \A q \in Process :
        /\ q = p => op'[q] = Loaded(op[p], next, others # {})
        /\ q # p /\ q \in others =>
             op'[q].at = op[q].at /\ op'[q].name = op[q].name /\ op'[q].raced = TRUE
        /\ q # p /\ q \notin others => op'[q] = op[q]
  BY <1>1, <1>3 DEF Writer
<1> DEFINE race == others # {}
<1>5. race \in BOOLEAN /\ (~race => others = {}) /\ op'[p] = Loaded(op[p], next, race)
  BY <1>4
<1> HIDE DEF race, next
<1>6. /\ op'[p].name = n /\ op'[p].at = "opening" /\ op'[p].file = "none"
      /\ op'[p].next = next /\ op'[p].answer = op[p].answer /\ op'[p].time = op[p].time
      /\ op'[p].raced = race
  BY <1>5 DEF Loaded
<1>7. \A q \in Process : q # p /\ q \in others => Alone(q)'
  BY <1>4 DEF Alone
<1>8. ASSUME NEW q \in Process, q # p, q \notin others
      PROVE  Alone(q)'
  <2>1. op[q].at \in SavingSteps => op[q].name # n
    BY <1>2, <1>8
  <2>2. op'[p].name = n
    BY <1>6
  <2>3. \A r \in Process : op[q].at \in SavingSteps /\ op'[r].at \in SavingSteps
                             /\ op'[r].name = op[q].name
                             => op[r].at \in SavingSteps /\ op[r].name = op[q].name
    BY <1>4, <2>1, <2>2
  <2> QED
    BY <1>1, <1>4, <1>8, <2>3, Elsewhere
<1>9. Alone(p)'
  <2>1. CASE race
    BY <1>6, <2>1, NotAlone
  <2>2. CASE ~race
    <3>1. \A q \in Process : op'[q].at \in SavingSteps /\ op'[q].name = n => q = p
      BY <1>2, <1>4, <1>5, <2>2
    <3>2. op'[p].next = Outcome(op'[p], obs'[n])
      BY <1>1, <1>6, OutcomeSame DEF next
    <3> QED
      BY <1>1, <1>6, <3>1, <3>2, ZenonT(60) DEF Alone, Unreadable, Empty, Torn
  <2> QED
    BY <2>1, <2>2
<1> QED
  BY <1>7, <1>8, <1>9 DEF AloneInv

\* A writer p goes on to its next step and changes at most the files of its
\* name: it is all about p.
LEMMA AloneStep ==
    ASSUME TypeOK, AloneInv, NEW p \in Process, op[p].at \in SavingSteps, NEW new,
           op' = [op EXCEPT ![p] = new], new.name = op[p].name,
           \A n \in Name : n # op[p].name => obs'[n] = obs[n] /\ tmp'[n] = tmp[n],
           Alone(p)'
    PROVE  AloneInv'
<1>1. \A q \in Process : op'[q] = IF q = p THEN new ELSE op[q]
  BY DEF TypeOK
<1>2. ASSUME NEW q \in Process, q # p
      PROVE  Alone(q)'
  <2>1. CASE op[q].at \in SavingSteps /\ ~op[q].raced
    <3>1. op[q] \in Writer
      BY <2>1, OpShape DEF Saving, SavingSteps
    <3>2. op[q].name \in Name
      BY <3>1 DEF Writer
    <3>3. op[q].name # op[p].name
      BY <1>2, <2>1 DEF AloneInv, Alone
    <3>4. \A r \in Process : op'[r].at \in SavingSteps /\ op'[r].name = op[q].name
                               => op[r].at \in SavingSteps /\ op[r].name = op[q].name
      BY <1>1, <3>3
    <3> QED
      BY <1>1, <1>2, <3>2, <3>3, <3>4, Elsewhere
  <2>2. CASE ~(op[q].at \in SavingSteps /\ ~op[q].raced)
    BY <1>1, <1>2, <2>2 DEF Alone
  <2> QED
    BY <2>1, <2>2
<1> QED
  BY <1>2 DEF AloneInv

LEMMA AloneOpen ==
    ASSUME TypeOK, AloneInv, NEW p \in Process, Open(p)
    PROVE  AloneInv'
<1> DEFINE new == [op[p] EXCEPT !.at = "writing", !.file = "tmp"]
           n == op[p].name
<1>1. op[p] \in Writer /\ op[p].at = "opening"
  BY OpShape DEF Open, Saving
<1>2. /\ new.at = "writing" /\ new.file = "tmp" /\ new.name = n /\ new.raced = op[p].raced
      /\ new.next = op[p].next /\ new.answer = op[p].answer /\ new.time = op[p].time
      /\ n \in Name
  BY <1>1 DEF Writer
<1>3. /\ op' = [op EXCEPT ![p] = new] /\ tmp' = [tmp EXCEPT ![n] = Empty] /\ obs' = obs
  BY DEF Open
<1> HIDE DEF new
<1>4. \A q \in Process : op'[q] = IF q = p THEN new ELSE op[q]
  BY <1>3 DEF TypeOK
<1>5. tmp'[n] = Empty /\ \A m \in Name : m # n => tmp'[m] = tmp[m]
  BY <1>2, <1>3 DEF TypeOK
<1>6. Alone(p)'
  <2> SUFFICES ASSUME ~op[p].raced
               PROVE  Alone(p)'
    BY <1>2, <1>4 DEF Alone
  <2>1. /\ \A q \in Process : op[q].at \in SavingSteps /\ op[q].name = n => q = p
        /\ obs[n] \notin Unreadable /\ op[p].next = Outcome(op[p], obs[n])
    BY <1>1 DEF AloneInv, Alone, SavingSteps
  <2>2. op'[p].next = Outcome(op'[p], obs'[n])
    BY <1>2, <1>3, <1>4, <2>1, OutcomeSame
  <2> QED
    BY <1>2, <1>3, <1>4, <1>5, <2>1, <2>2 DEF Alone, Unreadable, Empty, Torn
<1> QED
  BY <1>1, <1>2, <1>3, <1>5, <1>6, AloneStep DEF SavingSteps

LEMMA AloneWrite ==
    ASSUME TypeOK, AloneInv, NEW p \in Process, Write(p)
    PROVE  AloneInv'
<1> DEFINE new == [op[p] EXCEPT !.at = "renaming"]
           n == op[p].name
<1>1. op[p] \in Writer /\ op[p].at = "writing"
  BY OpShape DEF Write, Saving
<1>2. /\ new.at = "renaming" /\ new.file = op[p].file /\ new.name = n
      /\ new.raced = op[p].raced
      /\ new.next = op[p].next /\ new.answer = op[p].answer /\ new.time = op[p].time
      /\ n \in Name
  BY <1>1 DEF Writer
<1>3. /\ op' = [op EXCEPT ![p] = new]
      /\ op[p].file = "tmp" =>
           /\ \E data \in Overwritten(tmp[n], op[p].next) : tmp' = [tmp EXCEPT ![n] = data]
           /\ obs' = obs
      /\ \A m \in Name : m # n => obs'[m] = obs[m] /\ tmp'[m] = tmp[m]
  BY DEF Write, TypeOK
<1> HIDE DEF new
<1>4. \A q \in Process : op'[q] = IF q = p THEN new ELSE op[q]
  BY <1>3 DEF TypeOK
<1>5. Alone(p)'
  <2> SUFFICES ASSUME ~op[p].raced
               PROVE  Alone(p)'
    BY <1>2, <1>4 DEF Alone
  <2>1. /\ \A q \in Process : op[q].at \in SavingSteps /\ op[q].name = n => q = p
        /\ obs[n] \notin Unreadable /\ op[p].next = Outcome(op[p], obs[n])
        /\ op[p].file = "tmp" /\ tmp[n] = Empty
    BY <1>1 DEF AloneInv, Alone, SavingSteps
  <2>2. obs' = obs /\ tmp'[n] = op[p].next
    BY <1>2, <1>3, <2>1 DEF Overwritten, TypeOK
  <2>3. op'[p].next = Outcome(op'[p], obs'[n])
    <3>1. /\ op'[p].next = op[p].next /\ op'[p].answer = op[p].answer
          /\ op'[p].time = op[p].time /\ obs'[n] = obs[n]
      BY <1>2, <1>4, <2>2
    <3> QED
      BY <2>1, <3>1, OutcomeSame
  <2> QED
    BY <1>2, <1>4, <2>1, <2>2, <2>3 DEF Alone, Unreadable, Empty, Torn
<1> QED
  BY <1>1, <1>2, <1>3, <1>5, AloneStep DEF SavingSteps

\* A file that moves races, at most, the processes that have it open.
LEMMA MovedRaces ==
    ASSUME TypeOK, NEW n, NEW from, NEW race \in BOOLEAN, NEW q \in Process
    PROVE  /\ op[q].at \in SavingSteps /\ op[q].name = n /\ op[q].file \in DOMAIN from
                => Moved(n, from, race)[q].raced = (op[q].raced \/ race)
           /\ ~(op[q].at \in SavingSteps /\ op[q].name = n)
                => Moved(n, from, race)[q] = op[q]
           /\ op[q].file \notin DOMAIN from => Moved(n, from, race)[q] = op[q]
<1>1. q \in SavingName(n) <=> op[q].at \in SavingSteps /\ op[q].name = n
  BY DEF SavingName, Saving, SavingSteps
<1>2. q \in SavingName(n) => op[q] \in Writer
  BY OpShape DEF SavingName
<1>3. q \in SavingName(n) /\ op[q].file \in DOMAIN from =>
        Moved(n, from, race)[q].raced = (op[q].raced \/ race)
  <2> SUFFICES ASSUME q \in SavingName(n), op[q].file \in DOMAIN from
               PROVE  Moved(n, from, race)[q].raced = (op[q].raced \/ race)
    OBVIOUS
  <2>1. Moved(n, from, race)[q]
          = [op[q] EXCEPT !.file = from[op[q].file], !.raced = op[q].raced \/ race]
    BY DEF Moved
  <2> QED
    BY <1>2, <2>1 DEF Writer
<1> QED
  BY <1>1, <1>3 DEF Moved

LEMMA AloneRename ==
    ASSUME TypeOK, AloneInv, NEW p \in Process, Rename(p)
    PROVE  AloneInv'
<1> DEFINE n == op[p].name
           from == [tmp |-> "obs", obs |-> "lost"]
           race == FALSE
           moved == Moved(n, from, race)
<1>1. op[p] \in Writer /\ n \in Name /\ op[p].at = "renaming"
  <2>1. op[p] \in Writer /\ op[p].at = "renaming"
    BY OpShape DEF Rename, Saving
  <2> QED
    BY <2>1 DEF Writer
<1>2. CASE op' = [op EXCEPT ![p] = Idle] /\ UNCHANGED <<obs, tmp>>
  BY <1>2, AloneAside DEF Idle, SavingSteps
<1>3. CASE /\ obs' = [obs EXCEPT ![n] = tmp[n]] /\ tmp' = [tmp EXCEPT ![n] = NoFile]
           /\ op' = [moved EXCEPT ![p] = Idle]
  <2>1. race \in BOOLEAN /\ \A f \in DOMAIN from : from[f] \in {"none", "tmp", "obs", "lost"}
    OBVIOUS
  <2> HIDE DEF from, race
  <2>2. DOMAIN moved = Process
    BY <2>1, MovedType
  <2>3. \A q \in Process : moved[q].at = op[q].at /\ moved[q].name = op[q].name
    BY <2>1, MovedType
  <2>4. \A q \in Process : ~(op[q].at \in SavingSteps /\ op[q].name = n) => moved[q] = op[q]
    BY <2>1, MovedRaces
  <2> HIDE DEF moved
  <2>5. \A q \in Process : op'[q] = IF q = p THEN Idle ELSE moved[q]
    BY <1>3, <2>2
  <2>6. \A m \in Name : m # n => obs'[m] = obs[m] /\ tmp'[m] = tmp[m]
    BY <1>3 DEF TypeOK
  <2>7. op'[p].at \notin SavingSteps
    BY <2>5 DEF Idle, SavingSteps
  <2>8. Alone(p)'
    BY <2>7, NotAlone
  <2>9. ASSUME NEW q \in Process, q # p, op[q].at \in SavingSteps, op[q].name = n
        PROVE  Alone(q)'
    <3>1. op[q].raced
      BY <1>1, <2>9 DEF AloneInv, Alone, SavingSteps
    <3>2. op'[q].raced = (op[q].raced \/ race) \/ op'[q] = op[q]
      BY <2>1, <2>5, <2>9, MovedRaces DEF moved
    <3>3. race = FALSE
      BY DEF race
    <3> QED
      BY <3>1, <3>2, <3>3 DEF Alone
  <2>10. ASSUME NEW q \in Process, q # p, ~(op[q].at \in SavingSteps /\ op[q].name = n)
        PROVE  Alone(q)'
    <3>1. op'[q] = op[q]
      BY <2>4, <2>5, <2>10
    <3>2. op[q].at \in SavingSteps => op[q].name \in Name
      <4>1. op[q].at \in SavingSteps => op[q] \in Writer
        BY OpShape DEF Saving, SavingSteps
      <4> QED
        BY <4>1 DEF Writer
    <3>3. \A r \in Process : op'[r].at \in SavingSteps /\ op'[r].name = op[q].name
                               => op[r].at \in SavingSteps /\ op[r].name = op[q].name
      BY <2>3, <2>5, <2>7
    <3> QED
      BY <2>6, <2>10, <3>1, <3>2, <3>3, Elsewhere
  <2> QED
    BY <2>8, <2>9, <2>10 DEF AloneInv
<1> QED
  BY <1>2, <1>3 DEF Rename, Finish

LEMMA AloneForget ==
    ASSUME TypeOK, AloneInv, NEW p \in Cli, Forget(p)
    PROVE  AloneInv'
<1> DEFINE n == op[p].name
           from == [none |-> "none", tmp |-> "tmp", obs |-> "lost"]
           race == TRUE
           moved == Moved(n, from, race)
<1>1. op[p].at = "forgetting" /\ p \in Process
  BY DEF Forget
<1>2. /\ tmp' = tmp /\ obs' = [obs EXCEPT ![n] = EmptyObservation]
      /\ op' = [moved EXCEPT ![p] = Idle]
  BY DEF Forget
<1>3. race \in BOOLEAN /\ \A f \in DOMAIN from : from[f] \in {"none", "tmp", "obs", "lost"}
  OBVIOUS
<1>4. race /\ {"none", "tmp"} \subseteq DOMAIN from
  OBVIOUS
<1> HIDE DEF from, race
<1>5. DOMAIN moved = Process
  BY DEF Moved
<1>6. \A q \in Process : moved[q].at = op[q].at /\ moved[q].name = op[q].name
  BY <1>3, MovedType
<1>7. \A q \in Process : ~(op[q].at \in SavingSteps /\ op[q].name = n) => moved[q] = op[q]
  BY <1>3, MovedRaces
<1> HIDE DEF moved
<1>8. \A q \in Process : op'[q] = IF q = p THEN Idle ELSE moved[q]
  BY <1>2, <1>5
<1>9. op'[p].at \notin SavingSteps
  BY <1>1, <1>8 DEF Idle, SavingSteps
<1>10. ASSUME NEW q \in Process, q # p, op[q].at \in SavingSteps, op[q].name = n
      PROVE  Alone(q)'
  <2>1. CASE op[q].file \in DOMAIN from
    <3>1. moved[q].raced = (op[q].raced \/ race)
      BY <1>3, <1>10, <2>1, MovedRaces DEF moved
    <3>2. op'[q].raced
      BY <1>8, <1>10, <1>4, <3>1
    <3> QED
      BY <3>2, NotAlone
  <2>2. CASE op[q].file \notin DOMAIN from
    <3>1. op[q].raced
      <4>1. op[q].file # "none" /\ op[q].file # "tmp"
        BY <1>4, <2>2
      <4> QED
        BY <1>10, <4>1 DEF AloneInv, Alone
    <3>2. op'[q] = op[q]
      <4>1. moved[q] = op[q]
        BY <1>3, <2>2, MovedRaces DEF moved
      <4> QED
        BY <1>8, <1>10, <4>1
    <3> QED
      BY <3>1, <3>2, NotAlone
  <2> QED
    BY <2>1, <2>2
<1>11. ASSUME NEW q \in Process, q # p, ~(op[q].at \in SavingSteps /\ op[q].name = n)
       PROVE  Alone(q)'
  <2>1. op'[q] = op[q]
    BY <1>7, <1>8, <1>11
  <2>2. op[q].at \in SavingSteps => op[q].name \in Name
    <3>1. op[q].at \in SavingSteps => op[q] \in Writer
      BY OpShape DEF Saving, SavingSteps
    <3> QED
      BY <3>1 DEF Writer
  <2>3. \A r \in Process : op'[r].at \in SavingSteps /\ op'[r].name = op[q].name
                             => op[r].at \in SavingSteps /\ op[r].name = op[q].name
    BY <1>6, <1>8, <1>9
  <2>4. op[q].at \in SavingSteps =>
          obs'[op[q].name] = obs[op[q].name] /\ tmp'[op[q].name] = tmp[op[q].name]
    BY <1>2, <1>11, <2>2 DEF TypeOK
  <2> QED
    BY <1>11, <2>1, <2>3, <2>4, Elsewhere
<1> QED
  BY <1>9, <1>10, <1>11, NotAlone DEF AloneInv

LEMMA AloneRefresh ==
    ASSUME TypeOK, AloneInv, NEW p \in Process, RefreshStep(p) \/ SaveFails(p) \/ Kill(p)
    PROVE  AloneInv'
<1>1. CASE Fetch(p)
  <2>1. PICK answer : op' = [op EXCEPT ![p] = Fetched(op[p], answer)]
    BY <1>1 DEF Fetch, TypeOK
  <2>2. Fetched(op[p], answer).at \notin SavingSteps
    BY DEF Fetched, SavingSteps
  <2> QED
    BY <1>1, <2>1, <2>2, AloneAside DEF Fetch
<1>2. CASE LoadFails(p) \/ SaveFails(p) \/ Kill(p)
  <2>1. op' = [op EXCEPT ![p] = Idle] /\ UNCHANGED <<obs, tmp>>
    BY <1>2 DEF LoadFails, SaveFails, Kill, Finish
  <2>2. Idle.at \notin SavingSteps
    BY DEF Idle, SavingSteps
  <2> QED
    BY <2>1, <2>2, AloneAside
<1> QED
  BY <1>1, <1>2, AloneLoad, AloneOpen, AloneWrite, AloneRename DEF RefreshStep

LEMMA AlonePoll ==
    ASSUME TypeOK, AloneInv, PollStep
    PROVE  AloneInv'
<1>1. CASE StartCycle \/ Stop \/ EndCycle
  BY <1>1, AloneQuiet DEF StartCycle, Stop, EndCycle
<1>2. CASE NextPeer
  <2>1. /\ op' = [op EXCEPT !["serve"] = Fetching(Min(DOMAIN cycle), cycle[Min(DOMAIN cycle)])]
        /\ UNCHANGED <<obs, tmp>>
    BY <1>2 DEF NextPeer
  <2>2. Fetching(Min(DOMAIN cycle), cycle[Min(DOMAIN cycle)]).at \notin SavingSteps
    BY DEF Fetching, SavingSteps
  <2> QED
    BY <2>1, <2>2, AloneAside
<1> QED
  BY <1>1, <1>2 DEF PollStep

LEMMA BeginsQuietly ==
    ASSUME NEW p \in Cli, BeginRefresh(p) \/ BeginAdd(p) \/ BeginRemove(p)
    PROVE  \E new : op' = [op EXCEPT ![p] = new] /\ new.at \notin SavingSteps
<1>1. CASE BeginRefresh(p)
  <2>1. PICK m \in DOMAIN registry : op' = [op EXCEPT ![p] = Fetching(m, registry[m])]
    BY <1>1 DEF BeginRefresh
  <2>2. Fetching(m, registry[m]).at \notin SavingSteps
    BY DEF Fetching, SavingSteps
  <2> QED
    BY <2>1, <2>2
<1>2. CASE BeginAdd(p)
  <2>1. PICK m, h : op' = [op EXCEPT ![p] = [at |-> "adding", name |-> m,
                                              peers |-> With(registry, m, h)]]
    BY <1>2 DEF BeginAdd
  <2>2. [at |-> "adding", name |-> m, peers |-> With(registry, m, h)].at \notin SavingSteps
    BY DEF SavingSteps
  <2> QED
    BY <2>1, <2>2
<1>3. CASE BeginRemove(p)
  <2>1. PICK m : op' = [op EXCEPT ![p] = [at |-> "removing", name |-> m,
                                  peers |-> Restrict(registry, DOMAIN registry \ {m})]]
    BY <1>3 DEF BeginRemove
  <2>2. [at |-> "removing", name |-> m,
         peers |-> Restrict(registry, DOMAIN registry \ {m})].at \notin SavingSteps
    BY DEF SavingSteps
  <2> QED
    BY <2>1, <2>2
<1> QED
  BY <1>1, <1>2, <1>3

LEMMA AloneCli ==
    ASSUME TypeOK, AloneInv, NEW p \in Cli,
           BeginRefresh(p) \/ BeginAdd(p) \/ BeginRemove(p) \/ SaveRegistry(p)
    PROVE  AloneInv'
<1>1. UNCHANGED <<obs, tmp>>
  BY DEF BeginRefresh, BeginAdd, BeginRemove, SaveRegistry, Command
<1>2. \E new : new.at \notin SavingSteps /\ op' = [op EXCEPT ![p] = new]
  <2>1. CASE BeginRefresh(p) \/ BeginAdd(p) \/ BeginRemove(p)
    BY <2>1, BeginsQuietly
  <2>2. CASE SaveRegistry(p)
    <3>1. op' = [op EXCEPT ![p] = IF op[p].at = "adding" THEN Idle
                                  ELSE [at |-> "forgetting", name |-> op[p].name]]
      BY <2>2 DEF SaveRegistry
    <3>2. /\ Idle.at \notin SavingSteps
          /\ [at |-> "forgetting", name |-> op[p].name].at \notin SavingSteps
      BY DEF Idle, SavingSteps
    <3> QED
      BY <3>1, <3>2
  <2> QED
    BY <2>1, <2>2
<1> QED
  BY <1>1, <1>2, AloneAside

LEMMA AloneStays == TypeOK /\ AloneInv /\ [Next]_vars => AloneInv'
<1> SUFFICES ASSUME TypeOK, AloneInv, [Next]_vars
             PROVE  AloneInv'
  OBVIOUS
<1>1. CASE RefreshStep("serve") \/ PollStep
  BY <1>1, AloneRefresh, AlonePoll
<1>2. ASSUME NEW p \in Cli,
             CliStep(p) \/ BeginRefresh(p) \/ BeginAdd(p) \/ BeginRemove(p)
      PROVE  AloneInv'
  BY <1>2, AloneRefresh, AloneForget, AloneCli DEF CliStep
<1>3. ASSUME NEW p \in Process, SaveFails(p) \/ Kill(p)
      PROVE  AloneInv'
  BY <1>3, AloneRefresh
<1>4. CASE WorldStep \/ UNCHANGED vars
  <2>1. UNCHANGED <<obs, tmp, op>>
    BY <1>4 DEF WorldStep, Cancel, Tick, HostDown, HostUp, vars
  <2> QED
    BY <2>1, AloneQuiet
<1> QED
  BY <1>1, <1>2, <1>3, <1>4 DEF Next

\* Who changes an observation file.
LEMMA FileWriters ==
    ASSUME TypeOK, [Next]_vars, obs' # obs
    PROVE  \/ \E p \in Process : Write(p) \/ Rename(p)
           \/ \E p \in Cli : Forget(p)
BY DEF Next, vars, RefreshStep, Fetch, LoadFails, Load, Open, PollStep, StartCycle, Stop,
       NextPeer, EndCycle, CliStep, BeginRefresh, BeginAdd, BeginRemove, Command,
       SaveRegistry, SaveFails, Kill, WorldStep, Cancel, Tick, HostDown, HostUp

\* A rename that nobody raced records the answer, or keeps the snapshot and
\* says that the attempt failed.
LEMMA OutcomeDecides ==
    ASSUME NEW o, NEW old \in Observation, o.time \in 1..MaxTime,
           o.answer = Failure \/ o.answer \in Snapshot
    PROVE  IF o.answer = Failure
           THEN /\ Outcome(o, old).snapshot = old.snapshot
                /\ LatestAttemptFailed(Outcome(o, old)) \/ old.success > o.time
           ELSE /\ Outcome(o, old).snapshot = o.answer
                /\ ~LatestAttemptFailed(Outcome(o, old))
<1>1. o.time \in Nat /\ o.time # 0 /\ old.success \in Nat
  BY BoundsAssumption DEF Observation
<1>2. CASE o.answer = Failure
  <2>1. /\ Outcome(o, old).snapshot = old.snapshot /\ Outcome(o, old).success = old.success
        /\ Outcome(o, old).attempt = o.time /\ Outcome(o, old).failed = TRUE
    BY <1>2 DEF Outcome, Failed, Observation
  <2> QED
    BY <1>1, <1>2, <2>1 DEF LatestAttemptFailed
<1>3. CASE o.answer # Failure
  BY <1>3 DEF Outcome, Succeeded, LatestAttemptFailed
<1> QED
  BY <1>2, <1>3

LEMMA ObservationReadable ==
    ASSUME NEW o \in Observation
    PROVE  o \notin Unreadable
<1>1. "attempt" \in DOMAIN o
  BY DEF Observation
<1>2. "attempt" \notin DOMAIN Empty /\ "attempt" \notin DOMAIN Torn
  BY DEF Empty, Torn
<1> QED
  BY <1>1, <1>2 DEF Unreadable

LEMMA AttemptDecides ==
    ASSUME TypeOK, AloneInv, [Next]_vars, NEW n \in Name, obs'[n] # obs[n]
    PROVE  \E p \in Process : /\ op[p] # Idle /\ op[p].name = n
             /\ \/ op[p].at = "forgetting"
                \/ op[p].at \in {"writing", "renaming"} /\ op[p].raced
                \/ /\ op[p].at = "renaming" /\ Readable(n) /\ Readable(n)'
                   /\ IF op[p].answer = Failure
                      THEN /\ obs'[n].snapshot = obs[n].snapshot
                           /\ LatestAttemptFailed(obs'[n]) \/ obs[n].success > op[p].time
                      ELSE /\ obs'[n].snapshot = op[p].answer
                           /\ ~LatestAttemptFailed(obs'[n])
<1>1. CASE \E p \in Cli : Forget(p)
  <2>1. PICK p \in Cli : Forget(p)
    BY <1>1
  <2>2. op[p].at = "forgetting" /\ obs' = [obs EXCEPT ![op[p].name] = EmptyObservation]
    BY <2>1 DEF Forget
  <2>3. op[p].name = n /\ op[p] # Idle
    BY <2>2 DEF TypeOK, Idle
  <2> QED
    BY <2>2, <2>3
<1>2. CASE \E p \in Process : Write(p)
  <2>1. PICK p \in Process : Write(p)
    BY <1>2
  <2>2. op[p].at = "writing" /\ op[p].file = "obs" /\ op[p].name = n
    BY <2>1 DEF Write, TypeOK
  <2>3. op[p].raced
    BY <2>2 DEF AloneInv, Alone, SavingSteps
  <2>4. op[p] # Idle
    BY <2>2 DEF Idle
  <2> QED
    BY <2>2, <2>3, <2>4
<1>3. CASE \E p \in Process : Rename(p)
  <2>1. PICK p \in Process : Rename(p)
    BY <1>3
  <2>2. op[p] \in Writer /\ op[p].at = "renaming"
    BY <2>1, OpShape DEF Rename, Saving
  <2>3. op[p].name = n /\ obs'[n] = tmp[n]
    BY <2>1 DEF Rename, TypeOK
  <2>4. op[p] # Idle
    BY <2>2 DEF Idle
  <2>5. CASE op[p].raced
    BY <2>2, <2>3, <2>4, <2>5
  <2>6. CASE ~op[p].raced
    <3>1. /\ obs[n] \notin Unreadable /\ tmp[n] = op[p].next
          /\ op[p].next = Outcome(op[p], obs[n])
      BY <2>2, <2>3, <2>6 DEF AloneInv, Alone, SavingSteps
    <3>2. /\ op[p].next \in Observation /\ op[p].time \in 1..now
          /\ op[p].answer = Failure \/ op[p].answer \in Snapshot
      BY <2>2 DEF Writer, Answer
    <3>3. obs[n] \in Observation /\ op[p].time \in 1..MaxTime
      BY <3>1, <3>2, BoundsAssumption DEF TypeOK
    <3>4. obs'[n] = Outcome(op[p], obs[n]) /\ obs'[n] \in Observation
      BY <2>3, <3>1, <3>2
    <3>5. obs'[n] \notin Unreadable
      BY <3>4, ObservationReadable
    <3>6. IF op[p].answer = Failure
          THEN /\ obs'[n].snapshot = obs[n].snapshot
               /\ LatestAttemptFailed(obs'[n]) \/ obs[n].success > op[p].time
          ELSE /\ obs'[n].snapshot = op[p].answer
               /\ ~LatestAttemptFailed(obs'[n])
      BY <3>2, <3>3, <3>4, OutcomeDecides
    <3>7. Readable(n) /\ Readable(n)'
      BY <3>1, <3>5 DEF Readable
    <3> QED
      BY <2>2, <2>3, <2>4, <3>6, <3>7
  <2> QED
    BY <2>5, <2>6
<1> QED
  BY <1>1, <1>2, <1>3, FileWriters

\* H22: in any order of polls, commands, kills and outages, an attempt that no
\* other process overlapped decides what its peer's file says.
THEOREM AttemptsDecide == Spec => UnracedAttemptDecides
<1>1. Init => AloneInv
  BY DEF Init, AloneInv, Alone, Idle, SavingSteps
<1>2. TypeOK /\ AloneInv /\ [Next]_vars => AloneInv'
  BY AloneStays
<1>3. TypeOK /\ AloneInv /\ [Next]_vars =>
        [\A n \in Name : obs'[n] # obs[n] =>
           \E p \in Process : /\ op[p] # Idle /\ op[p].name = n
             /\ \/ op[p].at = "forgetting"
                \/ op[p].at \in {"writing", "renaming"} /\ op[p].raced
                \/ /\ op[p].at = "renaming" /\ Readable(n) /\ Readable(n)'
                   /\ IF op[p].answer = Failure
                      THEN /\ obs'[n].snapshot = obs[n].snapshot
                           /\ LatestAttemptFailed(obs'[n]) \/ obs[n].success > op[p].time
                      ELSE /\ obs'[n].snapshot = op[p].answer
                           /\ ~LatestAttemptFailed(obs'[n])]_vars
  BY AttemptDecides
<1> QED
  BY <1>1, <1>2, <1>3, FederationTypes, PTL DEF Spec, UnracedAttemptDecides

(***************************************************************************)
(* What the Poller has told its observer.                                  *)
(***************************************************************************)

\* m tells of peer n what a reader is shown of it, if the attempt was recorded.
HasShown(m, n) ==
  /\ m[n].host = registry[n]
  /\ "snapshot" \in DOMAIN m[n] =>
       /\ Readable(n) /\ m[n].snapshot = obs[n].snapshot
       /\ m[n].freshness = "unreachable" <=> LatestAttemptFailed(obs[n])

Recorded(m) == \A n \in DOMAIN m : "snapshot" \in DOMAIN m[n]

\* The view that the materials m stand for.
ViewOf(m) ==
  [n \in DOMAIN m |-> [host |-> m[n].host,
                       shown |-> [snapshot |-> m[n].snapshot,
                                  failing |-> (m[n].freshness = "unreachable")]]]

Serving == IF op["serve"] = Idle THEN {} ELSE {op["serve"].name}

\* Until a command disturbs a cycle, no command has an old copy of a file and
\* nobody has raced serve; ...
QuietInv ==
  ~disturbed => /\ \A p \in Cli : op[p].at \notin SavingSteps
                /\ op["serve"].at \in SavingSteps => ~op["serve"].raced

\* ... every peer of the registry is visited, in hand or to come, and what was
\* found out about it is what a reader is shown; ...
CycleInv ==
  poll = "cycling" /\ ~disturbed =>
    /\ DOMAIN materials \cup DOMAIN cycle \cup Serving = DOMAIN registry
    /\ Serving \cap DOMAIN materials = {}
    /\ op["serve"] # Idle => op["serve"].host = registry[op["serve"].name]
    /\ \A n \in DOMAIN cycle : cycle[n] = registry[n]
    /\ \A n \in DOMAIN materials : HasShown(materials, n)

\* ... and so it stays after the cycle.
WaitInv ==
  poll = "waiting" /\ ~disturbed =>
    \A m \in lastMaterial : DOMAIN m = DOMAIN registry /\ \A n \in DOMAIN m : HasShown(m, n)

\* The last notification, of a cycle nobody disturbed, is of the last material.
ViewedInv ==
  viewed # {} => \A m \in lastMaterial : Recorded(m) => viewed = {ViewOf(m)}

ToldInv == disturbed \in BOOLEAN /\ QuietInv /\ CycleInv /\ WaitInv /\ ViewedInv

\* Materials that tell what readers are shown of every peer determine the view.
LEMMA MaterialsShow ==
    ASSUME NEW m, DOMAIN m = DOMAIN registry, Recorded(m),
           \A n \in DOMAIN m : HasShown(m, n)
    PROVE  View = ViewOf(m)
<1>1. ASSUME NEW n \in DOMAIN m
      PROVE  /\ obs[n] \notin Unreadable /\ m[n].host = registry[n]
             /\ m[n].snapshot = obs[n].snapshot
             /\ LatestAttemptFailed(obs[n]) = (m[n].freshness = "unreachable")
  <2>1. m[n].freshness = "unreachable" <=> LatestAttemptFailed(obs[n])
    BY DEF Recorded, HasShown
  <2>2. LatestAttemptFailed(obs[n]) = (m[n].freshness = "unreachable")
    <3>1. /\ (m[n].freshness = "unreachable") \in BOOLEAN
          /\ LatestAttemptFailed(obs[n]) \in BOOLEAN
      BY DEF LatestAttemptFailed
    <3> QED
      BY <2>1, <3>1
  <2> QED
    BY <2>2 DEF Recorded, HasShown, Readable
<1>2. \A n \in DOMAIN m :
        [host |-> registry[n],
         shown |-> IF obs[n] \in Unreadable THEN obs[n]
                   ELSE [snapshot |-> obs[n].snapshot,
                         failing |-> LatestAttemptFailed(obs[n])]]
        = [host |-> m[n].host, shown |-> [snapshot |-> m[n].snapshot,
                                          failing |-> (m[n].freshness = "unreachable")]]
  BY <1>1
<1> QED
  BY <1>2 DEF View, ViewOf

\* H23: the reader who looked when the Poller last notified, in a cycle nobody
\* disturbed, has seen what the projection shows.
LEMMA ToldIsShown == ToldInv => NotifiedViewCurrent
<1> SUFFICES ASSUME ToldInv, poll = "waiting", ~disturbed, viewed # {},
                    NEW m \in lastMaterial, \A n \in DOMAIN m : "snapshot" \in DOMAIN m[n]
             PROVE  viewed = {View}
  BY DEF NotifiedViewCurrent
<1>1. View = ViewOf(m)
  BY MaterialsShow DEF ToldInv, WaitInv, Recorded
<1> QED
  BY <1>1 DEF ToldInv, ViewedInv, Recorded

\* The Poller's memory is left alone, and either a command disturbs the cycle
\* or nothing of what it found out has changed.
LEMMA ToldStill ==
    ASSUME TypeOK, ToldInv, UNCHANGED <<poll, cycle, materials, lastMaterial, viewed>>,
           disturbed' \in BOOLEAN,
           \/ disturbed'
           \/ /\ UNCHANGED <<registry, obs, disturbed>> /\ op'["serve"] = op["serve"]
              /\ \A p \in Cli : op'[p] = op[p] \/ op'[p].at \notin SavingSteps
    PROVE  ToldInv'
<1>1. ViewedInv'
  BY DEF ToldInv, ViewedInv, Recorded, ViewOf
<1>2. CASE disturbed'
  BY <1>1, <1>2 DEF ToldInv, QuietInv, CycleInv, WaitInv
<1>3. CASE /\ ~disturbed' /\ ~disturbed
           /\ UNCHANGED <<registry, obs>> /\ op'["serve"] = op["serve"]
           /\ \A p \in Cli : op'[p] = op[p] \/ op'[p].at \notin SavingSteps
  <2>1. \A m, n : HasShown(m, n) => HasShown(m, n)'
    BY <1>3 DEF HasShown, Readable
  <2>2. QuietInv'
    BY <1>3 DEF ToldInv, QuietInv
  <2>3. CycleInv'
    BY <1>3, <2>1 DEF ToldInv, CycleInv, Serving
  <2>4. WaitInv'
    BY <1>3, <2>1 DEF ToldInv, WaitInv
  <2> QED
    BY <1>1, <2>2, <2>3, <2>4 DEF ToldInv
<1> QED
  BY <1>2, <1>3

\* serve goes on with its attempt.
LEMMA ToldAttempt ==
    ASSUME TypeOK, ToldInv,
           UNCHANGED <<registry, obs, disturbed, poll, cycle, materials, lastMaterial, viewed>>,
           op["serve"] # Idle, op'["serve"] # Idle,
           op'["serve"].name = op["serve"].name, op'["serve"].host = op["serve"].host,
           ~disturbed /\ op'["serve"].at \in SavingSteps => ~op'["serve"].raced,
           \A p \in Cli : op'[p].at = op[p].at
    PROVE  ToldInv'
<1>1. ViewedInv'
  BY DEF ToldInv, ViewedInv, Recorded, ViewOf
<1>2. \A m, n : HasShown(m, n) => HasShown(m, n)'
  BY DEF HasShown, Readable
<1>3. QuietInv'
  BY DEF ToldInv, QuietInv
<1>4. CycleInv'
  BY <1>2 DEF ToldInv, CycleInv, Serving
<1>5. WaitInv'
  BY DEF TypeOK, WaitInv
<1> QED
  BY <1>1, <1>3, <1>4, <1>5 DEF ToldInv

\* serve ends its attempt: what it tells of peer n is what is shown of it.
LEMMA ToldFinish ==
    ASSUME TypeOK, ToldInv, UNCHANGED <<registry, disturbed>>,
           op["serve"] # Idle, NEW n \in Name, n = op["serve"].name, NEW ops, NEW entry,
           DOMAIN ops = Process, \A p \in Process : ops[p].at = op[p].at,
           Finish("serve", ops, entry), entry.host = op["serve"].host,
           \A k \in Name : k # n => obs'[k] = obs[k],
           ~disturbed /\ "snapshot" \in DOMAIN entry =>
             /\ obs'[n] \notin Unreadable /\ entry.snapshot = obs'[n].snapshot
             /\ entry.freshness = "unreachable" <=> LatestAttemptFailed(obs'[n])
    PROVE  ToldInv'
<1>1. /\ op' = [ops EXCEPT !["serve"] = Idle] /\ materials' = With(materials, n, entry)
      /\ UNCHANGED <<poll, cycle, lastMaterial, viewed>>
  BY DEF Finish
<1>2. op'["serve"] = Idle /\ \A p \in Cli : op'[p].at = op[p].at
  <2>1. \A p \in Process : op'[p] = IF p = "serve" THEN Idle ELSE ops[p]
    BY <1>1
  <2> QED
    BY <2>1, CliAssumption
<1>3. poll = "cycling"
  BY DEF TypeOK
<1>4. ViewedInv'
  BY <1>1 DEF ToldInv, ViewedInv, Recorded, ViewOf
<1>5. WaitInv'
  BY <1>1, <1>3 DEF WaitInv
<1>6. QuietInv'
  BY <1>2 DEF ToldInv, QuietInv, Idle, SavingSteps
<1>7. CASE disturbed
  BY <1>4, <1>5, <1>6, <1>7 DEF ToldInv, CycleInv
<1>8. CASE ~disturbed
  <2>1. /\ DOMAIN materials \cup DOMAIN cycle \cup {n} = DOMAIN registry
        /\ n \notin DOMAIN materials /\ op["serve"].host = registry[n]
        /\ \A k \in DOMAIN cycle : cycle[k] = registry[k]
        /\ \A k \in DOMAIN materials : HasShown(materials, k)
    BY <1>3, <1>8 DEF ToldInv, CycleInv, Serving
  <2>2. /\ DOMAIN materials' = DOMAIN materials \cup {n} /\ materials'[n] = entry
        /\ \A k \in DOMAIN materials : materials'[k] = materials[k]
    BY <1>1, <2>1 DEF With
  <2>3. DOMAIN materials \subseteq Name
    BY <2>1, RegistryType DEF TypeOK
  <2>4. ASSUME NEW k \in DOMAIN materials
        PROVE  HasShown(materials, k)'
    <3>1. HasShown(materials, k) /\ materials'[k] = materials[k] /\ obs'[k] = obs[k]
      BY <2>1, <2>2, <2>3
    <3> QED
      BY <3>1 DEF HasShown, Readable, LatestAttemptFailed
  <2>5. HasShown(materials, n)'
    BY <1>8, <2>1, <2>2 DEF HasShown, Readable
  <2>6. CycleInv'
    BY <1>1, <1>2, <2>1, <2>2, <2>4, <2>5 DEF CycleInv, Serving
  <2> QED
    BY <1>4, <1>5, <1>6, <2>6 DEF ToldInv
<1> QED
  BY <1>7, <1>8

LEMMA ToldUnrecorded ==
    ASSUME TypeOK, ToldInv, op["serve"].at \in Attempting,
           Finish("serve", op, Unrecorded("serve")), UNCHANGED <<registry, obs, disturbed>>
    PROVE  ToldInv'
<1>1. op["serve"] # Idle /\ OpType(op["serve"])
  BY DEF Attempting, Idle, TypeOK
<1>2. op["serve"].name \in Name
  BY <1>1 DEF OpType, Writer
<1>3. /\ "snapshot" \notin DOMAIN Unrecorded("serve")
      /\ Unrecorded("serve").host = op["serve"].host
  BY DEF Unrecorded
<1> QED
  BY <1>1, <1>2, <1>3, ToldFinish DEF TypeOK

LEMMA MaterialShows ==
    ASSUME NEW p, NEW o
    PROVE  /\ Material(p, o).host = op[p].host /\ Material(p, o).snapshot = o.snapshot
           /\ Material(p, o).freshness = "unreachable" <=> LatestAttemptFailed(o)
<1>1. Freshness(o) = "unreachable" <=> LatestAttemptFailed(o)
  BY DEF Freshness
<1> QED
  BY <1>1 DEF Material

LEMMA ToldRefresh ==
    ASSUME TypeOK, AloneInv, ToldInv, RefreshStep("serve") \/ SaveFails("serve")
    PROVE  ToldInv'
<1> DEFINE o == op["serve"]
           n == o.name
<1>1. CASE Fetch("serve")
  <2>1. PICK answer : op' = [op EXCEPT !["serve"] = Fetched(o, answer)]
    BY <1>1 DEF Fetch, TypeOK
  <2>2. /\ op'["serve"] = Fetched(o, answer) /\ \A p \in Cli : op'[p] = op[p]
    BY <2>1, CliAssumption DEF TypeOK
  <2>3. o # Idle
    BY <1>1 DEF Fetch, Idle
  <2>4. /\ op'["serve"].name = n /\ op'["serve"].host = o.host
        /\ op'["serve"].at = "loading" /\ op'["serve"] # Idle
    BY <2>2 DEF Fetched, Idle
  <2>5. UNCHANGED <<registry, obs, disturbed, poll, cycle, materials, lastMaterial, viewed>>
    BY <1>1 DEF Fetch, pollerVars
  <2>6. op'["serve"].at \notin SavingSteps
    BY <2>4 DEF SavingSteps
  <2> QED
    BY <2>2, <2>3, <2>4, <2>5, <2>6, ToldAttempt
<1>2. CASE LoadFails("serve") \/ SaveFails("serve")
  <2>1. o.at \in Attempting
    BY <1>2 DEF LoadFails, SaveFails, Saving, Attempting
  <2>2. Finish("serve", op, Unrecorded("serve")) /\ UNCHANGED <<registry, obs, disturbed>>
    BY <1>2 DEF LoadFails, SaveFails
  <2> QED
    BY <2>1, <2>2, ToldUnrecorded
<1>3. CASE Load("serve")
  <2> DEFINE next == Outcome(o, obs[n])
             others == SavingName(n)
             race == others # {}
  <2>1. /\ UNCHANGED <<registry, obs, poll, cycle, materials, lastMaterial, viewed>>
        /\ op' = [q \in Process |->
                    IF q = "serve" THEN Loaded(o, next, race)
                    ELSE IF q \in others THEN [op[q] EXCEPT !.raced = TRUE] ELSE op[q]]
        /\ o.at = "loading" /\ disturbed' = disturbed
    <3>1. disturbed' = (disturbed \/ "serve" # "serve")
      BY <1>3 DEF Load
    <3>2. disturbed' = disturbed
      BY <3>1 DEF ToldInv
    <3> QED
      BY <1>3, <3>1, <3>2 DEF Load, Outcome, pollerVars
  <2>2. \A q \in others : op[q] \in Writer
    BY OpShape DEF SavingName
  <2>3. \A q \in Process : q \in others <=> op[q].at \in SavingSteps /\ op[q].name = n
    BY DEF SavingName, Saving, SavingSteps
  <2>4. race \in BOOLEAN /\ (race => others # {})
    OBVIOUS
  <2> HIDE DEF others, race, next
  <2>5. op'["serve"] = Loaded(o, next, race)
    BY <2>1
  <2>6. /\ op'["serve"].name = n /\ op'["serve"].host = o.host
        /\ op'["serve"].at = "opening" /\ op'["serve"].raced = race
    BY <2>5 DEF Loaded
  <2>7. \A p \in Cli : op'[p].at = op[p].at
    BY <2>1, <2>2, CliAssumption DEF Writer
  <2>8. op["serve"] # Idle /\ op'["serve"] # Idle
    BY <2>1, <2>6 DEF Idle
  <2>9. ~disturbed => ~race
    <3>1. ~disturbed => \A p \in Cli : p \notin others
      BY <2>3 DEF ToldInv, QuietInv
    <3>2. "serve" \notin others /\ others \subseteq Process
      BY <2>1, <2>3 DEF SavingSteps, others, SavingName
    <3> QED
      BY <2>4, <3>1, <3>2
  <2> QED
    BY <2>1, <2>6, <2>7, <2>8, <2>9, ToldAttempt
<1>4. CASE Open("serve") \/ Write("serve")
  <2>1. o \in Writer /\ o.at \in SavingSteps /\ o # Idle
    BY <1>4, OpShape DEF Open, Write, Saving, SavingSteps, Idle
  <2>2. PICK new : /\ op' = [op EXCEPT !["serve"] = new] /\ new.at \in SavingSteps
                   /\ new.name = n /\ new.host = o.host /\ new.raced = o.raced
    <3>1. CASE Open("serve")
      <4> DEFINE new == [o EXCEPT !.at = "writing", !.file = "tmp"]
      <4>1. op' = [op EXCEPT !["serve"] = new]
        BY <3>1 DEF Open
      <4>2. /\ new.at \in SavingSteps
            /\ new.name = n /\ new.host = o.host /\ new.raced = o.raced
        BY <2>1 DEF Writer, SavingSteps
      <4> HIDE DEF new
      <4> QED
        BY <4>1, <4>2
    <3>2. CASE Write("serve")
      <4> DEFINE new == [o EXCEPT !.at = "renaming"]
      <4>1. op' = [op EXCEPT !["serve"] = new]
        BY <3>2 DEF Write
      <4>2. /\ new.at \in SavingSteps
            /\ new.name = n /\ new.host = o.host /\ new.raced = o.raced
        BY <2>1 DEF Writer, SavingSteps
      <4> HIDE DEF new
      <4> QED
        BY <4>1, <4>2
    <3> QED
      BY <1>4, <3>1, <3>2
  <2>3. op'["serve"] = new /\ \A p \in Cli : op'[p] = op[p]
    BY <2>2, CliAssumption DEF TypeOK
  <2>4. new # Idle
    BY <2>2 DEF Idle, SavingSteps
  <2>5. UNCHANGED <<registry, disturbed, poll, cycle, materials, lastMaterial, viewed>>
    BY <1>4 DEF Open, Write, pollerVars
  <2>6. CASE disturbed
    BY <2>3, <2>5, <2>6, ToldStill
  <2>7. CASE ~disturbed
    <3>1. ~o.raced
      BY <2>1, <2>7 DEF ToldInv, QuietInv
    <3>2. obs' = obs
      <4>1. o.at # "opening" => o.file = "tmp"
        BY <2>1, <3>1 DEF AloneInv, Alone
      <4> QED
        BY <1>4, <4>1 DEF Open, Write
    <3> QED
      BY <2>1, <2>2, <2>3, <2>4, <2>5, <3>1, <3>2, ToldAttempt
  <2> QED
    BY <2>6, <2>7
<1>5. CASE Rename("serve")
  <2>1. o \in Writer /\ o.at = "renaming" /\ o # Idle
    BY <1>5, OpShape DEF Rename, Saving, Idle
  <2>2. n \in Name
    BY <2>1 DEF Writer
  <2>3. UNCHANGED <<registry, disturbed>>
    BY <1>5 DEF Rename
  <2>4. CASE Finish("serve", op, Unrecorded("serve")) /\ UNCHANGED <<obs, tmp>>
    BY <2>1, <2>3, <2>4, ToldUnrecorded DEF Attempting
  <2>5. CASE /\ obs' = [obs EXCEPT ![n] = tmp[n]]
             /\ Finish("serve", Moved(n, [tmp |-> "obs", obs |-> "lost"], FALSE),
                       Material("serve", o.next))
    <3> DEFINE from == [tmp |-> "obs", obs |-> "lost"]
               race == FALSE
               moved == Moved(n, from, race)
               entry == Material("serve", o.next)
    <3>1. Finish("serve", moved, entry)
      BY <2>5
    <3>2. /\ race \in BOOLEAN
          /\ \A f \in DOMAIN from : from[f] \in {"none", "tmp", "obs", "lost"}
      OBVIOUS
    <3> HIDE DEF from, race
    <3>3. DOMAIN moved = Process
      BY DEF Moved
    <3>4. \A q \in Process : moved[q].at = op[q].at
      BY <3>2, MovedType
    <3>5. entry.host = o.host
      BY MaterialShows
    <3>6. obs'[n] = tmp[n] /\ \A k \in Name : k # n => obs'[k] = obs[k]
      BY <2>2, <2>5 DEF TypeOK
    <3>7. ~disturbed => /\ obs'[n] \notin Unreadable /\ entry.snapshot = obs'[n].snapshot
                        /\ entry.freshness = "unreachable" <=> LatestAttemptFailed(obs'[n])
      <4> SUFFICES ASSUME ~disturbed
                   PROVE  /\ obs'[n] \notin Unreadable /\ entry.snapshot = obs'[n].snapshot
                          /\ entry.freshness = "unreachable" <=> LatestAttemptFailed(obs'[n])
        OBVIOUS
      <4>1. ~o.raced
        BY <2>1 DEF ToldInv, QuietInv, SavingSteps
      <4>2. obs'[n] = o.next
        BY <2>1, <3>6, <4>1 DEF AloneInv, Alone, SavingSteps
      <4>3. o.next \notin Unreadable
        BY <2>1, ObservationReadable DEF Writer
      <4> QED
        BY <4>2, <4>3, MaterialShows
    <3> HIDE DEF moved, entry
    <3> QED
      BY <2>1, <2>2, <2>3, <3>3, <3>4, <3>5, <3>6, <3>7, <3>1, ToldFinish
  <2> QED
    BY <1>5, <2>4, <2>5 DEF Rename
<1> QED
  BY <1>1, <1>2, <1>3, <1>4, <1>5 DEF RefreshStep

LEMMA ToldPoll ==
    ASSUME TypeOK, TypeOK', ServeInv, ToldInv, PollStep
    PROVE  ToldInv'
<1>1. CASE StartCycle
  <2>1. /\ UNCHANGED <<registry, obs, op, lastMaterial, viewed>> /\ poll = "waiting"
        /\ poll' = "cycling" /\ cycle' = registry /\ materials' = <<>>
        /\ disturbed' = (\E p \in Cli : Saving(p))
    BY <1>1 DEF StartCycle
  <2>2. op["serve"] = Idle /\ op'["serve"] = Idle
    BY <2>1 DEF TypeOK
  <2>3. disturbed' \in BOOLEAN
    BY <2>1
  <2>4. QuietInv'
    BY <2>1, <2>2 DEF QuietInv, Saving, SavingSteps, Idle
  <2>5. CycleInv'
    BY <2>1, <2>2 DEF CycleInv, Serving
  <2>6. WaitInv' /\ ViewedInv'
    BY <2>1 DEF ToldInv, WaitInv, ViewedInv, Recorded, ViewOf
  <2> QED
    BY <2>3, <2>4, <2>5, <2>6 DEF ToldInv
<1>2. CASE Stop
  <2>1. /\ UNCHANGED <<op, lastMaterial, viewed, disturbed>> /\ poll' = "stopped"
    BY <1>2 DEF Stop
  <2> QED
    BY <2>1 DEF ToldInv, QuietInv, CycleInv, WaitInv, ViewedInv, Recorded, ViewOf
<1>3. CASE NextPeer
  <2> DEFINE n == Min(DOMAIN cycle)
             rest == Restrict(cycle, DOMAIN cycle \ {n})
             new == Fetching(n, cycle[n])
  <2>1. /\ UNCHANGED <<registry, obs, poll, materials, lastMaterial, viewed, disturbed>>
        /\ poll = "cycling" /\ op["serve"] = Idle /\ cycle # <<>>
        /\ op' = [op EXCEPT !["serve"] = new] /\ cycle' = rest
    BY <1>3 DEF NextPeer
  <2>2. /\ n \in DOMAIN cycle /\ DOMAIN rest = DOMAIN cycle \ {n}
        /\ \A k \in DOMAIN rest : rest[k] = cycle[k]
    <3>1. DOMAIN cycle \in SUBSET Name /\ cycle \in [DOMAIN cycle -> Host]
      BY RegistryType DEF TypeOK
    <3>2. DOMAIN cycle # {}
      BY <2>1, <3>1
    <3>3. DOMAIN cycle \subseteq Nat
      BY <3>1, NameAssumption
    <3>4. n \in DOMAIN cycle
      BY <3>2, <3>3, MinNat
    <3> QED
      BY <3>4 DEF Restrict
  <2>3. /\ new.at = "fetching" /\ new.name = n /\ new.host = cycle[n] /\ new # Idle
    BY DEF Fetching, Idle
  <2> HIDE DEF n, rest, new
  <2>4. op'["serve"] = new /\ \A p \in Cli : op'[p] = op[p]
    BY <2>1, CliAssumption DEF TypeOK
  <2>5. QuietInv'
    BY <2>1, <2>3, <2>4 DEF ToldInv, QuietInv, SavingSteps
  <2>6. WaitInv' /\ ViewedInv'
    BY <2>1 DEF ToldInv, WaitInv, ViewedInv, Recorded, ViewOf
  <2>7. CycleInv'
    <3>1. \A k : HasShown(materials, k) => HasShown(materials, k)'
      BY <2>1 DEF HasShown, Readable
    <3>2. SUFFICES ASSUME ~disturbed
                   PROVE  CycleInv'
      BY <2>1 DEF CycleInv
    <3>3. /\ DOMAIN materials \cup DOMAIN cycle = DOMAIN registry
          /\ \A k \in DOMAIN cycle : cycle[k] = registry[k]
          /\ \A k \in DOMAIN materials : HasShown(materials, k)
      BY <2>1, <3>2 DEF ToldInv, CycleInv, Serving
    <3>4. n \notin DOMAIN materials
      BY <2>2 DEF TypeOK
    <3>5. Serving' = {n}
      BY <2>3, <2>4 DEF Serving
    <3>6. op'["serve"].host = registry'[op'["serve"].name]
      BY <2>1, <2>2, <2>3, <2>4, <3>3
    <3>7. \A k \in DOMAIN cycle' : cycle'[k] = registry'[k]
      BY <2>1, <2>2, <3>3
    <3>8. DOMAIN materials' \cup DOMAIN cycle' \cup {n} = DOMAIN registry'
      BY <2>1, <2>2, <3>3
    <3> QED
      BY <2>1, <3>1, <3>3, <3>4, <3>5, <3>6, <3>7, <3>8 DEF CycleInv
  <2> QED
    BY <2>1, <2>5, <2>6, <2>7 DEF ToldInv
<1>4. CASE EndCycle
  <2>1. /\ UNCHANGED <<registry, obs, op, cycle, materials, disturbed>>
        /\ poll = "cycling" /\ op["serve"] = Idle /\ cycle = <<>> /\ poll' = "waiting"
        /\ lastMaterial' = {materials}
    BY <1>4 DEF EndCycle
  <2>2. \/ viewed' = viewed /\ lastMaterial' = lastMaterial
        \/ viewed' = {}
        \/ viewed' = {View} /\ ~disturbed
    <3>1. viewed' = IF lastMaterial' = lastMaterial THEN viewed
                    ELSE IF disturbed THEN {} ELSE {View}
      BY <1>4 DEF EndCycle
    <3>2. CASE lastMaterial' = lastMaterial
      <4>1. CASE disturbed
        BY <3>1, <3>2, <4>1
      <4>2. CASE ~disturbed
        BY <3>1, <3>2, <4>2
      <4> QED
        BY <4>1, <4>2
    <3>3. CASE lastMaterial' # lastMaterial
      BY <3>1, <3>3
    <3> QED
      BY <3>2, <3>3
  <2>3. QuietInv' /\ CycleInv'
    BY <2>1 DEF ToldInv, QuietInv, CycleInv
  <2>4. ~disturbed => /\ DOMAIN materials = DOMAIN registry
                      /\ \A n \in DOMAIN materials : HasShown(materials, n)
    BY <2>1 DEF ToldInv, CycleInv, Serving
  <2>5. WaitInv'
    <3>1. \A n : HasShown(materials, n) => HasShown(materials, n)'
      BY <2>1 DEF HasShown, Readable
    <3>2. \A m \in lastMaterial' : m = materials /\ materials' = materials
      BY <2>1
    <3>3. ~disturbed => /\ DOMAIN materials' = DOMAIN registry'
                        /\ \A n \in DOMAIN materials' : HasShown(materials, n)'
      BY <2>1, <2>4, <3>1
    <3> QED
      BY <2>1, <3>2, <3>3 DEF WaitInv, HasShown
  <2>6. ViewedInv'
    <3>1. CASE viewed' = viewed /\ lastMaterial' = lastMaterial
      BY <3>1 DEF ToldInv, ViewedInv, Recorded, ViewOf
    <3>2. CASE viewed' = {}
      BY <3>2 DEF ViewedInv
    <3>3. CASE viewed' = {View} /\ ~disturbed
      <4>1. Recorded(materials) => View = ViewOf(materials)
        BY <2>4, <3>3, MaterialsShow
      <4>2. Recorded(materials) => viewed' = {ViewOf(materials)}
        BY <3>3, <4>1
      <4> QED
        BY <2>1, <4>2 DEF ViewedInv, Recorded, ViewOf
    <3> QED
      BY <2>2, <3>1, <3>2, <3>3
  <2> QED
    BY <2>1, <2>3, <2>5, <2>6 DEF ToldInv
<1> QED
  BY <1>1, <1>2, <1>3, <1>4 DEF PollStep

LEMMA ToldCli ==
    ASSUME TypeOK, ToldInv, NEW p \in Cli,
           \/ CliStep(p) \/ BeginRefresh(p) \/ BeginAdd(p) \/ BeginRemove(p)
           \/ SaveFails(p) \/ Kill(p)
    PROVE  ToldInv'
<1>1. p # "serve" /\ p \in Process
  BY CliAssumption
<1>2. UNCHANGED <<poll, cycle, materials, lastMaterial, viewed>>
  BY <1>1 DEF CliStep, RefreshStep, Fetch, LoadFails, Load, Open, Write, Rename, SaveRegistry,
              Forget, BeginRefresh, BeginAdd, BeginRemove, Command, SaveFails, Kill, Finish,
              pollerVars
<1>3. CASE Load(p) \/ SaveRegistry(p) \/ Forget(p)
  <2>1. disturbed' = TRUE
    BY <1>1, <1>3 DEF Load, SaveRegistry, Forget
  <2> QED
    BY <1>2, <2>1, ToldStill
<1>4. CASE Open(p) \/ Write(p) \/ Rename(p)
  <2>1. disturbed' = disturbed /\ op[p].at \in SavingSteps
    BY <1>4 DEF Open, Write, Rename, SavingSteps
  <2>2. disturbed' /\ disturbed' \in BOOLEAN
    BY <2>1 DEF ToldInv, QuietInv
  <2> QED
    BY <1>2, <2>2, ToldStill
<1>5. CASE Fetch(p) \/ LoadFails(p) \/ SaveFails(p) \/ Kill(p)
           \/ BeginRefresh(p) \/ BeginAdd(p) \/ BeginRemove(p)
  <2>1. UNCHANGED <<registry, obs, disturbed>>
    BY <1>5 DEF Fetch, LoadFails, SaveFails, Kill, BeginRefresh, BeginAdd, BeginRemove, Command
  <2>2. \E new : op' = [op EXCEPT ![p] = new] /\ new.at \notin SavingSteps
    <3>1. CASE Fetch(p)
      <4>1. PICK answer : op' = [op EXCEPT ![p] = Fetched(op[p], answer)]
        BY <3>1 DEF Fetch, TypeOK
      <4>2. Fetched(op[p], answer).at \notin SavingSteps
        BY DEF Fetched, SavingSteps
      <4> QED
        BY <4>1, <4>2
    <3>2. CASE LoadFails(p) \/ SaveFails(p) \/ Kill(p)
      <4>1. op' = [op EXCEPT ![p] = Idle]
        BY <3>2 DEF LoadFails, SaveFails, Kill, Finish
      <4>2. Idle.at \notin SavingSteps
        BY DEF Idle, SavingSteps
      <4> QED
        BY <4>1, <4>2
    <3>3. CASE BeginRefresh(p) \/ BeginAdd(p) \/ BeginRemove(p)
      BY <3>3, BeginsQuietly
    <3> QED
      BY <1>5, <3>1, <3>2, <3>3
  <2>3. PICK new : op' = [op EXCEPT ![p] = new] /\ new.at \notin SavingSteps
    BY <2>2
  <2>4. \A q \in Process : op'[q] = IF q = p THEN new ELSE op[q]
    BY <2>3 DEF TypeOK
  <2>5. /\ op'["serve"] = op["serve"]
        /\ \A q \in Cli : op'[q] = op[q] \/ op'[q].at \notin SavingSteps
    BY <1>1, <2>3, <2>4
  <2>6. disturbed' \in BOOLEAN
    BY <2>1 DEF ToldInv
  <2> QED
    BY <1>2, <2>1, <2>5, <2>6, ToldStill
<1> QED
  BY <1>3, <1>4, <1>5 DEF CliStep, RefreshStep

LEMMA ToldKill ==
    ASSUME TypeOK, ToldInv, Kill("serve")
    PROVE  ToldInv'
<1>1. /\ op' = [op EXCEPT !["serve"] = Idle] /\ poll' = "waiting"
      /\ lastMaterial' = {} /\ viewed' = {} /\ disturbed' = disturbed
  BY DEF Kill
<1>2. op'["serve"] = Idle /\ \A p \in Cli : op'[p] = op[p]
  BY <1>1, CliAssumption DEF TypeOK
<1>3. QuietInv'
  BY <1>1, <1>2 DEF ToldInv, QuietInv, Idle, SavingSteps
<1> QED
  BY <1>1, <1>3 DEF ToldInv, CycleInv, WaitInv, ViewedInv

LEMMA ToldStays == TypeOK /\ TypeOK' /\ ServeInv /\ AloneInv /\ ToldInv /\ [Next]_vars => ToldInv'
<1> SUFFICES ASSUME TypeOK, TypeOK', ServeInv, AloneInv, ToldInv, [Next]_vars
             PROVE  ToldInv'
  OBVIOUS
<1>1. CASE RefreshStep("serve") \/ PollStep
  BY <1>1, ToldRefresh, ToldPoll
<1>2. ASSUME NEW p \in Cli,
             CliStep(p) \/ BeginRefresh(p) \/ BeginAdd(p) \/ BeginRemove(p)
      PROVE  ToldInv'
  BY <1>2, ToldCli
<1>3. ASSUME NEW p \in Process, SaveFails(p) \/ Kill(p)
      PROVE  ToldInv'
  BY <1>3, ToldCli, ToldRefresh, ToldKill
<1>4. CASE WorldStep \/ UNCHANGED vars
  <2>1. UNCHANGED <<registry, obs, op, disturbed, poll, cycle, materials, lastMaterial, viewed>>
    BY <1>4 DEF WorldStep, Cancel, Tick, HostDown, HostUp, vars, pollerVars
  <2>2. disturbed' \in BOOLEAN
    BY <2>1 DEF ToldInv
  <2> QED
    BY <2>1, <2>2, ToldStill
<1> QED
  BY <1>1, <1>2, <1>3, <1>4 DEF Next

\* H23: the Poller has told its observer of everything a reader is shown.
THEOREM NotificationsSuffice == Spec => []NotifiedViewCurrent
<1>1. Init => TypeOK /\ ServeInv
  BY InitType
<1>2. Init => AloneInv
  BY DEF Init, AloneInv, Alone, Idle, SavingSteps
<1>3. Init => ToldInv
  <2> SUFFICES ASSUME Init
               PROVE  ToldInv
    OBVIOUS
  <2>1. /\ \A p \in Process : op[p].at \notin SavingSteps
        /\ poll = "waiting" /\ lastMaterial = {} /\ viewed = {} /\ disturbed = FALSE
    BY DEF Init, Idle, SavingSteps
  <2> QED
    BY <2>1 DEF ToldInv, QuietInv, CycleInv, WaitInv, ViewedInv
<1>4. (TypeOK /\ ServeInv) /\ [Next]_vars => (TypeOK /\ ServeInv)'
  BY StepType
<1>5. TypeOK /\ AloneInv /\ [Next]_vars => AloneInv'
  BY AloneStays
<1>6. TypeOK /\ TypeOK' /\ ServeInv /\ AloneInv /\ ToldInv /\ [Next]_vars => ToldInv'
  BY ToldStays
<1>7. ToldInv => NotifiedViewCurrent
  BY ToldIsShown
<1> QED
  BY <1>1, <1>2, <1>3, <1>4, <1>5, <1>6, <1>7, PTL DEF Spec
==============================================================================
