-------------------------- MODULE ReadServiceProofs --------------------------
(***************************************************************************)
(* Proofs about HostIdentity and ReadService for any worlds, workers and   *)
(* processes, and any kills: the processes that run hold the one ID of     *)
(* host.json, and HostIdentity implements AgreedIdentity; the machine that *)
(* answers requests is one of the machines HostIdentity describes; the     *)
(* forge contexts of its answers are fresh and about their remotes; and    *)
(* the MCP server answers the lines of its client in order.                *)
(***************************************************************************)
EXTENDS ReadProperties, Counting

(* HostIdentity: the theorems of IdentitySpec.                             *)

\* The inductive invariant: types, the single writer of an unwritten file,
\* and the agreement itself.
IdentityInv == IdentityTypeOK /\ OneWriter /\ OneHostIdentity

LEMMA InvInit == IdentityInit => IdentityInv
BY IdentityAssumption
   DEF IdentityInit, IdentityInv, IdentityTypeOK, OneWriter, OneHostIdentity, Starts, Absent, Empty

\* What a stopped process loses disturbs nobody else.
LEMMA StoppedKeeps ==
    ASSUME IdentityInv, NEW p \in Process, Stopped(p), hostFile' = hostFile, kills' \in Nat
    PROVE  IdentityInv'
BY IdentityAssumption
   DEF IdentityInv, IdentityTypeOK, OneWriter, OneHostIdentity, Stopped, Starts

\* A loaded host.json is an ID the process may hold; any other file stops it.
LEMMA LoadHostKeeps ==
    ASSUME IdentityInv, NEW p \in Process, start[p] \in {"look", "reload"}, LoadHost(p),
           hostFile' = hostFile, kills' = kills
    PROVE  IdentityInv'
<1>1. CASE hostFile \in HostID /\ Told(p, hostFile)
  BY <1>1, IdentityAssumption
     DEF IdentityInv, IdentityTypeOK, OneWriter, OneHostIdentity, Told, GoTo, Starts
<1>2. CASE Stopped(p)
  BY <1>2, StoppedKeeps DEF IdentityInv, IdentityTypeOK
<1> QED
  BY <1>1, <1>2 DEF LoadHost

LEMMA InvStep == IdentityInv /\ [IdentityNext]_identityVars => IdentityInv'
<1> SUFFICES ASSUME IdentityInv, [IdentityNext]_identityVars
             PROVE  IdentityInv'
  OBVIOUS
<1>1. CASE UNCHANGED identityVars
  BY <1>1 DEF IdentityInv, IdentityTypeOK, OneWriter, OneHostIdentity, identityVars
<1>2. ASSUME NEW p \in Process, Launch(p) PROVE IdentityInv'
  BY <1>2 DEF Launch, GoTo, IdentityInv, IdentityTypeOK, OneWriter, OneHostIdentity, Starts
<1>3. ASSUME NEW p \in Process, Look(p) PROVE IdentityInv'
  <2>1. CASE hostFile = Absent
    <3>1. PICK id \in HostID : drawn' = [drawn EXCEPT ![p] = id]
      BY <1>3, <2>1, IdentityAssumption DEF Look, Absent
    <3> QED
      BY <1>3, <2>1, <3>1, IdentityAssumption
         DEF Look, GoTo, IdentityInv, IdentityTypeOK, OneWriter, OneHostIdentity, Starts
  <2>2. CASE hostFile # Absent
    BY <1>3, <2>2, LoadHostKeeps DEF Look
  <2> QED
    BY <2>1, <2>2
<1>4. ASSUME NEW p \in Process, Create(p) PROVE IdentityInv'
  <2>1. CASE hostFile = Absent
    BY <1>4, <2>1, IdentityAssumption
       DEF Create, GoTo, IdentityInv, IdentityTypeOK, OneWriter, OneHostIdentity, Starts,
           Absent, Empty
  <2>2. CASE hostFile # Absent
    BY <1>4, <2>2
       DEF Create, GoTo, IdentityInv, IdentityTypeOK, OneWriter, OneHostIdentity, Starts
  <2> QED
    BY <2>1, <2>2
<1>5. ASSUME NEW p \in Process, Reload(p) PROVE IdentityInv'
  BY <1>5, LoadHostKeeps DEF Reload
<1>6. ASSUME NEW p \in Process, WriteHost(p) PROVE IdentityInv'
  BY <1>6, IdentityAssumption
     DEF WriteHost, Told, GoTo, IdentityInv, IdentityTypeOK, OneWriter, OneHostIdentity, Starts
<1>7. ASSUME NEW p \in Process, Kill(p) PROVE IdentityInv'
  <2>1. kills' \in Nat
    BY <1>7 DEF Kill, IdentityInv, IdentityTypeOK
  <2> QED
    BY <1>7, <2>1, StoppedKeeps DEF Kill
<1> QED
  BY <1>1, <1>2, <1>3, <1>4, <1>5, <1>6, <1>7 DEF IdentityNext, IdentityStep

\* Types of the Host identity: no process is ever told, and the file never
\* holds, anything but a drawn ID (identity/host.go:48).
THEOREM IdentityTypesCorrect == IdentitySpec => []IdentityTypeOK
<1>1. IdentityInv => IdentityTypeOK
  BY DEF IdentityInv
<1> QED
  BY <1>1, InvInit, InvStep, PTL DEF IdentitySpec

\* Two processes of one machine never run under two Host IDs, however many
\* start at once and wherever they are killed (identity/host.go:48).
THEOREM HostIdentityIsOne == IdentitySpec => []OneHostIdentity
<1>1. IdentityInv => OneHostIdentity
  BY DEF IdentityInv
<1> QED
  BY <1>1, InvInit, InvStep, PTL DEF IdentitySpec

-----------------------------------------------------------------------------
\* What host.json has agreed on, as AgreedIdentity sees it.
AgreedValue == IF hostFile \in HostID THEN hostFile ELSE NoID

\* A stopping process forgets the identity, or was told none.
LEMMA StoppedForgets ==
    ASSUME NEW p \in Process, Stopped(p), hostFile' = hostFile
    PROVE  Agreement!Forget(p)
BY DEF Stopped, Agreement!Forget

\* A process told the ID of host.json takes the abstract step.
LEMMA LoadHostTells ==
    ASSUME IdentityInv, NEW p \in Process, held[p] = NoID, LoadHost(p), hostFile' = hostFile
    PROVE  Agreement!Next
<1>1. CASE hostFile \in HostID /\ Told(p, hostFile)
  BY <1>1 DEF Told, Agreement!Next, Agreement!Tell
<1>2. CASE Stopped(p)
  BY <1>2, StoppedForgets DEF Agreement!Next
<1> QED
  BY <1>1, <1>2 DEF LoadHost

\* A process that is still starting holds no ID.
StartingHoldsNone == \A p \in Process : start[p] # "up" => held[p] = NoID

LEMMA HoldsInit == IdentityInit => StartingHoldsNone
BY DEF IdentityInit, StartingHoldsNone

LEMMA HoldsStep ==
    IdentityInv /\ StartingHoldsNone /\ [IdentityNext]_identityVars => StartingHoldsNone'
BY DEF IdentityInv, IdentityTypeOK, StartingHoldsNone, IdentityNext, IdentityStep, identityVars,
       Launch, Look, Create, Reload, WriteHost, Kill, LoadHost, Told, Stopped, GoTo

LEMMA StepRefines ==
    IdentityInv /\ StartingHoldsNone /\ [IdentityNext]_identityVars
        => [Agreement!Next]_<<AgreedValue, held>>
<1> SUFFICES ASSUME IdentityInv, StartingHoldsNone, [IdentityNext]_identityVars
             PROVE  [Agreement!Next]_<<AgreedValue, held>>
  OBVIOUS
<1>1. CASE UNCHANGED identityVars
  BY <1>1 DEF identityVars, AgreedValue
<1>2. ASSUME NEW p \in Process, Launch(p) PROVE UNCHANGED <<AgreedValue, held>>
  BY <1>2 DEF Launch, AgreedValue
<1>3. ASSUME NEW p \in Process, Look(p) PROVE [Agreement!Next]_<<AgreedValue, held>>
  <2>1. CASE hostFile = Absent
    BY <1>3, <2>1 DEF Look, AgreedValue
  <2>2. CASE hostFile # Absent
    <3>1. held[p] = NoID /\ LoadHost(p) /\ hostFile' = hostFile
      BY <1>3, <2>2 DEF Look, StartingHoldsNone
    <3> QED
      BY <3>1, LoadHostTells
  <2> QED
    BY <2>1, <2>2
<1>4. ASSUME NEW p \in Process, Create(p) PROVE UNCHANGED <<AgreedValue, held>>
  BY <1>4, IdentityAssumption DEF Create, AgreedValue
<1>5. ASSUME NEW p \in Process, Reload(p) PROVE Agreement!Next
  <2>1. held[p] = NoID /\ LoadHost(p) /\ hostFile' = hostFile
    BY <1>5 DEF Reload, StartingHoldsNone
  <2> QED
    BY <2>1, LoadHostTells
<1>6. ASSUME NEW p \in Process, WriteHost(p) PROVE Agreement!Next
  <2>1. /\ drawn[p] \in HostID /\ hostFile = Empty /\ held[p] = NoID
        /\ hostFile' = drawn[p] /\ held' = [held EXCEPT ![p] = drawn[p]]
    BY <1>6 DEF WriteHost, Told, IdentityInv, OneWriter, StartingHoldsNone
  <2>2. Agreement!Tell(p)
    BY <2>1, IdentityAssumption DEF Agreement!Tell
  <2> QED
    BY <2>2 DEF Agreement!Next
<1>7. ASSUME NEW p \in Process, Kill(p) PROVE Agreement!Next
  BY <1>7, StoppedForgets DEF Kill, Agreement!Next
<1> QED
  BY <1>1, <1>2, <1>3, <1>4, <1>5, <1>6, <1>7 DEF IdentityNext, IdentityStep

\* LoadOrCreateHost implements the agreement: the first complete host.json
\* fixes the identity, and no start, race or kill changes it afterwards
\* (identity/host.go:48).
THEOREM HostFileImplementsAgreement == IdentitySpec => ImplementsAgreement
<1>1. IdentityInit => Agreement!Init
  BY IdentityAssumption DEF IdentityInit, Agreement!Init
<1> QED
  BY <1>1, InvInit, InvStep, HoldsInit, HoldsStep, StepRefines, PTL
     DEF IdentitySpec, ImplementsAgreement, Agreement!Spec, AgreedValue

-----------------------------------------------------------------------------
(* The identity of the machine that answers requests.                      *)

\* A step of a worker at its request leaves the identity alone.
LEMMA StepLeavesIdentity ==
    ASSUME NEW w \in Worker, Step(w) \/ Browse(w) \/ Cancel(w)
    PROVE  UNCHANGED identityVars
BY DEF Step, ReadNext, Lookup, Ask, Store, Reply, Browse, Cancel, Answered

\* Every step of the machine is a step of its identity, or none.
LEMMA NextKeepsIdentity == [Next]_vars => [IdentityNext]_identityVars
<1> SUFFICES ASSUME [Next]_vars
             PROVE  [IdentityNext]_identityVars
  OBVIOUS
<1>1. CASE UNCHANGED vars
  BY <1>1 DEF vars
<1>2. ASSUME NEW p \in Process, Begin(p) \/ Die(p)
      PROVE  IdentityNext
  BY <1>2 DEF Begin, Die, IdentityNext
<1>3. CASE TakeLine
  BY <1>3 DEF TakeLine
<1>4. ASSUME NEW w \in Worker, Browse(w) \/ Step(w) \/ Cancel(w)
      PROVE  UNCHANGED identityVars
  BY <1>4, StepLeavesIdentity
<1>5. CASE Environment \/ Tick
  BY <1>5 DEF Environment, Tick
<1> QED
  BY <1>1, <1>2, <1>3, <1>4, <1>5 DEF Next

\* The read service of a machine implements the life of its host.json
\* (identity/host.go:48 under cmd/specview/mcp.go and federation.go).
THEOREM ReadsImplementIdentity == Spec => IdentitySpec
<1>1. Init => IdentityInit
  BY DEF Init
<1> QED
  BY <1>1, NextKeepsIdentity, PTL DEF Spec, IdentitySpec

\* Whatever is asked of a machine and whichever of its processes are killed
\* while they answer, all of them that run hold the ID of host.json.
THEOREM ReadsHoldOneIdentity == Spec => []OneHostIdentity
BY ReadsImplementIdentity, HostIdentityIsOne, PTL

\* Over the same behaviours, host.json implements the agreement of AgreedIdentity.
THEOREM ReadsImplementAgreement == Spec => ImplementsAgreement
BY ReadsImplementIdentity, HostFileImplementsAgreement, PTL

-----------------------------------------------------------------------------
\* No look of a request into the cache came too late.
FreshLooks(forge) ==
    \A step \in DOMAIN forge : forge[step].matched =>
        /\ forge[step].looked \in Nat
        /\ forge[step].stored \in Nat
        /\ forge[step].looked - forge[step].stored < TTL

Fields == {"phase", "op", "args", "id", "see", "next", "forge", "asked", "at", "answer"}

\* The inductive invariant: nothing in a cache was stored in the future, and
\* requests keep their fields and their fresh looks.
FreshInv ==
    /\ clock \in Nat
    /\ DOMAIN cache = Services
    /\ \A s \in Services : \A r \in DOMAIN cache[s] :
          cache[s][r].stored \in Nat /\ cache[s][r].stored <= clock
    /\ DOMAIN work = Worker
    /\ \A w \in Worker : work[w] # Idle => DOMAIN work[w] = Fields /\ FreshLooks(work[w].forge)

\* A request that is not idle has fields.
LEMMA PhaseIdle == ASSUME NEW q, q.phase # "idle" PROVE q # Idle
BY DEF Idle

LEMMA RequestFresh ==
    ASSUME NEW op, NEW args, NEW id
    PROVE  /\ DOMAIN Request(op, args, id) = Fields
           /\ FreshLooks(Request(op, args, id).forge)
BY DEF Request, Fields, FreshLooks

LEMMA OnwardFresh ==
    ASSUME NEW q, DOMAIN q = Fields, FreshLooks(q.forge)
    PROVE  DOMAIN Onward(q) = Fields /\ FreshLooks(Onward(q).forge)
BY DEF Onward, Fields

\* One more look keeps the others.
LEMMA OneMoreLook ==
    ASSUME NEW forge, FreshLooks(forge), NEW step, NEW got,
           got.matched => /\ got.looked \in Nat /\ got.stored \in Nat
                          /\ got.looked - got.stored < TTL
    PROVE  FreshLooks(With(forge, step, got))
BY DEF FreshLooks, With

\* A step that touches one request only.
LEMMA OneRequest ==
    ASSUME FreshInv, NEW w \in Worker, UNCHANGED <<clock, cache>>,
           DOMAIN work' = Worker,
           \A v \in Worker \ {w} : work'[v] = work[v],
           work'[w] # Idle => DOMAIN work'[w] = Fields /\ FreshLooks(work'[w].forge)
    PROVE  FreshInv'
BY DEF FreshInv

LEMMA ReadNextFresh ==
    ASSUME FreshInv, NEW w \in Worker, ReadNext(w)
    PROVE  FreshInv'
<1> DEFINE q == work[w]
           step == Head(q.next)
           seen == [q EXCEPT !.see = With(@, step, Observed(q, step, now))]
           asks == [seen EXCEPT !.phase = "lookup", !.asked = Ok(step)]
           bare == [seen EXCEPT !.forge = With(@, step, NoForge)]
<1>1. DOMAIN q = Fields /\ FreshLooks(q.forge)
  BY PhaseIdle DEF ReadNext, FreshInv
<1>2. DOMAIN seen = Fields /\ FreshLooks(seen.forge)
  BY <1>1 DEF Fields
<1>3. DOMAIN asks = Fields /\ FreshLooks(asks.forge)
  BY <1>2 DEF Fields
<1>4. DOMAIN bare = Fields /\ FreshLooks(bare.forge)
  <2>1. bare.forge = With(seen.forge, step, NoForge)
    BY <1>2 DEF Fields
  <2>2. ~NoForge.matched
    BY DEF NoForge
  <2> HIDE DEF seen
  <2>3. FreshLooks(With(seen.forge, step, NoForge))
    BY <1>2, <2>2, OneMoreLook
  <2> QED
    BY <1>2, <2>1, <2>3 DEF Fields
<1>5. PICK chosen \in {asks, bare, seen} : work' = [work EXCEPT ![w] = Onward(chosen)]
  BY DEF ReadNext
<1> HIDE DEF asks, bare, seen
<1>6. DOMAIN Onward(chosen) = Fields /\ FreshLooks(Onward(chosen).forge)
  BY <1>2, <1>3, <1>4, <1>5, OnwardFresh
<1>7. /\ DOMAIN work' = Worker /\ work'[w] = Onward(chosen)
      /\ \A v \in Worker \ {w} : work'[v] = work[v]
  BY <1>5 DEF FreshInv
<1>8. UNCHANGED <<clock, cache>>
  BY DEF ReadNext
<1> QED
  BY <1>6, <1>7, <1>8, OneRequest

\* What is put into an answer is fresh when its times are.
LEMMA GotFresh ==
    ASSUME FreshInv, NEW w \in Worker, work[w].phase # "idle", NEW context, NEW stored \in Nat,
           clock - stored < TTL, Got(w, context, stored)
    PROVE  /\ DOMAIN work' = Worker
           /\ \A v \in Worker \ {w} : work'[v] = work[v]
           /\ DOMAIN work'[w] = Fields /\ FreshLooks(work'[w].forge)
<1> DEFINE got == [matched |-> TRUE, context |-> context, stored |-> stored, looked |-> clock]
<1>1. DOMAIN work[w] = Fields /\ FreshLooks(work[w].forge) /\ clock \in Nat /\ DOMAIN work = Worker
  BY PhaseIdle DEF FreshInv
<1>2. FreshLooks(With(work[w].forge, work[w].asked.val, got))
  <2>1. /\ got.looked \in Nat /\ got.stored \in Nat
        /\ got.looked - got.stored < TTL
    BY <1>1
  <2> HIDE DEF got
  <2> QED
    BY <1>1, <2>1, OneMoreLook
<1>3. /\ DOMAIN work' = Worker
      /\ \A v \in Worker \ {w} : work'[v] = work[v]
  BY <1>1 DEF Got
<1>4. work'[w] = [[[work[w] EXCEPT !.phase = "read"] EXCEPT !.asked = Error] EXCEPT
                    !.forge = With(work[w].forge, work[w].asked.val, got)]
  BY <1>1 DEF Got, Fields
<1>5. DOMAIN work'[w] = Fields /\ work'[w].forge = With(work[w].forge, work[w].asked.val, got)
  BY <1>1, <1>4 DEF Fields
<1> QED
  BY <1>2, <1>3, <1>5

LEMMA ServiceOfWorker ==
    ASSUME NEW w \in Worker, NEW q
    PROVE  Service(w, q) \in Services
<1>1. Owner[w] \in Process
  BY OwnerAssumption
<1>2. (q.op \in FederationOps) \in BOOLEAN
  <2>1. (q.op \in FederationOps) = TRUE \/ (q.op \in FederationOps) = FALSE
    OBVIOUS
  <2> QED
    BY <2>1
<1>3. ASSUME NEW p \in Process, NEW b \in BOOLEAN
      PROVE  <<p, b>> \in Process \X BOOLEAN
  OBVIOUS
<1>4. <<Owner[w], q.op \in FederationOps>> \in Process \X BOOLEAN
  BY <1>1, <1>2, <1>3, Zenon
<1> QED
  BY <1>4, Zenon DEF Service, Services

LEMMA LookupFresh ==
    ASSUME FreshInv, NEW w \in Worker, Lookup(w)
    PROVE  FreshInv'
<1> DEFINE q == work[w]
           s == Service(w, q)
           r == RemoteOf(q)
<1>1. q.phase # "idle" /\ UNCHANGED <<clock, cache>>
  BY DEF Lookup
<1>2. CASE r \in DOMAIN cache[s] /\ Fresh(cache[s][r])
           /\ Got(w, cache[s][r].context, cache[s][r].stored)
  <2>1. s \in Services
    BY ServiceOfWorker
  <2>2. cache[s][r].stored \in Nat /\ clock - cache[s][r].stored < TTL
    BY <1>2, <2>1 DEF FreshInv, Fresh
  <2> HIDE DEF s, r
  <2> QED
    BY <1>1, <1>2, <2>2, GotFresh, OneRequest
<1>3. CASE work' = [work EXCEPT ![w].phase = "ask"]
  <2>1. DOMAIN q = Fields /\ FreshLooks(q.forge) /\ DOMAIN work = Worker
    BY <1>1, PhaseIdle DEF FreshInv
  <2>2. /\ DOMAIN work' = Worker /\ work'[w] = [q EXCEPT !.phase = "ask"]
        /\ \A v \in Worker \ {w} : work'[v] = work[v]
    BY <1>3, <2>1
  <2>3. DOMAIN work'[w] = Fields /\ work'[w].forge = q.forge
    BY <2>1, <2>2 DEF Fields
  <2> QED
    BY <1>1, <2>1, <2>2, <2>3, OneRequest
<1> QED
  BY <1>2, <1>3 DEF Lookup

LEMMA AnsweredFresh ==
    ASSUME FreshInv, NEW w \in Worker, NEW context, Answered(w, context)
    PROVE  FreshInv'
<1> DEFINE q == work[w]
<1>1. DOMAIN q = Fields /\ FreshLooks(q.forge) /\ DOMAIN work = Worker
  BY PhaseIdle DEF FreshInv, Answered
<1>2. /\ DOMAIN work' = Worker
      /\ work'[w] = [[q EXCEPT !.phase = "store"] EXCEPT !.answer = Ok(context)]
      /\ \A v \in Worker \ {w} : work'[v] = work[v]
      /\ UNCHANGED <<clock, cache>>
  BY <1>1 DEF Answered, Fields
<1>3. DOMAIN work'[w] = Fields /\ work'[w].forge = q.forge
  BY <1>1, <1>2 DEF Fields
<1> QED
  BY <1>1, <1>2, <1>3, OneRequest

LEMMA StoreFresh ==
    ASSUME FreshInv, NEW w \in Worker, Store(w)
    PROVE  FreshInv'
<1> DEFINE s == Service(w, work[w])
           r == RemoteOf(work[w])
           entry == [stored |-> clock, context |-> work[w].answer.val]
<1>1. s \in Services /\ clock \in Nat
  BY ServiceOfWorker DEF FreshInv
<1>2. /\ work[w].phase # "idle" /\ Got(w, work[w].answer.val, clock) /\ clock' = clock
      /\ cache' = [cache EXCEPT ![s] = With(cache[s], r, entry)]
  BY <1>1 DEF Store, FreshInv
<1>3. clock - clock < TTL
  BY <1>1, TTLAssumption
<1>4. /\ DOMAIN work' = Worker
      /\ \A v \in Worker \ {w} : work'[v] = work[v]
      /\ DOMAIN work'[w] = Fields /\ FreshLooks(work'[w].forge)
  BY <1>1, <1>2, <1>3, GotFresh
<1>5. ASSUME NEW t \in Services, NEW x \in DOMAIN cache'[t]
      PROVE  cache'[t][x].stored \in Nat /\ cache'[t][x].stored <= clock
  <2>1. CASE t # s
    <3>1. cache'[t] = cache[t]
      BY <1>2, <2>1, <1>5 DEF FreshInv
    <3> QED
      BY <1>5, <3>1 DEF FreshInv
  <2>2. CASE t = s
    <3> HIDE DEF s, r, entry
    <3>1. cache'[t] = With(cache[t], r, entry)
      BY <1>1, <1>2, <2>2 DEF FreshInv
    <3>2. x = r \/ x \in DOMAIN cache[t]
      BY <1>5, <3>1 DEF With
    <3>3. entry.stored \in Nat /\ entry.stored <= clock
      BY <1>1 DEF entry
    <3>4. cache'[t][x] = IF x = r THEN entry ELSE cache[t][x]
      BY <3>1, <3>2 DEF With
    <3> QED
      BY <1>5, <3>2, <3>3, <3>4 DEF FreshInv
  <2> QED
    BY <2>1, <2>2
<1>6. DOMAIN cache' = Services
  BY <1>2 DEF FreshInv
<1> QED
  BY <1>2, <1>4, <1>5, <1>6 DEF FreshInv

LEMMA ReplyFresh ==
    ASSUME FreshInv, NEW w \in Worker, Reply(w)
    PROVE  FreshInv'
<1> DEFINE q == work[w]
<1>1. DOMAIN q = Fields /\ FreshLooks(q.forge) /\ DOMAIN work = Worker
  BY PhaseIdle DEF FreshInv, Reply
<1>2. PICK answer :
        work' = [work EXCEPT ![w] =
                    [[[q EXCEPT !.phase = "done"] EXCEPT !.at = clock] EXCEPT !.answer = answer]]
  BY DEF Reply
<1>3. /\ DOMAIN work' = Worker
      /\ work'[w] = [[[q EXCEPT !.phase = "done"] EXCEPT !.at = clock] EXCEPT !.answer = answer]
      /\ \A v \in Worker \ {w} : work'[v] = work[v]
  BY <1>1, <1>2
<1>4. DOMAIN work'[w] = Fields /\ work'[w].forge = q.forge
  BY <1>1, <1>3 DEF Fields
<1>5. UNCHANGED <<clock, cache>>
  BY DEF Reply
<1> QED
  BY <1>1, <1>3, <1>4, <1>5, OneRequest

\* A new request has looked at nothing.
LEMMA NewRequestFresh ==
    ASSUME FreshInv, NEW w \in Worker, NEW op, NEW args, NEW id, UNCHANGED <<clock, cache>>,
           work' = [work EXCEPT ![w] = Onward(Request(op, args, id))]
    PROVE  FreshInv'
<1>1. /\ DOMAIN work' = Worker /\ work'[w] = Onward(Request(op, args, id))
      /\ \A v \in Worker \ {w} : work'[v] = work[v]
  BY DEF FreshInv
<1> QED
  BY <1>1, RequestFresh, OnwardFresh, OneRequest

LEMMA TakeLineFresh ==
    ASSUME FreshInv, TakeLine
    PROVE  FreshInv'
<1> DEFINE line == lines[taken + 1]
<1>1. UNCHANGED <<clock, cache>> /\ Session \in Worker
  BY OwnerAssumption DEF TakeLine
<1>2. CASE work' = [work EXCEPT ![Session] =
                       Onward(Request(line.params.val.name, line.params.val.args.val, line.id))]
  BY <1>1, <1>2, NewRequestFresh
<1>3. CASE work' = [work EXCEPT ![Session] = Idle]
  BY <1>1, <1>3, OneRequest DEF FreshInv
<1> QED
  BY <1>2, <1>3 DEF TakeLine

LEMMA BrowseFresh ==
    ASSUME FreshInv, NEW w \in Worker, Browse(w)
    PROVE  FreshInv'
<1>1. PICK page : work' = [work EXCEPT ![w] = Onward(Request(page.op, page.args, 0))]
  BY DEF Browse
<1> QED
  BY <1>1, NewRequestFresh DEF Browse

LEMMA DieFresh ==
    ASSUME FreshInv, NEW p \in Process, Die(p)
    PROVE  FreshInv'
<1>1. /\ cache' = [s \in Services |-> IF s[1] = p THEN NoCache ELSE cache[s]]
      /\ work' = [w \in Worker |-> IF Owner[w] = p THEN Idle ELSE work[w]]
      /\ clock' = clock
  BY DEF Die
<1>2. DOMAIN NoCache = {}
  BY DEF NoCache
<1> QED
  BY <1>1, <1>2 DEF FreshInv

LEMMA FreshInit == Init => FreshInv
BY DEF Init, FreshInv, NoCache

LEMMA FreshStep == FreshInv /\ [Next]_vars => FreshInv'
<1> SUFFICES ASSUME FreshInv, [Next]_vars
             PROVE  FreshInv'
  OBVIOUS
<1>1. CASE UNCHANGED <<clock, cache, work>>
  BY <1>1 DEF FreshInv
<1>2. ASSUME NEW w \in Worker, Step(w) \/ Cancel(w) PROVE FreshInv'
  BY <1>2, ReadNextFresh, LookupFresh, AnsweredFresh, StoreFresh, ReplyFresh
     DEF Step, Ask, Cancel
<1>3. CASE Tick
  BY <1>3 DEF Tick, FreshInv
<1> QED
  BY <1>1, <1>2, <1>3, TakeLineFresh, BrowseFresh, DieFresh
     DEF Next, vars, readVars, Begin, Environment

\* However handlers interleave between their looks into a cache, the answers of
\* the forge and the storing of them, whatever is cancelled or killed, nothing
\* is served TTL after it was stored (sourcecontrol/context.go:222).
THEOREM ForgeContextsAreFresh == Spec => []ForgeContextFresh
<1>1. FreshInv => ForgeContextFresh
  BY DEF FreshInv, ForgeContextFresh, FreshLooks
<1> QED
  BY <1>1, FreshInit, FreshStep, PTL DEF Spec

-----------------------------------------------------------------------------
\* What a step leaves of the requests of the other workers.
Others(w) == DOMAIN work' = Worker /\ \A v \in Worker \ {w} : work'[v] = work[v]

\* The next step of a request is one it has not read yet.
NextUnread(q) == q.next # <<>> => Head(q.next) \notin DOMAIN q.see

\* The steps of a request, as a set.
StepSet(q) == LET steps == Steps(Wanted(q)) IN {steps[i] : i \in 1..Len(steps)}

\* A request has a next step as long as there is one it has not read.
NextOfSteps(q) ==
    IF q.next = <<>> THEN StepSet(q) \subseteq DOMAIN q.see
                     ELSE Head(q.next) \in StepSet(q) \ DOMAIN q.see

LEMMA OnwardKeeps ==
    ASSUME NEW q, DOMAIN q = Fields
    PROVE  LET n == Onward(q)
           IN  /\ DOMAIN n = Fields
               /\ n.phase = q.phase /\ n.op = q.op /\ n.args = q.args /\ n.id = q.id
               /\ n.see = q.see /\ n.forge = q.forge /\ n.asked = q.asked
               /\ n.at = q.at /\ n.answer = q.answer
               /\ NextUnread(n) /\ NextOfSteps(n)
<1> DEFINE steps == Steps(Wanted(q))
           unread == {i \in 1..Len(steps) : steps[i] \notin DOMAIN q.see}
           first == SelectInSeq(steps, LAMBDA s : s \notin DOMAIN q.see)
           next == IF first = 0 THEN <<>> ELSE <<steps[first]>>
<1>1. Onward(q) = [q EXCEPT !.next = next]
  BY DEF Onward
<1>2. IF first = 0 THEN unread = {} ELSE first \in unread
  <2>1. unread \in SUBSET Nat
    OBVIOUS
  <2>2. first = IF unread # {} THEN Min(unread) ELSE 0
    BY DEF SelectInSeq
  <2> HIDE DEF unread, first
  <2>3. ASSUME unread # {} PROVE Min(unread) \in unread
    BY <2>1, <2>3, MinNat
  <2>4. 0 \notin unread
    BY DEF unread
  <2> QED
    BY <2>2, <2>3, <2>4
<1> HIDE DEF first
<1>3. /\ next = <<>> <=> first = 0
      /\ first # 0 => Head(next) = steps[first]
  OBVIOUS
<1> HIDE DEF next
<1>4. LET n == Onward(q)
      IN  /\ DOMAIN n = Fields
          /\ n.phase = q.phase /\ n.op = q.op /\ n.args = q.args /\ n.id = q.id
          /\ n.see = q.see /\ n.forge = q.forge /\ n.asked = q.asked
          /\ n.at = q.at /\ n.answer = q.answer /\ n.next = next
  BY <1>1 DEF Fields
<1>5. Wanted(Onward(q)) = Wanted(q)
  BY <1>4 DEF Wanted
<1> HIDE DEF steps
<1>6. StepSet(Onward(q)) = {steps[i] : i \in 1..Len(steps)}
  BY <1>5 DEF StepSet, steps
<1>7. NextOfSteps(Onward(q))
  BY <1>2, <1>3, <1>4, <1>6 DEF NextOfSteps
<1>8. NextUnread(Onward(q))
  BY <1>7 DEF NextOfSteps, NextUnread
<1> QED
  BY <1>4, <1>7, <1>8

\* A request that takes its next read.
LEMMA ReadNextShape ==
    ASSUME FreshInv, NEW w \in Worker, ReadNext(w)
    PROVE  LET q == work[w]
               n == work'[w]
               step == Head(q.next)
           IN  /\ Others(w) /\ UNCHANGED <<world, now, cache, output, taken, lines>>
               /\ q # Idle /\ q.next # <<>>
               /\ DOMAIN n = Fields /\ NextUnread(n) /\ NextOfSteps(n)
               /\ n.op = q.op /\ n.args = q.args /\ n.id = q.id
               /\ n.see = With(q.see, step, Observed(q, step, now))
               /\ \/ n.phase = "lookup" /\ n.asked = Ok(step) /\ n.forge = q.forge
                     /\ Asks(step, n.see[step])
                  \/ n.phase = "read"
                     /\ n.forge \in {q.forge, With(q.forge, step, NoForge)}
<1> DEFINE q == work[w]
           step == Head(q.next)
           see == With(q.see, step, Observed(q, step, now))
           seen == [q EXCEPT !.see = see]
           asks == [seen EXCEPT !.phase = "lookup", !.asked = Ok(step)]
           bare == [seen EXCEPT !.forge = With(@, step, NoForge)]
<1>1. DOMAIN q = Fields /\ DOMAIN work = Worker /\ q # Idle /\ q.phase = "read" /\ q.next # <<>>
  BY PhaseIdle DEF ReadNext, FreshInv
<1>2. /\ UNCHANGED <<world, now, cache, output, taken, lines>>
      /\ work' = [work EXCEPT ![w] = Onward(
              IF Asks(step, seen.see[step]) THEN asks
              ELSE IF IsGit(step) THEN bare
              ELSE seen)]
  BY DEF ReadNext, worldVars, sessionVars
<1> DEFINE chosen == IF Asks(step, seen.see[step]) THEN asks
                     ELSE IF IsGit(step) THEN bare ELSE seen
<1> HIDE DEF see
<1>3. DOMAIN seen = Fields /\ seen.see = see /\ seen.forge = q.forge /\ seen.phase = "read"
      /\ seen.op = q.op /\ seen.args = q.args /\ seen.id = q.id
  BY <1>1 DEF Fields
<1>4. /\ DOMAIN asks = Fields /\ asks.see = see /\ asks.forge = q.forge
      /\ asks.phase = "lookup" /\ asks.asked = Ok(step)
      /\ asks.op = q.op /\ asks.args = q.args /\ asks.id = q.id
  BY <1>3 DEF Fields
<1>5. /\ DOMAIN bare = Fields /\ bare.see = see /\ bare.forge = With(q.forge, step, NoForge)
      /\ bare.phase = "read"
      /\ bare.op = q.op /\ bare.args = q.args /\ bare.id = q.id
  BY <1>3 DEF Fields
<1> HIDE DEF asks, bare, seen
<1>6. /\ DOMAIN chosen = Fields /\ chosen.see = see
      /\ chosen.op = q.op /\ chosen.args = q.args /\ chosen.id = q.id
      /\ \/ chosen.phase = "lookup" /\ chosen.asked = Ok(step) /\ chosen.forge = q.forge
            /\ Asks(step, see[step])
         \/ chosen.phase = "read" /\ chosen.forge \in {q.forge, With(q.forge, step, NoForge)}
  BY <1>3, <1>4, <1>5
<1>7. work'[w] = Onward(chosen) /\ Others(w)
  BY <1>1, <1>2 DEF Others
<1> HIDE DEF chosen
<1>8. /\ DOMAIN Onward(chosen) = Fields
      /\ NextUnread(Onward(chosen)) /\ NextOfSteps(Onward(chosen))
      /\ Onward(chosen).see = chosen.see /\ Onward(chosen).phase = chosen.phase
      /\ Onward(chosen).forge = chosen.forge /\ Onward(chosen).asked = chosen.asked
      /\ Onward(chosen).op = chosen.op /\ Onward(chosen).args = chosen.args
      /\ Onward(chosen).id = chosen.id
  BY <1>6, OnwardKeeps
<1> QED
  BY <1>1, <1>2, <1>6, <1>7, <1>8 DEF see

\* A request that gets its context.
LEMMA GotShape ==
    ASSUME FreshInv, NEW w \in Worker, work[w].phase # "idle", NEW context, NEW stored,
           Got(w, context, stored)
    PROVE  LET q == work[w]
               n == work'[w]
           IN  /\ Others(w) /\ q # Idle
               /\ DOMAIN n = Fields /\ n.phase = "read" /\ n.next = q.next
               /\ n.op = q.op /\ n.args = q.args /\ n.id = q.id /\ n.see = q.see
               /\ n.forge = With(q.forge, q.asked.val,
                                 [matched |-> TRUE, context |-> context,
                                  stored |-> stored, looked |-> clock])
<1> DEFINE q == work[w]
           got == [matched |-> TRUE, context |-> context, stored |-> stored, looked |-> clock]
           forge == With(q.forge, q.asked.val, got)
<1>1. DOMAIN q = Fields /\ DOMAIN work = Worker /\ q # Idle
  BY PhaseIdle DEF FreshInv
<1>2. work'[w] = [[[q EXCEPT !.phase = "read"] EXCEPT !.asked = Error] EXCEPT !.forge = forge]
  BY <1>1 DEF Got, Fields
<1>3. Others(w)
  BY <1>1 DEF Got, Others
<1> HIDE DEF forge
<1>4. /\ DOMAIN work'[w] = Fields /\ work'[w].phase = "read" /\ work'[w].next = q.next
      /\ work'[w].op = q.op /\ work'[w].args = q.args /\ work'[w].id = q.id
      /\ work'[w].see = q.see /\ work'[w].forge = forge
  BY <1>1, <1>2 DEF Fields
<1> QED
  BY <1>1, <1>3, <1>4 DEF forge

\* A request whose lookup found nothing.
LEMMA MissShape ==
    ASSUME FreshInv, NEW w \in Worker, work[w].phase # "idle",
           work' = [work EXCEPT ![w].phase = "ask"]
    PROVE  LET q == work[w]
               n == work'[w]
           IN  /\ Others(w) /\ q # Idle
               /\ DOMAIN n = Fields /\ n.phase = "ask" /\ n.next = q.next
               /\ n.op = q.op /\ n.args = q.args /\ n.id = q.id /\ n.see = q.see
               /\ n.forge = q.forge /\ n.asked = q.asked
<1>1. DOMAIN work[w] = Fields /\ DOMAIN work = Worker /\ work[w] # Idle
  BY PhaseIdle DEF FreshInv
<1> QED
  BY <1>1 DEF Fields, Others

\* A request whose provider has answered.
LEMMA AnsweredShape ==
    ASSUME FreshInv, NEW w \in Worker, NEW context, Answered(w, context)
    PROVE  LET q == work[w]
               n == work'[w]
           IN  /\ Others(w) /\ UNCHANGED <<world, now, cache, output, taken, lines>>
               /\ q # Idle /\ q.phase = "ask"
               /\ DOMAIN n = Fields /\ n.phase = "store" /\ n.next = q.next
               /\ n.op = q.op /\ n.args = q.args /\ n.id = q.id /\ n.see = q.see
               /\ n.forge = q.forge /\ n.asked = q.asked /\ n.answer = Ok(context)
<1>1. /\ DOMAIN work[w] = Fields /\ DOMAIN work = Worker /\ work[w] # Idle
      /\ work[w].phase = "ask"
  BY PhaseIdle DEF FreshInv, Answered
<1>2. /\ work'[w] = [[work[w] EXCEPT !.phase = "store"] EXCEPT !.answer = Ok(context)]
      /\ Others(w)
  BY <1>1 DEF Answered, Fields, Others
<1>3. UNCHANGED <<world, now, cache, output, taken, lines>>
  BY DEF Answered, worldVars, sessionVars
<1> DEFINE answer == Ok(context)
<1> HIDE DEF answer
<1>4. work'[w] = [[work[w] EXCEPT !.phase = "store"] EXCEPT !.answer = answer]
  BY <1>2 DEF answer
<1>5. LET q == work[w]
          n == work'[w]
      IN  /\ DOMAIN n = Fields /\ n.phase = "store" /\ n.next = q.next
          /\ n.op = q.op /\ n.args = q.args /\ n.id = q.id /\ n.see = q.see
          /\ n.forge = q.forge /\ n.asked = q.asked /\ n.answer = answer
  BY <1>1, <1>4 DEF Fields
<1> QED
  BY <1>1, <1>2, <1>3, <1>5 DEF answer

\* A request that is answered.
LEMMA ReplyShape ==
    ASSUME FreshInv, NEW w \in Worker, Reply(w)
    PROVE  LET q == work[w]
               n == work'[w]
           IN  /\ Others(w) /\ UNCHANGED <<world, now, cache, taken, lines>>
               /\ q # Idle /\ q.phase = "read" /\ q.next = <<>>
               /\ DOMAIN n = Fields /\ n.phase = "done" /\ n.next = q.next
               /\ n.op = q.op /\ n.args = q.args /\ n.id = q.id /\ n.see = q.see
               /\ n.forge = q.forge /\ n.at = clock
               /\ n.answer = Answer(Made(n), held[Owner[w]])
               /\ output' = IF w = Session
                            THEN Append(output, [id |-> q.id,
                                     kind |-> IF n.answer.ok THEN "result" ELSE "toolError"])
                            ELSE output
<1> DEFINE q == work[w]
           made == [[q EXCEPT !.phase = "done"] EXCEPT !.at = clock]
           answer == Answer(Made(made), held[Owner[w]])
<1>1. /\ DOMAIN q = Fields /\ DOMAIN work = Worker /\ q # Idle
      /\ q.phase = "read" /\ q.next = <<>>
  BY PhaseIdle DEF FreshInv, Reply
<1>2. DOMAIN made = Fields /\ made.phase = "done" /\ made.at = clock /\ made.next = q.next
      /\ made.op = q.op /\ made.args = q.args /\ made.id = q.id /\ made.see = q.see
      /\ made.forge = q.forge
  BY <1>1 DEF Fields
<1>3. /\ UNCHANGED <<world, now, cache, taken, lines>>
      /\ work' = [work EXCEPT ![w] = [made EXCEPT !.answer = answer]]
      /\ output' = IF w = Session
                   THEN Append(output, [id |-> made.id,
                            kind |-> IF answer.ok THEN "result" ELSE "toolError"])
                   ELSE output
  BY DEF Reply, worldVars
<1> HIDE DEF made, answer
<1>4. work'[w] = [made EXCEPT !.answer = answer] /\ Others(w)
  BY <1>1, <1>3 DEF Others
<1>5. LET n == work'[w]
      IN  /\ DOMAIN n = Fields /\ n.phase = "done" /\ n.next = q.next
          /\ n.op = q.op /\ n.args = q.args /\ n.id = q.id /\ n.see = q.see
          /\ n.forge = q.forge /\ n.at = clock /\ n.answer = answer
  BY <1>2, <1>4 DEF Fields
<1>6. Made(work'[w]) = Made(made)
  BY <1>2, <1>5 DEF Made
<1> QED
  BY <1>1, <1>2, <1>3, <1>4, <1>5, <1>6 DEF answer

\* A request that is new.
LEMMA NewRequestShape ==
    ASSUME FreshInv, NEW w \in Worker, NEW op, NEW args, NEW id,
           work' = [work EXCEPT ![w] = Onward(Request(op, args, id))]
    PROVE  LET n == work'[w]
           IN  /\ Others(w)
               /\ DOMAIN n = Fields /\ n.phase = "read"
               /\ NextUnread(n) /\ NextOfSteps(n)
               /\ n.op = op /\ n.args = args /\ n.id = id /\ n.see = <<>> /\ n.forge = <<>>
<1> DEFINE r == Request(op, args, id)
<1>1. /\ DOMAIN r = Fields /\ r.phase = "read" /\ r.op = op /\ r.args = args /\ r.id = id
      /\ r.see = <<>> /\ r.forge = <<>>
  BY DEF Request, Fields
<1>2. DOMAIN work = Worker
  BY DEF FreshInv
<1> HIDE DEF r
<1>3. work'[w] = Onward(r) /\ Others(w)
  BY <1>2 DEF r, Others
<1> QED
  BY <1>1, <1>3, OnwardKeeps

-----------------------------------------------------------------------------
\* The machine is in one of its states and nothing runs over the bounds of the
\* world; the session goes through the lines of its client.
WorldInv ==
    /\ world \in DOMAIN Worlds
    /\ now \in World.machines
    /\ changes \in 0..World.changes
    /\ requests \in 0..World.requests
    /\ clock \in 0..World.ticks
    /\ lines \in World.sessions
    /\ taken \in 0..Len(lines)

\* The lines of a client, one after the other.
LEMMA LinesAreSequences ==
    ASSUME WorldInv
    PROVE  /\ lines \in Seq(ToSet(lines)) /\ Len(lines) \in Nat
           /\ \A i \in 1..Len(lines) : lines[i].form \in LineForms
<1>1. lines \in Seq(ToSet(lines)) /\ \A line \in ToSet(lines) : line.form \in LineForms
  BY WorldsAssumption DEF WorldInv, World
<1>2. Len(lines) \in Nat /\ DOMAIN lines = 1..Len(lines)
  BY <1>1
<1> QED
  BY <1>1, <1>2 DEF ToSet

LEMMA WorldInit == Init => WorldInv
<1> SUFFICES ASSUME Init PROVE WorldInv
  OBVIOUS
<1>1. /\ world \in DOMAIN Worlds /\ now \in World.machines
      /\ {World.changes, World.requests, World.ticks} \subseteq Nat
      /\ lines \in World.sessions /\ lines \in Seq(ToSet(lines))
  BY WorldsAssumption DEF Init, World
<1>2. Len(lines) \in Nat
  BY <1>1
<1> QED
  BY <1>1, <1>2 DEF Init, WorldInv

LEMMA WorldStep == WorldInv /\ [Next]_vars => WorldInv'
<1> SUFFICES ASSUME WorldInv, [Next]_vars
             PROVE  WorldInv'
  OBVIOUS
<1>1. /\ {World.changes, World.requests, World.ticks} \subseteq Nat /\ Len(lines) \in Nat
  BY WorldsAssumption, LinesAreSequences DEF WorldInv, World
<1>2. CASE UNCHANGED <<worldVars, clock, lines, taken>>
  BY <1>2 DEF WorldInv, World, worldVars
<1>3. ASSUME NEW p \in Process, Die(p) PROVE WorldInv'
  BY <1>1, <1>3 DEF Die, WorldInv, World, worldVars
<1>4. CASE TakeLine
  BY <1>1, <1>4 DEF TakeLine, WorldInv, World, worldVars
<1>5. ASSUME NEW w \in Worker, Browse(w) PROVE WorldInv'
  BY <1>1, <1>5 DEF Browse, WorldInv, World, sessionVars
<1>6. ASSUME NEW w \in Worker, Step(w) \/ Cancel(w) PROVE WorldInv'
  <2>1. UNCHANGED <<worldVars, clock, lines, taken>>
    BY <1>6 DEF Step, ReadNext, Lookup, Ask, Store, Reply, Cancel, Answered, sessionVars
  <2> QED
    BY <1>2, <2>1
<1>7. CASE Environment
  BY <1>1, <1>7 DEF Environment, WorldInv, World, sessionVars
<1>8. CASE Tick
  BY <1>1, <1>8 DEF Tick, WorldInv, World, worldVars, sessionVars
<1> QED
  BY <1>2, <1>3, <1>4, <1>5, <1>6, <1>7, <1>8
     DEF Next, vars, readVars, sessionVars, Begin

-----------------------------------------------------------------------------
\* The provider is asked about a remote it supports, which git has named.
AskedSupported(q) ==
    q.phase \in {"lookup", "ask", "store"} =>
        /\ q.asked.ok
        /\ q.asked.val \in DOMAIN q.see
        /\ q.see[q.asked.val].ok
        /\ SupportsGitHub(RemoteOf(q))

\* The contexts of a request, and the one it is about to store.
ContextsOf(machines, q) ==
    /\ DOMAIN q.forge \subseteq DOMAIN q.see
    /\ \A step \in DOMAIN q.forge : q.forge[step].matched =>
          ContextOf(machines, q.see[step].val.remote, q.forge[step].context)
    /\ q.phase = "store" => ContextOf(machines, RemoteOf(q), q.answer.val)

SoundRequest(machines, q) ==
    /\ NextUnread(q)
    /\ AskedSupported(q)
    /\ ContextsOf(machines, q)

\* The inductive invariant: the entries of a cache are about their remotes, as
\* the contexts of the requests are, and what a request has read stays.
SoundInv ==
    /\ \A s \in Services : \A r \in DOMAIN cache[s] :
          SupportsGitHub(r) /\ ContextOf(World.machines, r, cache[s][r].context)
    /\ \A w \in Worker : work[w] # Idle => SoundRequest(World.machines, work[w])

\* A step that touches one request only.
LEMMA OneSound ==
    ASSUME SoundInv, NEW w \in Worker, Others(w), UNCHANGED <<world, cache>>,
           work'[w] # Idle => SoundRequest(World.machines, work'[w])
    PROVE  SoundInv'
<1>1. World' = World
  BY DEF World
<1> QED
  BY <1>1 DEF SoundInv, Others

LEMMA ReadNextSound ==
    ASSUME FreshInv, SoundInv, NEW w \in Worker, ReadNext(w)
    PROVE  SoundInv'
<1> DEFINE q == work[w]
           n == work'[w]
           step == Head(q.next)
           M == World.machines
<1>1. /\ Others(w) /\ UNCHANGED <<world, cache>> /\ q # Idle /\ q.next # <<>>
      /\ DOMAIN n = Fields /\ NextUnread(n)
      /\ n.see = With(q.see, step, Observed(q, step, now))
      /\ \/ n.phase = "lookup" /\ n.asked = Ok(step) /\ n.forge = q.forge
            /\ Asks(step, n.see[step])
         \/ n.phase = "read" /\ n.forge \in {q.forge, With(q.forge, step, NoForge)}
  BY ReadNextShape
<1>2. SoundRequest(M, q)
  BY <1>1 DEF SoundInv
<1>3. /\ step \notin DOMAIN q.see /\ DOMAIN n.see = DOMAIN q.see \union {step}
      /\ \A x \in DOMAIN q.see : n.see[x] = q.see[x]
  BY <1>1, <1>2 DEF SoundRequest, NextUnread, With
<1>4. AskedSupported(n)
  <2>1. CASE n.phase = "read"
    BY <2>1 DEF AskedSupported
  <2>2. CASE n.phase = "lookup" /\ n.asked = Ok(step) /\ Asks(step, n.see[step])
    <3>1. n.asked.ok /\ n.asked.val = step
      BY <2>2 DEF Ok
    <3>2. n.see[step].ok /\ SupportsGitHub(n.see[step].val.remote)
      BY <2>2 DEF Asks
    <3> QED
      BY <1>3, <3>1, <3>2 DEF AskedSupported, RemoteOf
  <2> QED
    BY <1>1, <2>1, <2>2
<1>5. n.forge = q.forge \/ n.forge = With(q.forge, step, NoForge)
  BY <1>1
<1>6. /\ DOMAIN q.forge \subseteq DOMAIN q.see
      /\ \A x \in DOMAIN q.forge : q.forge[x].matched =>
            ContextOf(M, q.see[x].val.remote, q.forge[x].context)
  BY <1>2 DEF SoundRequest, ContextsOf
<1>7. ASSUME NEW x \in DOMAIN n.forge
      PROVE  /\ x \in DOMAIN n.see
             /\ n.forge[x].matched => ContextOf(M, n.see[x].val.remote, n.forge[x].context)
  <2>1. CASE x \in DOMAIN q.forge /\ n.forge[x] = q.forge[x]
    BY <1>3, <1>6, <2>1
  <2>2. CASE x = step /\ n.forge[x] = NoForge
    BY <1>3, <2>2 DEF NoForge
  <2> QED
    BY <1>5, <1>7, <2>1, <2>2 DEF With
<1>8. ContextsOf(M, n)
  BY <1>1, <1>7 DEF ContextsOf
<1> QED
  BY <1>1, <1>4, <1>8, OneSound DEF SoundRequest

\* A sound context goes into a sound request.
LEMMA GotSound ==
    ASSUME FreshInv, NEW w \in Worker, work[w].phase \in {"lookup", "ask", "store"},
           SoundRequest(World.machines, work[w]),
           NEW context, ContextOf(World.machines, RemoteOf(work[w]), context),
           NEW stored, Got(w, context, stored)
    PROVE  Others(w) /\ SoundRequest(World.machines, work'[w])
<1> DEFINE q == work[w]
           n == work'[w]
           step == q.asked.val
           got == [matched |-> TRUE, context |-> context, stored |-> stored, looked |-> clock]
           M == World.machines
<1>1. /\ Others(w) /\ DOMAIN n = Fields /\ n.phase = "read"
      /\ n.next = q.next /\ n.see = q.see /\ n.forge = With(q.forge, step, got)
  BY GotShape
<1>2. /\ NextUnread(q) /\ step \in DOMAIN q.see /\ DOMAIN q.forge \subseteq DOMAIN q.see
      /\ \A x \in DOMAIN q.forge : q.forge[x].matched =>
            ContextOf(M, q.see[x].val.remote, q.forge[x].context)
  BY DEF SoundRequest, AskedSupported, ContextsOf
<1>3. ContextOf(M, q.see[step].val.remote, got.context)
  BY DEF RemoteOf
<1> HIDE DEF got
<1>4. ASSUME NEW x \in DOMAIN n.forge
      PROVE  /\ x \in DOMAIN n.see
             /\ n.forge[x].matched => ContextOf(M, n.see[x].val.remote, n.forge[x].context)
  BY <1>1, <1>2, <1>3, <1>4 DEF With
<1>5. ContextsOf(M, n) /\ NextUnread(n) /\ AskedSupported(n)
  BY <1>1, <1>2, <1>4 DEF ContextsOf, NextUnread, AskedSupported
<1> QED
  BY <1>1, <1>5 DEF SoundRequest

LEMMA LookupSound ==
    ASSUME FreshInv, SoundInv, NEW w \in Worker, Lookup(w)
    PROVE  SoundInv'
<1> DEFINE q == work[w]
           s == Service(w, q)
           r == RemoteOf(q)
<1>1. q.phase = "lookup" /\ q # Idle /\ UNCHANGED <<world, cache>>
  BY PhaseIdle DEF Lookup, worldVars
<1>2. SoundRequest(World.machines, q)
  BY <1>1 DEF SoundInv
<1>3. CASE r \in DOMAIN cache[s] /\ Got(w, cache[s][r].context, cache[s][r].stored)
  <2>1. s \in Services
    BY ServiceOfWorker
  <2>2. ContextOf(World.machines, r, cache[s][r].context)
    BY <1>3, <2>1 DEF SoundInv
  <2> HIDE DEF s, r
  <2>3. Others(w) /\ SoundRequest(World.machines, work'[w])
    BY <1>1, <1>2, <1>3, <2>2, GotSound DEF r
  <2> QED
    BY <1>1, <2>3, OneSound
<1>4. CASE work' = [work EXCEPT ![w].phase = "ask"]
  <2>1. LET n == work'[w]
        IN  /\ Others(w) /\ n.phase = "ask" /\ n.next = q.next /\ n.see = q.see
            /\ n.forge = q.forge /\ n.asked = q.asked
    BY <1>1, <1>4, MissShape
  <2>2. SoundRequest(World.machines, work'[w])
    BY <1>1, <1>2, <2>1
       DEF SoundRequest, NextUnread, AskedSupported, ContextsOf, RemoteOf
  <2> QED
    BY <1>1, <2>1, <2>2, OneSound
<1> QED
  BY <1>3, <1>4 DEF Lookup

LEMMA AnsweredSound ==
    ASSUME FreshInv, SoundInv, NEW w \in Worker, NEW context, Answered(w, context),
           ContextOf(World.machines, RemoteOf(work[w]), context)
    PROVE  SoundInv'
<1> DEFINE q == work[w]
           n == work'[w]
<1>1. /\ Others(w) /\ UNCHANGED <<world, cache>> /\ q # Idle /\ q.phase = "ask"
      /\ n.phase = "store" /\ n.next = q.next /\ n.see = q.see /\ n.forge = q.forge
      /\ n.asked = q.asked /\ n.answer = Ok(context)
  BY AnsweredShape
<1>2. SoundRequest(World.machines, q)
  BY <1>1 DEF SoundInv
<1>3. n.answer.val = context /\ RemoteOf(n) = RemoteOf(q)
  BY <1>1 DEF Ok, RemoteOf
<1>4. SoundRequest(World.machines, n)
  BY <1>1, <1>2, <1>3 DEF SoundRequest, NextUnread, AskedSupported, ContextsOf
<1> QED
  BY <1>1, <1>4, OneSound

\* An unavailable forge lists nothing, another one what it lists now.
LEMMA UnavailableSound ==
    ASSUME NEW machines, NEW remote
    PROVE  ContextOf(machines, remote, Unavailable(remote))
BY DEF ContextOf, Unavailable

LEMMA PullsSound ==
    ASSUME NEW machines, NEW m \in machines, NEW git
    PROVE  ContextOf(machines, git.remote, Pulls(m.forge, git))
<1>1. CASE git.remote \notin DOMAIN m.forge \/ ~m.forge[git.remote].ok
  BY <1>1, UnavailableSound DEF Pulls
<1>2. CASE git.remote \in DOMAIN m.forge /\ m.forge[git.remote].ok
  <2>1. Pulls(m.forge, git) =
            [repository |-> ForgeRepository(git.remote), available |-> TRUE,
             pulls |-> {p \in m.forge[git.remote].val : p.head \in Branches(git)}]
    BY <1>2 DEF Pulls
  <2>2. m.forge[git.remote].val \subseteq PullsListed(machines, git.remote)
    BY <1>2 DEF PullsListed
  <2> QED
    BY <2>1, <2>2 DEF ContextOf
<1> QED
  BY <1>1, <1>2

LEMMA AskSound ==
    ASSUME FreshInv, WorldInv, SoundInv, NEW w \in Worker, Ask(w) \/ Cancel(w)
    PROVE  SoundInv'
<1> DEFINE git == work[w].see[work[w].asked.val].val
<1>1. now \in World.machines
  BY DEF WorldInv
<1>2. CASE Ask(w)
  <2>1. ContextOf(World.machines, git.remote, Pulls(now.forge, git))
    BY <1>1, PullsSound
  <2> QED
    BY <1>2, <2>1, AnsweredSound DEF Ask, RemoteOf
<1>3. CASE Cancel(w)
  BY <1>3, UnavailableSound, AnsweredSound DEF Cancel
<1> QED
  BY <1>2, <1>3

LEMMA StoreSound ==
    ASSUME FreshInv, SoundInv, NEW w \in Worker, Store(w)
    PROVE  SoundInv'
<1> DEFINE q == work[w]
           s == Service(w, q)
           r == RemoteOf(q)
           entry == [stored |-> clock, context |-> q.answer.val]
<1>1. /\ q.phase = "store" /\ q # Idle /\ world' = world
      /\ cache' = [cache EXCEPT ![s] = With(cache[s], r, entry)]
      /\ Got(w, q.answer.val, clock)
  BY PhaseIdle DEF Store, worldVars
<1>2. SoundRequest(World.machines, q) /\ World' = World /\ DOMAIN cache = Services
  BY <1>1 DEF SoundInv, World, FreshInv
<1>3. SupportsGitHub(r) /\ ContextOf(World.machines, r, q.answer.val)
  BY <1>1, <1>2 DEF SoundRequest, AskedSupported, ContextsOf
<1>4. Others(w) /\ SoundRequest(World.machines, work'[w])
  BY <1>1, <1>2, <1>3, GotSound
<1>5. ASSUME NEW t \in Services, NEW x \in DOMAIN cache'[t]
      PROVE  SupportsGitHub(x) /\ ContextOf(World.machines, x, cache'[t][x].context)
  <2> HIDE DEF s, r
  <2>1. CASE x \in DOMAIN cache[t] /\ cache'[t][x] = cache[t][x]
    BY <2>1 DEF SoundInv
  <2>2. CASE x = r /\ cache'[t][x] = entry
    BY <1>3, <2>2
  <2> QED
    BY <1>1, <1>2, <1>5, <2>1, <2>2 DEF With
<1> QED
  BY <1>2, <1>4, <1>5 DEF SoundInv, Others

\* A new request has asked nothing.
LEMMA NewRequestSound ==
    ASSUME FreshInv, SoundInv, NEW w \in Worker, NEW op, NEW args, NEW id,
           UNCHANGED <<world, cache>>,
           work' = [work EXCEPT ![w] = Onward(Request(op, args, id))]
    PROVE  SoundInv'
<1>1. /\ Others(w) /\ work'[w].phase = "read" /\ NextUnread(work'[w])
      /\ work'[w].see = <<>> /\ work'[w].forge = <<>>
  BY NewRequestShape
<1>2. SoundRequest(World.machines, work'[w])
  BY <1>1 DEF SoundRequest, AskedSupported, ContextsOf
<1> QED
  BY <1>1, <1>2, OneSound

LEMMA SoundInit == Init => SoundInv
BY DEF Init, SoundInv, NoCache

LEMMA SoundStep == FreshInv /\ WorldInv /\ SoundInv /\ [Next]_vars => SoundInv'
<1> SUFFICES ASSUME FreshInv, WorldInv, SoundInv, [Next]_vars
             PROVE  SoundInv'
  OBVIOUS
<1>1. CASE UNCHANGED <<world, cache, work>>
  BY <1>1 DEF SoundInv, World
<1>2. ASSUME NEW p \in Process, Die(p) PROVE SoundInv'
  <2>1. /\ cache' = [s \in Services |-> IF s[1] = p THEN NoCache ELSE cache[s]]
        /\ work' = [w \in Worker |-> IF Owner[w] = p THEN Idle ELSE work[w]]
        /\ World' = World
    BY <1>2 DEF Die, worldVars, World
  <2>2. DOMAIN NoCache = {}
    BY DEF NoCache
  <2> QED
    BY <2>1, <2>2 DEF SoundInv
<1>3. CASE TakeLine
  <2>1. UNCHANGED <<world, cache>> /\ Session \in Worker
    BY <1>3, OwnerAssumption DEF TakeLine, worldVars
  <2>2. CASE work' = [work EXCEPT ![Session] = Idle]
    <3>1. Others(Session) /\ work'[Session] = Idle
      BY <2>1, <2>2 DEF FreshInv, Others
    <3> QED
      BY <2>1, <3>1, OneSound
  <2> QED
    BY <1>3, <2>1, <2>2, NewRequestSound DEF TakeLine
<1>4. ASSUME NEW w \in Worker, Browse(w) PROVE SoundInv'
  <2>1. UNCHANGED <<world, cache>>
    BY <1>4 DEF Browse
  <2>2. PICK page : work' = [work EXCEPT ![w] = Onward(Request(page.op, page.args, 0))]
    BY <1>4 DEF Browse
  <2> QED
    BY <2>1, <2>2, NewRequestSound
<1>5. ASSUME NEW w \in Worker, Reply(w) PROVE SoundInv'
  <2>1. /\ Others(w) /\ UNCHANGED <<world, cache>> /\ work[w] # Idle
        /\ work'[w].phase = "done" /\ work'[w].next = work[w].next
        /\ work'[w].see = work[w].see /\ work'[w].forge = work[w].forge
    BY <1>5, ReplyShape
  <2>2. SoundRequest(World.machines, work'[w])
    BY <2>1 DEF SoundInv, SoundRequest, NextUnread, AskedSupported, ContextsOf
  <2> QED
    BY <2>1, <2>2, OneSound
<1>6. ASSUME NEW w \in Worker, Step(w) \/ Cancel(w) PROVE SoundInv'
  BY <1>5, <1>6, ReadNextSound, LookupSound, AskSound, StoreSound DEF Step
<1>7. CASE Environment \/ Tick
  BY <1>1, <1>7 DEF Environment, Tick, worldVars
<1> QED
  BY <1>1, <1>2, <1>3, <1>4, <1>6, <1>7 DEF Next, vars, readVars, worldVars, Begin

\* Whatever handlers share a cache and however their lookups, answers and
\* stores interleave, a context in an answer is about the remote git has in
\* that answer, and lists what its forge has listed (sourcecontrol/context.go:186).
THEOREM ForgeContextsAreSound == Spec => []ForgeContextSound
<1>1. SoundInv => ForgeContextSound
  BY DEF SoundInv, SoundRequest, ContextsOf, ForgeContextSound
<1> QED
  BY <1>1, FreshInit, FreshStep, WorldInit, WorldStep, SoundInit, SoundStep, PTL DEF Spec

-----------------------------------------------------------------------------
\* A request of a phase, that has read its machine.
TypedRequest(machines, q) ==
    /\ q.phase \in Phases
    /\ \A s \in DOMAIN q.see : \E m \in machines : SeenIn(q.see[s], s, m)

\* Only a process that is up answers requests.
TypedInv ==
    \A w \in Worker : work[w] # Idle => Running(w) /\ TypedRequest(World.machines, work[w])

LEMMA ObservedTyped ==
    ASSUME NEW q, NEW step, NEW m
    PROVE  SeenIn(Observed(q, step, m), step, m)
BY DEF SeenIn, Observed, InspectGit

\* A step of a worker that is up and stays up.
LEMMA OneTyped ==
    ASSUME TypedInv, NEW w \in Worker, Others(w), UNCHANGED <<world, start>>,
           work'[w] # Idle => Running(w) /\ TypedRequest(World.machines, work'[w])
    PROVE  TypedInv'
BY DEF TypedInv, Others, World, Running

LEMMA WorkerTyped ==
    ASSUME FreshInv, WorldInv, TypedInv, NEW w \in Worker, Step(w) \/ Cancel(w)
    PROVE  TypedInv'
<1> DEFINE q == work[w]
           n == work'[w]
           M == World.machines
<1>1. UNCHANGED <<world, start>>
  BY DEF Step, ReadNext, Lookup, Ask, Store, Reply, Cancel, Answered, worldVars, identityVars
<1>2. ASSUME q # Idle, Others(w), n.see = q.see, n.phase \in Phases
      PROVE  TypedInv'
  <2>1. Running(w) /\ TypedRequest(M, n)
    BY <1>2 DEF TypedInv, TypedRequest
  <2> QED
    BY <1>1, <1>2, <2>1, OneTyped
<1>3. CASE ReadNext(w)
  <2> DEFINE step == Head(q.next)
  <2>1. /\ Others(w) /\ q # Idle /\ n.phase \in {"lookup", "read"}
        /\ n.see = With(q.see, step, Observed(q, step, now))
    BY <1>3, ReadNextShape
  <2>2. Running(w) /\ TypedRequest(M, q) /\ now \in M
    BY <2>1 DEF TypedInv, WorldInv
  <2>3. SeenIn(Observed(q, step, now), step, now)
    BY ObservedTyped
  <2> HIDE DEF step
  <2>4. ASSUME NEW s \in DOMAIN n.see
        PROVE  \E m \in M : SeenIn(n.see[s], s, m)
    <3>1. CASE s = step /\ n.see[s] = Observed(q, step, now)
      BY <2>2, <2>3, <3>1
    <3>2. CASE s \in DOMAIN q.see /\ n.see[s] = q.see[s]
      BY <2>2, <3>2 DEF TypedRequest
    <3> QED
      BY <2>1, <2>4, <3>1, <3>2 DEF With
  <2>5. TypedRequest(M, n)
    BY <2>1, <2>4 DEF TypedRequest, Phases
  <2> QED
    BY <1>1, <2>1, <2>2, <2>5, OneTyped
<1>4. CASE Lookup(w)
  <2>1. q.phase # "idle"
    BY <1>4 DEF Lookup
  <2> DEFINE r == RemoteOf(q)
             entry == cache[Service(w, q)][r]
  <2>2. Got(w, entry.context, entry.stored) \/ work' = [work EXCEPT ![w].phase = "ask"]
    BY <1>4 DEF Lookup
  <2> HIDE DEF entry
  <2>3. /\ q # Idle /\ Others(w) /\ n.see = q.see /\ n.phase \in {"read", "ask"}
    BY <2>1, <2>2, GotShape, MissShape
  <2> QED
    BY <1>2, <2>3 DEF Phases
<1>5. ASSUME NEW context, Answered(w, context) PROVE TypedInv'
  <2>1. q # Idle /\ Others(w) /\ n.see = q.see /\ n.phase = "store"
    BY <1>5, AnsweredShape
  <2> QED
    BY <1>2, <2>1 DEF Phases
<1>6. CASE Store(w)
  <2>1. q.phase # "idle" /\ Got(w, q.answer.val, clock)
    BY <1>6 DEF Store
  <2>2. q # Idle /\ Others(w) /\ n.see = q.see /\ n.phase = "read"
    BY <2>1, GotShape
  <2> QED
    BY <1>2, <2>2 DEF Phases
<1>7. CASE Reply(w)
  <2>1. q # Idle /\ Others(w) /\ n.see = q.see /\ n.phase = "done"
    BY <1>7, ReplyShape
  <2> QED
    BY <1>2, <2>1 DEF Phases
<1> QED
  BY <1>3, <1>4, <1>5, <1>6, <1>7 DEF Step, Ask, Cancel

LEMMA NewRequestTyped ==
    ASSUME FreshInv, TypedInv, NEW w \in Worker, NEW op, NEW args, NEW id,
           Running(w), UNCHANGED <<world, start>>,
           work' = [work EXCEPT ![w] = Onward(Request(op, args, id))]
    PROVE  TypedInv'
<1>1. Others(w) /\ work'[w].phase = "read" /\ work'[w].see = <<>>
  BY NewRequestShape
<1>2. TypedRequest(World.machines, work'[w])
  BY <1>1 DEF TypedRequest, Phases
<1> QED
  BY <1>1, <1>2, OneTyped

LEMMA TypedInit == Init => TypedInv
BY DEF Init, TypedInv

LEMMA TypedStep == IdentityInv /\ FreshInv /\ WorldInv /\ TypedInv /\ [Next]_vars => TypedInv'
<1> SUFFICES ASSUME IdentityInv, FreshInv, WorldInv, TypedInv, [Next]_vars
             PROVE  TypedInv'
  OBVIOUS
<1>1. CASE UNCHANGED <<world, start, work>>
  BY <1>1 DEF TypedInv, World, Running
<1>2. ASSUME NEW p \in Process, Begin(p) PROVE TypedInv'
  <2>1. start[p] # "up" /\ UNCHANGED <<world, work>>
    BY <1>2 DEF Begin, IdentityStep, Launch, Look, Create, Reload, WriteHost, readVars, worldVars
  <2>2. \A o \in Process \ {p} : start'[o] = start[o]
    BY <1>2 DEF Begin, IdentityStep, Launch, Look, Create, Reload, WriteHost, LoadHost, Told,
                Stopped, GoTo, IdentityInv, IdentityTypeOK
  <2>3. \A w \in Worker : Owner[w] \in Process
    BY OwnerAssumption
  <2> QED
    BY <2>1, <2>2, <2>3 DEF TypedInv, World, Running
<1>3. ASSUME NEW p \in Process, Die(p) PROVE TypedInv'
  <2>1. /\ work' = [w \in Worker |-> IF Owner[w] = p THEN Idle ELSE work[w]]
        /\ World' = World
        /\ \A o \in Process \ {p} : start'[o] = start[o]
    BY <1>3 DEF Die, worldVars, World, Kill, Stopped, IdentityInv, IdentityTypeOK
  <2>2. \A w \in Worker : Owner[w] \in Process
    BY OwnerAssumption
  <2> QED
    BY <2>1, <2>2 DEF TypedInv, Running
<1>4. CASE TakeLine
  <2>1. UNCHANGED <<world, start>> /\ Session \in Worker /\ Running(Session)
    BY <1>4, OwnerAssumption DEF TakeLine, worldVars, identityVars
  <2>2. CASE work' = [work EXCEPT ![Session] = Idle]
    <3>1. Others(Session) /\ work'[Session] = Idle
      BY <2>1, <2>2 DEF FreshInv, Others
    <3> QED
      BY <2>1, <3>1, OneTyped
  <2> QED
    BY <1>4, <2>1, <2>2, NewRequestTyped DEF TakeLine
<1>5. ASSUME NEW w \in Worker, Browse(w) PROVE TypedInv'
  <2>1. UNCHANGED <<world, start>> /\ Running(w)
    BY <1>5 DEF Browse, identityVars
  <2>2. PICK page : work' = [work EXCEPT ![w] = Onward(Request(page.op, page.args, 0))]
    BY <1>5 DEF Browse
  <2> QED
    BY <2>1, <2>2, NewRequestTyped
<1>6. CASE Environment \/ Tick
  BY <1>1, <1>6 DEF Environment, Tick, worldVars, identityVars
<1> QED
  BY <1>1, <1>2, <1>3, <1>4, <1>5, <1>6, WorkerTyped
     DEF Next, vars, readVars, worldVars, identityVars

\* For any worlds, workers and processes the machine has its types: every
\* request that is under way belongs to a process that is up, what it has read
\* was there to be read, and a cache holds contexts of remotes its provider
\* supports that were not stored in the future.
THEOREM ReadsAreTyped == Spec => []ReadTypeOK
<1>1. ASSUME IdentityInv, FreshInv, WorldInv, SoundInv, TypedInv
      PROVE  ReadTypeOK
  <2>1. ASSUME NEW w \in Worker
        PROVE  /\ work[w].phase \in Phases
               /\ work[w] # Idle => Running(w)
               /\ work[w].phase \in {"lookup", "ask", "store"} => work[w].asked.ok
               /\ work[w] # Idle => \A s \in DOMAIN work[w].see :
                     \E m \in World.machines : SeenIn(work[w].see[s], s, m)
    <3>1. CASE work[w] = Idle
      BY <3>1 DEF Idle, Phases
    <3>2. CASE work[w] # Idle
      BY <1>1, <3>2 DEF TypedInv, TypedRequest, SoundInv, SoundRequest, AskedSupported
    <3> QED
      BY <3>1, <3>2
  <2>2. \A s \in Services : \A r \in DOMAIN cache[s] :
           SupportsGitHub(r) /\ cache[s][r].stored \in 0..clock
    BY <1>1 DEF SoundInv, FreshInv
  <2> QED
    BY <1>1, <2>1, <2>2 DEF ReadTypeOK, WorldInv, IdentityInv
<1>2. Init => IdentityInv
  BY InvInit DEF Init
<1>3. IdentityInv /\ [Next]_vars => IdentityInv'
  BY InvStep, NextKeepsIdentity
<1> QED
  BY <1>1, <1>2, <1>3, FreshInit, FreshStep, WorldInit, WorldStep, SoundInit, SoundStep,
     TypedInit, TypedStep, PTL DEF Spec

-----------------------------------------------------------------------------
\* The lines up to the n-th that ask for an answer.
AskedOf(client, n) == {i \in 1..n : AsksAnswer(client[i])}

\* One more line is one more answer, or none.
LEMMA AskedNext ==
    ASSUME NEW client, NEW n \in Nat
    PROVE  /\ Cardinality(AskedOf(client, n)) \in Nat
           /\ Cardinality(AskedOf(client, n + 1)) =
                 Cardinality(AskedOf(client, n)) + (IF AsksAnswer(client[n + 1]) THEN 1 ELSE 0)
<1> DEFINE A == AskedOf(client, n)
           B == AskedOf(client, n + 1)
<1>1. IsFiniteSet(1..n) /\ A \in SUBSET (1..n)
  BY FS_Interval DEF AskedOf
<1>2. IsFiniteSet(A)
  <2> HIDE DEF A
  <2> QED
    BY <1>1, FS_Subset
<1>3. n + 1 \notin A
  BY DEF AskedOf
<1>4. B = IF AsksAnswer(client[n + 1]) THEN A \union {n + 1} ELSE A
  BY DEF AskedOf
<1> HIDE DEF A, B
<1>5. Cardinality(A) \in Nat
  BY <1>2, FS_CardinalityType
<1>6. Cardinality(A \union {n + 1}) = Cardinality(A) + 1
  BY <1>2, <1>3, FS_AddElement
<1> QED
  BY <1>4, <1>5, <1>6 DEF A, B

\* No line is answered before the lines in front of it.
LEMMA AskedGrows ==
    ASSUME NEW client, NEW n \in Nat, NEW i \in 1..n
    PROVE  Cardinality(AskedOf(client, i)) <= Cardinality(AskedOf(client, n))
<1> DEFINE A == AskedOf(client, i)
           B == AskedOf(client, n)
<1>1. IsFiniteSet(1..n) /\ B \in SUBSET (1..n) /\ A \in SUBSET B
  BY FS_Interval DEF AskedOf
<1> HIDE DEF A, B
<1>2. IsFiniteSet(B)
  BY <1>1, FS_Subset
<1>3. Cardinality(A) <= Cardinality(B)
  BY <1>1, <1>2, FS_Subset
<1> QED
  BY <1>3 DEF A, B

\* What is not answered is what asks for no answer, and a call asks for one.
LEMMA KindsAnswer ==
    ASSUME NEW line, line.form \in LineForms
    PROVE  /\ Kind(line) = "none" <=> ~AsksAnswer(line)
           /\ Kind(line) = "call" => line.form = "request" /\ AsksAnswer(line)
<1>1. CASE line.form = "blank" \/ line.form = "garbage"
  BY <1>1 DEF Kind, AsksAnswer
<1>2. CASE line.form = "request" /\ line.id = NoLineID
  BY <1>2 DEF Kind, AsksAnswer, IsNotification
<1>3. CASE line.form = "request" /\ line.id # NoLineID
  <2>1. CallKind(line.params) # "none"
    BY DEF CallKind
  <2>2. Kind(line) # "none"
    BY <1>3, <2>1 DEF Kind, IsNotification
  <2> QED
    BY <1>3, <2>2 DEF AsksAnswer
<1> QED
  BY <1>1, <1>2, <1>3 DEF LineForms

\* One more answer after the others.
LEMMA OneMoreAnswer ==
    ASSUME NEW s, s \in Seq(ToSet(s)), NEW e
    PROVE  LET t == Append(s, e)
           IN  /\ t \in Seq(ToSet(t))
               /\ Len(s) \in Nat /\ Len(t) = Len(s) + 1
               /\ DOMAIN s = 1..Len(s) /\ DOMAIN t = 1..Len(t)
               /\ \A i \in 1..Len(s) : t[i] = s[i]
               /\ t[Len(t)] = e
<1> DEFINE t == Append(s, e)
           S == ToSet(s) \union {e}
<1>1. s \in Seq(S)
  BY SeqMonotonic
<1>2. /\ t \in Seq(S) /\ Len(s) \in Nat /\ Len(t) = Len(s) + 1
      /\ DOMAIN s = 1..Len(s) /\ DOMAIN t = 1..Len(t)
      /\ \A i \in 1..Len(s) : t[i] = s[i]
      /\ t[Len(t)] = e
  <2> HIDE DEF S
  <2>1. e \in S
    BY DEF S
  <2> QED
    BY <1>1, <2>1
<1>3. \A i \in 1..Len(t) : t[i] \in ToSet(t)
  BY <1>2 DEF ToSet
<1>4. t \in Seq(ToSet(t))
  <2> HIDE DEF t, S
  <2>1. t = [i \in 1..Len(t) |-> t[i]] /\ Len(t) \in Nat
    BY <1>2, LenProperties
  <2> QED
    BY <1>3, <2>1
<1> QED
  BY <1>2, <1>4

-----------------------------------------------------------------------------
\* The inductive invariant of the wire: what is answered is a sequence, and the
\* call that is under way is the one of the last line that was taken.
WireInv ==
    /\ output \in Seq(ToSet(output))
    /\ Busy(work[Session]) =>
          /\ taken \in 1..Len(lines)
          /\ AsksAnswer(lines[taken])
          /\ work[Session].id = ResponseID(lines[taken])
    /\ ResponsesMatchRequests

\* The last line that was taken is answered.
LEMMA AnswerDelivered ==
    ASSUME NEW client, NEW n \in Nat, AsksAnswer(client[n + 1]),
           NEW s, s \in Seq(ToSet(s)), Len(s) = Cardinality(AskedOf(client, n)),
           \A i \in AskedOf(client, n) :
              LET a == Cardinality(AskedOf(client, i))
              IN  a \in DOMAIN s => s[a].id = ResponseID(client[i]),
           NEW e, e.id = ResponseID(client[n + 1])
    PROVE  LET t == Append(s, e)
           IN  /\ t \in Seq(ToSet(t))
               /\ Len(t) = Cardinality(AskedOf(client, n + 1))
               /\ \A i \in AskedOf(client, n + 1) :
                     LET a == Cardinality(AskedOf(client, i))
                     IN  a \in DOMAIN t => t[a].id = ResponseID(client[i])
<1> DEFINE t == Append(s, e)
<1>1. /\ t \in Seq(ToSet(t))
      /\ Len(s) \in Nat /\ Len(t) = Len(s) + 1
      /\ DOMAIN s = 1..Len(s) /\ DOMAIN t = 1..Len(t)
      /\ \A i \in 1..Len(s) : t[i] = s[i]
      /\ t[Len(t)] = e
  BY OneMoreAnswer
<1> HIDE DEF t
<1>2. Len(t) = Cardinality(AskedOf(client, n + 1))
  BY <1>1, AskedNext
<1>3. ASSUME NEW i \in AskedOf(client, n + 1)
      PROVE  LET a == Cardinality(AskedOf(client, i))
             IN  a \in DOMAIN t => t[a].id = ResponseID(client[i])
  <2> DEFINE a == Cardinality(AskedOf(client, i))
  <2>1. i \in 1..n + 1 /\ AsksAnswer(client[i])
    BY <1>3 DEF AskedOf
  <2>2. CASE i = n + 1
    BY <1>1, <1>2, <2>2
  <2>3. CASE i # n + 1
    <3>1. i \in 1..n /\ i \in AskedOf(client, n)
      BY <2>1, <2>3 DEF AskedOf
    <3>2. a <= Len(s)
      BY <3>1, AskedGrows
    <3>3. a \in Nat
      BY <3>1, AskedNext
    <3> HIDE DEF a
    <3>4. ASSUME a \in DOMAIN t PROVE t[a] = s[a] /\ a \in DOMAIN s
      BY <1>1, <3>2, <3>3, <3>4
    <3> QED
      BY <3>1, <3>4 DEF a
  <2> QED
    BY <2>2, <2>3
<1> QED
  BY <1>1, <1>2, <1>3 DEF t

\* A step that leaves the session where it is.
LEMMA WireKept ==
    ASSUME WireInv, UNCHANGED <<output, taken, lines>>,
           Busy(work[Session])' = Busy(work[Session]),
           Busy(work[Session]) => work'[Session].id = work[Session].id
    PROVE  WireInv'
BY DEF WireInv, ResponsesMatchRequests, Asked

LEMMA WireInit == Init => WireInv
<1> SUFFICES ASSUME Init PROVE WireInv
  OBVIOUS
<1>1. Asked(taken) = {} /\ taken = 0 /\ output = <<>> /\ work[Session] = Idle
  BY OwnerAssumption DEF Init, Asked
<1>2. ~Busy(work[Session])
  BY <1>1 DEF Busy, Idle
<1>3. Cardinality(Asked(taken)) = 0
  BY <1>1, FS_EmptySet
<1> QED
  BY <1>1, <1>2, <1>3 DEF WireInv, ResponsesMatchRequests

\* The next line of the client.
LEMMA TakeLineWire ==
    ASSUME FreshInv, WorldInv, WireInv, TakeLine
    PROVE  WireInv'
<1> DEFINE line == lines[taken + 1]
           kind == Kind(line)
           answer == Response(line, kind)
<1>1. /\ ~Busy(work[Session]) /\ taken \in Nat /\ taken < Len(lines) /\ taken' = taken + 1
      /\ lines' = lines /\ Len(lines) \in Nat
  BY LinesAreSequences DEF TakeLine, WorldInv
<1>2. line.form \in LineForms
  BY <1>1, LinesAreSequences
<1>3. /\ kind = "none" <=> ~AsksAnswer(line)
      /\ kind = "call" => line.form = "request" /\ AsksAnswer(line)
  BY <1>2, KindsAnswer
<1>4. /\ output \in Seq(ToSet(output)) /\ Len(output) = Cardinality(AskedOf(lines, taken))
      /\ \A i \in AskedOf(lines, taken) :
            LET a == Cardinality(AskedOf(lines, i))
            IN  a \in DOMAIN output => output[a].id = ResponseID(lines[i])
  <2>1. Len(output) \in Nat
    BY DEF WireInv
  <2> QED
    BY <1>1, <2>1 DEF WireInv, ResponsesMatchRequests, Asked, AskedOf
<1>5. CASE kind = "call"
  <2>1. /\ output' = output
        /\ work' = [work EXCEPT ![Session] =
              Onward(Request(line.params.val.name, line.params.val.args.val, line.id))]
    BY <1>5 DEF TakeLine
  <2> DEFINE call == line.params.val
             op == call.name
             args == call.args.val
             id == line.id
  <2>2. work'[Session].phase = "read" /\ work'[Session].id = id
    <3>1. Session \in Worker
      BY OwnerAssumption
    <3>2. work' = [work EXCEPT ![Session] = Onward(Request(op, args, id))]
      BY <2>1
    <3> HIDE DEF op, args, id
    <3>3. work'[Session].phase = "read" /\ work'[Session].id = id
      BY <3>1, <3>2, NewRequestShape
    <3> QED
      BY <3>3
  <2>3. Busy(work'[Session]) /\ work'[Session].id = ResponseID(line) /\ AsksAnswer(line)
    BY <1>3, <1>5, <2>2 DEF Busy, ResponseID
  <2>4. /\ Cardinality(AskedOf(lines, taken)) \in Nat
        /\ Cardinality(AskedOf(lines, taken + 1)) = Len(output) + 1
    BY <1>1, <1>4, <2>3, AskedNext
  <2>5. DOMAIN output = 1..Len(output)
    BY <1>4
  <2>6. ASSUME NEW i \in AskedOf(lines, taken + 1)
        PROVE  LET a == Cardinality(AskedOf(lines, i))
               IN  a \in DOMAIN output => output[a].id = ResponseID(lines[i])
    <3>1. CASE i \in AskedOf(lines, taken)
      BY <1>4, <3>1
    <3>2. CASE i = taken + 1
      BY <1>4, <2>4, <2>5, <3>2
    <3> QED
      BY <1>1, <2>6, <3>1, <3>2 DEF AskedOf
  <2>7. ResponsesMatchRequests'
    BY <1>1, <2>1, <2>3, <2>4, <2>6 DEF ResponsesMatchRequests, Asked, AskedOf
  <2>8. taken' \in 1..Len(lines') /\ lines'[taken'] = line
    BY <1>1
  <2> QED
    BY <1>4, <2>1, <2>3, <2>7, <2>8 DEF WireInv
<1>6. CASE kind # "call"
  <2>1. /\ output' = IF kind = "none" THEN output ELSE Append(output, answer)
        /\ work' = [work EXCEPT ![Session] = Idle]
    BY <1>6 DEF TakeLine
  <2>2. ~Busy(work'[Session])
    BY <2>1, OwnerAssumption DEF FreshInv, Busy, Idle
  <2>3. CASE kind = "none"
    <3>1. ~AsksAnswer(line) /\ output' = output
      BY <1>3, <2>1, <2>3
    <3>2. AskedOf(lines, taken + 1) = AskedOf(lines, taken)
      BY <1>1, <3>1 DEF AskedOf
    <3>3. ResponsesMatchRequests'
      BY <1>1, <1>4, <2>2, <3>1, <3>2, AskedNext DEF ResponsesMatchRequests, Asked, AskedOf
    <3> QED
      BY <1>4, <2>2, <3>1, <3>3 DEF WireInv
  <2>4. CASE kind # "none"
    <3>1. AsksAnswer(line) /\ output' = Append(output, answer)
      BY <1>3, <2>1, <2>4
    <3>2. answer.id = ResponseID(line)
      BY DEF Response, ResponseID
    <3> HIDE DEF answer
    <3>3. /\ output' \in Seq(ToSet(output'))
          /\ Len(output') = Cardinality(AskedOf(lines, taken + 1))
          /\ \A i \in AskedOf(lines, taken + 1) :
                LET a == Cardinality(AskedOf(lines, i))
                IN  a \in DOMAIN output' => output'[a].id = ResponseID(lines[i])
      BY <1>1, <1>4, <3>1, <3>2, AnswerDelivered
    <3>4. Len(output') \in Nat
      BY <3>3
    <3>5. ResponsesMatchRequests'
      BY <1>1, <2>2, <3>3, <3>4 DEF ResponsesMatchRequests, Asked, AskedOf
    <3> QED
      BY <2>2, <3>3, <3>5 DEF WireInv
  <2> QED
    BY <2>3, <2>4
<1> QED
  BY <1>5, <1>6

\* The answer to the call that is under way.
LEMMA ReplyWire ==
    ASSUME FreshInv, WorldInv, WireInv, Reply(Session)
    PROVE  WireInv'
<1> DEFINE q == work[Session]
           e == [id |-> q.id,
                 kind |-> IF work'[Session].answer.ok THEN "result" ELSE "toolError"]
           n == taken - 1
<1>1. /\ q.phase = "read" /\ work'[Session].phase = "done"
      /\ UNCHANGED <<taken, lines>> /\ output' = Append(output, e)
  BY ReplyShape, OwnerAssumption
<1>2. Busy(q) /\ ~Busy(work'[Session])
  BY <1>1 DEF Busy
<1>3. /\ n \in Nat /\ taken = n + 1 /\ AsksAnswer(lines[n + 1])
      /\ e.id = ResponseID(lines[n + 1])
  BY <1>2, LinesAreSequences DEF WireInv
<1> HIDE DEF q, n, e
<1>4. /\ Cardinality(AskedOf(lines, n)) \in Nat
      /\ Cardinality(AskedOf(lines, n + 1)) = Cardinality(AskedOf(lines, n)) + 1
  BY <1>3, AskedNext
<1>5. output \in Seq(ToSet(output)) /\ Len(output) \in Nat
  BY DEF WireInv
<1>6. Len(output) = Cardinality(AskedOf(lines, n))
  BY <1>2, <1>3, <1>4, <1>5 DEF WireInv, ResponsesMatchRequests, Asked, AskedOf, q
<1>7. \A i \in AskedOf(lines, n) :
         LET a == Cardinality(AskedOf(lines, i))
         IN  a \in DOMAIN output => output[a].id = ResponseID(lines[i])
  <2>1. \A i \in AskedOf(lines, n) : i \in Asked(taken)
    BY <1>3 DEF Asked, AskedOf
  <2>2. \A i : Asked(i) = AskedOf(lines, i)
    BY DEF Asked, AskedOf
  <2> QED
    BY <2>1, <2>2 DEF WireInv, ResponsesMatchRequests
<1>8. /\ output' \in Seq(ToSet(output'))
      /\ Len(output') = Cardinality(AskedOf(lines, n + 1))
      /\ \A i \in AskedOf(lines, n + 1) :
            LET a == Cardinality(AskedOf(lines, i))
            IN  a \in DOMAIN output' => output'[a].id = ResponseID(lines[i])
  BY <1>1, <1>3, <1>5, <1>6, <1>7, AnswerDelivered
<1>9. Len(output') \in Nat
  BY <1>8
<1>10. ResponsesMatchRequests'
  BY <1>1, <1>2, <1>3, <1>8, <1>9 DEF ResponsesMatchRequests, Asked, AskedOf
<1> QED
  BY <1>2, <1>8, <1>10 DEF WireInv

LEMMA WireStep == FreshInv /\ WorldInv /\ WireInv /\ [Next]_vars => WireInv'
<1> SUFFICES ASSUME FreshInv, WorldInv, WireInv, [Next]_vars
             PROVE  WireInv'
  OBVIOUS
<1>1. CASE UNCHANGED <<sessionVars, work>>
  BY <1>1, WireKept DEF sessionVars
<1>2. ASSUME NEW p \in Process, Die(p) PROVE WireInv'
  <2>1. CASE Owner[Session] = p
    <3>1. taken' = 0 /\ output' = <<>> /\ work'[Session] = Idle
      BY <1>2, <2>1, OwnerAssumption DEF Die
    <3>2. ~Busy(work'[Session])
      BY <3>1 DEF Busy, Idle
    <3>3. Asked(taken)' = {}
      BY <3>1 DEF Asked
    <3>4. Cardinality(Asked(taken))' = 0
      BY <3>3, FS_EmptySet
    <3>5. ResponsesMatchRequests'
      BY <3>1, <3>2, <3>3, <3>4 DEF ResponsesMatchRequests
    <3> QED
      BY <3>1, <3>2, <3>5 DEF WireInv
  <2>2. CASE Owner[Session] # p
    <3>1. /\ UNCHANGED <<output, taken, lines>>
          /\ work'[Session] = work[Session] \/ Session \notin Worker
      BY <1>2, <2>2 DEF Die
    <3> QED
      BY <3>1, WireKept, OwnerAssumption
  <2> QED
    BY <2>1, <2>2
<1>3. ASSUME NEW w \in Worker, Browse(w) PROVE WireInv'
  <2>1. UNCHANGED <<output, taken, lines>> /\ work'[Session] = work[Session]
    BY <1>3, OwnerAssumption DEF Browse, sessionVars, FreshInv
  <2> QED
    BY <2>1, WireKept
<1>4. ASSUME NEW w \in Worker, Step(w) \/ Cancel(w), w = Session => ~Reply(w) PROVE WireInv'
  <2>1. UNCHANGED <<output, taken, lines>>
    BY <1>4 DEF Step, ReadNext, Lookup, Ask, Store, Reply, Cancel, Answered, sessionVars
  <2>2. CASE w # Session
    <3>1. Others(w)
      <4>1. CASE Lookup(w)
        <5> DEFINE r == RemoteOf(work[w])
                   entry == cache[Service(w, work[w])][r]
        <5>1. work[w].phase # "idle"
          BY <4>1 DEF Lookup
        <5>2. Got(w, entry.context, entry.stored) \/ work' = [work EXCEPT ![w].phase = "ask"]
          BY <4>1 DEF Lookup
        <5> HIDE DEF entry
        <5> QED
          BY <5>1, <5>2, GotShape, MissShape
      <4>2. CASE Store(w)
        BY <4>2, GotShape DEF Store
      <4> QED
        BY <1>4, <4>1, <4>2, ReadNextShape, AnsweredShape, ReplyShape DEF Step, Ask, Cancel
    <3>2. work'[Session] = work[Session]
      BY <2>2, <3>1, OwnerAssumption DEF Others
    <3> QED
      BY <2>1, <3>2, WireKept
  <2>3. CASE w = Session
    <3> DEFINE q == work[Session]
               n == work'[Session]
    <3>1. /\ q.phase \in {"read", "lookup", "ask", "store"}
          /\ n.phase \in {"read", "lookup", "ask", "store"}
          /\ n.id = q.id
      <4>1. CASE Lookup(w)
        <5> DEFINE r == RemoteOf(work[w])
                   entry == cache[Service(w, work[w])][r]
        <5>1. work[w].phase = "lookup"
          BY <4>1 DEF Lookup
        <5>2. Got(w, entry.context, entry.stored) \/ work' = [work EXCEPT ![w].phase = "ask"]
          BY <4>1 DEF Lookup
        <5> HIDE DEF entry
        <5>3. n.phase \in {"read", "ask"} /\ n.id = q.id
          BY <2>3, <5>1, <5>2, GotShape, MissShape
        <5> QED
          BY <2>3, <5>1, <5>3
      <4>2. CASE Store(w)
        <5>1. work[w].phase = "store"
          BY <4>2 DEF Store
        <5>2. n.phase = "read" /\ n.id = q.id
          BY <2>3, <4>2, <5>1, GotShape DEF Store
        <5> QED
          BY <2>3, <5>1, <5>2
      <4>3. CASE ReadNext(w)
        <5>1. work[w].phase = "read"
          BY <4>3 DEF ReadNext
        <5>2. n.phase \in {"read", "lookup"} /\ n.id = q.id
          BY <2>3, <4>3, ReadNextShape
        <5> QED
          BY <2>3, <5>1, <5>2
      <4>4. ASSUME NEW context, Answered(w, context)
            PROVE  q.phase = "ask" /\ n.phase = "store" /\ n.id = q.id
        BY <2>3, <4>4, AnsweredShape
      <4> QED
        BY <1>4, <2>3, <4>1, <4>2, <4>3, <4>4 DEF Step, Ask, Cancel
    <3>2. Busy(q) /\ Busy(n)
      BY <3>1 DEF Busy
    <3> QED
      BY <2>1, <3>1, <3>2, WireKept
  <2> QED
    BY <2>2, <2>3
<1>5. CASE Environment \/ Tick \/ \E p \in Process : Begin(p)
  BY <1>1, <1>5 DEF Environment, Tick, Begin, readVars
<1> QED
  BY <1>1, <1>2, <1>3, <1>4, <1>5, TakeLineWire, ReplyWire DEF Next, Step, vars, readVars

\* For every client and whatever else the machine does meanwhile, the MCP server
\* answers every line that asks for an answer, once, in the order of the lines
\* and under the ID of its line, and answers no notification
\* (mcpserver/server.go:160).
THEOREM EveryRequestIsAnswered == Spec => []ResponsesMatchRequests
<1>1. WireInv => ResponsesMatchRequests
  BY DEF WireInv
<1> QED
  BY <1>1, FreshInit, FreshStep, WorldInit, WorldStep, WireInit, WireStep, PTL DEF Spec
=============================================================================
