------------------------- MODULE LiveProjectionProofs -------------------------
(***************************************************************************)
(* For any agents and any number of events: the refresh loop keeps its     *)
(* types, and an index that does not call itself stale holds the edition   *)
(* it was last told to synchronize.                                        *)
(*                                                                         *)
(* For any pages, searches and lost connections: a stream emits an event   *)
(* only for a material change, a page shows the answer to what it asked    *)
(* last, and a search that is answered is answered from tables as new as   *)
(* promised.  Readers leave the refresh loop as HostRuntime describes it.  *)
(***************************************************************************)
EXTENDS LiveProjection, TLAPS

\* What the content of the catalog is made of.
LEMMA CatalogContents ==
  (active \subseteq Agent /\ convention \in Convention /\ ended \in [Agent -> Nat])
    <=> content \in Contents
BY DEF content, Contents

LEMMA TypeInit == Init => TypeOK
<1> SUFFICES ASSUME Init
             PROVE  TypeOK
  OBVIOUS
<1>1. /\ edition = 1 /\ turmoil = 0 /\ gone = {} /\ announced = {content}
      /\ indexed = Nothing /\ fingerprint = {}
      /\ ended = [a \in Agent |-> 0]
  BY DEF Init
<1>2. edition \in Nat \ {0} /\ turmoil \in 0..MaxTurmoil
  BY <1>1, TurmoilAssumption
<1>3. /\ indexUp \in BOOLEAN /\ syncErr \in BOOLEAN /\ cancelled \in BOOLEAN
      /\ ~cancelled
  BY DEF Init
<1>4. /\ running \subseteq Agent /\ active \subseteq Agent /\ found = {}
      /\ pending = "none" /\ loop = "opening" /\ refreshed = "none" /\ main = "starting"
      /\ convention \in Convention
  BY DEF Init
<1>5. content \in Contents
  BY <1>1, <1>4, CatalogContents
<1>6. indexed \in [edition: 0..edition, content: SUBSET Contents]
  BY <1>1, <1>2 DEF Nothing
<1>7. \A a \in Agent : ended[a] = 0 /\ ended[a] \in 0..edition
  <2>1. 0 \in 0..edition
    BY <1>2
  <2>2. \A a \in Agent : ended[a] = 0
    BY <1>1, Zenon
  <2> QED
    BY <2>1, <2>2
<1> QED
  BY <1>1, <1>2, <1>3, <1>4, <1>5, <1>6, <1>7 DEF TypeOK

\* A synchronization leaves the index with contents that have existed.
LEMMA SyncTypes ==
    ASSUME TypeOK, NEW succeeds \in BOOLEAN, Sync(succeeds), edition' = edition
    PROVE  /\ indexUp' \in BOOLEAN /\ syncErr' \in BOOLEAN
           /\ indexed' \in [edition: 0..edition', content: SUBSET Contents]
           /\ fingerprint' \subseteq Contents
<1>1. CASE UNCHANGED index
  BY <1>1 DEF index, TypeOK
<1>2. CASE ~UNCHANGED index
  <2>1. /\ indexed' \in {Seen, indexed} /\ fingerprint' \in {{content}, fingerprint}
        /\ syncErr' = ~succeeds /\ indexUp' = indexUp
    BY <1>2 DEF Sync
  <2>2. Seen \in [edition: 0..edition', content: SUBSET Contents]
    BY DEF TypeOK, Seen
  <2> QED
    BY <2>1, <2>2 DEF TypeOK
<1> QED
  BY <1>1, <1>2

\* The catalog stays itself in every step that leaves its parts alone.
LEMMA CatalogUnchanged ==
    ASSUME UNCHANGED <<active, ended, convention>>
    PROVE  content' = content
BY DEF content

\* What every observation does keeps the types it touches.
LEMMA ObservedTypes ==
    ASSUME TypeOK, NEW detected \in Convention, Observed(detected)
    PROVE  /\ running' \subseteq Agent \ gone' /\ gone' \subseteq Agent
           /\ content' \in Contents
           /\ \A a \in active' : ended'[a] = 0
           /\ \A a \in Agent : ended'[a] \in 0..edition'
           /\ turmoil' \in 0..MaxTurmoil
           /\ edition' \in Nat \ {0} /\ edition \in 0..edition'
           /\ indexUp' \in BOOLEAN /\ syncErr' \in BOOLEAN
           /\ indexed' \in [edition: 0..edition', content: SUBSET Contents]
           /\ fingerprint' \subseteq Contents
           /\ cancelled' \in BOOLEAN /\ main' = main /\ cancelled' = cancelled
<1>1. /\ active' = found /\ convention' = detected /\ found \subseteq Agent
      /\ UNCHANGED <<running, gone, index, process>>
  BY DEF Observed, TypeOK
<1>2. edition \in Nat \ {0} /\ edition' \in {edition, edition + 1}
  BY DEF TypeOK, Observed
<1>3. /\ edition' \in Nat \ {0} /\ edition \in 0..edition' /\ 0..edition \subseteq 0..edition'
  BY <1>2
<1>4. /\ ended \in [Agent -> Nat] /\ active \subseteq Agent
      /\ \A a \in Agent : ended[a] \in 0..edition
  BY CatalogContents DEF TypeOK
<1>5. ended' = [a \in Agent |-> IF a \in found THEN 0
                              ELSE IF a \in active THEN edition + 1 ELSE ended[a]]
  BY DEF Observed
<1>6. ASSUME NEW a \in Agent, a \notin found, a \in active PROVE edition' = edition + 1
  BY <1>6, <1>2 DEF Observed, Material
<1>7. \A a \in Agent : ended'[a] \in 0..edition' /\ (a \in found => ended'[a] = 0)
  BY <1>2, <1>3, <1>4, <1>5, <1>6
<1>8. ended' \in [Agent -> Nat]
  BY <1>2, <1>4, <1>5
<1>9. content' \in Contents
  BY <1>1, <1>8 DEF content, Contents
<1>10. turmoil' \in 0..MaxTurmoil
  BY TurmoilAssumption DEF TypeOK, Observed
<1>11. /\ indexed' \in [edition: 0..edition', content: SUBSET Contents]
       /\ fingerprint' \subseteq Contents /\ indexUp' \in BOOLEAN /\ syncErr' \in BOOLEAN
  BY <1>1, <1>3 DEF TypeOK, index
<1> QED
  BY <1>1, <1>3, <1>7, <1>9, <1>10, <1>11 DEF TypeOK, process

LEMMA PendingTypes ==
    ASSUME TypeOK, NEW material \in BOOLEAN
    PROVE  PendingAfter(material) \in {"none", "heartbeat", "material"}
BY DEF TypeOK, PendingAfter

LEMMA MaterialBoolean ==
    ASSUME NEW detected \in Convention
    PROVE  Material(detected) \in BOOLEAN
BY DEF Material

LEMMA AbortTypes == TypeOK /\ ObserveAborts => TypeOK'
<1> SUFFICES ASSUME TypeOK, ObserveAborts
             PROVE  TypeOK'
  OBVIOUS
<1>1. PICK handled \in SUBSET found \ {found} :
         /\ active' = active \cup handled
         /\ ended' = [a \in Agent |-> IF a \in handled THEN 0 ELSE ended[a]]
         /\ edition' = IF handled \subseteq active THEN edition ELSE edition + 1
  BY DEF ObserveAborts
<1>2. /\ UNCHANGED <<running, gone, convention, pending, index, announced, process>>
      /\ loop' = "waiting" /\ refreshed' = "failed" /\ found' = {}
      /\ turmoil < MaxTurmoil /\ turmoil' = turmoil + 1
  BY DEF ObserveAborts, Refreshed
<1>3. /\ ended \in [Agent -> Nat] /\ active \subseteq Agent /\ convention \in Convention
      /\ found \subseteq Agent /\ edition \in Nat \ {0}
      /\ (\A a \in Agent : ended[a] \in 0..edition) /\ (\A a \in active : ended[a] = 0)
  BY CatalogContents DEF TypeOK
<1>4. edition' \in Nat \ {0} /\ edition \in 0..edition' /\ 0..edition \subseteq 0..edition'
  BY <1>1, <1>3
<1>5. content' \in Contents
  BY <1>1, <1>2, <1>3 DEF content, Contents
<1>6. /\ \A a \in active' : ended'[a] = 0
      /\ \A a \in Agent : ended'[a] \in 0..edition'
  BY <1>1, <1>3, <1>4
<1>7. turmoil' \in 0..MaxTurmoil
  BY <1>2, TurmoilAssumption DEF TypeOK
<1>8. indexed' \in [edition: 0..edition', content: SUBSET Contents]
  BY <1>2, <1>4 DEF TypeOK, index
<1> QED
  BY <1>2, <1>4, <1>5, <1>6, <1>7, <1>8 DEF TypeOK, index, process

LEMMA TypeStep == TypeOK /\ [Next]_vars => TypeOK'
<1> SUFFICES ASSUME TypeOK, [Next]_vars
             PROVE  TypeOK'
  OBVIOUS
<1> USE DEF environment, catalog, index, process, rest
<1>1. CASE UNCHANGED vars
  BY <1>1, CatalogUnchanged DEF vars, TypeOK
<1>2. CASE AgentsChange
  <2>1. /\ running' \subseteq Agent \ gone' /\ gone' \subseteq Agent
    BY <1>2 DEF AgentsChange, TypeOK
  <2>2. turmoil' \in 0..MaxTurmoil
    BY <1>2, TurmoilAssumption DEF AgentsChange, TypeOK
  <2> QED
    BY <1>2, <2>1, <2>2, CatalogUnchanged DEF AgentsChange, TypeOK
<1>3. ASSUME NEW succeeds \in BOOLEAN, OpenIndex(succeeds) PROVE TypeOK'
  BY <1>3, SyncTypes, CatalogUnchanged DEF OpenIndex, TypeOK
<1>4. ASSUME NEW succeeds \in BOOLEAN, SyncIndex(succeeds) PROVE TypeOK'
  BY <1>4, SyncTypes, CatalogUnchanged DEF SyncIndex, TypeOK
<1>5. CASE Tick
  BY <1>5, CatalogUnchanged DEF Tick, TypeOK
<1>6. CASE ScanSucceeds
  BY <1>6, TurmoilAssumption, CatalogUnchanged DEF ScanSucceeds, TypeOK
<1>7. CASE ScanFails
  BY <1>7, CatalogUnchanged DEF ScanFails, Refreshed, TypeOK
<1>8. ASSUME NEW detected \in Convention, NEW written \in BOOLEAN,
             ObserveSucceeds(detected, written)
      PROVE  TypeOK'
  <2>1. Observed(detected) /\ loop = "observing"
    BY <1>8 DEF ObserveSucceeds, Observed
  <2>2. pending' \in {"none", "heartbeat", "material"}
    BY <1>8, PendingTypes, MaterialBoolean DEF ObserveSucceeds
  <2>3. CASE Announces(Material(detected))
    BY <1>8, <2>1, <2>2, <2>3, ObservedTypes DEF ObserveSucceeds, TypeOK
  <2>4. CASE ~Announces(Material(detected))
    BY <1>8, <2>1, <2>2, <2>4, ObservedTypes DEF ObserveSucceeds, Refreshed, TypeOK
  <2> QED
    BY <2>3, <2>4
<1>9. ASSUME NEW detected \in Convention, ObserveSaveFails(detected) PROVE TypeOK'
  <2>1. Observed(detected) /\ loop = "observing"
    BY <1>9 DEF ObserveSaveFails, Observed
  <2>2. pending' \in {"none", "heartbeat", "material"}
    BY <1>9, PendingTypes, MaterialBoolean DEF ObserveSaveFails
  <2> QED
    BY <1>9, <2>1, <2>2, ObservedTypes DEF ObserveSaveFails, Refreshed, TypeOK
<1>10. CASE ObserveAborts
  BY <1>10, AbortTypes
<1>11. CASE Broadcast
  BY <1>11, CatalogUnchanged DEF Broadcast, Refreshed, TypeOK
<1>12. CASE Serve \/ Signal \/ Exit
  <2>1. CASE Serve
    BY <1>12, <2>1, CatalogUnchanged DEF Serve, TypeOK
  <2>2. CASE Signal
    BY <1>12, <2>2, CatalogUnchanged DEF Signal, TypeOK
  <2>3. CASE Exit
    BY <1>12, <2>3, CatalogUnchanged DEF Exit, TypeOK
  <2> QED
    BY <1>12, <2>1, <2>2, <2>3
<1>13. ASSUME NEW succeeds \in BOOLEAN, Flush(succeeds) PROVE TypeOK'
  BY <1>13, CatalogUnchanged DEF Flush, TypeOK
<1> QED
  BY <1>1, <1>2, <1>3, <1>4, <1>5, <1>6, <1>7, <1>8, <1>9, <1>10, <1>11, <1>12, <1>13
     DEF Next, LoopStep

\* Types of the refresh loop, and the order of its editions: what is indexed has
\* existed, an active session has no end, a process that stopped does not run
\* again, and a signal ends nothing before the server serves
\* (cmd/specview/main.go:204).
THEOREM RuntimeTypesCorrect == Spec => []TypeOK
BY TypeInit, TypeStep, PTL DEF Spec

-----------------------------------------------------------------------------
\* Where the index stands: what the last good Sync stored is what the tables
\* hold, and it is what was announced except while a synchronization is due.
IndexInv ==
  /\ loop = "opening" => fingerprint = {} /\ announced = {content}
  /\ loop = "syncing" => announced = {content}
  /\ loop # "opening" /\ indexUp /\ ~syncErr => indexed.content = fingerprint
  /\ loop \notin {"opening", "syncing"} /\ indexUp /\ ~syncErr => fingerprint = announced

LEMMA IndexInit == Init => IndexInv
BY DEF Init, IndexInv

\* A synchronization that is due brings the index to the announced content, or
\* marks it stale.
LEMMA SyncKeeps ==
    ASSUME TypeOK, IndexInv, NEW succeeds \in BOOLEAN, Sync(succeeds),
           loop \in {"opening", "syncing"}, indexUp', ~syncErr'
    PROVE  /\ indexed'.content = {content} /\ fingerprint' = {content}
           /\ indexed' = Seen \/ (indexed' = indexed /\ loop # "opening" /\ indexUp /\ ~syncErr)
<1>1. {content} # {}
  OBVIOUS
<1>2. CASE UNCHANGED index
  <2>1. fingerprint = {content} /\ ~syncErr /\ indexUp
    BY <1>2 DEF Sync, index
  <2>2. loop # "opening"
    BY <1>1, <2>1 DEF IndexInv
  <2> QED
    BY <1>2, <2>1, <2>2 DEF IndexInv, index
<1>3. CASE ~UNCHANGED index
  <2>1. succeeds /\ indexed' = Seen /\ fingerprint' = {content}
    BY <1>3 DEF Sync
  <2>2. Seen.content = {content}
    BY DEF Seen
  <2> QED
    BY <2>1, <2>2
<1> QED
  BY <1>2, <1>3

LEMMA IndexStep == TypeOK /\ IndexInv /\ [Next]_vars => IndexInv'
<1> SUFFICES ASSUME TypeOK, IndexInv, [Next]_vars
             PROVE  IndexInv'
  OBVIOUS
<1> USE DEF environment, catalog, index, process, rest
<1>1. CASE UNCHANGED vars
  BY <1>1, CatalogUnchanged DEF vars, IndexInv
<1>2. CASE AgentsChange
  BY <1>2, CatalogUnchanged DEF AgentsChange, IndexInv
<1>3. ASSUME NEW succeeds \in BOOLEAN, OpenIndex(succeeds) \/ SyncIndex(succeeds)
      PROVE  IndexInv'
  <2>1. /\ Sync(succeeds) /\ loop \in {"opening", "syncing"}
        /\ loop' \in {"scanning", "announcing"}
        /\ announced = {content} /\ announced' = announced
    BY <1>3 DEF OpenIndex, SyncIndex, IndexInv
  <2> QED
    BY <2>1, SyncKeeps DEF IndexInv
<1>4. CASE Tick \/ ScanSucceeds \/ ScanFails \/ Broadcast
  BY <1>4, CatalogUnchanged
     DEF Tick, ScanSucceeds, ScanFails, Broadcast, Refreshed, IndexInv
<1>5. ASSUME NEW detected \in Convention, NEW written \in BOOLEAN,
             ObserveSucceeds(detected, written)
      PROVE  IndexInv'
  BY <1>5 DEF ObserveSucceeds, Observed, Refreshed, IndexInv
<1>6. ASSUME NEW detected \in Convention, ObserveSaveFails(detected) PROVE IndexInv'
  BY <1>6 DEF ObserveSaveFails, Observed, Refreshed, IndexInv
<1>7. CASE ObserveAborts
  BY <1>7 DEF ObserveAborts, Refreshed, IndexInv
<1>8. CASE Serve \/ Signal \/ Exit
  BY <1>8, CatalogUnchanged DEF Serve, Signal, Exit, IndexInv
<1>9. ASSUME NEW succeeds \in BOOLEAN, Flush(succeeds) PROVE IndexInv'
  BY <1>9, CatalogUnchanged DEF Flush, IndexInv
<1> QED
  BY <1>1, <1>2, <1>3, <1>4, <1>5, <1>6, <1>7, <1>8, <1>9 DEF Next, LoopStep

\* Whatever scans, writes and synchronizations fail, and however often, an
\* index that does not report itself stale holds, between refreshes, the content
\* it was last told to synchronize (hostindex/index.go:173, H16).
THEOREM SearchIsHonest == Spec => []SearchNotBehindAnnouncement
<1>1. IndexInv => SearchNotBehindAnnouncement
  BY DEF IndexInv, SearchNotBehindAnnouncement
<1> QED
  BY <1>1, TypeInit, TypeStep, IndexInit, IndexStep, PTL DEF Spec

-----------------------------------------------------------------------------
\* A step of the runtime or of a page is a step of HostRuntime, or none.
LEMMA LiveRefines == [LiveNext]_liveVars => [Next]_vars
BY DEF LiveNext, liveVars, RuntimeStep, PageStep, Load, Search, Fetch, Respond, Passes, Check,
       Answer, Display, FetchFails, Connect, Subscribe, Receive, Probe, Disconnect

\* Editions only grow, and the content changes with them.
LEMMA EditionGrows ==
    ASSUME TypeOK, [Next]_vars
    PROVE  edition' >= edition /\ (edition' = edition => content' = content)
<1>1. /\ edition \in Nat /\ ended \in [Agent -> Nat] /\ active \subseteq Agent
      /\ \A a \in active : ended[a] = 0
  BY CatalogContents DEF TypeOK
<1>2. CASE UNCHANGED <<active, ended, convention, edition>>
  BY <1>1, <1>2, CatalogUnchanged
<1>3. ASSUME NEW detected \in Convention, Observed(detected)
      PROVE  edition' >= edition /\ (edition' = edition => content' = content)
  <2>1. CASE Material(detected)
    BY <1>1, <1>3, <2>1 DEF Observed
  <2>2. CASE ~Material(detected)
    <3>1. active' = active /\ convention' = convention /\ found = active /\ edition' = edition
      BY <1>3, <2>2 DEF Observed, Material
    <3>2. ended' = ended
      BY <1>1, <1>3, <3>1 DEF Observed
    <3> QED
      BY <1>1, <3>1, <3>2, CatalogUnchanged
  <2> QED
    BY <2>1, <2>2
<1>4. CASE ObserveAborts
  <2>1. PICK handled \in SUBSET found \ {found} :
           /\ active' = active \cup handled
           /\ ended' = [a \in Agent |-> IF a \in handled THEN 0 ELSE ended[a]]
           /\ edition' = IF handled \subseteq active THEN edition ELSE edition + 1
    BY <1>4 DEF ObserveAborts
  <2>2. convention' = convention
    BY <1>4 DEF ObserveAborts
  <2>3. CASE handled \subseteq active
    <3>1. active' = active /\ ended' = ended /\ edition' = edition
      BY <1>1, <2>1, <2>3
    <3> QED
      BY <1>1, <2>2, <3>1, CatalogUnchanged
  <2>4. CASE ~(handled \subseteq active)
    BY <1>1, <2>1, <2>4
  <2> QED
    BY <2>3, <2>4
<1> QED
  BY <1>2, <1>3, <1>4
     DEF vars, Next, LoopStep, catalog, AgentsChange, OpenIndex, SyncIndex, Tick, ScanSucceeds,
         ScanFails, ObserveSucceeds, ObserveSaveFails, Broadcast, Serve, Signal, Exit, Flush

\* A fingerprint or a page as old as the catalog has its content.
Views == [edition: Nat, content: SUBSET Contents]

LEMMA SeenView == TypeOK => Seen \in Views /\ Seen.edition = edition /\ Seen.content = {content}
BY DEF TypeOK, Views, Seen

\* The events of a stream are paid for by editions between its first and its
\* last fingerprint.
EventInv ==
  /\ digest \in [Page -> Views] /\ spent \in [Page -> Nat]
  /\ stream \in [Page -> {"none", "baseline", "open"}]
  /\ \A c \in Page : stream[c] # "none" =>
        /\ spent[c] <= digest[c].edition /\ digest[c].edition <= edition
        /\ digest[c].edition = edition => digest[c].content = {content}

LEMMA NothingView == Nothing \in Views
BY DEF Nothing, Views

LEMMA EventInit == LiveInit => EventInv
BY NothingView DEF LiveInit, EventInv

\* The runtime does not touch a stream.
LEMMA StreamsKept ==
    ASSUME TypeOK, TypeOK', EventInv, [Next]_vars, UNCHANGED <<stream, digest, spent>>
    PROVE  EventInv'
<1>1. /\ edition \in Nat /\ edition' \in Nat /\ edition' >= edition
      /\ edition' = edition => content' = content
  BY EditionGrows DEF TypeOK
<1>2. \A c \in Page : digest[c].edition \in Nat
  BY DEF EventInv, Views
<1> QED
  BY <1>1, <1>2 DEF EventInv

\* An emitted event takes the fingerprint from an older edition to the newest.
LEMMA EmitKeeps ==
    ASSUME TypeOK, EventInv, NEW c \in Page, stream[c] = "open", EmitIfChanged(c),
           UNCHANGED <<stream, catalog>>
    PROVE  EventInv'
<1>1. /\ edition \in Nat /\ digest[c].edition \in Nat /\ spent[c] \in Nat
      /\ edition' = edition /\ content' = content
  BY CatalogUnchanged DEF TypeOK, EventInv, Views, catalog
<1>2. CASE ~Differs(c)
  BY <1>1, <1>2 DEF EventInv, EmitIfChanged
<1>3. CASE Differs(c)
  <2>1. /\ digest' = [digest EXCEPT ![c] = Seen]
        /\ spent' = [spent EXCEPT ![c] = spent[c] + 1]
    BY <1>3 DEF EmitIfChanged
  <2>2. spent[c] + 1 <= edition
    BY <1>1, <1>3 DEF EventInv, Differs
  <2> HIDE DEF Seen
  <2> QED
    BY <1>1, <2>1, <2>2, SeenView DEF EventInv
<1> QED
  BY <1>2, <1>3

LEMMA EventStep ==
    TypeOK /\ TypeOK' /\ EventInv /\ [LiveNext]_liveVars => EventInv'
<1> SUFFICES ASSUME TypeOK, TypeOK', EventInv, [LiveNext]_liveVars
             PROVE  EventInv'
  OBVIOUS
<1>1. CASE UNCHANGED <<stream, digest, spent>>
  BY <1>1, LiveRefines, StreamsKept
<1>2. edition \in Nat
  BY DEF TypeOK
<1>3. ASSUME NEW c \in Page, Connect(c) PROVE EventInv'
  <2>1. /\ stream' = [stream EXCEPT ![c] = "baseline"]
        /\ digest' = [digest EXCEPT ![c] = Seen]
        /\ spent' = [spent EXCEPT ![c] = edition]
        /\ edition' = edition /\ content' = content
    BY <1>3, CatalogUnchanged DEF Connect, vars, catalog
  <2> HIDE DEF Seen
  <2> QED
    BY <1>2, <2>1, SeenView DEF EventInv
<1>4. ASSUME NEW c \in Page, Subscribe(c) PROVE EventInv'
  BY <1>4, CatalogUnchanged DEF Subscribe, EventInv, vars, catalog
<1>5. ASSUME NEW c \in Page, Receive(c) \/ Probe(c) PROVE EventInv'
  BY <1>5, EmitKeeps DEF Receive, Probe, vars
<1>6. ASSUME NEW c \in Page, Disconnect(c) PROVE EventInv'
  <2>1. /\ stream' = [stream EXCEPT ![c] = "none"]
        /\ digest' = [digest EXCEPT ![c] = Nothing]
        /\ spent' = [spent EXCEPT ![c] = 0]
        /\ edition' = edition /\ content' = content
    BY <1>6, CatalogUnchanged DEF Disconnect, vars, catalog
  <2> QED
    BY <2>1, NothingView DEF EventInv
<1> QED
  BY <1>1, <1>3, <1>4, <1>5, <1>6
     DEF LiveNext, liveVars, pages, streams, RuntimeStep, PageStep, Load, Search, Fetch,
         Respond, Passes, Check, Answer, Display, FetchFails

\* A stream emits no more events than there were material changes since its
\* first fingerprint: heartbeats never make a page fetch (web/host_server.go:411).
THEOREM EventsAreChanges == LiveSpec => []EventsOnlyForChanges
<1>1. LiveInit => TypeOK
  BY TypeInit DEF LiveInit
<1>2. TypeOK /\ [LiveNext]_liveVars => TypeOK'
  BY LiveRefines, TypeStep
<1>3. TypeOK /\ EventInv => EventsOnlyForChanges
  BY DEF TypeOK, EventInv, Views, EventsOnlyForChanges
<1> QED
  BY <1>1, <1>2, <1>3, EventInit, EventStep, PTL DEF LiveSpec

-----------------------------------------------------------------------------
(***************************************************************************)
(* Requests.                                                               *)
(***************************************************************************)
Texts == Query \cup {NoText}

Request ==
  [at: {"checking", "searching", "ready"}, query: Texts, seen: Views, floor: Views]

\* The one request of a page is for the text in its box, was sent after what
\* the page shows was read, and has not failed.
AskedInv ==
  /\ shown \in [Page -> Views] /\ listing \in [Page -> Texts] /\ box \in [Page -> Texts]
  /\ requests \in [Page -> SUBSET Request] /\ told \in Views
  /\ failed \in [Page -> Nat]
  /\ \A c \in Page : shown[c].edition <= edition
  /\ \A c \in Page : \A q \in requests[c] :
        /\ requests[c] = {q} /\ q.query = box[c] /\ failed[c] = 0
        /\ shown[c].edition <= q.seen.edition
        /\ 0 < q.seen.edition /\ q.seen.edition <= edition
  /\ ShowsWhatWasAsked

LEMMA AskedInit == LiveInit => AskedInv
<1> SUFFICES ASSUME LiveInit
             PROVE  AskedInv
  OBVIOUS
<1>1. edition = 1 /\ Nothing.edition = 0
  BY DEF LiveInit, Init, Nothing
<1> HIDE DEF Nothing
<1> QED
  BY <1>1, NothingView DEF LiveInit, AskedInv, ShowsWhatWasAsked, Texts

\* What Send sends.
LEMMA SentRequest ==
    ASSUME TypeOK, AskedInv, NEW text \in Texts
    PROVE  /\ Sent(text) \in Request
           /\ Sent(text).query = text /\ Sent(text).floor = told
           /\ Sent(text).seen.edition = edition /\ edition \in Nat \ {0}
           /\ Sent(text).at \in {"checking", "ready"}
           /\ Sent(text).at = "checking" => indexUp
<1>1. Seen \in Views /\ Seen.edition = edition /\ told \in Views /\ edition \in Nat \ {0}
  BY SeenView DEF AskedInv, TypeOK
<1> HIDE DEF Seen, Views
<1> QED
  BY <1>1 DEF Sent, Request

\* Send leaves the one request of the page.
LEMMA SendKeeps ==
    ASSUME TypeOK, AskedInv, NEW c \in Page, NEW text \in Texts, Send(c, text),
           box' = [box EXCEPT ![c] = text], UNCHANGED <<vars, shown, listing, told>>
    PROVE  AskedInv'
<1> DEFINE q == Sent(text)
<1>1. /\ q \in Request /\ q.query = text /\ q.seen.edition = edition
      /\ edition \in Nat \ {0}
  BY SentRequest
<1>2. requests' = [requests EXCEPT ![c] = {q}] /\ failed' = [failed EXCEPT ![c] = 0]
  BY DEF Send
<1>3. edition' = edition
  BY DEF vars, catalog
<1> HIDE DEF q, Request
<1> QED
  BY <1>1, <1>2, <1>3 DEF AskedInv, ShowsWhatWasAsked

\* A request goes on as it is, but for its place.
LEMMA PassesKeeps ==
    ASSUME TypeOK, AskedInv, NEW c \in Page, NEW q \in requests[c],
           NEW place \in {"checking", "searching", "ready"},
           Passes(c, q, [q EXCEPT !.at = place])
    PROVE  AskedInv'
<1> DEFINE later == [q EXCEPT !.at = place]
<1>1. /\ later \in Request /\ later.query = q.query /\ later.seen = q.seen
  BY DEF AskedInv, Request
<1>2. requests' = [requests EXCEPT ![c] = (requests[c] \ {q}) \cup {later}]
  BY DEF Passes
<1>3. edition' = edition /\ UNCHANGED <<shown, listing, failed, box, told>>
  BY DEF Passes, vars, catalog
<1> HIDE DEF later, Request
<1>4. requests'[c] = {later}
  BY <1>2 DEF AskedInv
<1> QED
  BY <1>1, <1>2, <1>3, <1>4 DEF AskedInv, ShowsWhatWasAsked

\* A request ends: the page displays its answer, or keeps what it displays.
LEMMA DisplayKeeps ==
    ASSUME TypeOK, AskedInv, NEW c \in Page, NEW q \in requests[c],
           Display(c, q) \/ FetchFails(c, q)
    PROVE  AskedInv'
<1>1. /\ q \in Request /\ requests[c] = {q} /\ q.query = box[c] /\ q.seen \in Views
      /\ q.query \in Texts
      /\ 0 < q.seen.edition /\ q.seen.edition <= edition /\ q.seen.edition \in Nat
  BY DEF AskedInv, Request, Views
<1>2. edition' = edition /\ UNCHANGED <<box, told>>
  BY DEF Display, FetchFails, vars, catalog
<1>3. requests' = [requests EXCEPT ![c] = {}]
  BY <1>1 DEF Display, FetchFails
<1> HIDE DEF Request
<1>4. CASE Display(c, q)
  <2>1. shown' = [shown EXCEPT ![c] = q.seen] /\ listing' = [listing EXCEPT ![c] = q.query]
        /\ failed' = failed
    BY <1>4 DEF Display
  <2> QED
    BY <1>1, <1>2, <1>3, <2>1 DEF AskedInv, ShowsWhatWasAsked
<1>5. CASE FetchFails(c, q)
  <2>1. UNCHANGED <<shown, listing>> /\ failed' = [failed EXCEPT ![c] = q.seen.edition]
    BY <1>5 DEF FetchFails
  <2> QED
    BY <1>1, <1>2, <1>3, <2>1 DEF AskedInv, ShowsWhatWasAsked
<1> QED
  BY <1>4, <1>5

\* The runtime leaves the pages alone, and tells what it has synchronized.
LEMMA RuntimeKeepsAsked == TypeOK /\ TypeOK' /\ AskedInv /\ RuntimeStep => AskedInv'
<1> SUFFICES ASSUME TypeOK, TypeOK', AskedInv, RuntimeStep
             PROVE  AskedInv'
  OBVIOUS
<1>1. edition \in Nat /\ edition' \in Nat /\ edition' >= edition
  BY EditionGrows DEF TypeOK, RuntimeStep
<1>2. told' \in Views
  <2>1. told' = told \/ told' = Seen
    BY DEF RuntimeStep
  <2> HIDE DEF Seen
  <2> QED
    BY <2>1, SeenView DEF AskedInv
<1>3. UNCHANGED <<shown, listing, requests, failed, box>>
  BY DEF RuntimeStep, screen
<1>4. \A c \in Page : shown[c].edition \in Nat
  BY DEF AskedInv, Views
<1>5. \A c \in Page : \A q \in requests[c] : q.seen.edition \in Nat
  BY DEF AskedInv, Request, Views
<1> QED
  BY <1>1, <1>2, <1>3, <1>4, <1>5 DEF AskedInv, ShowsWhatWasAsked

LEMMA AskedStep ==
    TypeOK /\ TypeOK' /\ AskedInv /\ [LiveNext]_liveVars => AskedInv'
<1> SUFFICES ASSUME TypeOK, TypeOK', AskedInv, [LiveNext]_liveVars
             PROVE  AskedInv'
  OBVIOUS
<1>1. CASE UNCHANGED <<screen, box, told, edition>>
  BY <1>1 DEF AskedInv, ShowsWhatWasAsked, screen
<1>2. CASE RuntimeStep
  BY <1>2, RuntimeKeepsAsked
<1>3. ASSUME NEW c \in Page, Load(c) \/ Search(c) PROVE AskedInv'
  BY <1>3, SendKeeps DEF Load, Search, Texts
<1>4. ASSUME NEW c \in Page, Fetch(c) PROVE AskedInv'
  <2>1. box[c] \in Texts /\ box' = [box EXCEPT ![c] = box[c]]
    BY <1>4 DEF Fetch, AskedInv
  <2> QED
    BY <1>4, <2>1, SendKeeps DEF Fetch
<1>5. ASSUME NEW c \in Page, NEW q \in requests[c], Check(c, q) \/ Answer(c, q)
      PROVE  AskedInv'
  <2>1. \E place \in {"checking", "searching", "ready"} : Passes(c, q, [q EXCEPT !.at = place])
    BY <1>5 DEF Check, Answer
  <2> QED
    BY <2>1, PassesKeeps
<1>6. ASSUME NEW c \in Page, NEW q \in requests[c], Display(c, q) \/ FetchFails(c, q)
      PROVE  AskedInv'
  BY <1>6, DisplayKeeps
<1> QED
  BY <1>1, <1>2, <1>3, <1>4, <1>5, <1>6
     DEF LiveNext, liveVars, pages, vars, catalog, PageStep, Connect, Subscribe, Receive, Probe,
         Disconnect, Respond

LEMMA LiveTypes == /\ LiveInit => TypeOK
                   /\ TypeOK /\ [LiveNext]_liveVars => TypeOK'
BY TypeInit, LiveRefines, TypeStep DEF LiveInit

\* However events, responses, failures and typing interleave, a page with no
\* request left whose last one did not fail displays the answer to the very text
\* its box holds (templates/host.html:122-147).
THEOREM PagesShowWhatWasAsked == LiveSpec => []ShowsWhatWasAsked
<1>1. AskedInv => ShowsWhatWasAsked
  BY DEF AskedInv
<1> QED
  BY <1>1, LiveTypes, AskedInit, AskedStep, PTL DEF LiveSpec

\* And what a page displays of the catalog is never replaced by something older
\* (templates/host.html:126-139).
THEOREM PagesNeverGoBack == LiveSpec => NeverGoesBack
<1>1. TypeOK /\ AskedInv /\ [LiveNext]_liveVars
        => [\A c \in Page : shown'[c].edition >= shown[c].edition]_liveVars
  <2> SUFFICES ASSUME TypeOK, AskedInv, LiveNext, NEW d \in Page
               PROVE  shown'[d].edition >= shown[d].edition
    OBVIOUS
  <2>1. shown[d].edition \in Nat
    BY DEF AskedInv, Views
  <2>2. CASE shown' = shown
    BY <2>1, <2>2
  <2>3. ASSUME NEW c \in Page, NEW q \in requests[c], Display(c, q)
        PROVE  shown'[d].edition >= shown[d].edition
    <3>1. shown' = [shown EXCEPT ![c] = q.seen]
      BY <2>3 DEF Display
    <3>2. shown[c].edition <= q.seen.edition /\ q.seen.edition \in Nat
      BY DEF AskedInv, Request, Views
    <3> QED
      BY <2>1, <3>1, <3>2 DEF AskedInv
  <2> QED
    BY <2>2, <2>3
       DEF LiveNext, screen, RuntimeStep, PageStep, Load, Search, Fetch, Respond, Passes, Check,
           Answer, Connect, Subscribe, Receive, Probe, Disconnect, FetchFails
<1> QED
  BY <1>1, LiveTypes, AskedInit, AskedStep, PTL DEF LiveSpec, NeverGoesBack

-----------------------------------------------------------------------------
(***************************************************************************)
(* Searches.                                                               *)
(***************************************************************************)
\* The tables are as new as what was told, or say the same.
Covers(view) == indexed.edition >= view.edition \/ indexed.content = view.content

\* An index that is not stale covers what was told and what requests were
\* promised, and a request that has passed the check is covered already.
TablesInv ==
  /\ loop = "opening" => main = "starting"
  /\ told.edition <= edition
  /\ loop # "opening" /\ indexUp /\ ~syncErr => Covers(told)
  /\ \A c \in Page : \A q \in requests[c] :
        /\ q.at # "ready" => indexUp
        /\ q.floor.edition <= edition
        /\ loop # "opening" /\ indexUp /\ ~syncErr => Covers(q.floor)
        /\ q.at = "searching" => Covers(q.floor)

LEMMA TablesInit == LiveInit => TablesInv
BY DEF LiveInit, Init, TablesInv, Nothing

\* Types of what TablesInv compares.
LEMMA TablesTypes ==
    ASSUME TypeOK, AskedInv
    PROVE  /\ edition \in Nat /\ indexed.edition \in Nat /\ indexed.edition <= edition
           /\ told.edition \in Nat
           /\ \A c \in Page : \A q \in requests[c] : q.floor.edition \in Nat
BY DEF TypeOK, AskedInv, Views, Request

\* A synchronization that ends tells what it has stored, unless it has failed.
LEMMA SyncKeepsTables ==
    ASSUME TypeOK, IndexInv, AskedInv, TablesInv, NEW succeeds \in BOOLEAN,
           Sync(succeeds), loop \in {"opening", "syncing"},
           loop' \in {"scanning", "announcing"}, told' = Seen,
           UNCHANGED <<edition, requests, indexUp>>
    PROVE  TablesInv'
<1>1. /\ edition \in Nat /\ indexed.edition \in Nat /\ indexed.edition <= edition
      /\ \A c \in Page : \A q \in requests[c] : q.floor.edition \in Nat
  BY TablesTypes
<1>2. Seen.edition = edition /\ Seen.content = {content}
  BY SeenView
<1>3. indexed' = Seen \/ indexed' = indexed
  BY DEF Sync, index
<1> HIDE DEF Seen
<1>4. \A view : Covers(view) /\ view.edition \in Nat /\ view.edition <= edition => Covers(view)'
  BY <1>1, <1>2, <1>3 DEF Covers
<1>5. indexUp' /\ ~syncErr' => indexed'.content = told'.content
  BY <1>2, SyncKeeps
<1>6. ASSUME indexUp', ~syncErr', NEW c \in Page, NEW q \in requests[c]
      PROVE  Covers(q.floor)'
  <2>1. indexed' = Seen \/ (indexed' = indexed /\ loop # "opening" /\ indexUp /\ ~syncErr)
    BY <1>6, SyncKeeps
  <2>2. q.floor.edition <= edition /\ q.floor.edition \in Nat
    BY <1>1 DEF TablesInv
  <2> QED
    BY <1>1, <1>2, <2>1, <2>2 DEF TablesInv, Covers
<1> QED
  BY <1>1, <1>2, <1>4, <1>5, <1>6 DEF TablesInv, Covers

\* The runtime tells an edition when a synchronization ends.
LEMMA RuntimeKeepsTables ==
    ASSUME TypeOK, TypeOK', IndexInv, AskedInv, TablesInv, RuntimeStep
    PROVE  TablesInv'
<1>1. requests' = requests
  BY DEF RuntimeStep, screen
<1>2. /\ edition \in Nat /\ edition' \in Nat /\ edition' >= edition /\ told.edition \in Nat
      /\ \A c \in Page : \A q \in requests[c] : q.floor.edition \in Nat
  BY EditionGrows, TablesTypes DEF TypeOK, RuntimeStep
<1>3. ASSUME NEW succeeds \in BOOLEAN, OpenIndex(succeeds) \/ SyncIndex(succeeds)
      PROVE  TablesInv'
  <2>1. /\ Sync(succeeds) /\ loop \in {"opening", "syncing"}
        /\ loop' \in {"scanning", "announcing"}
        /\ edition' = edition /\ indexUp' = indexUp /\ told' = Seen
    BY <1>3 DEF OpenIndex, SyncIndex, RuntimeStep, catalog, Sync, index
  <2> HIDE DEF Seen
  <2> QED
    BY <1>1, <2>1, SyncKeepsTables
<1>4. ASSUME UNCHANGED index, loop # "opening" \/ loop' = loop, loop' # "opening" \/ loop' = loop,
             loop # "syncing" \/ loop' = loop, main' = main \/ loop # "opening"
      PROVE  TablesInv'
  <2>0. ~(loop \in {"opening", "syncing"} /\ loop' # loop)
    BY <1>4
  <2>1. told' = told
    BY <2>0 DEF RuntimeStep
  <2>2. UNCHANGED <<indexed, indexUp, syncErr>>
    BY <1>4 DEF index
  <2>3. loop' = "opening" <=> loop = "opening"
    BY <1>4
  <2> QED
    BY <1>1, <1>2, <1>4, <2>1, <2>2, <2>3 DEF TablesInv, Covers
<1> USE DEF environment, catalog, index, process, rest
<1>5. CASE AgentsChange
  BY <1>4, <1>5 DEF AgentsChange
<1>6. CASE Tick \/ ScanSucceeds \/ ScanFails \/ Broadcast
  BY <1>4, <1>6 DEF Tick, ScanSucceeds, ScanFails, Broadcast, Refreshed
<1>7. ASSUME NEW detected \in Convention, NEW written \in BOOLEAN,
             ObserveSucceeds(detected, written)
      PROVE  TablesInv'
  BY <1>4, <1>7 DEF ObserveSucceeds, Observed, Refreshed
<1>8. ASSUME NEW detected \in Convention, ObserveSaveFails(detected) PROVE TablesInv'
  BY <1>4, <1>8 DEF ObserveSaveFails, Observed, Refreshed
<1>9. CASE ObserveAborts
  BY <1>4, <1>9 DEF ObserveAborts, Refreshed
<1>10. CASE Serve \/ Signal \/ Exit
  BY <1>4, <1>10 DEF Serve, Signal, Exit, TablesInv
<1>11. ASSUME NEW succeeds \in BOOLEAN, Flush(succeeds) PROVE TablesInv'
  BY <1>4, <1>11 DEF Flush
<1> QED
  BY <1>3, <1>5, <1>6, <1>7, <1>8, <1>9, <1>10, <1>11 DEF RuntimeStep, Next, LoopStep

\* A request is promised what was told when it is sent.
LEMMA SendKeepsTables ==
    ASSUME TypeOK, AskedInv, TablesInv, NEW c \in Page, NEW text \in Texts, Send(c, text),
           UNCHANGED <<vars, told>>
    PROVE  TablesInv'
<1> DEFINE q == Sent(text)
<1>1. UNCHANGED <<edition, loop, main, indexUp, syncErr, indexed, told>>
  BY DEF vars, catalog, index, process
<1>2. q.floor = told /\ q.at # "searching" /\ (q.at # "ready" => indexUp)
  BY SentRequest
<1>3. requests' = [requests EXCEPT ![c] = {q}]
  BY DEF Send
<1> HIDE DEF q
<1>4. \A d \in Page : \A r \in requests'[d] : r \in requests[d] \/ r = q
  BY <1>3 DEF AskedInv
<1> QED
  BY <1>1, <1>2, <1>4 DEF TablesInv, Covers

\* Check lets a search go on only when the tables cover what it was promised.
LEMMA RespondKeepsTables ==
    ASSUME TypeOK, AskedInv, TablesInv, NEW c \in Page, NEW q \in requests[c],
           Check(c, q) \/ Answer(c, q) \/ Display(c, q) \/ FetchFails(c, q)
    PROVE  TablesInv'
<1>1. UNCHANGED <<edition, loop, main, indexUp, syncErr, indexed, told>>
  BY DEF Check, Answer, Display, FetchFails, Passes, vars, catalog, index, process
<1>2. CASE requests' = [requests EXCEPT ![c] = requests[c] \ {q}]
  <2>1. \A d \in Page : \A r \in requests'[d] : r \in requests[d]
    BY <1>2 DEF AskedInv
  <2> QED
    BY <1>1, <2>1 DEF TablesInv, Covers
<1>3. ASSUME NEW place \in {"searching", "ready"}, Passes(c, q, [q EXCEPT !.at = place]),
             place = "searching" => q.at = "checking" /\ ~syncErr /\ Served
      PROVE  TablesInv'
  <2> DEFINE later == [q EXCEPT !.at = place]
  <2>1. later.floor = q.floor /\ later.at = place
    BY DEF AskedInv, Request
  <2>2. requests' = [requests EXCEPT ![c] = (requests[c] \ {q}) \cup {later}]
    BY <1>3 DEF Passes
  <2>3. place = "searching" => indexUp /\ Covers(q.floor)
    BY <1>3 DEF TablesInv, Served
  <2> HIDE DEF later
  <2>4. \A d \in Page : \A r \in requests'[d] : r \in requests[d] \/ (r = later /\ d = c)
    BY <2>2 DEF AskedInv
  <2>5. \A d \in Page : \A r \in requests'[d] :
           /\ r.at # "ready" => indexUp
           /\ r.floor.edition <= edition
           /\ loop # "opening" /\ indexUp /\ ~syncErr => Covers(r.floor)
           /\ r.at = "searching" => Covers(r.floor)
    BY <1>3, <2>1, <2>3, <2>4 DEF TablesInv
  <2> QED
    BY <1>1, <2>5 DEF TablesInv, Covers
<1> QED
  BY <1>2, <1>3 DEF Check, Answer, Display, FetchFails

LEMMA TablesStep ==
    /\ TypeOK /\ TypeOK' /\ IndexInv /\ AskedInv /\ TablesInv
    /\ [LiveNext]_liveVars
    => TablesInv'
<1> SUFFICES ASSUME TypeOK, TypeOK', IndexInv, AskedInv, TablesInv, [LiveNext]_liveVars
             PROVE  TablesInv'
  OBVIOUS
<1>1. CASE UNCHANGED <<vars, requests, told>>
  BY <1>1 DEF TablesInv, Covers, vars, catalog, index, process
<1>2. CASE RuntimeStep
  BY <1>2, RuntimeKeepsTables
<1>3. ASSUME NEW c \in Page, Load(c) \/ Search(c) \/ Fetch(c) PROVE TablesInv'
  <2>1. UNCHANGED <<vars, told>> /\ \E text \in Texts : Send(c, text)
    BY <1>3 DEF Load, Search, Fetch, AskedInv, Texts
  <2> QED
    BY <2>1, SendKeepsTables
<1>4. ASSUME NEW c \in Page, NEW q \in requests[c],
             Check(c, q) \/ Answer(c, q) \/ Display(c, q) \/ FetchFails(c, q)
      PROVE  TablesInv'
  BY <1>4, RespondKeepsTables
<1> QED
  BY <1>1, <1>2, <1>3, <1>4
     DEF LiveNext, liveVars, pages, screen, PageStep, Connect, Subscribe, Receive, Probe,
         Disconnect, Respond

\* A search that is not answered by an error is answered from tables at least as
\* new as the last synchronization that had ended when it was asked, or that say
\* the same, whatever synchronizations fail or succeed while it goes on
\* (hostindex/index.go:280, H16).
THEOREM SearchesKeepPromise == LiveSpec => SearchNeverSilentlyOld
<1>1. LiveInit => IndexInv
  BY IndexInit DEF LiveInit
<1>2. TypeOK /\ IndexInv /\ [LiveNext]_liveVars => IndexInv'
  BY LiveRefines, IndexStep
<1>3. TablesInv => [\A c \in Page : \A q \in requests[c] :
                      Answer(c, q) => \/ indexed.edition >= q.floor.edition
                                      \/ indexed.content = q.floor.content]_liveVars
  <2> SUFFICES ASSUME TablesInv, NEW c \in Page, NEW q \in requests[c], Answer(c, q)
               PROVE  Covers(q.floor)
    BY DEF Covers
  <2> QED
    BY DEF TablesInv, Answer
<1> QED
  BY <1>1, <1>2, <1>3, LiveTypes, AskedInit, AskedStep, TablesInit, TablesStep, PTL
     DEF LiveSpec, SearchNeverSilentlyOld
=============================================================================
