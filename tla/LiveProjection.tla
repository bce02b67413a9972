--------------------------- MODULE LiveProjection ---------------------------
(***************************************************************************)
(* The live pages of internal/web on top of HostRuntime: the Hub that      *)
(* passes on broadcasts, the handler of a GET /events stream, and a        *)
(* browser page that renders once, opens the stream and fetches its        *)
(* fragment again at every "changed" event and when the text of its search *)
(* box changes.                                                            *)
(*                                                                         *)
(* A fetch may fail: the page then keeps what it shows and does not ask    *)
(* again.  Connections may break, and the browser opens a new stream.  The *)
(* text of a search box counts as entered when the debounce has run out;   *)
(* what a search finds is left out, what it is about is not.               *)
(***************************************************************************)
EXTENDS HostRuntime

CONSTANTS
  Page,            \* browser pages
  Query,           \* texts of a search
  MaxMoves         \* bound on broken connections and searches

VARIABLES
  shown,        \* [Page -> what of the catalog the page displays]
  listing,      \* [Page -> the text whose answer it displays]
  box,          \* [Page -> the text in the search box]
  requests,     \* [Page -> requests whose responses the page would display]
  failed,       \* [Page -> edition]: when the last fetch was sent, if it has failed
  stream,       \* [Page -> the place of its events handler]
  digest,       \* [Page -> what of the catalog the handler has a fingerprint of]
  pulse,        \* [Page -> BOOLEAN]: the buffer of its hub channel
  event,        \* [Page -> BOOLEAN]: a "changed" event is on its way
  moves,        \* broken connections and searches so far
  told,         \* history: the catalog at the end of the last Sync
  spent         \* history: the edition of a stream's first fingerprint, and one
                \* for every event emitted since

screen == <<shown, listing, requests, failed>>
streams == <<stream, digest, pulse, event, spent>>
pages == <<screen, box, moves, told, streams>>

ASSUME MovesAssumption == MaxMoves \in Nat

NoText == ""

LiveInit ==
  /\ Init
  /\ shown = [c \in Page |-> Nothing]
  /\ listing = [c \in Page |-> NoText]
  /\ box = [c \in Page |-> NoText]
  /\ requests = [c \in Page |-> {}]
  /\ failed = [c \in Page |-> 0]
  /\ moves = 0
  /\ told = Nothing
  /\ stream = [c \in Page |-> "none"]
  /\ digest = [c \in Page |-> Nothing]
  /\ pulse = [c \in Page |-> FALSE]
  /\ event = [c \in Page |-> FALSE]
  /\ spent = [c \in Page |-> 0]

Served == main \in {"serving", "draining"}

\* What MaxMoves counts: the user's searches, and broken connections.
Moves == moves < MaxMoves /\ moves' = moves + 1

-----------------------------------------------------------------------------
(***************************************************************************)
(* Requests of a page.  The handler reads the catalog and then, for a      *)
(* search, Index.syncErr and the tables; the answer travels back, and any  *)
(* part of this may fail.  A request on its way for long is as if sent     *)
(* late: it reads the catalog when it is sent.                             *)
(***************************************************************************)
\* Without an index a search is answered by an error.
Sent(text) ==
  [at |-> IF text # NoText /\ indexUp THEN "checking" ELSE "ready",
   query |-> text, seen |-> Seen, floor |-> told]

\* Mutant: neither the abort nor the sequence number sorts out old responses.
SendKeeping(c, text) ==
  /\ requests' = [requests EXCEPT ![c] = @ \cup {Sent(text)}]
  /\ failed' = [failed EXCEPT ![c] = 0]

\* refresh aborts the request in flight before it sends the next one.
Send(c, text) ==
  /\ requests' = [requests EXCEPT ![c] = {Sent(text)}]
  /\ failed' = [failed EXCEPT ![c] = 0]

\* The browser asks for the page, with a query in its URL or without.
Load(c) ==
  /\ Served /\ shown[c] = Nothing /\ requests[c] = {}
  /\ \E text \in Query \cup {NoText} :
        /\ box' = [box EXCEPT ![c] = text]
        /\ Send(c, text)
  /\ UNCHANGED <<vars, shown, listing, moves, told, streams>>

\* The user enters, submits or clears a text.
Search(c) ==
  /\ Served /\ shown[c] # Nothing
  /\ Moves
  /\ \E text \in Query \cup {NoText} :
        /\ box' = [box EXCEPT ![c] = text]
        /\ Send(c, text)
  /\ UNCHANGED <<vars, shown, listing, told, streams>>

\* Mutant: the page asks again for what it displays, not for what the box says.
FetchDisplayed(c) ==
  /\ Served /\ event[c]
  /\ event' = [event EXCEPT ![c] = FALSE]
  /\ Send(c, listing[c])
  /\ UNCHANGED <<vars, shown, listing, box, moves, told>>
  /\ UNCHANGED <<stream, digest, pulse, spent>>

\* The page fetches its fragment after an event.
Fetch(c) ==
  /\ Served /\ event[c]
  /\ event' = [event EXCEPT ![c] = FALSE]
  /\ Send(c, box[c])
  /\ UNCHANGED <<vars, shown, listing, box, moves, told>>
  /\ UNCHANGED <<stream, digest, pulse, spent>>

\* A request goes on; nothing else changes.
Passes(c, q, later) ==
  /\ requests' = [requests EXCEPT ![c] = (@ \ {q}) \cup {later}]
  /\ UNCHANGED <<vars, shown, listing, failed, box, moves, told, streams>>

\* Mutant: the tables are searched whatever the last Sync said.
CheckNothing(c, q) ==
  /\ Served /\ q.at = "checking"
  /\ Passes(c, q, [q EXCEPT !.at = "searching"])

\* SearchRepositoryIDs answers with an error when the index is stale; otherwise
\* it unlocks the index before it queries the tables.
Check(c, q) ==
  /\ Served /\ q.at = "checking"
  /\ Passes(c, q, [q EXCEPT !.at = IF syncErr THEN "ready" ELSE "searching"])

\* The tables are read.
Answer(c, q) ==
  /\ Served /\ q.at = "searching"
  /\ Passes(c, q, [q EXCEPT !.at = "ready"])

\* The response arrives whole, and the page displays it.
Display(c, q) ==
  /\ Served /\ q.at = "ready"
  /\ requests' = [requests EXCEPT ![c] = @ \ {q}]
  /\ shown' = [shown EXCEPT ![c] = q.seen]
  /\ listing' = [listing EXCEPT ![c] = q.query]
  /\ UNCHANGED <<vars, failed, box, moves, told, streams>>

\* The request fails, on its way or with its answer: what the page displays
\* stays, and nothing is sent again.
FetchFails(c, q) ==
  /\ Served
  /\ requests' = [requests EXCEPT ![c] = @ \ {q}]
  /\ failed' = [failed EXCEPT ![c] = q.seen.edition]
  /\ UNCHANGED <<vars, shown, listing, box, moves, told, streams>>

Respond(c) ==
  \E q \in requests[c] : Check(c, q) \/ Answer(c, q) \/ Display(c, q)

-----------------------------------------------------------------------------
(***************************************************************************)
(* Streams.                                                                *)
(***************************************************************************)
\* HostServer.events takes its first fingerprint before it subscribes.
Connect(c) ==
  /\ Served /\ shown[c] # Nothing /\ stream[c] = "none"
  /\ stream' = [stream EXCEPT ![c] = "baseline"]
  /\ digest' = [digest EXCEPT ![c] = Seen]
  /\ spent' = [spent EXCEPT ![c] = edition]
  /\ UNCHANGED <<vars, screen, box, moves, told, pulse, event>>

Subscribe(c) ==
  /\ Served /\ stream[c] = "baseline"
  /\ stream' = [stream EXCEPT ![c] = "open"]
  /\ UNCHANGED <<vars, screen, box, moves, told, digest, pulse, event, spent>>

\* Mutant: every pulse is passed on to the browser.
EmitAlways(c) ==
  /\ digest' = [digest EXCEPT ![c] = Seen]
  /\ event' = [event EXCEPT ![c] = TRUE]
  /\ spent' = [spent EXCEPT ![c] = @ + 1]

\* Fingerprints of the content are compared: a change that was undone before
\* the handler looked is none.
Differs(c) == digest[c].content # {content}

EmitIfChanged(c) ==
  IF ~Differs(c) THEN UNCHANGED <<digest, event, spent>>
  ELSE /\ digest' = [digest EXCEPT ![c] = Seen]
       /\ event' = [event EXCEPT ![c] = TRUE]
       /\ spent' = [spent EXCEPT ![c] = @ + 1]

\* The handler takes the pulse out of its channel.
Receive(c) ==
  /\ Served /\ stream[c] = "open" /\ pulse[c]
  /\ pulse' = [pulse EXCEPT ![c] = FALSE]
  /\ EmitIfChanged(c)
  /\ UNCHANGED <<vars, screen, box, moves, told, stream>>

\* Mutant: the handler waits for pulses only.
NoProbe(c) == FALSE

\* The handler's one-second ticker.
Probe(c) ==
  /\ Served /\ stream[c] = "open" /\ Differs(c)
  /\ EmitIfChanged(c)
  /\ UNCHANGED <<vars, screen, box, moves, told, stream, pulse>>

\* The connection breaks: the handler unsubscribes, an event may be lost.
Disconnect(c) ==
  /\ Served /\ stream[c] # "none"
  /\ Moves
  /\ stream' = [stream EXCEPT ![c] = "none"]
  /\ pulse' = [pulse EXCEPT ![c] = FALSE]
  /\ \E arrives \in BOOLEAN : event' = [event EXCEPT ![c] = @ /\ arrives]
  /\ digest' = [digest EXCEPT ![c] = Nothing] /\ spent' = [spent EXCEPT ![c] = 0]
  /\ UNCHANGED <<vars, screen, box, told>>

\* Hub.Broadcast never waits: a channel that is full keeps its one pulse.
HubBroadcast ==
  pulse' = [c \in Page |-> pulse[c] \/ stream[c] = "open"]

RuntimeStep ==
  /\ Next
  /\ IF main # "exited" /\ Broadcast THEN HubBroadcast ELSE UNCHANGED pulse
  /\ told' = IF loop \in {"opening", "syncing"} /\ loop' # loop THEN Seen ELSE told
  /\ UNCHANGED <<screen, box, moves, stream, digest, event, spent>>

PageStep(c) ==
  \/ Load(c) \/ Search(c) \/ Respond(c)
  \/ Connect(c) \/ Subscribe(c) \/ Receive(c) \/ Probe(c) \/ Fetch(c)

LiveNext ==
  \/ RuntimeStep
  \/ \E c \in Page : \/ PageStep(c) \/ Disconnect(c)
                     \/ \E q \in requests[c] : FetchFails(c, q)

liveVars == <<vars, pages>>

\* Handlers and pages go on; a ticker that can fire fires.
LiveFairness ==
  \A c \in Page : /\ WF_liveVars(Subscribe(c)) /\ WF_liveVars(Probe(c))
                  /\ WF_liveVars(Fetch(c)) /\ WF_liveVars(Respond(c))

LiveSpec == LiveInit /\ [][LiveNext]_liveVars /\ LiveFairness

-----------------------------------------------------------------------------
\* H16: "unchanged LastSeenAt heartbeats never create repeated fragment
\* requests": a stream emits no more events than the catalog has had material
\* changes since the stream's first fingerprint.
EventsOnlyForChanges ==
  \A c \in Page : stream[c] # "none" => spent[c] <= edition

\* Every material change reaches a page whose stream is there, also one
\* announced before the handler subscribed and one whose pulse found the channel
\* full.  H16 lets a fetch fail: then the page has asked for it, after the change.
\* And a change that was undone before the handler looked is not reported.  One
\* agent the catalog knows makes MaxTurmoil changes at most.
ChangeReachesPage ==
  \A c \in Page, e \in 2..(MaxTurmoil + 1) :
     stream[c] # "none" /\ edition = e /\ Differs(c)
       ~> \/ shown[c].edition >= e \/ failed[c] >= e
          \/ digest[c].edition < e /\ ~Differs(c)
          \/ stream[c] = "none" \/ main = "exited"

\* H16: an index "marks itself stale instead of silently serving the previous
\* snapshot": a search is answered from tables at least as new as the last
\* synchronization that had ended when it was asked, or equal to what it stored.
SearchNeverSilentlyOld ==
  [][\A c \in Page : \A q \in requests[c] :
       Answer(c, q) => \/ indexed.edition >= q.floor.edition
                       \/ indexed.content = q.floor.content]_liveVars

\* H16: the page "cancels obsolete requests instead of rendering responses out of
\* order": with no request left, unless the last one failed, it displays the
\* answer to the very text its box holds.
ShowsWhatWasAsked ==
  \A c \in Page : requests[c] = {} /\ shown[c] # Nothing /\ failed[c] = 0
                     => listing[c] = box[c]

\* And what it displays of the catalog is never older than what it displayed,
\* however responses, failures, events and searches interleave.
NeverGoesBack ==
  [][\A c \in Page : shown'[c].edition >= shown[c].edition]_liveVars

\* H16: "material state change -> SSE changed -> fetch HTML fragment": a page
\* whose stream stays open, and whose fetches do not fail, always comes back to
\* what the catalog says.
PageCatchesUp ==
  \A c \in Page : <>[](stream[c] = "open" /\ main # "exited" /\ failed[c] = 0)
                     => []<>(shown[c].content = {content})
==============================================================================
