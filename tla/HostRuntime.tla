----------------------------- MODULE HostRuntime -----------------------------
(***************************************************************************)
(* One life of a `specview serve` process: the refresh loop of             *)
(* hoststate.Runtime, the catalog it updates, the SQLite index its         *)
(* onChange callback synchronizes, and the main goroutine that starts,     *)
(* serves and stops.                                                       *)
(*                                                                         *)
(* HostCatalog models the catalog's content; here it is reduced to what    *)
(* the fingerprints of readers tell apart: which sessions are active, when *)
(* the others ended, and the specification convention.  A change may be    *)
(* undone, so the content may be one it was before; the edition only       *)
(* counts the material changes.  A refresh is not atomic: the scan, the    *)
(* observation, the index and the broadcast are steps, and the main        *)
(* goroutine, the agents and the HTTP handlers run between them.           *)
(***************************************************************************)
EXTENDS Naturals

CONSTANTS
  Agent,        \* logical executions, each with the processes it has
  Convention,   \* specification conventions a directory may show
  MaxTurmoil    \* bound on the events that may change what a scan sees

VARIABLES
  running,      \* executions that run on the host
  gone,         \* executions that ran and stopped: their processes never return
  turmoil,      \* how many of the MaxTurmoil events have happened
  active,       \* the active sessions of the catalog in memory
  ended,        \* [Agent -> edition]: EndedAt of the others, 0 without
  convention,   \* what was detected last in their repository
  edition,      \* how often the catalog's content has changed, from 1
  pending,      \* what is due for catalog.json: materialDirty, or else heartbeatDirty
  indexUp,      \* hostindex.Open succeeded
  indexed,      \* what the SQLite tables hold
  fingerprint,  \* Index.fingerprint: the content of the last good Sync
  syncErr,      \* Index.syncErr
  loop,         \* where the refresh loop is
  found,        \* the sessions of the scan in progress
  refreshed,    \* how the last refresh ended, until the next begins
  cancelled,    \* the signal context is done
  main,         \* where the main goroutine is
  announced     \* history: the content the last onChange was called for

catalog == <<active, ended, convention, edition, pending>>
index == <<indexUp, indexed, fingerprint, syncErr>>
environment == <<running, gone, turmoil>>
process == <<cancelled, main>>
rest == <<refreshed, announced>>
vars == <<environment, catalog, index, loop, found, rest, process>>

ASSUME TurmoilAssumption == MaxTurmoil \in Nat

\* What materialFingerprint and snapshotFingerprint hash: no LastSeenAt.
content == [active |-> active, ended |-> ended, convention |-> convention]

\* What a reader has of the catalog: its content, and the edition it was in
\* when it was read.  A set, because a reader may have nothing yet: the tables
\* may be an earlier process's, and the fingerprint of a new Index is empty.
Seen == [edition |-> edition, content |-> {content}]
Nothing == [edition |-> 0, content |-> {}]

Init ==
  /\ running \in SUBSET Agent /\ gone = {}
  /\ active \in SUBSET Agent
  /\ ended = [a \in Agent |-> 0] /\ convention \in Convention
  /\ turmoil = 0
  /\ edition = 1 /\ pending = "none"
  /\ indexUp \in BOOLEAN
  /\ indexed = Nothing /\ fingerprint = {} /\ syncErr = FALSE
  /\ loop = "opening" /\ found = {}
  /\ refreshed = "none" /\ announced = {content}
  /\ cancelled = FALSE /\ main = "starting"

-----------------------------------------------------------------------------
(***************************************************************************)
(* The environment: agents start and stop.                                 *)
(***************************************************************************)
AgentsChange ==
  /\ turmoil < MaxTurmoil
  /\ turmoil' = turmoil + 1
  /\ \E set \in SUBSET (Agent \ gone) \ {running} : running' = set
  /\ gone' = gone \cup (running \ running')
  /\ UNCHANGED <<catalog, index, loop, found, rest, process>>

-----------------------------------------------------------------------------
(***************************************************************************)
(* Index.Sync.  The tables change in one transaction, or not at all.       *)
(***************************************************************************)
\* Mutant: the error of a failed synchronization is not kept.
SyncForgettingErrors(succeeds) ==
  IF ~indexUp \/ (fingerprint = {content} /\ ~syncErr)
  THEN UNCHANGED index
  ELSE /\ indexed' = IF succeeds THEN Seen ELSE indexed
       /\ fingerprint' = {content}
       /\ syncErr' = FALSE
       /\ UNCHANGED indexUp

Sync(succeeds) ==
  IF ~indexUp \/ (fingerprint = {content} /\ ~syncErr)
  THEN UNCHANGED index
  ELSE /\ indexed' = IF succeeds THEN Seen ELSE indexed
       /\ fingerprint' = IF succeeds THEN {content} ELSE fingerprint
       /\ syncErr' = ~succeeds
       /\ UNCHANGED indexUp

\* serve synchronizes the index with the catalog it opened, then refreshes.
OpenIndex(succeeds) ==
  /\ loop = "opening"
  /\ Sync(succeeds)
  /\ loop' = "scanning"
  /\ UNCHANGED <<environment, catalog, found, rest, process>>

-----------------------------------------------------------------------------
(***************************************************************************)
(* Runtime.Refresh.                                                        *)
(***************************************************************************)
\* Run's ticker has fired; after a cancellation select may still choose it.
Tick ==
  /\ loop = "waiting" /\ main \in {"serving", "draining"}
  /\ loop' = "scanning" /\ refreshed' = "none"
  /\ UNCHANGED <<environment, catalog, index, found, announced, process>>

\* An adapter that fails hides its sessions; without any session left that is
\* an error of the scan.
ScanSucceeds ==
  /\ loop = "scanning"
  /\ loop' = "observing"
  /\ \/ found' = running /\ UNCHANGED turmoil
     \/ /\ turmoil < MaxTurmoil
        /\ turmoil' = turmoil + 1
        /\ \E seen \in SUBSET running \ {running, {}} : found' = seen
  /\ UNCHANGED <<running, gone, catalog, index, rest, process>>

\* Where the loop goes after a refresh: the first one is serve's own.
Refreshed(how) ==
  /\ loop' = "waiting" /\ refreshed' = how
  /\ found' = {}

ScanFails ==
  /\ loop = "scanning"
  /\ Refreshed("failed")
  /\ UNCHANGED <<environment, catalog, index, announced, process>>

\* Mutant: only this observation's own material change is written.
PendingAfterThisOnly(material) ==
  IF material THEN "material" ELSE IF found # {} THEN "heartbeat" ELSE "none"

\* finishObservationLocked: what is due for writing once the observation is
\* noted; whether the heartbeat interval has passed is left open.
PendingAfter(material) ==
  IF material \/ pending = "material" THEN "material"
  ELSE IF found # {} THEN "heartbeat" ELSE pending

\* Mutant: live sessions alone are no reason to call onChange.
AnnouncesMaterial(changed) == changed

\* broadcastChange calls onChange unless nothing changed and nobody is there.
Announces(changed) == changed \/ found # {}

\* Lifecycle changes, and what is detected in a repository with sessions.
Material(detected) == active # found \/ detected # convention

\* A session that is found again is the one it was; one that is missing ends
\* now, at a time no other refresh has.
Observed(detected) ==
  /\ loop = "observing"
  /\ detected # convention => found # {} /\ turmoil < MaxTurmoil
  /\ turmoil' = IF detected # convention THEN turmoil + 1 ELSE turmoil
  /\ active' = found /\ convention' = detected
  /\ ended' = [a \in Agent |-> IF a \in found THEN 0
                               ELSE IF a \in active THEN edition + 1 ELSE ended[a]]
  /\ edition' = IF Material(detected) THEN edition + 1 ELSE edition
  /\ UNCHANGED <<running, gone, index, process>>

\* The observation succeeds, after a write (written) or with none due.
ObserveSucceeds(detected, written) ==
  LET material == Material(detected)
  IN /\ Observed(detected)
     /\ ~written => PendingAfter(material) # "material"
     /\ written => PendingAfter(material) # "none"
     /\ pending' = IF written THEN "none" ELSE PendingAfter(material)
     /\ IF Announces(material)
        THEN /\ loop' = "syncing"
             /\ announced' = {content'}
             /\ UNCHANGED <<found, refreshed>>
        ELSE /\ Refreshed("ok")
             /\ UNCHANGED announced

\* The write fails: Refresh returns the error before it reaches onChange.
ObserveSaveFails(detected) ==
  /\ Observed(detected)
  /\ PendingAfter(Material(detected)) # "none"
  /\ pending' = PendingAfter(Material(detected))
  /\ Refreshed("failed")
  /\ UNCHANGED announced

\* Two repository records share a directory: the observation stops there, after
\* some sessions, with no flag set.
ObserveAborts ==
  /\ loop = "observing" /\ found # {}
  /\ turmoil < MaxTurmoil
  /\ turmoil' = turmoil + 1
  /\ \E handled \in SUBSET found \ {found} :
        /\ active' = active \cup handled
        /\ ended' = [a \in Agent |-> IF a \in handled THEN 0 ELSE ended[a]]
        /\ edition' = IF handled \subseteq active THEN edition ELSE edition + 1
  /\ Refreshed("failed")
  /\ UNCHANGED <<running, gone, convention, pending, index, announced, process>>

\* The onChange callback of serve: first the index, then hub.Broadcast.
SyncIndex(succeeds) ==
  /\ loop = "syncing"
  /\ Sync(succeeds)
  /\ loop' = "announcing"
  /\ UNCHANGED <<environment, catalog, found, rest, process>>

Broadcast ==
  /\ loop = "announcing"
  /\ Refreshed("ok")
  /\ UNCHANGED <<environment, catalog, index, announced, process>>

-----------------------------------------------------------------------------
(***************************************************************************)
(* The main goroutine.  It refreshes once before it serves; until then a   *)
(* signal kills the process.  When it returns, the process ends with it,   *)
(* whatever the other goroutines are doing.                                *)
(***************************************************************************)
Serve ==
  /\ main = "starting" /\ loop = "waiting"
  /\ main' = "serving"
  /\ UNCHANGED <<environment, catalog, index, loop, found, rest, cancelled>>

\* Mutant: the signal context exists before the first refresh.
SignalWhileStarting ==
  /\ main \in {"starting", "serving"}
  /\ cancelled' = TRUE
  /\ main' = IF main = "starting" THEN "starting" ELSE "draining"
  /\ UNCHANGED <<environment, catalog, index, loop, found, rest>>

Signal ==
  /\ main = "serving"
  /\ cancelled' = TRUE /\ main' = "draining"
  /\ UNCHANGED <<environment, catalog, index, loop, found, rest>>

\* server.Shutdown has returned, or ListenAndServe has failed.
Exit ==
  /\ main \in {"serving", "draining"}
  /\ main' = "exited"
  /\ UNCHANGED <<environment, catalog, index, loop, found, rest, cancelled>>

\* Run returns: its deferred Flush writes what is pending, or fails to.
Flush(succeeds) ==
  /\ loop = "waiting" /\ cancelled /\ main # "exited"
  /\ loop' = "returned"
  /\ pending' = IF succeeds THEN "none" ELSE pending
  /\ refreshed' = IF succeeds THEN "flushed" ELSE "flush_failed"
  /\ UNCHANGED <<environment, active, ended, convention, edition>>
  /\ UNCHANGED <<index, found, announced, process>>

-----------------------------------------------------------------------------
LoopStep ==
  /\ main # "exited"
  /\ \/ \E succeeds \in BOOLEAN : OpenIndex(succeeds) \/ SyncIndex(succeeds)
     \/ Tick
     \/ ScanSucceeds \/ ScanFails
     \/ \E detected \in Convention :
          \/ \E written \in BOOLEAN : ObserveSucceeds(detected, written)
          \/ ObserveSaveFails(detected)
     \/ ObserveAborts
     \/ Broadcast

Next ==
  \/ main # "exited" /\ AgentsChange
  \/ LoopStep
  \/ Serve \/ Signal \/ Exit
  \/ \E succeeds \in BOOLEAN : Flush(succeeds)

(***************************************************************************)
(* The loop goes on: a goroutine that can run does, and its ticker fires.  *)
(* Scans, writes and synchronizations that are tried for ever succeed      *)
(* sooner or later.  Nothing forces a signal or an agent.                  *)
(***************************************************************************)
Fairness ==
  /\ WF_vars(LoopStep) /\ WF_vars(Serve)
  /\ SF_vars(main # "exited" /\ ScanSucceeds)
  /\ SF_vars(main # "exited"
               /\ \E d \in Convention, w \in BOOLEAN : ObserveSucceeds(d, w))
  /\ SF_vars(main # "exited" /\ SyncIndex(TRUE))

Spec == Init /\ [][Next]_vars /\ Fairness

-----------------------------------------------------------------------------
(***************************************************************************)
(* Properties.                                                             *)
(***************************************************************************)
Contents ==
  [active: SUBSET Agent, ended: [Agent -> Nat], convention: Convention]

\* Types, and what the loop's place says: an edition is indexed only after it
\* existed, an active session has not ended, what stopped does not run,
\* a scan result is held only during a refresh, and until the server serves
\* nothing cancels it.
TypeOK ==
  /\ running \subseteq Agent \ gone /\ gone \subseteq Agent
  /\ content \in Contents /\ found \subseteq Agent
  /\ \A a \in active : ended[a] = 0
  /\ turmoil \in 0..MaxTurmoil
  /\ edition \in Nat \ {0}
  /\ \A a \in Agent : ended[a] \in 0..edition
  /\ announced \subseteq Contents /\ fingerprint \subseteq Contents
  /\ pending \in {"none", "heartbeat", "material"}
  /\ indexUp \in BOOLEAN /\ syncErr \in BOOLEAN /\ cancelled \in BOOLEAN
  /\ indexed \in [edition: 0..edition, content: SUBSET Contents]
  /\ loop \in {"opening", "scanning", "observing", "syncing", "announcing",
               "waiting", "returned"}
  /\ found # {} => loop \in {"observing", "syncing", "announcing"}
  /\ refreshed \in {"none", "ok", "failed", "flushed", "flush_failed"}
  /\ main \in {"starting", "serving", "draining", "exited"}
  /\ main = "starting" => ~cancelled

\* H16, failure semantics: between refreshes an index that does not report
\* itself stale holds the content it was last told to synchronize, and never
\* one an earlier process left; in particular a failed Sync is never forgotten.
SearchNotBehindAnnouncement ==
  loop = "waiting" /\ indexUp /\ ~syncErr => indexed.content = announced

\* A material change whose write failed is written later (finishObservation
\* writes while materialDirty holds), unless the process ends first.
MaterialChangeSaved ==
  pending = "material" ~> pending = "none" \/ cancelled \/ main = "exited"

\* As long as some agent runs, the index comes back to the catalog again and
\* again, after failed writes, aborted observations and failed syncs alike.
IndexCatchesUp ==
  [](running # {} /\ indexUp /\ main # "exited" /\ ~cancelled)
     => []<>(indexed.content = {content})

\* H16: "the index is synchronized from the in-memory host catalog" and marks
\* itself stale "instead of silently serving the previous snapshot": after a
\* refresh without an error the index is stale or holds the catalog's content.
IndexCurrent ==
  loop = "waiting" /\ refreshed = "ok" /\ indexUp /\ ~syncErr
    => indexed.content = {content}

\* ADR-014: "graceful Host runtime shutdown flushes any pending heartbeat
\* state": a process that a signal stopped has tried to flush before it ended.
ShutdownFlushes ==
  main = "exited" /\ cancelled /\ pending = "heartbeat" => refreshed = "flush_failed"
==============================================================================
