---------------------------- MODULE HostIdentity ----------------------------
(***************************************************************************)
(* identity.LoadOrCreateHost: the processes of one machine ("specview      *)
(* serve", "specview mcp", the federation commands) agree on a Host ID     *)
(* through host.json.  The file is created exclusively and written         *)
(* afterwards; a kill between the two leaves it empty.                     *)
(***************************************************************************)
EXTENDS Naturals

CONSTANTS Process,   \* processes that ask for the identity when they start
          HostID,    \* the IDs newHostID can draw
          NoID       \* no ID: a process that was told none

Absent == "absent"   \* there is no host.json
Empty  == "empty"    \* host.json was created and is not written yet

\* The drawn IDs are none of the other contents of the file.
ASSUME IdentityAssumption ==
    /\ NoID \notin HostID
    /\ Absent \notin HostID
    /\ Empty \notin HostID

VARIABLES hostFile,  \* what host.json holds
          start,     \* where each process is in its start
          drawn,     \* the ID a process has drawn
          held,      \* the ID a running process was told
          kills      \* kills left

identityVars == <<hostFile, start, drawn, held, kills>>

Starts == {"off", "look", "create", "write", "reload", "up"}

IdentityInit ==
    /\ hostFile = Absent
    /\ start = [p \in Process |-> "off"]
    /\ drawn = [p \in Process |-> NoID]
    /\ held = [p \in Process |-> NoID]
    /\ kills \in Nat

\* The process ends: with an error, by itself or by a kill.
Stopped(p) ==
    /\ start' = [start EXCEPT ![p] = "off"]
    /\ drawn' = [drawn EXCEPT ![p] = NoID]
    /\ held' = [held EXCEPT ![p] = NoID]

GoTo(p, where) == start' = [start EXCEPT ![p] = where]

\* The identity is returned to the process.
Told(p, id) ==
    /\ GoTo(p, "up")
    /\ held' = [held EXCEPT ![p] = id]
    /\ drawn' = [drawn EXCEPT ![p] = NoID]

\* LoadHost: an unwritten file does not decode, and the process ends.
LoadHost(p) ==
    \/ /\ hostFile \in HostID
       /\ Told(p, hostFile)
    \/ /\ hostFile \notin HostID
       /\ Stopped(p)

Launch(p) ==
    /\ start[p] = "off"
    /\ GoTo(p, "look")
    /\ UNCHANGED <<hostFile, drawn, held, kills>>

\* The first LoadHost: only a missing file goes on, with a new ID.
Look(p) ==
    /\ start[p] = "look"
    /\ \/ /\ hostFile = Absent
          /\ GoTo(p, "create")
          /\ \E id \in HostID : drawn' = [drawn EXCEPT ![p] = id]
          /\ UNCHANGED held
       \/ /\ hostFile # Absent
          /\ LoadHost(p)
    /\ UNCHANGED <<hostFile, kills>>

\* Mutant: the file is created without O_EXCL.
CreateAnyway(p) ==
    /\ start[p] = "create"
    /\ hostFile' = Empty
    /\ GoTo(p, "write")
    /\ UNCHANGED <<drawn, held, kills>>

\* OpenFile with O_EXCL: one process creates the file, the others load it.
Create(p) ==
    /\ start[p] = "create"
    /\ \/ /\ hostFile = Absent
          /\ hostFile' = Empty
          /\ GoTo(p, "write")
       \/ /\ hostFile # Absent
          /\ GoTo(p, "reload")
          /\ UNCHANGED hostFile
    /\ UNCHANGED <<drawn, held, kills>>

\* Mutant: a process that loses the race keeps the ID it has drawn.
ReloadDrawn(p) ==
    /\ start[p] = "reload"
    /\ Told(p, drawn[p])
    /\ UNCHANGED <<hostFile, kills>>

Reload(p) ==
    /\ start[p] = "reload"
    /\ LoadHost(p)
    /\ UNCHANGED <<hostFile, kills>>

\* Encode and Close, by the process that created the file.
WriteHost(p) ==
    /\ start[p] = "write"
    /\ hostFile' = drawn[p]
    /\ Told(p, drawn[p])
    /\ UNCHANGED kills

\* A kill, an exit or a failed Encode, at most kills times: between Create and
\* WriteHost it leaves an incomplete host.json for ever.
Kill(p) ==
    /\ kills > 0
    /\ start[p] # "off"
    /\ Stopped(p)
    /\ kills' = kills - 1
    /\ UNCHANGED hostFile

IdentityStep(p) == Launch(p) \/ Look(p) \/ Create(p) \/ Reload(p) \/ WriteHost(p)

IdentityNext == \E p \in Process : IdentityStep(p) \/ Kill(p)

IdentitySpec == IdentityInit /\ [][IdentityNext]_identityVars

IdentityTypeOK ==
    /\ hostFile \in HostID \union {Absent, Empty}
    /\ start \in [Process -> Starts]
    /\ drawn \in [Process -> HostID \union {NoID}]
    /\ held \in [Process -> HostID \union {NoID}]
    /\ kills \in Nat

\* Only the process that created host.json writes it, and it is alone.
OneWriter ==
    /\ \A p \in Process : start[p] \in {"create", "write"} => drawn[p] \in HostID
    /\ \A p \in Process : start[p] = "write" => hostFile = Empty
    /\ \A p, q \in Process : start[p] = "write" /\ start[q] = "write" => p = q

\* Every process that runs holds the ID that is in host.json, whichever of
\* them created it and whatever was killed on the way: two processes of one
\* machine never publish two Host IDs (identity/host.go:48).
OneHostIdentity == \A p \in Process : held[p] # NoID => held[p] = hostFile

\* host.json implements the agreement, its content being what was agreed.
Agreement == INSTANCE AgreedIdentity
    WITH agreed <- IF hostFile \in HostID THEN hostFile ELSE NoID

ImplementsAgreement == Agreement!Spec
=============================================================================
