--------------------------- MODULE AgreedIdentity ---------------------------
(***************************************************************************)
(* What host.json promises: a machine has one Host identity.  The first    *)
(* process that is told an identity fixes it; every process told one       *)
(* later, in whatever order processes start and die, is told the same.     *)
(* HostIdentity is shown to implement this.                                *)
(***************************************************************************)
CONSTANTS Process, HostID, NoID

VARIABLES agreed,  \* the identity of this machine, NoID before anyone has one
          held     \* what each running process was told

Init == /\ agreed = NoID
        /\ held = [p \in Process |-> NoID]

\* A process is told the identity; the first one fixes it.
Tell(p) == \E id \in HostID :
    /\ held[p] = NoID
    /\ agreed \in {NoID, id}
    /\ agreed' = id
    /\ held' = [held EXCEPT ![p] = id]

\* A process ends; the identity stays.
Forget(p) ==
    /\ held' = [held EXCEPT ![p] = NoID]
    /\ UNCHANGED agreed

Next == \E p \in Process : Tell(p) \/ Forget(p)

Spec == Init /\ [][Next]_<<agreed, held>>
=============================================================================
