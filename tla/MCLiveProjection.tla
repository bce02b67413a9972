--------------------------- MODULE MCLiveProjection ---------------------------
(***************************************************************************)
(* LiveProjection for TLC, from the moment the catalog agrees with what    *)
(* runs: a process with an index that nobody stops.  The starts, signals   *)
(* and exits left out here are in the runs of HostRuntime; without an      *)
(* index a search is answered like one that finds it stale.                *)
(*                                                                         *)
(* One query is entered only in the place of another: with a single search *)
(* to enter, the two are alike up to then.                                 *)
(***************************************************************************)
EXTENDS LiveProjection

Second == CHOOSE q \in Query : TRUE

MCLiveInit ==
  /\ LiveInit
  /\ running = Agent /\ active = Agent
  /\ convention = CHOOSE x \in Convention : TRUE
  /\ indexUp

MCLiveNext ==
  /\ LiveNext
  /\ main' \in {"starting", "serving"}
  /\ \A c \in Page : box'[c] = Second => box[c] # NoText

MCLiveSpec == MCLiveInit /\ [][MCLiveNext]_liveVars /\ LiveFairness
===============================================================================
