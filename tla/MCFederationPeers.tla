--------------------------- MODULE MCFederationPeers ---------------------------
(***************************************************************************)
(* Small instances of FederationPeers: serve finds no peer, or every name  *)
(* with the first host.                                                    *)
(***************************************************************************)
EXTENDS FederationPeers

MCFirstRegistry == {<<>>, [n \in Name |-> "h"]}
MCOneRegistry == {[n \in Name |-> "h"]}
=============================================================================
