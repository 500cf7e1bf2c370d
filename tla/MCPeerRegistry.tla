--------------------------- MODULE MCPeerRegistry ---------------------------
(***************************************************************************)
(* Instances of PeerRegistry for TLC.                                      *)
(***************************************************************************)
EXTENDS PeerRegistry, TLC

CONSTANTS a1, a2, a3    \* addresses

Symmetry == Permutations(Requesters) \cup Permutations(Address \ Requesters)
=============================================================================
