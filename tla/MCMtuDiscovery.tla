-------------------------- MODULE MCMtuDiscovery ---------------------------
(***************************************************************************)
(* An instance of MtuDiscovery for TLC, with three of the seven sizes.     *)
(***************************************************************************)
EXTENDS MtuDiscovery

CONSTANTS a, b    \* the two ends

Ends == {a, b}
Mtus == <<508, 1024, 1432>>
=============================================================================
