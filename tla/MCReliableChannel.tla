------------------------ MODULE MCReliableChannel ------------------------
(***************************************************************************)
(* Instances of ReliableChannel for TLC.                                   *)
(***************************************************************************)
EXTENDS ReliableChannel, TLC

CONSTANTS a, b            \* the two ends
CONSTANTS FromA, FromB    \* how many messages each end sends

Ends == {a, b}
Messages == (a :> FromA) @@ (b :> FromB)
=============================================================================
