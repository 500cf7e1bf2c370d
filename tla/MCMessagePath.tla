--------------------------- MODULE MCMessagePath ---------------------------
(***************************************************************************)
(* An instance of MessagePath for TLC.  With an m_mtu of 508, messages 1   *)
(* to 3 are split and message 4 is refused; with one of 1024, message 4    *)
(* and one of the others fill a datagram, two of the others do not fit     *)
(* together.                                                               *)
(***************************************************************************)
EXTENDS MessagePath, TLC

CONSTANTS t1, t2

Threads == {t1, t2}
M(id, size, method) == [id |-> id, size |-> size, method |-> method]
Long(id, method) == M(id, 506, method)
Short == M(4, 508, "UNRELIABLE")
TwoChannels ==
    (t1 :> <<Long(1, "RELIABLE_ORDERED"), Long(2, "RELIABLE_ORDERED")>>) @@
    (t2 :> <<Long(3, "RELIABLE_UNORDERED")>>)
OneChannel ==
    (t1 :> <<Long(1, "RELIABLE_ORDERED")>>) @@ (t2 :> <<Long(3, "RELIABLE_ORDERED"), Short>>)
BothChannels == {TwoChannels, OneChannel}
Mtus == <<508, 1024>>
=============================================================================
