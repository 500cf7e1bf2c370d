---------------------------- MODULE MCConnection ----------------------------
(***************************************************************************)
(* Instances of Connection for TLC.                                        *)
(***************************************************************************)
EXTENDS Connection

CONSTANTS a, b    \* the two managers

Managers == {a, b}

\* A client that connects, disconnects and connects again.
Reconnecting ==
    [callers |-> {a}, connects |-> 2, disconnects |-> 1, restarts |-> 0,
     rejects |-> FALSE, sends |-> FALSE]

\* One whose process, or the server's, may be restarted.
ClientAndServer == [Reconnecting EXCEPT !.restarts = 1]

\* One that the server may reject.
Rejected == [ClientAndServer EXCEPT !.disconnects = 0, !.rejects = TRUE]

\* One that sends messages and gets some.
Talking == [Reconnecting EXCEPT !.disconnects = 0, !.sends = TRUE]

\* Both connect to each other.
PeerToPeer == [Reconnecting EXCEPT !.callers = {a, b}, !.disconnects = 0]

Sessions == {ClientAndServer, Rejected, Talking, PeerToPeer}
Reconnections == {Reconnecting}
=============================================================================
