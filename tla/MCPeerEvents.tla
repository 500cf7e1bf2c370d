---------------------------- MODULE MCPeerEvents ----------------------------
(***************************************************************************)
(* An instance of PeerEvents for TLC: one thread of the application polls, *)
(* another one only calls.                                                 *)
(***************************************************************************)
EXTENDS PeerEvents

CONSTANTS polls, works, receives, updates    \* the threads

Users == {polls, works}
=============================================================================
