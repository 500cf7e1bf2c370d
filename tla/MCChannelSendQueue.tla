------------------------ MODULE MCChannelSendQueue ------------------------
(***************************************************************************)
(* Instances of ChannelSendQueue for TLC.                                  *)
(***************************************************************************)
EXTENDS ChannelSendQueue, TLC

CONSTANTS c1, c2            \* two channels
CONSTANTS OnFirst, OnSecond \* how many messages are sent on each

Channels == {c1, c2}
Messages == (c1 :> OnFirst) @@ (c2 :> OnSecond)
=============================================================================
