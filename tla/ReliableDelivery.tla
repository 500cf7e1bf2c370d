-------------------------- MODULE ReliableDelivery --------------------------
(***************************************************************************)
(* What a reliable channel promises the two applications it connects.     *)
(* The k-th message an application submits is the number k-1.  Messages    *)
(* come out at the other end without duplication or invention; if the      *)
(* channel is ordered they come out in the order of submission.            *)
(***************************************************************************)
EXTENDS Integers, Sequences

CONSTANT Peer

VARIABLES
    ordered,     \* the channel delivers in order
    submitted,   \* submitted[p]: how many messages p's application has sent
    delivered    \* delivered[p]: the messages handed to p's application

vars == <<ordered, submitted, delivered>>

Other(p) == CHOOSE q \in Peer : q # p

Init ==
    /\ ordered \in BOOLEAN
    /\ submitted = [p \in Peer |-> 0]
    /\ delivered = [p \in Peer |-> <<>>]

Submit(p) ==
    /\ submitted' = [submitted EXCEPT ![p] = @ + 1]
    /\ UNCHANGED <<ordered, delivered>>

DeliverInOrder(q) ==
    /\ ordered
    /\ Len(delivered[q]) < submitted[Other(q)]
    /\ delivered' = [delivered EXCEPT ![q] = Append(@, Len(@))]
    /\ UNCHANGED <<ordered, submitted>>

DeliverAny(q) ==
    /\ ~ordered
    /\ \E m \in 0 .. submitted[Other(q)] - 1 :
          /\ \A i \in DOMAIN delivered[q] : delivered[q][i] # m
          /\ delivered' = [delivered EXCEPT ![q] = Append(@, m)]
    /\ UNCHANGED <<ordered, submitted>>

Next == \E p \in Peer : Submit(p) \/ DeliverInOrder(p) \/ DeliverAny(p)

Spec == Init /\ [][Next]_vars
-----------------------------------------------------------------------------
\* What this means to the application at the other end: no message comes to it
\* twice, ...
ComesOnce == \A q \in Peer : \A i, j \in DOMAIN delivered[q] : delivered[q][i] = delivered[q][j] => i = j

\* ... and if the channel is ordered, they come in the order of submission and
\* none is left out.
ComesInOrder == ordered => \A q \in Peer : \A i \in DOMAIN delivered[q] : delivered[q][i] = i - 1
=============================================================================
