-------------------------- MODULE MessageDelivery --------------------------
(***************************************************************************)
(* What net_peer promises to the applications that send messages over it, *)
(* whatever their sizes: a message comes out whole and only if it was      *)
(* sent, at most once unless it is one that UDP may repeat, and the        *)
(* messages that a thread sends on the ordered channel come out in the     *)
(* order in which it sent them.                                            *)
(***************************************************************************)
EXTENDS Integers, Sequences

CONSTANTS Thread, Message, Ordered, Unreliable

VARIABLES
    submitted,   \* submitted[t]: the messages that thread t has sent
    delivered    \* the messages handed to the application at the other end

vars == <<submitted, delivered>>

Sent(t) == {submitted[t][i] : i \in DOMAIN submitted[t]}
Delivered == {delivered[i] : i \in DOMAIN delivered}

Init ==
    /\ submitted = [t \in Thread |-> <<>>]
    /\ delivered = <<>>

Submit(t) ==
    /\ \E m \in Message :
          /\ \A u \in Thread : m \notin Sent(u)
          /\ submitted' = [submitted EXCEPT ![t] = Append(@, m)]
    /\ UNCHANGED delivered

Deliver(t) ==
    /\ \E i \in DOMAIN submitted[t] :
          /\ submitted[t][i] \in Delivered => submitted[t][i] \in Unreliable
          /\ submitted[t][i] \in Ordered =>
                \A j \in 1 .. i - 1 : submitted[t][j] \in Ordered => submitted[t][j] \in Delivered
          /\ delivered' = Append(delivered, submitted[t][i])
    /\ UNCHANGED submitted

Next == \E t \in Thread : Submit(t) \/ Deliver(t)

Spec == Init /\ [][Next]_vars
-----------------------------------------------------------------------------
\* What this means to the application at the other end: no message of a reliable
\* channel comes to it twice, ...
ComesOnce ==
    \A a, b \in DOMAIN delivered : delivered[a] = delivered[b] /\ delivered[a] \notin Unreliable => a = b

\* ... and before an ordered message come all ordered messages that its thread
\* sent before it.
ComesInOrder ==
    \A t \in Thread : \A i, j \in DOMAIN submitted[t] : \A b \in DOMAIN delivered :
        /\ i < j
        /\ {submitted[t][i], submitted[t][j]} \subseteq Ordered
        /\ delivered[b] = submitted[t][j]
        => \E a \in 1 .. b - 1 : delivered[a] = submitted[t][i]
=============================================================================
