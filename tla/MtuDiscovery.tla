---------------------------- MODULE MtuDiscovery ----------------------------
(***************************************************************************)
(* How the two peers of a connection find the largest datagram that they   *)
(* can exchange: net_peer::update_mtu_logic sends a probe of the next size *)
(* each second, net_peer::process_mtu_packet answers probes with packets   *)
(* of the same size and raises m_mtu on an answer, and a PEER_NOT_FOUND    *)
(* sends m_mtu back to its start (reset_mtu).                              *)
(*                                                                         *)
(* A datagram is its property and its size; the network carries at most    *)
(* capacity[p] bytes to p.  m_mtu_check_timer is left out: a step of the   *)
(* logic thread is one that finds it expired.                              *)
(*                                                                         *)
(* carried is a history variable; no guard reads it.  Definitions marked   *)
(* `Mutant' are errors made on purpose; no action uses them.               *)
(***************************************************************************)
EXTENDS Integers, Sequences, FiniteSets

CONSTANTS
    Peer,                    \* the two ends
    POSSIBLE_MTU,            \* the sizes that are probed, ascending
    MAX_MTU_CHECK_ATTEMPTS,
    Capacities,              \* what the network may carry to an end
    Numbers,                 \* the connection numbers the session may have
    Changes                  \* bound: PEER_NOT_FOUNDs and changes of the route

ASSUME MtuAssumption ==
    /\ IsFiniteSet(Peer) /\ Cardinality(Peer) = 2
    /\ POSSIBLE_MTU \in Seq(Nat) /\ Len(POSSIBLE_MTU) > 1
    /\ \A i, j \in 1 .. Len(POSSIBLE_MTU) : i < j => POSSIBLE_MTU[i] < POSSIBLE_MTU[j]
    /\ MAX_MTU_CHECK_ATTEMPTS \in Nat \ {0}
    /\ Capacities \subseteq Nat /\ Capacities # {}
    /\ Numbers \subseteq 0 .. 3 /\ Numbers # {}
    /\ Changes \in Nat

VARIABLES
    m_mtu_idx, m_mtu, m_mtu_check_attempts, m_finish_mtu,   \* of each end
    m_connect_number,  \* the number of the session
    prompt,            \* a network that answers within a second and loses nothing that fits
    capacity,          \* the largest datagram that reaches each end
    net,               \* datagrams on their way to each end
    turn,              \* whose second is next, if prompt
    changes,           \* how many bounded events have happened
    carried            \* history: the sizes of p's probes that reached the other end

ends == <<m_mtu_idx, m_mtu, m_mtu_check_attempts, m_finish_mtu>>
path == <<m_connect_number, prompt, capacity, turn, changes>>
vars == <<ends, path, net, carried>>

Other(p) == CHOOSE o \in Peer : o # p

\* Indices count from 0, as the array does.
LastIdx == Len(POSSIBLE_MTU) - 1
SizeAt(idx) == POSSIBLE_MTU[idx + 1]

Check(size) == [property |-> "MTU_CHECK", size |-> size]
Ok(size) == [property |-> "MTU_OK", size |-> size]

\* What of a datagram that is sent to p gets on its way.
Carried(p, d) == IF d.size <= capacity[p] THEN {d} ELSE {}

Init ==
    /\ m_mtu_idx = [p \in Peer |-> 0]
    /\ m_mtu = [p \in Peer |-> SizeAt(0)]
    /\ m_mtu_check_attempts = [p \in Peer |-> 0]
    /\ m_finish_mtu = [p \in Peer |-> FALSE]
    /\ m_connect_number \in Numbers
    /\ prompt \in BOOLEAN
    /\ capacity \in [Peer -> Capacities]
    /\ net = [p \in Peer |-> {}]
    /\ turn \in IF prompt THEN Peer ELSE {CHOOSE p \in Peer : TRUE}
    /\ changes = 0
    /\ carried = [p \in Peer |-> {}]
-----------------------------------------------------------------------------
(* The logic thread. *)

\* Mutant: the attempts are not counted.
Attempts_uncounted(p) == m_mtu_check_attempts[p]

Attempts(p) == m_mtu_check_attempts[p] + 1

\* A probe arrives or is lost within a second.  With a prompt network so does
\* its answer, and the two ends, whose timers have the same period, take turns.
HasSecond(p) ==
    /\ \A d \in net[Other(p)] : d.property # "MTU_CHECK"
    /\ prompt => /\ \A q \in Peer : net[q] = {}
                 /\ turn = p \/ m_finish_mtu[Other(p)]

give_up(p) ==
    /\ m_finish_mtu' = [m_finish_mtu EXCEPT ![p] = TRUE]
    /\ UNCHANGED net

probe(p) ==
    /\ net' = [net EXCEPT ![Other(p)] = @ \cup Carried(Other(p), Check(SizeAt(m_mtu_idx[p] + 1)))]
    /\ UNCHANGED m_finish_mtu

\* A sendto that fails ends the probing.
update_mtu_logic(p) ==
    /\ HasSecond(p)
    /\ ~m_finish_mtu[p]
    /\ m_mtu_check_attempts' = [m_mtu_check_attempts EXCEPT ![p] = Attempts(p)]
    /\ \/ Attempts(p) >= MAX_MTU_CHECK_ATTEMPTS /\ give_up(p)
       \/ /\ Attempts(p) < MAX_MTU_CHECK_ATTEMPTS
          /\ IF m_mtu_idx[p] >= LastIdx
             THEN UNCHANGED <<m_finish_mtu, net>>
             ELSE probe(p) \/ (~prompt /\ give_up(p))
    /\ turn' = IF prompt THEN Other(p) ELSE turn
    /\ UNCHANGED <<m_mtu_idx, m_mtu, m_connect_number, prompt, capacity, changes, carried>>
-----------------------------------------------------------------------------
(* The receive thread. *)

\* The connection number of the packets of MTU discovery is never set.
IsForSession == m_connect_number = 0

Consumed(p, d) == [net EXCEPT ![p] = @ \ {d}]

\* Mutant: a probe is answered and nothing else.
ResetAttempts_not(p) == {m_mtu_check_attempts[p]}

\* m_mtu_check_attempts = 0, which the logic thread may overwrite when it is
\* about to store the next attempt.
ResetAttempts(p) == IF prompt THEN {0} ELSE {0, m_mtu_check_attempts[p]}

receive_check(p, d) ==
    /\ d.property = "MTU_CHECK"
    /\ \E attempts \in ResetAttempts(p) :
          m_mtu_check_attempts' = [m_mtu_check_attempts EXCEPT ![p] = attempts]
    /\ net' = [Consumed(p, d) EXCEPT ![Other(p)] = @ \cup Carried(Other(p), Ok(d.size))]
    /\ carried' = [carried EXCEPT ![Other(p)] = @ \cup {d.size}]
    /\ UNCHANGED <<m_mtu_idx, m_mtu, m_finish_mtu, path>>

\* Mutant: the other end's probe is taken for an answer.
Confirms_either(p, d) == ~m_finish_mtu[p] /\ d.size > m_mtu[p] /\ d.size = SizeAt(m_mtu_idx[p] + 1)

\* The answer to the probe of the next size.
Confirms(p, d) ==
    /\ d.property = "MTU_OK"
    /\ ~m_finish_mtu[p] /\ d.size > m_mtu[p]
    /\ d.size = SizeAt(m_mtu_idx[p] + 1)

\* Mutant: the largest size does not end the probing.
Finishes_never(p) == FALSE

\* After set_mtu(m_mtu_idx + 1).
Finishes(p) == m_mtu_idx[p] + 1 = LastIdx

raise_mtu(p, d) ==
    /\ Confirms(p, d)
    /\ m_mtu_idx' = [m_mtu_idx EXCEPT ![p] = @ + 1]
    /\ m_mtu' = [m_mtu EXCEPT ![p] = SizeAt(m_mtu_idx[p] + 1)]
    /\ m_finish_mtu' = [m_finish_mtu EXCEPT ![p] = @ \/ Finishes(p)]
    /\ net' \in {Consumed(p, d), net}   \* it may arrive again
    /\ UNCHANGED <<m_mtu_check_attempts, path, carried>>

\* process_packet drops what is not for the session, process_mtu_packet the
\* answers that are not to the next probe.
ignore(p, d) ==
    /\ ~IsForSession \/ (d.property = "MTU_OK" /\ ~Confirms(p, d))
    /\ net' = Consumed(p, d)
    /\ UNCHANGED <<ends, path, carried>>

process_mtu_packet(p, d) ==
    /\ d \in net[p]
    /\ \/ IsForSession /\ receive_check(p, d)
       \/ IsForSession /\ raise_mtu(p, d)
       \/ ignore(p, d)

\* on_message_received, PEER_NOT_FOUND of size 1: reset_mtu.  m_finish_mtu and
\* the attempts stay.
peer_not_found(p) ==
    /\ ~prompt /\ changes < Changes
    /\ changes' = changes + 1
    /\ m_mtu_idx' = [m_mtu_idx EXCEPT ![p] = 0]
    /\ m_mtu' = [m_mtu EXCEPT ![p] = SizeAt(0)]
    /\ UNCHANGED <<m_mtu_check_attempts, m_finish_mtu, m_connect_number, prompt, capacity, turn,
                   net, carried>>
-----------------------------------------------------------------------------
(* The network. *)

lose(p) ==
    /\ ~prompt
    /\ \E d \in net[p] : net' = Consumed(p, d)
    /\ UNCHANGED <<ends, path, carried>>

route_changes ==
    /\ ~prompt /\ changes < Changes
    /\ changes' = changes + 1
    /\ capacity' \in [Peer -> Capacities]
    /\ UNCHANGED <<ends, m_connect_number, prompt, turn, net, carried>>

Next ==
    \/ \E p \in Peer :
          \/ update_mtu_logic(p)
          \/ \E d \in net[p] : process_mtu_packet(p, d)
          \/ peer_not_found(p)
          \/ lose(p)
    \/ route_changes

Spec == Init /\ [][Next]_vars

Sizes == {SizeAt(idx) : idx \in 0 .. LastIdx}
Packet == {Check(size) : size \in Sizes} \cup {Ok(size) : size \in Sizes}

\* The logic threads run, datagrams arrive or are lost, and an answer that the
\* network is given again and again arrives.
FairSpec ==
    /\ Spec
    /\ \A p \in Peer :
          /\ WF_vars(update_mtu_logic(p))
          /\ WF_vars(\E d \in net[p] : process_mtu_packet(p, d) /\ d \notin net'[p])
          /\ SF_vars(\E d \in net[p] : IsForSession /\ raise_mtu(p, d))
-----------------------------------------------------------------------------
\* The type of every variable; the index stays inside POSSIBLE_MTU, and an end
\* that reads POSSIBLE_MTU[m_mtu_idx + 1] has not reached the last size.
TypeOK ==
    /\ m_mtu_idx \in [Peer -> 0 .. LastIdx]
    /\ m_mtu = [p \in Peer |-> SizeAt(m_mtu_idx[p])]
    /\ m_mtu_check_attempts \in [Peer -> 0 .. MAX_MTU_CHECK_ATTEMPTS]
    /\ m_finish_mtu \in [Peer -> BOOLEAN]
    /\ \A p \in Peer : m_mtu_idx[p] = LastIdx => m_finish_mtu[p]
    /\ m_connect_number \in Numbers /\ prompt \in BOOLEAN
    /\ capacity \in [Peer -> Capacities]
    /\ net \in [Peer -> SUBSET Packet]
    /\ turn \in Peer /\ changes \in 0 .. Changes
    /\ carried \in [Peer -> SUBSET Sizes]

\* The MTU of an end is the minimal one or the size of a probe of its own that
\* reached the other end: lost, late, repeated and foreign packets of the
\* discovery, also those sent before a reset, do not raise it further.
MtuWasConfirmed == \A p \in Peer : m_mtu[p] = SizeAt(0) \/ m_mtu[p] \in carried[p]

\* Both ends stop probing, although each answer to a probe of the other end
\* sets the count of the attempts back to 0.
ProbingEnds == <>[](\A p \in Peer : m_finish_mtu[p])

\* The largest size that the network carries both ways.
LargestCommon ==
    CHOOSE size \in Sizes :
        \/ size = SizeAt(0) /\ \A s \in Sizes \ {size} : \E p \in Peer : capacity[p] < s
        \/ /\ \A p \in Peer : size <= capacity[p]
           /\ \A s \in Sizes : (\A p \in Peer : s <= capacity[p]) => s <= size

\* In a session with number 0 and on a network that answers in time both ends
\* find the largest size, also when the two directions carry different sizes:
\* neither runs out of attempts before.
FindsLargest ==
    prompt /\ m_connect_number = 0 => <>[](\A p \in Peer : m_mtu[p] = LargestCommon)
=============================================================================
