----------------------------- MODULE PeerEvents -----------------------------
(***************************************************************************)
(* The threads that connect and disconnect one remote address, at the      *)
(* grain of their accesses to what they share: the entry of m_peers for    *)
(* the address, m_connection_state of its peers, and the two event queues. *)
(* m_shutdown_mutex guards the state only in shutdown; the handlers of the *)
(* receive thread and update of the logic thread read and write it without *)
(* the mutex, and look the peer up again, by its address, to disconnect    *)
(* it.  An application thread may call from a handler of poll_events.      *)
(*                                                                         *)
(* Packets arrive in any order and at any time; the disconnect time-out    *)
(* may pass at any time.  A step of the logic thread is as long as         *)
(* reconnect_delay.  The peers of the address are numbered as they are     *)
(* made.                                                                   *)
(*                                                                         *)
(* origin, undone, made and handled are history variables; no guard reads  *)
(* them.  Definitions marked `Mutant' are errors made on purpose, one for  *)
(* each property; no action uses them.                                     *)
(***************************************************************************)
EXTENDS Integers, Sequences, FiniteSets

CONSTANTS
    User,            \* the threads of the application
    Poller,          \* the one that polls the events
    Receiver, Logic, \* the two threads of the manager
    MaxAttempts,     \* max_connect_attempts
    MaxPeers,        \* bound: how many peers are made
    Inputs           \* bound: how many packets arrive and calls of connect and
                     \* disconnect are made

Thread == User \cup {Receiver, Logic}
Peer == 1 .. MaxPeers
None == 0            \* no entry, nullptr

ASSUME PeerEventsAssumption ==
    /\ IsFiniteSet(User) /\ Poller \in User
    /\ Receiver # Logic /\ {Receiver, Logic} \cap User = {}
    /\ MaxAttempts \in Nat \ {0} /\ MaxPeers \in Nat \ {0}
    /\ Inputs \in Nat

VARIABLES
    peers,       \* how many peers have been made
    state,       \* m_connection_state of each of them
    attempts,    \* m_connect_attempts
    entry,       \* the entry of m_peers, or None
    request,     \* the entry of m_connection_requests: none, queued, shown, solving
    pc,          \* where each thread is, with which peer, and where it returns
    produce,     \* m_events_produce_queue
    consume,     \* m_events_consume_queue
    inputs,      \* how many bounded steps were taken
    origin,      \* history: the call that made a peer
    undone,      \* history: process_connect_accept undid a shutdown of the peer
    made,        \* history: how many events of a kind were created for a peer
    handled      \* history: how many of them were handled

queues == <<produce, consume, made, handled>>
vars == <<peers, state, attempts, entry, request, pc, queues, inputs, origin, undone>>

State == {"OUTGOING", "CONNECTED", "SHUTDOWN_REQUESTED", "DISCONNECTED"}
Up == {"CONNECTED", "OUTGOING"}
Kind == {"CONNECT", "DISCONNECT", "RECEIVE", "CONNECTION_REQUEST"}

\* The packets that end a session, with the states they end.
Ended == [DISCONNECT |-> Up, PEER_NOT_FOUND |-> {"CONNECTED"}, INVALID_PROTOCOL |-> {"OUTGOING"}]

Idle == [at |-> "idle", peer |-> None, back |-> "idle"]

Init ==
    /\ peers = 0
    /\ state = [p \in Peer |-> "NONE"]
    /\ attempts = [p \in Peer |-> 0]
    /\ entry = None
    /\ request = "none"
    /\ pc = [t \in Thread |-> Idle]
    /\ produce = <<>> /\ consume = <<>>
    /\ inputs = 0
    /\ origin = [p \in Peer |-> "none"]
    /\ undone = [p \in Peer |-> FALSE]
    /\ made = [k \in Kind |-> [p \in Peer \cup {None} |-> 0]]
    /\ handled = [k \in Kind |-> [p \in Peer \cup {None} |-> 0]]

\* A thread goes on with the peer it has found, goes on with another, or is
\* done.
Goes(t, there) == pc' = [pc EXCEPT ![t].at = there]
GoesWith(t, there, p) == pc' = [pc EXCEPT ![t].at = there, ![t].peer = p]
IsDone(t) == pc' = [pc EXCEPT ![t] = Idle]
GoesIf(condition, t, there) == IF condition THEN Goes(t, there) ELSE IsDone(t)

\* A call of disconnect_peer, and its return.
Calls_disconnect_peer(t, back) ==
    pc' = [pc EXCEPT ![t] = [at |-> "find", peer |-> None, back |-> back]]
Returns(t) == pc' = [pc EXCEPT ![t] = [Idle EXCEPT !.at = pc[t].back]]

\* create_event.
create_event(k, p) ==
    /\ produce' = Append(produce, [kind |-> k, peer |-> p])
    /\ made' = [made EXCEPT ![k][p] = @ + 1]
    /\ UNCHANGED <<consume, handled>>

\* add_peer, of a new peer.
add_peer(s, call) ==
    /\ peers' = peers + 1
    /\ state' = [state EXCEPT ![peers + 1] = s]
    /\ entry' = peers + 1
    /\ origin' = [origin EXCEPT ![peers + 1] = call]
-----------------------------------------------------------------------------
(* disconnect_peer: try_get_peer, net_peer::shutdown, create_event. *)

\* The peer is looked up by its address.
find(t) ==
    /\ pc[t].at = "find"
    /\ IF entry = None THEN Returns(t) ELSE GoesWith(t, "shut down", entry)
    /\ UNCHANGED <<peers, state, attempts, entry, request, queues, inputs, origin, undone>>

\* Mutant: shutdown does not take m_shutdown_mutex.
Locked_never(p) == FALSE

\* m_shutdown_mutex of the peer is held: a thread has read the state in
\* shutdown and is about to write it.
Locked(p) == \E t \in Thread : pc[t].at = "close" /\ pc[t].peer = p

\* shutdown, up to the write of the state ...
shut_down(t) ==
    /\ pc[t].at = "shut down"
    /\ ~Locked(pc[t].peer)
    /\ IF state[pc[t].peer] \in Up THEN Goes(t, "close") ELSE Returns(t)
    /\ UNCHANGED <<peers, state, attempts, entry, request, queues, inputs, origin, undone>>

\* ... and the write.  Only the calls of the application are not forced.
close(t) ==
    /\ pc[t].at = "close"
    /\ state' = [state EXCEPT ![pc[t].peer] =
          IF t \in User THEN "SHUTDOWN_REQUESTED" ELSE "DISCONNECTED"]
    /\ Goes(t, "announce")
    /\ UNCHANGED <<peers, attempts, entry, request, queues, inputs, origin, undone>>

announce(t) ==
    /\ pc[t].at = "announce"
    /\ create_event("DISCONNECT", pc[t].peer)
    /\ Returns(t)
    /\ UNCHANGED <<peers, state, attempts, entry, request, inputs, origin, undone>>

disconnect_peer(t) == find(t) \/ shut_down(t) \/ close(t) \/ announce(t)
-----------------------------------------------------------------------------
(* The application. *)

\* connect, up to the check for a connection request ...
begin_connect(u) ==
    /\ pc[u].at = "idle"
    /\ request = "none"
    /\ inputs < Inputs /\ inputs' = inputs + 1
    /\ Goes(u, "connect")
    /\ UNCHANGED <<peers, state, attempts, entry, request, queues, origin, undone>>

\* ... and the rest, under m_peers_mutex.
connect(u) ==
    /\ pc[u].at = "connect"
    /\ IF (entry # None /\ state[entry] \in Up) \/ peers = MaxPeers
       THEN UNCHANGED <<peers, state, entry, origin>>
       ELSE add_peer("OUTGOING", "connect")
    /\ IsDone(u)
    /\ UNCHANGED <<attempts, request, queues, inputs, undone>>

\* disconnect_all.
disconnect(u) ==
    /\ pc[u].at = "idle"
    /\ inputs < Inputs /\ inputs' = inputs + 1
    /\ Calls_disconnect_peer(u, "idle")
    /\ UNCHANGED <<peers, state, attempts, entry, request, queues, origin, undone>>

\* net_connection_request::accept: the peer is added under m_peers_mutex, and
\* its event is created after the mutex is released.
accept(u) ==
    /\ pc[u].at = "idle"
    /\ request = "shown"
    /\ IF entry # None
       THEN request' = "none" /\ UNCHANGED <<peers, state, entry, origin, pc>>
       ELSE /\ peers < MaxPeers
            /\ request' = "solving"
            /\ add_peer("CONNECTED", "accept")
            /\ GoesWith(u, "connected", peers + 1)
    /\ UNCHANGED <<attempts, queues, inputs, undone>>

\* net_connection_request::reject.
reject(u) ==
    /\ pc[u].at = "idle"
    /\ request = "shown"
    /\ request' = "none"
    /\ IF entry # None
       THEN UNCHANGED <<peers, state, entry, origin>>
       ELSE peers < MaxPeers /\ add_peer("SHUTDOWN_REQUESTED", "reject")
    /\ UNCHANGED <<attempts, pc, queues, inputs, undone>>

\* poll_events.  A handler may call the manager before the next one is called.
swap ==
    /\ pc[Poller].at = "idle"
    /\ consume = <<>> /\ produce # <<>>
    /\ consume' = produce /\ produce' = consume
    /\ UNCHANGED <<peers, state, attempts, entry, request, pc, made, handled, inputs,
                   origin, undone>>

\* Mutant: m_events_consume_queue is cleared after its first event.
Rest_none == <<>>

Rest == Tail(consume)

process_event ==
    /\ pc[Poller].at = "idle"
    /\ consume # <<>>
    /\ LET e == Head(consume) IN
       /\ handled' = [handled EXCEPT ![e.kind][e.peer] = @ + 1]
       /\ request' = IF e.kind = "CONNECTION_REQUEST" THEN "shown" ELSE request
    /\ consume' = Rest
    /\ UNCHANGED <<peers, state, attempts, entry, pc, produce, made, inputs, origin, undone>>

application(u) == begin_connect(u) \/ connect(u) \/ disconnect(u) \/ accept(u) \/ reject(u)
-----------------------------------------------------------------------------
(* The receive thread: on_message_received. *)

\* The peer is looked up once, under m_peers_mutex.
arrive ==
    /\ pc[Receiver].at = "idle"
    /\ inputs < Inputs /\ inputs' = inputs + 1
    /\ \/ /\ entry # None
          /\ \E kind \in DOMAIN Ended \cup {"CONNECT_ACCEPT", "DATA", "SHUTDOWN_OK"} :
                GoesWith(Receiver, kind, entry)
       \/ GoesWith(Receiver, "CONNECT_REQUEST", entry)
    /\ UNCHANGED <<peers, state, attempts, entry, request, queues, origin, undone>>

\* process_disconnect, and the checks for the other packets that end a session.
end_session ==
    LET r == pc[Receiver] IN
    /\ r.at \in DOMAIN Ended
    /\ IF state[r.peer] \in Ended[r.at] THEN Calls_disconnect_peer(Receiver, "idle")
                                        ELSE IsDone(Receiver)
    /\ UNCHANGED <<peers, state, attempts, entry, request, queues, inputs, origin, undone>>

\* process_connect_accept, up to the write of the state ...
check_accept ==
    LET r == pc[Receiver] IN
    /\ r.at = "CONNECT_ACCEPT"
    /\ \E sameTime \in BOOLEAN : GoesIf(state[r.peer] = "OUTGOING" /\ sameTime, Receiver, "accepted")
    /\ UNCHANGED <<peers, state, attempts, entry, request, queues, inputs, origin, undone>>

\* ... and the write, which undoes a shutdown that came after the check.
process_connect_accept ==
    LET p == pc[Receiver].peer IN
    /\ pc[Receiver].at = "accepted"
    /\ state' = [state EXCEPT ![p] = "CONNECTED"]
    /\ undone' = [undone EXCEPT ![p] = state[p] # "OUTGOING"]
    /\ Goes(Receiver, "connected")
    /\ UNCHANGED <<peers, attempts, entry, request, queues, inputs, origin>>

\* The CONNECT event, of on_message_received and of on_connection_solved,
\* which then erases the request.
announce_connected(t) ==
    /\ pc[t].at = "connected"
    /\ create_event("CONNECT", pc[t].peer)
    /\ request' = IF t \in User THEN "none" ELSE request
    /\ IsDone(t)
    /\ UNCHANGED <<peers, state, attempts, entry, inputs, origin, undone>>

\* net_peer::process_packet, up to the message ...
check_data ==
    /\ pc[Receiver].at = "DATA"
    /\ GoesIf(state[pc[Receiver].peer] \in Up, Receiver, "deliver")
    /\ UNCHANGED <<peers, state, attempts, entry, request, queues, inputs, origin, undone>>

\* ... and create_receive_event, for whatever peer the address has then.
create_receive_event ==
    /\ pc[Receiver].at = "deliver"
    /\ create_event("RECEIVE", entry)
    /\ IsDone(Receiver)
    /\ UNCHANGED <<peers, state, attempts, entry, request, inputs, origin, undone>>

\* SHUTDOWN_OK is looked at only if the peer is up, and then ends a shutdown.
check_shutdown_ok ==
    /\ pc[Receiver].at = "SHUTDOWN_OK"
    /\ GoesIf(state[pc[Receiver].peer] \in Up, Receiver, "is up")
    /\ UNCHANGED <<peers, state, attempts, entry, request, queues, inputs, origin, undone>>

process_shutdown_ok ==
    /\ pc[Receiver].at = "is up"
    /\ state' = [state EXCEPT ![pc[Receiver].peer] =
          IF @ = "SHUTDOWN_REQUESTED" THEN "DISCONNECTED" ELSE @]
    /\ IsDone(Receiver)
    /\ UNCHANGED <<peers, attempts, entry, request, queues, inputs, origin, undone>>

\* process_connect_request: whether the request replaces the peer depends on
\* the connect times too.
process_connect_request ==
    LET p == pc[Receiver].peer IN
    /\ pc[Receiver].at = "CONNECT_REQUEST"
    /\ IF p = None
       THEN Goes(Receiver, "enlist")
       ELSE \/ IsDone(Receiver)
            \/ IF state[p] \in Up THEN Calls_disconnect_peer(Receiver, "remove")
                                  ELSE Goes(Receiver, "remove")
    /\ UNCHANGED <<peers, state, attempts, entry, request, queues, inputs, origin, undone>>

\* remove_peer, by the address.
remove_peer ==
    /\ pc[Receiver].at = "remove"
    /\ entry' = None
    /\ Goes(Receiver, "enlist")
    /\ UNCHANGED <<peers, state, attempts, request, queues, inputs, origin, undone>>

enlist ==
    /\ pc[Receiver].at = "enlist"
    /\ IF request = "none"
       THEN request' = "queued" /\ create_event("CONNECTION_REQUEST", None)
       ELSE UNCHANGED <<request, queues>>
    /\ IsDone(Receiver)
    /\ UNCHANGED <<peers, state, attempts, entry, inputs, origin, undone>>

receive == end_session \/ check_accept \/ process_connect_accept \/ check_data
           \/ create_receive_event \/ check_shutdown_ok \/ process_shutdown_ok
           \/ process_connect_request \/ remove_peer \/ enlist
-----------------------------------------------------------------------------
(* The logic thread: update_logic and net_peer::update. *)

\* It reads the state of the peer once and goes by what it read.
Looks(s) ==
    /\ pc[Logic].at = "idle"
    /\ entry # None
    /\ state[entry] = s
    /\ UNCHANGED <<peers, state, attempts, entry, request, queues, inputs, origin, undone>>

\* A connected peer has timed out, or cannot be reached by send_raw.
time_out == Looks("CONNECTED") /\ Calls_disconnect_peer(Logic, "idle")

\* A peer that was shut down times out; one that is disconnected is marked, by
\* its address, to be removed.
look ==
    \/ Looks("SHUTDOWN_REQUESTED") /\ GoesWith(Logic, "expire", entry)
    \/ Looks("DISCONNECTED") /\ Goes(Logic, "unlist")
    \/ Looks("OUTGOING") /\ GoesWith(Logic, "try", entry)

\* Mutant: an attempt that fails is not counted.
Attempts_uncounted(p) == attempts[p]

Attempts(p) == attempts[p] + 1

\* Mutant: there is no last attempt.
CanTry_always(p) == TRUE

CanTry(p) == Attempts(p) <= MaxAttempts

\* Mutant: the peer is given up without disconnect_peer_force.
GiveUp_silently(p) == GoesWith(Logic, "expire", p)

GiveUp(p) == Calls_disconnect_peer(Logic, "idle")

\* Another connect request is sent, unless it was the last one or send_raw
\* finds that the address cannot be reached.
try_again ==
    LET p == pc[Logic].peer IN
    /\ pc[Logic].at = "try"
    /\ attempts' = [attempts EXCEPT ![p] = Attempts(p)]
    /\ GiveUp(p) \/ (CanTry(p) /\ IsDone(Logic))
    /\ UNCHANGED <<peers, state, entry, request, queues, inputs, origin, undone>>

\* The shutdown packet is not sent any more.
expire ==
    /\ pc[Logic].at = "expire"
    /\ state' = [state EXCEPT ![pc[Logic].peer] = "DISCONNECTED"]
    /\ IsDone(Logic)
    /\ UNCHANGED <<peers, attempts, entry, request, queues, inputs, origin, undone>>

\* remove_peer_internal, for the addresses that were marked.
unlist ==
    /\ pc[Logic].at = "unlist"
    /\ entry' = None
    /\ IsDone(Logic)
    /\ UNCHANGED <<peers, state, attempts, request, queues, inputs, origin, undone>>

update_logic == look \/ try_again \/ expire \/ unlist
-----------------------------------------------------------------------------
Next ==
    \/ \E u \in User : application(u)
    \/ \E t \in Thread : disconnect_peer(t) \/ announce_connected(t)
    \/ swap \/ process_event
    \/ arrive \/ receive
    \/ time_out \/ update_logic

Spec == Init /\ [][Next]_vars

\* Fairness: a thread that is in a call goes on, the logic thread looks at the
\* peers again and again, nothing keeps a peer that is shut down from timing
\* out, and the application keeps polling.  Nothing is assumed of the network,
\* of the time-out of a connected peer or of what the application calls.
FairSpec ==
    /\ Spec
    /\ WF_vars(update_logic \/ disconnect_peer(Logic))
    /\ WF_vars(receive \/ disconnect_peer(Receiver) \/ announce_connected(Receiver))
    /\ \A u \in User : WF_vars(connect(u) \/ disconnect_peer(u) \/ announce_connected(u))
    /\ SF_vars(swap \/ process_event)
-----------------------------------------------------------------------------
Place == {"idle", "find", "shut down", "close", "announce", "connect", "connected", "accepted",
          "deliver", "is up", "remove", "enlist", "expire", "unlist", "try"}
         \cup DOMAIN Ended \cup {"CONNECT_ACCEPT", "DATA", "SHUTDOWN_OK", "CONNECT_REQUEST"}
Event == [kind : Kind, peer : Peer \cup {None}]

\* The type of every variable.
TypeOK ==
    /\ peers \in 0 .. MaxPeers
    /\ state \in [Peer -> State \cup {"NONE"}]
    /\ attempts \in [Peer -> 0 .. MaxAttempts + 1]
    /\ entry \in Peer \cup {None}
    /\ request \in {"none", "queued", "shown", "solving"}
    /\ pc \in [Thread -> [at : Place, peer : Peer \cup {None}, back : {"idle", "remove"}]]
    /\ produce \in Seq(Event) /\ consume \in Seq(Event)
    /\ inputs \in 0 .. Inputs
    /\ origin \in [Peer -> {"none", "connect", "accept", "reject"}]
    /\ undone \in [Peer -> BOOLEAN]
    /\ made \in [Kind -> [Peer \cup {None} -> Nat]]
    /\ handled \in [Kind -> [Peer \cup {None} -> Nat]]

\* A peer that went down, on whatever thread and for whatever reason, has its
\* on_peer_disconnected, or the thread that took it down is about to create
\* the event; only a request that was rejected ends without.
EndIsAnnounced ==
    \A p \in Peer :
        state[p] \in {"SHUTDOWN_REQUESTED", "DISCONNECTED"} /\ origin[p] # "reject"
        => \/ made["DISCONNECT"][p] > 0
           \/ \E t \in Thread : pc[t].at = "announce" /\ pc[t].peer = p

\* Threads that disconnect a peer at one time announce its end once, or, if
\* process_connect_accept undid the first shutdown, once more.
EndsOnce ==
    \A p \in Peer :
        /\ made["CONNECT"][p] <= 1
        /\ made["DISCONNECT"][p] <= IF undone[p] THEN 2 ELSE 1

\* Once the application makes no more calls, the peer in m_peers does not stay
\* an attempt to connect: each attempt becomes a connection or is given up.
AttemptEnds == <>[](entry # None => state[entry] # "OUTGOING")

\* The application is told of every event, although the queues are swapped
\* while other threads add to them.
EveryEventIsHandled == <>[](produce = <<>> /\ consume = <<>> /\ handled = made)
=============================================================================
