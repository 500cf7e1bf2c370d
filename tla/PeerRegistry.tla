---------------------------- MODULE PeerRegistry ----------------------------
(***************************************************************************)
(* The peers of a net_manager: the map m_peers from addresses to peers,    *)
(* the linked list through the same peers that the logic thread walks      *)
(* without a lock, the ids of the peers and the array they index.          *)
(*                                                                         *)
(* Three threads share them: the application (connect, disconnect_peer,    *)
(* the solving of connection requests), the receive thread (connection     *)
(* requests, accepts, disconnects) and the logic thread (update_logic).    *)
(* A step is one critical section of m_peers_mutex, or one read of the     *)
(* list by the logic thread.  The peers are numbered in the order of their *)
(* creation; a peer that was removed stays in memory while a thread holds  *)
(* a pointer to it.                                                        *)
(*                                                                         *)
(* Connect times and timers are left out: where the code compares them,    *)
(* either result may occur.                                                *)
(*                                                                         *)
(* Definitions marked `Mutant' are errors made on purpose, one for each    *)
(* property; no action uses them.                                          *)
(***************************************************************************)
EXTENDS Integers, Sequences, FiniteSets

CONSTANTS
    Address,      \* remote addresses
    Requesters,   \* the addresses that connection requests come from
    MaxPeers,     \* bound: how many peers are created
    ArraySize     \* initial size of m_peers_array (32 in the code)

ASSUME RegistryAssumption ==
    /\ IsFiniteSet(Address)
    /\ Requesters \subseteq Address
    /\ MaxPeers \in Nat
    /\ ArraySize \in Nat \ {0}

NULL == 0
NoAddress == "none"        \* of a peer that is not created yet
Idle == [at |-> "idle"]    \* a thread that handles no address
Peer == 1 .. MaxPeers
State == {"OUTGOING", "CONNECTED", "SHUTDOWN_REQUESTED", "DISCONNECTED"}

VARIABLES
    m_peers,                    \* the peer at each address, or NULL
    m_head_peer,
    m_next_peer, m_prev_peer,   \* the links of each peer
    created,                    \* the peers 1 .. created have been created
    m_endpoint, m_id, m_connection_state,    \* fields of each peer
    m_peer_ids,                 \* ids of removed peers, to be used again
    m_peer_id_counter,
    m_peers_array,
    m_connection_requests,      \* the addresses with a request that is not solved
    owner,                      \* the thread that holds m_peers_mutex between steps
    app,                        \* the application thread: where it is, the address it handles
    receiver,                   \* the receive thread: the same, and what it does next
    logic                       \* the logic thread: where it is, the peer it looks at,
                                \* peersToRemove, and (history) the peers it has to visit

links == <<m_peers, m_head_peer, m_next_peer, m_prev_peer>>
ids == <<m_peer_ids, m_peer_id_counter, m_peers_array>>
fields == <<created, m_endpoint, m_id>>
vars == <<links, ids, fields, m_connection_state, m_connection_requests, owner,
          app, receiver, logic>>

Init ==
    /\ m_peers = [a \in Address |-> NULL]
    /\ m_head_peer = NULL
    /\ m_next_peer = [p \in Peer |-> NULL]
    /\ m_prev_peer = [p \in Peer |-> NULL]
    /\ created = 0
    /\ m_endpoint = [p \in Peer |-> NoAddress]
    /\ m_id = [p \in Peer |-> 0]
    /\ m_connection_state = [p \in Peer |-> "OUTGOING"]
    /\ m_peer_ids = <<>>
    /\ m_peer_id_counter = 0
    /\ m_peers_array = [i \in 0 .. ArraySize - 1 |-> NULL]
    /\ m_connection_requests = {}
    /\ owner = "none"
    /\ app = Idle
    /\ receiver = Idle
    /\ logic = [at |-> "sleep", netPeer |-> NULL, peersToRemove |-> <<>>, owed |-> {}]
-----------------------------------------------------------------------------
(* add_peer and remove_peer_internal, under m_peers_mutex. *)

Registered == {m_peers[a] : a \in Address} \ {NULL}
CanLock(thread) == owner \in {"none", thread}

\* Mutant: the counter is read one too low.
NextId_low == IF m_peer_ids # <<>> THEN Head(m_peer_ids) ELSE m_peer_id_counter - 1

\* get_next_peer_id.
NextId == IF m_peer_ids # <<>> THEN Head(m_peer_ids) ELSE m_peer_id_counter

\* The array has doubled until it has a place for id: to the one doubled size
\* that is greater than id, and whose half is not.
Grown(id) ==
    LET size == Cardinality(DOMAIN m_peers_array)
        newSize == CHOOSE n \in id + 1 .. 2 * id : \E k \in 1 .. id : n = size * 2^k
    IN  IF id < size THEN m_peers_array
        ELSE [i \in 0 .. newSize - 1 |-> IF i < size THEN m_peers_array[i] ELSE NULL]

\* Mutant: the id of a removed peer stays in the queue when it is used again.
IdsLeft_again == m_peer_ids

IdsLeft == IF m_peer_ids # <<>> THEN Tail(m_peer_ids) ELSE m_peer_ids

NextOfNew == m_head_peer

add_peer(address, state) ==
    LET peer == created + 1
    IN  /\ created < MaxPeers
        /\ created' = peer
        /\ m_endpoint' = [m_endpoint EXCEPT ![peer] = address]
        /\ m_id' = [m_id EXCEPT ![peer] = NextId]
        /\ m_connection_state' = [m_connection_state EXCEPT ![peer] = state]
        /\ m_next_peer' = [m_next_peer EXCEPT ![peer] = NextOfNew]
        /\ m_prev_peer' = IF m_head_peer = NULL THEN m_prev_peer
                          ELSE [m_prev_peer EXCEPT ![m_head_peer] = peer]
        /\ m_head_peer' = peer
        /\ m_peers' = [m_peers EXCEPT ![address] = peer]
        /\ m_peers_array' = [Grown(NextId) EXCEPT ![NextId] = peer]
        /\ m_peer_ids' = IdsLeft
        /\ m_peer_id_counter' = IF m_peer_ids # <<>> THEN m_peer_id_counter
                                ELSE m_peer_id_counter + 1

\* Mutant: the peer after the removed one keeps its link to it.
PrevLinks_stale(peer) == [m_prev_peer EXCEPT ![peer] = NULL]

PrevLinks(peer) ==
    [p \in Peer |-> IF p = peer THEN NULL
                    ELSE IF p = m_next_peer[peer] THEN m_prev_peer[peer]
                    ELSE m_prev_peer[p]]

\* Mutant: both links of the removed peer are cleared.
NextLinks_cleared(peer) ==
    [p \in Peer |-> IF p = peer THEN NULL
                    ELSE IF p = m_prev_peer[peer] THEN m_next_peer[peer]
                    ELSE m_next_peer[p]]

\* The removed peer keeps its m_next_peer.
NextLinks(peer) ==
    [p \in Peer |-> IF p = m_prev_peer[peer] THEN m_next_peer[peer] ELSE m_next_peer[p]]

remove_peer_internal(address) ==
    LET peer == m_peers[address]
    IN  IF peer = NULL THEN UNCHANGED <<links, ids>>
        ELSE /\ m_peers' = [m_peers EXCEPT ![address] = NULL]
             /\ m_head_peer' = IF m_head_peer = peer THEN m_next_peer[peer] ELSE m_head_peer
             /\ m_next_peer' = NextLinks(peer)
             /\ m_prev_peer' = PrevLinks(peer)
             /\ m_peers_array' = [m_peers_array EXCEPT ![m_id[peer]] = NULL]
             /\ m_peer_ids' = Append(m_peer_ids, m_id[peer])
             /\ UNCHANGED m_peer_id_counter

IsActive(peer) == peer # NULL /\ m_connection_state[peer] \in {"OUTGOING", "CONNECTED"}

\* disconnect_peer: the peer that is at the address now is shut down.
disconnect_peer(address, state) ==
    m_connection_state' =
        IF IsActive(m_peers[address])
        THEN [m_connection_state EXCEPT ![m_peers[address]] = state]
        ELSE m_connection_state
-----------------------------------------------------------------------------
(* The application thread. *)

\* connect looks at the requests first, under another mutex.
begin_connect(address) ==
    /\ app.at = "idle"
    /\ address \notin m_connection_requests
    /\ app' = [at |-> "connect", address |-> address]
    /\ UNCHANGED <<links, ids, fields, m_connection_state, m_connection_requests, owner,
                   receiver, logic>>

\* A peer that is connected, or trying to, is returned as it is.
connect_existing ==
    /\ app.at = "connect"
    /\ CanLock("app")
    /\ IsActive(m_peers[app.address])
    /\ app' = Idle
    /\ UNCHANGED <<links, ids, fields, m_connection_state, m_connection_requests, owner,
                   receiver, logic>>

\* Any other makes place for the new one; the mutex is kept.
connect_remove ==
    /\ app.at = "connect"
    /\ CanLock("app")
    /\ ~IsActive(m_peers[app.address])
    /\ created < MaxPeers
    /\ remove_peer_internal(app.address)
    /\ owner' = "app"
    /\ app' = [app EXCEPT !.at = "add"]
    /\ UNCHANGED <<fields, m_connection_state, m_connection_requests, receiver, logic>>

connect_add ==
    /\ app.at = "add"
    /\ add_peer(app.address, "OUTGOING")
    /\ owner' = "none"
    /\ app' = Idle
    /\ UNCHANGED <<m_connection_requests, receiver, logic>>

\* on_connection_solved, for accept and for reject; reject_force adds no peer.
solve_request(address) ==
    /\ app.at = "idle"
    /\ address \in m_connection_requests
    /\ CanLock("app")
    /\ \/ /\ m_peers[address] = NULL
          /\ \E state \in {"CONNECTED", "SHUTDOWN_REQUESTED"} : add_peer(address, state)
       \/ UNCHANGED <<links, ids, fields, m_connection_state>>
    /\ app' = [at |-> "erase", address |-> address]
    /\ UNCHANGED <<m_connection_requests, owner, receiver, logic>>

erase_request ==
    /\ app.at = "erase"
    /\ m_connection_requests' = m_connection_requests \ {app.address}
    /\ app' = Idle
    /\ UNCHANGED <<links, ids, fields, m_connection_state, owner, receiver, logic>>

\* disconnect_all, for one of the addresses.
disconnect(address) ==
    /\ app.at = "idle"
    /\ CanLock("app")
    /\ disconnect_peer(address, "SHUTDOWN_REQUESTED")
    /\ UNCHANGED <<links, ids, fields, m_connection_requests, owner, app, receiver, logic>>
-----------------------------------------------------------------------------
(* The receive thread. *)

Receives(address) == receiver.at = "idle" /\ CanLock("receiver")

\* process_connect_accept.
receive_accept(address) ==
    /\ Receives(address)
    /\ m_peers[address] # NULL
    /\ m_connection_state[m_peers[address]] = "OUTGOING"
    /\ m_connection_state' = [m_connection_state EXCEPT ![m_peers[address]] = "CONNECTED"]
    /\ UNCHANGED <<links, ids, fields, m_connection_requests, owner, app, receiver, logic>>

\* A packet that ends a connection was looked at: a DISCONNECT for the peer,
\* or a PEER_NOT_FOUND.
receive_end(address) ==
    /\ Receives(address)
    /\ IsActive(m_peers[address])
    /\ receiver' = [at |-> "disconnect", address |-> address]
    /\ UNCHANGED <<links, ids, fields, m_connection_state, m_connection_requests, owner,
                   app, logic>>

\* process_connect_request on the peer, if there is one.  What happens next is
\* decided by its state and the connect times.
receive_request(address) ==
    /\ Receives(address)
    /\ address \in Requesters
    /\ receiver' = [at |-> IF m_peers[address] = NULL THEN "request"
                           ELSE IF IsActive(m_peers[address]) THEN "replace"
                           ELSE "remove",
                    address |-> address]
    /\ UNCHANGED <<links, ids, fields, m_connection_state, m_connection_requests, owner,
                   app, logic>>

\* disconnect_peer_force at the end of a connection, or before the peer is
\* replaced.
receive_disconnect ==
    /\ receiver.at \in {"disconnect", "replace"}
    /\ CanLock("receiver")
    /\ disconnect_peer(receiver.address, "DISCONNECTED")
    /\ receiver' = IF receiver.at = "replace" THEN [receiver EXCEPT !.at = "remove"] ELSE Idle
    /\ UNCHANGED <<links, ids, fields, m_connection_requests, owner, app, logic>>

receive_remove ==
    /\ receiver.at = "remove"
    /\ CanLock("receiver")
    /\ remove_peer_internal(receiver.address)
    /\ receiver' = [receiver EXCEPT !.at = "request"]
    /\ UNCHANGED <<fields, m_connection_state, m_connection_requests, owner, app, logic>>

\* The request is entered, or the one that is entered already is updated.
enter_request ==
    /\ receiver.at = "request"
    /\ m_connection_requests' = m_connection_requests \cup {receiver.address}
    /\ receiver' = Idle
    /\ UNCHANGED <<links, ids, fields, m_connection_state, owner, app, logic>>
-----------------------------------------------------------------------------
(* The logic thread: update_logic. *)

begin_scan ==
    /\ logic.at = "sleep"
    /\ logic' = [logic EXCEPT !.at = "scan", !.netPeer = m_head_peer, !.owed = Registered]
    /\ UNCHANGED <<links, ids, fields, m_connection_state, m_connection_requests, owner,
                   app, receiver>>

\* One peer: marked for removal if it is down and has been for long enough,
\* else updated.  An update may find that the peer has timed out.
scan_peer ==
    LET peer == logic.netPeer
    IN  /\ logic.at = "scan"
        /\ peer # NULL
        /\ \/ /\ m_connection_state[peer] = "DISCONNECTED"
              /\ logic' = [logic EXCEPT !.at = "next", !.owed = @ \ {peer},
                                        !.peersToRemove = Append(@, m_endpoint[peer])]
              /\ UNCHANGED m_connection_state
           \/ /\ logic' = [logic EXCEPT !.at = "next", !.owed = @ \ {peer}]
              /\ UNCHANGED m_connection_state
           \/ /\ IsActive(peer)
              /\ logic' = [logic EXCEPT !.at = "timeout", !.owed = @ \ {peer}]
              /\ UNCHANGED m_connection_state
           \/ /\ m_connection_state[peer] = "SHUTDOWN_REQUESTED"
              /\ logic' = [logic EXCEPT !.at = "next", !.owed = @ \ {peer}]
              /\ m_connection_state' = [m_connection_state EXCEPT ![peer] = "DISCONNECTED"]
        /\ UNCHANGED <<links, ids, fields, m_connection_requests, owner, app, receiver>>

\* net_peer::update calls disconnect_peer_force with the address of the peer.
time_out ==
    /\ logic.at = "timeout"
    /\ CanLock("logic")
    /\ disconnect_peer(m_endpoint[logic.netPeer], "DISCONNECTED")
    /\ logic' = [logic EXCEPT !.at = "next"]
    /\ UNCHANGED <<links, ids, fields, m_connection_requests, owner, app, receiver>>

next_peer ==
    /\ logic.at = "next"
    /\ logic' = [logic EXCEPT !.at = "scan", !.netPeer = m_next_peer[@]]
    /\ UNCHANGED <<links, ids, fields, m_connection_state, m_connection_requests, owner,
                   app, receiver>>

\* The peers at the marked addresses are removed, all under one lock.
remove_marked ==
    /\ logic.at = "scan"
    /\ logic.netPeer = NULL
    /\ logic.peersToRemove # <<>>
    /\ CanLock("logic")
    /\ remove_peer_internal(Head(logic.peersToRemove))
    /\ logic' = [logic EXCEPT !.peersToRemove = Tail(@)]
    /\ owner' = IF Tail(logic.peersToRemove) = <<>> THEN "none" ELSE "logic"
    /\ UNCHANGED <<fields, m_connection_state, m_connection_requests, app, receiver>>

end_scan ==
    /\ logic.at = "scan"
    /\ logic.netPeer = NULL
    /\ logic.peersToRemove = <<>>
    /\ logic' = [logic EXCEPT !.at = "sleep"]
    /\ UNCHANGED <<links, ids, fields, m_connection_state, m_connection_requests, owner,
                   app, receiver>>

update_logic ==
    begin_scan \/ scan_peer \/ time_out \/ next_peer \/ remove_marked \/ end_scan

connect_returns == connect_existing \/ connect_remove \/ connect_add

Next ==
    \/ \E address \in Address :
          \/ begin_connect(address) \/ solve_request(address) \/ disconnect(address)
          \/ receive_accept(address) \/ receive_end(address) \/ receive_request(address)
    \/ connect_returns \/ erase_request
    \/ receive_disconnect \/ receive_remove \/ enter_request
    \/ update_logic

Spec == Init /\ [][Next]_vars
-----------------------------------------------------------------------------
\* The type of every variable.
TypeOK ==
    /\ m_peers \in [Address -> {NULL} \cup Peer]
    /\ m_head_peer \in {NULL} \cup Peer
    /\ m_next_peer \in [Peer -> {NULL} \cup Peer]
    /\ m_prev_peer \in [Peer -> {NULL} \cup Peer]
    /\ created \in 0 .. MaxPeers
    /\ m_endpoint \in [Peer -> Address \cup {NoAddress}]
    /\ m_id \in [Peer -> Nat]
    /\ m_connection_state \in [Peer -> State]
    /\ m_peer_ids \in Seq(Nat)
    /\ m_peer_id_counter \in Nat
    /\ \E n \in ArraySize .. ArraySize + 2 * MaxPeers :
          m_peers_array \in [0 .. n - 1 -> {NULL} \cup Peer]
    /\ m_connection_requests \in SUBSET Address
    /\ owner \in {"none", "app", "logic"}
    /\ app \in {Idle} \cup [at : {"connect", "add", "erase"}, address : Address]
    /\ receiver \in {Idle} \cup [at : {"disconnect", "replace", "remove", "request"}, address : Address]
    /\ logic \in [at : {"sleep", "scan", "timeout", "next"}, netPeer : {NULL} \cup Peer,
                  peersToRemove : Seq(Address), owed : SUBSET Peer]

\* The list holds exactly the peers of the map, from the newest to the oldest,
\* and its two directions agree, whoever was removed from its middle or ends.
ListMatchesMap ==
    /\ m_head_peer = IF Registered = {} THEN NULL
                     ELSE CHOOSE p \in Registered : \A q \in Registered : q <= p
    /\ \A p, q \in Registered :
          /\ m_next_peer[p] = q <=> m_prev_peer[q] = p
          /\ m_next_peer[p] = q <=> q < p /\ ~\E r \in Registered : q < r /\ r < p
    /\ \A p \in Registered :
          /\ m_next_peer[p] \in Registered \cup {NULL}
          /\ m_prev_peer[p] \in Registered \cup {NULL}

\* Two peers never have one id, an id that waits to be used again belongs to
\* no peer, and m_peers_array leads from the id of each peer to the peer.
IdsAreUnique ==
    /\ \A p \in Registered : m_id[p] \in DOMAIN m_peers_array /\ m_peers_array[m_id[p]] = p
    /\ \A i \in DOMAIN m_peers_array : m_peers_array[i] # NULL =>
          m_peers_array[i] \in Registered /\ m_id[m_peers_array[i]] = i
    /\ \A i, j \in DOMAIN m_peer_ids : m_peer_ids[i] = m_peer_ids[j] => i = j
    /\ \A i \in DOMAIN m_peer_ids : \A p \in Registered : m_peer_ids[i] # m_id[p]

\* The scan takes no lock, and the peer it stands on may be removed under its
\* feet.  It still comes by every peer that was there when it began and has
\* not been removed before it came by.
ScanMissesNobody ==
    logic.at = "scan" /\ logic.netPeer = NULL => logic.owed \cap Registered = {}
=============================================================================
