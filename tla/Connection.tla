----------------------------- MODULE Connection -----------------------------
(***************************************************************************)
(* How two managers connect, keep a connection alive, disconnect and       *)
(* connect again: net_manager::on_message_received with the handlers of    *)
(* net_peer behind it, connect, the solving of connection requests,        *)
(* disconnect and the timers of net_peer::update, over a network that      *)
(* loses, duplicates and reorders datagrams.                               *)
(*                                                                         *)
(* Each manager has at most one peer, the other manager.  Where the code   *)
(* looks at a peer and then looks its address up again, to shut down or to *)
(* remove whoever has it by then, the handler is two steps: handler and    *)
(* logic say what the receive thread and the logic thread are about to do. *)
(* A step of the clock, tick, stands for the updates of the logic thread   *)
(* during one ping_interval: the timers of net_peer are counted in ticks,  *)
(* and each of them that is shorter than a tick fires once.                *)
(*                                                                         *)
(* accepted, closed, open, stale and dropped are history variables; no     *)
(* guard reads them.                                                       *)
(* Definitions marked `Mutant' are errors made on purpose, one for each    *)
(* property; no action uses them.                                          *)
(***************************************************************************)
EXTENDS Integers, FiniteSets

CONSTANTS
    Manager,             \* the two managers
    Applications,        \* what the applications may do, see Application
    MaxTime,             \* bound: the m_connect_times are 1 .. MaxTime
    Uninitialised,       \* what connectionNumber may hold in connect when there is no old peer
    TieLosers,           \* who loses by the comparison of addresses when both connect at one time
    DisconnectTimeout,   \* disconnect_timeout, in ticks
    MaxAttempts,         \* max_connect_attempts
    Loses, Duplicates,   \* what the network may do
    MaxInFlight,         \* bound: datagrams on their way to one manager
    Prompt               \* datagrams arrive and requests are solved before the next tick

MAX_CONNECTION_NUMBER == 4

\* Which of them call connect, how often (a bound) they connect, disconnect and
\* their processes are restarted, whether they may reject a request and whether
\* they send messages.
Application == [callers : SUBSET Manager, connects : Nat, disconnects : Nat,
                restarts : Nat, rejects : BOOLEAN, sends : BOOLEAN]

ASSUME ConnectionAssumption ==
    /\ IsFiniteSet(Manager) /\ Cardinality(Manager) = 2
    /\ Applications \subseteq Application
    /\ MaxTime \in Nat \ {0}
    /\ Uninitialised \subseteq 0 .. 255 /\ Uninitialised # {}
    /\ TieLosers \subseteq Manager /\ TieLosers # {}
    /\ DisconnectTimeout \in Nat \ {0} /\ MaxAttempts \in Nat \ {0}
    /\ {Loses, Duplicates, Prompt} \subseteq BOOLEAN
    /\ MaxInFlight \in Nat \ {0}

VARIABLES
    peer,        \* m's net_peer for the other manager, or NoPeer
    request,     \* m's entry of m_connection_requests, or NoRequest
    clock,       \* the m_connect_time of m's latest connect
    net,         \* datagrams on their way to m
    turn,        \* whose tick is next, if Prompt
    calls,       \* what the applications may still do
    handler,     \* what m's receive thread is about to do to the address of the peer it looked at
    logic,       \* what m's logic thread is about to do to it
    accepted,    \* history: the connect times m's application accepted
    closed,      \* history: the sessions, [time, number], m sent a DISCONNECT for
    open,        \* history: CONNECT events without a DISCONNECT event, at m
    stale,       \* history: the threads whose address m gave to another peer since they looked
    dropped      \* history: CONNECTED peers that were removed by such a thread

vars == <<peer, request, clock, net, turn, calls, handler, logic,
          accepted, closed, open, stale, dropped>>
history == <<accepted, closed, open>>
threads == <<handler, logic, stale, dropped>>

Other(m) == CHOOSE o \in Manager : o # m

State == {"OUTGOING", "CONNECTED", "SHUTDOWN_REQUESTED", "DISCONNECTED"}
NoPeer == [state |-> "NONE", time |-> 0, number |-> 0, accepts |-> FALSE,
           attempts |-> 0, since |-> 0]
NoRequest == [time |-> 0, number |-> 0]

\* The receive thread is about to end a session, for a DISCONNECT or a
\* PEER_NOT_FOUND packet, or to replace a peer by a request: to disconnect it,
\* to remove it.  The logic thread is about to give up a connection or to remove
\* a peer.
Step == {"IDLE", "DISCONNECT", "PEER_NOT_FOUND", "RECONNECT", "REMOVE"}
Thread == {"receive", "logic"}
LogicStep == {"IDLE", "GIVE_UP", "REMOVE"}
Idle == [step |-> "IDLE", time |-> 0, number |-> 0]

Exists(m) == peer[m] # NoPeer
IsConnected(m) == peer[m].state \in {"CONNECTED", "OUTGOING"}

\* Mutant: the number is written into the header as it is.
Wire_unmasked(number) == number

\* set_connection_number keeps two bits of the number.
Wire(number) == number % MAX_CONNECTION_NUMBER

ConnectRequest(time, number) == [kind |-> "CONNECT_REQUEST", time |-> time, number |-> Wire(number)]
ConnectAccept(time, number) == [kind |-> "CONNECT_ACCEPT", time |-> time, number |-> number]
Data(number) == [kind |-> "DATA", time |-> 0, number |-> Wire(number)]

\* Packets that carry nothing the handlers look at.  The connection number of
\* m_ping_packet, m_pong_packet and m_merge_data is never set.
Bare(kind) == [kind |-> kind, time |-> 0, number |-> 0]
BareKind == {"PING", "PONG", "MERGED", "SHUTDOWN_OK", "PEER_NOT_FOUND", "NETWORK_CHANGED",
             "PEER_NOT_FOUND_AGAIN", "MALFORMED"}

\* The third bit of the number falls on the flag of a fragment, and a
\* DISCONNECT without data (no application here adds any) is then too short to
\* be one: verify will refuse it.  A CONNECT_REQUEST is long enough.
MarksFragment(number) == (number \div MAX_CONNECTION_NUMBER) % 2 = 1
Disconnect(time, number) ==
    IF MarksFragment(number) THEN Bare("MALFORMED")
    ELSE [kind |-> "DISCONNECT", time |-> time, number |-> Wire(number)]

\* A network that duplicates may deliver a datagram again and again, until it
\* is lost.
Consumed(m, d) == IF Duplicates THEN net[m] ELSE net[m] \ {d}
Fits(ds, sent) == IF Cardinality(ds \cup sent) > MaxInFlight THEN ds ELSE ds \cup sent
Send(m, ds) == net' = [net EXCEPT ![Other(m)] = Fits(@, ds)]
ReceiveAndSend(m, d, ds) ==
    net' = [net EXCEPT ![m] = Consumed(m, d), ![Other(m)] = Fits(@, ds)]

Init ==
    /\ peer = [m \in Manager |-> NoPeer]
    /\ request = [m \in Manager |-> NoRequest]
    /\ clock = [m \in Manager |-> 0]
    /\ net = [m \in Manager |-> {}]
    /\ turn \in IF Prompt THEN Manager ELSE {CHOOSE m \in Manager : TRUE}
    /\ calls \in Applications
    /\ handler = [m \in Manager |-> Idle]
    /\ logic = [m \in Manager |-> "IDLE"]
    /\ accepted = [m \in Manager |-> {}]
    /\ closed = [m \in Manager |-> {}]
    /\ open = [m \in Manager |-> 0]
    /\ stale = [m \in Manager |-> {}]
    /\ dropped = [m \in Manager |-> 0]
-----------------------------------------------------------------------------
(* net_peer::shutdown, as seen by disconnect_peer. *)

\* shutdown does nothing to a peer that is down or on its way there.
ShutdownResult(m) ==
    IF peer[m].state \in {"NONE", "DISCONNECTED", "SHUTDOWN_REQUESTED"} THEN "NONE"
    ELSE IF peer[m].state = "CONNECTED" THEN "WAS_CONNECTED" ELSE "SUCCESS"

\* The CONNECT events without a DISCONNECT event after a shutdown.
OpenAfterShutdown(m) == IF ShutdownResult(m) = "WAS_CONNECTED" THEN open[m] - 1 ELSE open[m]

\* The peer after disconnect_peer_force.
Forced(m) == IF ShutdownResult(m) = "NONE" THEN peer[m]
             ELSE [peer[m] EXCEPT !.state = "DISCONNECTED"]

\* disconnect_peer_force, on whoever has the address now.
disconnect_peer_force(m) ==
    /\ peer' = [peer EXCEPT ![m] = Forced(m)]
    /\ open' = [open EXCEPT ![m] = OpenAfterShutdown(m)]

\* remove_peer_internal, by a thread, of whoever has the address now.
remove_peer_internal(m, thread) ==
    /\ peer' = [peer EXCEPT ![m] = NoPeer]
    /\ dropped' = [dropped EXCEPT ![m] =
          IF peer[m].state = "CONNECTED" /\ thread \in stale[m] THEN @ + 1 ELSE @]

\* add_peer gives the address to another peer than the one a thread may have
\* looked at.
IsBusy(m, thread) == IF thread = "receive" THEN handler[m] # Idle ELSE logic[m] # "IDLE"
add_peer(m, p) ==
    /\ peer' = [peer EXCEPT ![m] = p]
    /\ stale' = [stale EXCEPT ![m] = {t \in Thread : IsBusy(m, t)}]
    /\ UNCHANGED <<handler, logic, dropped>>

\* A handler that got d and changes nothing but the network.
ignore(m, d, reply) ==
    /\ ReceiveAndSend(m, d, reply)
    /\ UNCHANGED <<peer, request, clock, turn, calls, history, threads>>

\* The process ends and another takes its place: all it knew is lost.
Forget(m) ==
    /\ peer' = [peer EXCEPT ![m] = NoPeer]
    /\ request' = [request EXCEPT ![m] = NoRequest]
    /\ handler' = [handler EXCEPT ![m] = Idle]
    /\ logic' = [logic EXCEPT ![m] = "IDLE"]
    /\ open' = [open EXCEPT ![m] = 0]
    /\ stale' = [stale EXCEPT ![m] = {}]
    /\ dropped' = [dropped EXCEPT ![m] = 0]
-----------------------------------------------------------------------------
(* The application. *)

\* connect.  The number of an earlier peer is continued; without one the
\* local variable it is kept in was never assigned.
connect(m) ==
    /\ m \in calls.callers /\ calls.connects > 0
    /\ calls' = [calls EXCEPT !.connects = @ - 1]
    /\ request[m] = NoRequest
    /\ ~IsConnected(m)
    /\ \E time \in clock[m] + 1 .. MaxTime :
       \E number \in IF Exists(m) THEN {(peer[m].number + 1) % MAX_CONNECTION_NUMBER}
                                  ELSE Uninitialised :
          /\ clock' = [clock EXCEPT ![m] = time]
          /\ add_peer(m, [NoPeer EXCEPT !.state = "OUTGOING", !.time = time, !.number = number])
          /\ Send(m, {ConnectRequest(time, number)})
    /\ UNCHANGED <<request, turn, history>>

\* disconnect_all.
disconnect(m) ==
    /\ calls.disconnects > 0
    /\ ShutdownResult(m) # "NONE"
    /\ calls' = [calls EXCEPT !.disconnects = @ - 1]
    /\ peer' = [peer EXCEPT ![m].state = "SHUTDOWN_REQUESTED", ![m].since = 0]
    /\ open' = [open EXCEPT ![m] = OpenAfterShutdown(m)]
    /\ closed' = [closed EXCEPT ![m] = @ \cup
          {[time |-> peer[m].time, number |-> Wire(peer[m].number)]}]
    /\ Send(m, {Disconnect(peer[m].time, peer[m].number)})
    /\ UNCHANGED <<request, clock, turn, accepted, threads>>

\* net_connection_request::accept.
accept(m) ==
    /\ request[m] # NoRequest
    /\ request' = [request EXCEPT ![m] = NoRequest]
    /\ IF Exists(m)
       THEN UNCHANGED <<peer, net, history, threads>>
       ELSE /\ add_peer(m, [NoPeer EXCEPT !.state = "CONNECTED", !.time = request[m].time,
                                          !.number = request[m].number, !.accepts = TRUE])
            /\ accepted' = [accepted EXCEPT ![m] = @ \cup {request[m].time}]
            /\ open' = [open EXCEPT ![m] = @ + 1]
            /\ Send(m, {ConnectAccept(request[m].time, request[m].number)})
            /\ UNCHANGED closed
    /\ UNCHANGED <<clock, turn, calls>>

\* net_connection_request::reject.
reject(m) ==
    /\ calls.rejects
    /\ request[m] # NoRequest
    /\ request' = [request EXCEPT ![m] = NoRequest]
    /\ IF Exists(m)
       THEN UNCHANGED <<peer, net, closed, threads>>
       ELSE /\ add_peer(m, [NoPeer EXCEPT !.state = "SHUTDOWN_REQUESTED",
                                          !.time = request[m].time, !.number = request[m].number])
            /\ closed' = [closed EXCEPT ![m] = @ \cup {request[m]}]
            /\ Send(m, {Disconnect(request[m].time, request[m].number)})
    /\ UNCHANGED <<clock, turn, calls, accepted, open>>

\* reject_force with data.  The packet is sent without the connect time.
reject_force(m) ==
    /\ calls.rejects
    /\ request[m] # NoRequest
    /\ request' = [request EXCEPT ![m] = NoRequest]
    /\ Send(m, {Disconnect(0, request[m].number)})
    /\ UNCHANGED <<peer, clock, turn, calls, history, threads>>

\* send_internal, on any channel, and the update that sends the message alone
\* or merged with others.
send(m) ==
    /\ calls.sends
    /\ peer[m].state = "CONNECTED"
    /\ \E d \in {Data(peer[m].number), Bare("MERGED")} : Send(m, {d})
    /\ UNCHANGED <<peer, request, clock, turn, calls, history, threads>>

\* The process ends, and another one takes its place at the same address.
restart(m) ==
    /\ calls.restarts > 0
    /\ calls' = [calls EXCEPT !.restarts = @ - 1]
    /\ Forget(m)
    /\ UNCHANGED <<clock, net, turn, accepted, closed>>
-----------------------------------------------------------------------------
(* The receive thread: on_message_received. *)

\* net_peer::process_connect_request.
ConnectRequestResult(m, d) ==
    CASE peer[m].state = "OUTGOING" ->
            IF d.time < peer[m].time \/ (d.time = peer[m].time /\ m \in TieLosers)
            THEN "P2P_LOSE" ELSE "NONE"
      [] peer[m].state = "CONNECTED" ->
            IF d.time > peer[m].time THEN "RECONNECTION" ELSE "NONE"
      [] peer[m].state \in {"DISCONNECTED", "SHUTDOWN_REQUESTED"} ->
            IF d.time >= peer[m].time THEN "NEW_CONNECTION" ELSE "NONE"
      [] OTHER -> "NO_PEER"

\* A CONNECTED peer answers the request it was made from with its accept
\* packet.  A peer that called connect itself has none: the process ends.
AnswersAgain(m, d) == peer[m].state = "CONNECTED" /\ d.time = peer[m].time

ignore_request(m, d) ==
    /\ ConnectRequestResult(m, d) = "NONE"
    /\ IF ~AnswersAgain(m, d)
       THEN ignore(m, d, {})
       ELSE IF peer[m].accepts
       THEN ignore(m, d, {ConnectAccept(peer[m].time, peer[m].number)})
       ELSE /\ Forget(m)
            /\ ReceiveAndSend(m, d, {})
            /\ UNCHANGED <<clock, turn, calls, accepted, closed>>

\* The number a request gets: the session after the one it replaces.
NumberFor(m, d) ==
    IF ConnectRequestResult(m, d) \in {"RECONNECTION", "NEW_CONNECTION"}
    THEN (peer[m].number + 1) % MAX_CONNECTION_NUMBER
    ELSE d.number

\* net_connection_request::update_request keeps the later of the two.
Updated(old, new) == IF old = NoRequest \/ new.time >= old.time THEN new ELSE old

\* The request is put to the application, or updates the one that waits.
file_request(m, time, number) ==
    request' = [request EXCEPT ![m] = Updated(@, [time |-> time, number |-> number])]

\* Mutant: a peer that reconnects is removed at once.
FirstStep_unannounced(result) == IF result = "P2P_LOSE" THEN "RECONNECT" ELSE "REMOVE"

\* What process_connect_request does first with the peer it looked at.
FirstStep(result) == IF result = "NEW_CONNECTION" THEN "REMOVE" ELSE "RECONNECT"

take_request(m, d) ==
    /\ ConnectRequestResult(m, d) # "NONE"
    /\ IF ConnectRequestResult(m, d) = "NO_PEER"
       THEN file_request(m, d.time, d.number) /\ UNCHANGED handler
       ELSE /\ handler' = [handler EXCEPT ![m] =
                  [step |-> FirstStep(ConnectRequestResult(m, d)),
                   time |-> d.time, number |-> NumberFor(m, d)]]
            /\ UNCHANGED request
    /\ ReceiveAndSend(m, d, {})
    /\ UNCHANGED <<peer, clock, turn, calls, history, logic, stale, dropped>>

\* disconnect_peer_force and remove_peer, each by the address.  Then the
\* request is filed.
disconnect_replaced(m) ==
    /\ handler[m].step = "RECONNECT"
    /\ disconnect_peer_force(m)
    /\ handler' = [handler EXCEPT ![m].step = "REMOVE"]
    /\ UNCHANGED <<request, clock, net, turn, calls, accepted, closed, logic, stale, dropped>>

remove_replaced(m) ==
    /\ handler[m].step = "REMOVE"
    /\ remove_peer_internal(m, "receive")
    /\ file_request(m, handler[m].time, handler[m].number)
    /\ handler' = [handler EXCEPT ![m] = Idle]
    /\ stale' = [stale EXCEPT ![m] = @ \ {"receive"}]
    /\ UNCHANGED <<clock, net, turn, calls, history, logic>>

receive_connect_request(m, d) ==
    /\ d.kind = "CONNECT_REQUEST"
    /\ ignore_request(m, d) \/ take_request(m, d)

\* Mutant: an accept of an earlier attempt is taken for one of this.
Accepts_any(m, d) == peer[m].state = "OUTGOING"

\* net_peer::process_connect_accept.
Accepts(m, d) == peer[m].state = "OUTGOING" /\ d.time = peer[m].time

receive_connect_accept(m, d) ==
    /\ d.kind = "CONNECT_ACCEPT"
    /\ IF Accepts(m, d)
       THEN /\ peer' = [peer EXCEPT ![m].state = "CONNECTED", ![m].number = d.number,
                                    ![m].since = 0]
            /\ open' = [open EXCEPT ![m] = @ + 1]
            /\ ReceiveAndSend(m, d, {})
            /\ UNCHANGED <<request, clock, turn, calls, accepted, closed, threads>>
       ELSE ignore(m, d, {})

\* Mutant: the connect time is not compared.
Disconnects_any(m, d) == IsConnected(m) /\ d.number = peer[m].number

\* net_peer::process_disconnect.
IsDisconnected(m, d) ==
    IsConnected(m) /\ d.time = peer[m].time /\ d.number = peer[m].number

\* The receive thread has found a reason to end the session of the peer it
\* looked at.
decide_to_end(m, d, step) ==
    /\ handler' = [handler EXCEPT ![m] = [step |-> step, time |-> d.time, number |-> d.number]]
    /\ ReceiveAndSend(m, d, {})
    /\ UNCHANGED <<peer, request, clock, turn, calls, history, logic, stale, dropped>>

receive_disconnect(m, d) ==
    /\ d.kind = "DISCONNECT"
    /\ \/ /\ ~Exists(m)
          /\ ignore(m, d, {Bare("SHUTDOWN_OK")})
       \/ /\ Exists(m) /\ ~IsDisconnected(m, d)
          /\ ignore(m, d, {})
       \/ /\ IsDisconnected(m, d)
          /\ decide_to_end(m, d, "DISCONNECT")

\* The three sizes of a PEER_NOT_FOUND packet.  All are looked at only by a
\* manager that has a connected peer.
receive_peer_not_found(m, d) ==
    /\ d.kind \in {"PEER_NOT_FOUND", "NETWORK_CHANGED", "PEER_NOT_FOUND_AGAIN"}
    /\ CASE peer[m].state # "CONNECTED" -> ignore(m, d, {})
         [] d.kind = "PEER_NOT_FOUND" -> ignore(m, d, {Bare("NETWORK_CHANGED")})
         [] d.kind = "PEER_NOT_FOUND_AGAIN" -> decide_to_end(m, d, "PEER_NOT_FOUND")
         [] d.kind = "NETWORK_CHANGED" -> ignore(m, d, {Bare("PEER_NOT_FOUND_AGAIN")})

\* disconnect_peer_force, by the address, and the answer to a DISCONNECT.
end_session(m) ==
    /\ handler[m].step \in {"DISCONNECT", "PEER_NOT_FOUND"}
    /\ disconnect_peer_force(m)
    /\ Send(m, IF handler[m].step = "DISCONNECT" THEN {Bare("SHUTDOWN_OK")} ELSE {})
    /\ handler' = [handler EXCEPT ![m] = Idle]
    /\ stale' = [stale EXCEPT ![m] = @ \ {"receive"}]
    /\ UNCHANGED <<request, clock, turn, calls, accepted, closed, logic, dropped>>

\* net_peer::process_packet, on a packet other than SHUTDOWN_OK that carries
\* the number of the session.
IsForSession(m, d) ==
    IsConnected(m) /\ d.kind # "SHUTDOWN_OK" /\ d.number = peer[m].number

receive_other(m, d) ==
    /\ d.kind \in {"DATA", "MERGED", "PING", "PONG", "SHUTDOWN_OK"}
    /\ \/ /\ ~Exists(m)
          /\ ignore(m, d, {Bare("PEER_NOT_FOUND")})
       \/ /\ Exists(m) /\ ~IsForSession(m, d)
          /\ ignore(m, d, {})
       \/ /\ IsForSession(m, d)
          /\ peer' = [peer EXCEPT ![m].since = 0]
          /\ ReceiveAndSend(m, d, IF d.kind = "PING" THEN {Bare("PONG")} ELSE {})
          /\ UNCHANGED <<request, clock, turn, calls, history, threads>>

receive_malformed(m, d) == d.kind = "MALFORMED" /\ ignore(m, d, {})

receive(m, d) ==
    /\ handler[m].step = "IDLE"
    /\ d \in net[m]
    /\ \/ receive_malformed(m, d) \/ receive_connect_request(m, d) \/ receive_connect_accept(m, d)
       \/ receive_disconnect(m, d) \/ receive_peer_not_found(m, d) \/ receive_other(m, d)

\* The rest of a handler.
handle(m) == end_session(m) \/ disconnect_replaced(m) \/ remove_replaced(m)
-----------------------------------------------------------------------------
(* The logic thread: update_logic and net_peer::update for one tick. *)

Since(m) == IF peer[m].since > DisconnectTimeout THEN peer[m].since ELSE peer[m].since + 1
TimedOut(m) == Since(m) > DisconnectTimeout

\* The other side is not silent and every request has been answered.
Quiet == \A m \in Manager :
    net[m] = {} /\ request[m] = NoRequest /\ handler[m] = Idle /\ logic[m] = "IDLE"

CanTick(m) == logic[m] = "IDLE" /\ Exists(m) /\ (Prompt => Quiet /\ (turn = m \/ ~Exists(Other(m))))

PassTurn(m) == turn' = IF Prompt THEN Other(m) ELSE turn

\* The update of a peer that is to be given up or removed.  The address is
\* looked up in the step that follows.
mark(m, step) ==
    /\ peer' = [peer EXCEPT ![m].since = Since(m)]
    /\ logic' = [logic EXCEPT ![m] = step]
    /\ UNCHANGED net

\* An update that sends ds.
keep(m, attempts, ds) ==
    /\ peer' = [peer EXCEPT ![m].since = Since(m), ![m].attempts = attempts]
    /\ Send(m, ds)
    /\ UNCHANGED logic

update_connected(m) ==
    /\ CanTick(m)
    /\ peer[m].state = "CONNECTED"
    /\ IF TimedOut(m) THEN mark(m, "GIVE_UP")
       ELSE keep(m, peer[m].attempts, {Bare("PING")})
    /\ PassTurn(m)
    /\ UNCHANGED <<request, clock, calls, history, handler, stale, dropped>>

update_shutdown(m) ==
    /\ CanTick(m)
    /\ peer[m].state = "SHUTDOWN_REQUESTED"
    /\ IF TimedOut(m)
       THEN /\ peer' = [peer EXCEPT ![m].state = "DISCONNECTED", ![m].since = Since(m)]
            /\ UNCHANGED <<net, logic>>
       ELSE keep(m, peer[m].attempts, {Disconnect(peer[m].time, peer[m].number)})
    /\ PassTurn(m)
    /\ UNCHANGED <<request, clock, calls, history, handler, stale, dropped>>

Attempts(m) == peer[m].attempts + 1

update_outgoing(m) ==
    /\ CanTick(m)
    /\ peer[m].state = "OUTGOING"
    /\ IF Attempts(m) > MaxAttempts THEN mark(m, "GIVE_UP")
       ELSE keep(m, Attempts(m), {ConnectRequest(peer[m].time, peer[m].number)})
    /\ PassTurn(m)
    /\ UNCHANGED <<request, clock, calls, history, handler, stale, dropped>>

\* update_logic notes the address of a peer that has been silent for long
\* enough.
update_disconnected(m) ==
    /\ CanTick(m)
    /\ peer[m].state = "DISCONNECTED"
    /\ IF peer[m].since > DisconnectTimeout THEN mark(m, "REMOVE")
       ELSE keep(m, peer[m].attempts, {})
    /\ PassTurn(m)
    /\ UNCHANGED <<request, clock, calls, history, handler, stale, dropped>>

tick(m) == update_connected(m) \/ update_shutdown(m) \/ update_outgoing(m) \/ update_disconnected(m)

\* disconnect_peer_force, by the address.
give_up(m) ==
    /\ logic[m] = "GIVE_UP"
    /\ disconnect_peer_force(m)
    /\ logic' = [logic EXCEPT ![m] = "IDLE"]
    /\ stale' = [stale EXCEPT ![m] = @ \ {"logic"}]
    /\ UNCHANGED <<request, clock, net, turn, calls, accepted, closed, handler, dropped>>

\* update_logic removes whoever has an address it noted.
remove_marked(m) ==
    /\ logic[m] = "REMOVE"
    /\ remove_peer_internal(m, "logic")
    /\ logic' = [logic EXCEPT ![m] = "IDLE"]
    /\ stale' = [stale EXCEPT ![m] = @ \ {"logic"}]
    /\ UNCHANGED <<request, clock, net, turn, calls, history, handler>>
-----------------------------------------------------------------------------
lose(m) ==
    /\ Loses
    /\ \E d \in net[m] : net' = [net EXCEPT ![m] = @ \ {d}]
    /\ UNCHANGED <<peer, request, clock, turn, calls, history, threads>>

Next == \E m \in Manager :
    \/ connect(m) \/ disconnect(m) \/ accept(m) \/ reject(m) \/ reject_force(m)
    \/ send(m) \/ restart(m)
    \/ \E d \in net[m] : receive(m, d)
    \/ handle(m)
    \/ tick(m) \/ give_up(m) \/ remove_marked(m)
    \/ lose(m)

Spec == Init /\ [][Next]_vars
-----------------------------------------------------------------------------
Packet ==
    [kind : {"CONNECT_REQUEST", "CONNECT_ACCEPT", "DISCONNECT", "DATA"},
     time : 0 .. MaxTime, number : 0 .. MAX_CONNECTION_NUMBER - 1]
    \cup {Bare(k) : k \in BareKind}

\* The type of every variable.
TypeOK ==
    /\ peer \in [Manager -> [state : State \cup {"NONE"}, time : 0 .. MaxTime, number : 0 .. 255,
                             accepts : BOOLEAN, attempts : 0 .. MaxAttempts,
                             since : 0 .. DisconnectTimeout + 1]]
    /\ request \in [Manager -> [time : 0 .. MaxTime, number : 0 .. MAX_CONNECTION_NUMBER - 1]]
    /\ clock \in [Manager -> 0 .. MaxTime]
    /\ net \in [Manager -> SUBSET Packet]
    /\ turn \in Manager
    /\ calls \in Application
    /\ accepted \in [Manager -> SUBSET (0 .. MaxTime)]
    /\ closed \in [Manager -> SUBSET [time : 0 .. MaxTime, number : 0 .. MAX_CONNECTION_NUMBER - 1]]
    /\ handler \in [Manager -> [step : Step, time : 0 .. MaxTime,
                                number : 0 .. MAX_CONNECTION_NUMBER - 1]]
    /\ logic \in [Manager -> LogicStep]
    /\ open \in [Manager -> Int] /\ dropped \in [Manager -> Nat]
    /\ stale \in [Manager -> SUBSET Thread]

\* An application that was told of a connection is told of its end, whatever
\* ended it, before the peer is replaced or removed, and only once.  The one
\* exception: a peer that took the address after the receive thread or the
\* logic thread looked at an earlier peer there, and before that thread removed
\* whoever had it, goes without a DISCONNECT event.
EveryConnectIsMatched ==
    \A m \in Manager :
        open[m] = (IF peer[m].state = "CONNECTED" THEN 1 ELSE 0) + dropped[m]

\* A connection that m asked for is CONNECTED only after the application at
\* the other end accepted that very attempt: accepts of earlier attempts that
\* arrive late or twice do not count.
ConnectedWasAccepted ==
    \A m \in Manager :
        peer[m].state = "CONNECTED" /\ ~peer[m].accepts => peer[m].time \in accepted[Other(m)]

\* A DISCONNECT packet is acted on only if the other manager closed the session
\* it names, and what it ends is that session, or the session of a peer that
\* took the address between process_disconnect and disconnect_peer_force.
DisconnectEndsItsSession ==
    [][\A m \in Manager :
          end_session(m) /\ handler[m].step = "DISCONNECT"
             => /\ [time |-> handler[m].time, number |-> handler[m].number] \in closed[Other(m)]
                /\ \/ peer'[m] = peer[m]
                   \/ "receive" \in stale[m]
                   \/ peer[m].time = handler[m].time /\ peer[m].number = handler[m].number]_vars

\* While datagrams arrive in time no connection is lost.
NoConnectionDrops ==
    [][\A m \in Manager : give_up(m) => peer[m].state # "CONNECTED"]_vars
=============================================================================
