# A verification development of LiteNetLibPP

LiteNetLibPP is a C++ port of LiteNetLib: connections, reliable and sequenced
channels and connection management on top of UDP.  This directory holds TLA+
modules of its protocol logic, TLC configurations that model-check them, and
proofs checked by TLAPS.  `PROJECT.json` relates every definition to the lines
it models, lists the runs, the mutants (one plausible error in the code for
each property, which the run must catch), the hazards and the findings.

    tlc -config rc_safety.cfg MCReliableChannel      # check a run
    tlapm ReliableChannelProofs.tla                  # check the proofs of a module

Paths below are relative to the repository's root.

## 1. The system

A `net_manager` owns a UDP socket and a `net_peer` for each remote address.
Three kinds of thread meet in it:

* the **application's threads** call `connect`, `disconnect_peer`, `send`,
  `net_connection_request::accept`/`reject`, and `poll_events`;
* the **receive thread** (`receive_logic`) takes datagrams from the socket and
  runs `on_message_received` on each, and behind it the handlers of the peer
  and of its channels;
* the **logic thread** (`update_logic`) runs `net_peer::update` on every peer
  each `update_time` (15 ms): timers, pings, and one visit of each channel that
  is in the peer's send queue; then it removes the peers that are gone.

| Component | State | Operations | Talks to | What is hard | What makes it correct |
|---|---|---|---|---|---|
| Sequence numbers (`net_utils.h`, `net_constants.h`) | 16-bit counters modulo `MAX_SEQUENCE` | `relative_sequence_number`, `(n + 1) % MAX_SEQUENCE` | all channels, pings | wrap-around, half of the ring | the circular difference is the true one as long as the counters are within half of the ring |
| Reliable channel (`channels/net_reliable_channel.cpp`) | outgoing queue, 64 pending packets, local and remote sequence with the start of each window, the ACK packet as a bit set, held packets | `send_next_packets`, `process_packet`, `process_ack` | base channel, peer | loss, reordering, repetition; a slot and an ack bit stand for another packet each time the window turns | no loss, no duplicate, order; acks tell the truth; windows of the two ends never disagree |
| Sequenced channel (`channels/net_sequenced_channel.cpp`) | local and remote sequence, last packet | the same three | base channel, peer | old packets after a wrap | nothing old after something new; the last message arrives |
| Send queue (`channels/net_base_channel.*`, `net_queue.h`, `net_peer::update`) | queue of channels, an atomic flag in each | `add_to_peer_channel_send_queue`, `send_and_check_queue`, the loop of `update` | the three kinds of thread | flag and queue change in separate steps | a scheduled channel is in one place, and is visited |
| Connection (`net_peer`, `net_manager::on_message_received`, `connect`, `on_connection_solved`, `net_connection_request`) | state, connect time and number, attempts, time since the last packet; requests not solved yet | connect, accept, reject, disconnect, six kinds of packet, the timers | the same on the other side | late packets of an earlier session, both sides connecting at once, restarts | each side's view comes from the other side's decision; every CONNECT event has its DISCONNECT event |
| Peer registry (`net_manager`) | map and linked list of peers, ids, array, requests | `add_peer`, `remove_peer_internal`, the scan of `update_logic` | the three kinds of thread | the list is walked without a lock | map, list, ids agree; the scan misses nobody |
| Fragmentation (`net_peer::send_internal`, `add_reliable_packet`) | fragment id, incoming fragments by id | split, assemble | reliable channel | several threads split at one time; ids come around; the MTU moves | a message is assembled once, from its own parts |
| Merging (`send_user_data`, `send_merged`) | merge buffer, position, count | append, flush | all senders | the limit of the buffer, the MTU read twice | nothing lost, no datagram longer than the MTU |
| MTU discovery (`update_mtu_logic`, `process_mtu_packet`) | MTU index, attempts, finish flag | probe, answer, reset | peer | late answers, lost probes, two ends that reset each other's attempts | the MTU only grows to what was confirmed; probing ends |
| Ping and RTT (`net_peer`) | ping sequence, RTT sums, resend delay | ping, pong | reliable channel | 16-bit ping sequence in a smaller ring | a ping that is new is answered |
| Packet pool (`pool_get_packet`, `pool_recycle`) | free list | get, recycle | everything | size read without lock | bounded |
| Events (`create_event`, `poll_events`, `disconnect_peer`) | two queues | create, poll | application, receive and logic thread | three threads end one peer; handlers that disconnect; queues swapped under those who fill them | one end for each peer that went down, told to the application |
| Unconnected messages, reader and writer, addresses, stopwatch, logger | - | - | - | - | - |

`net_manager` and `net_peer` call each other: a handler of the peer returns a
verdict (`CONNECT_REQUEST_RESULT`, `DISCONNECT_RESULT`, `SHUTDOWN_RESULT`) that
the manager acts upon; a channel calls its peer back to deliver
(`add_reliable_packet`) and to send (`send_user_data`); a delivered packet
becomes an event, which the application sees when it polls.  Behaviours that
are hard to test: threads that meet between two steps, stale datagrams,
counters that wrap, restarts, and everything that needs a loss at one moment.
The list, with lines, is `hazards` in `PROJECT.json`.

## 2. The modules

| Module | Models | State and actions |
|---|---|---|
| `SequenceNumbers` | `relative_sequence_number`, the wrap | operators only; `Remainder` is the C++ `%` |
| `ReliableDelivery` | what a reliable channel promises | abstract: `submitted`, `delivered` |
| `ReliableChannel` | `net_reliable_channel` at both ends, two directions, and the network | variables have the names of the fields; one step per handler |
| `SequencedChannel` | `net_sequenced_channel`, sender and receiver of one direction | as above |
| `ChannelSendQueue` | the flag `m_is_added_to_peer_channel_send_queue` and `m_channel_send_queue` | one step per shared access or critical section |
| `Connection` | handshake, keep-alive and shutdown between two managers | one action per handler, API call and state's timer |
| `PeerRegistry` | `m_peers`, the list, ids and array under three threads | one step per critical section of `m_peers_mutex` or unlocked read |
| `PeerEvents` | the threads of one manager that connect and disconnect one address, and the event queues | one step per access to the entry, to `m_connection_state` or to a queue |
| `MessageDelivery` | what a connection promises to the threads that send | abstract: `submitted`, `delivered` |
| `MessagePath` | splitting, merging, unpacking and assembly | several senders, the logic thread, the receive thread of the other end; an MTU that moves |
| `MtuDiscovery` | the probes of both ends | one action per handler and one for the logic thread |
| `MC...` | instances for TLC | names for model values, functions a `.cfg` cannot write |
| `ReliableChannelProofs`, `ChannelSendQueueProofs`, `ConnectionProofs`, `MtuDiscoveryProofs`, `SequencedChannelProofs`, `PeerRegistryProofs`, `PeerEventsProofs`, `MessagePathProofs` | - | theorems and lemmas |

How the modules divide the system.  `ReliableChannel` takes a visit by the
logic thread as one step and carries the flag and the queue entry as one
Boolean `queued`; `ChannelSendQueue` has the steps within that visit and leaves
out what is in the packets.  `FlagIsALock` is what allows the first to treat
the two as one, and `sq_wakeup` shows the one place where that hides a
behaviour.  `Connection` has both ends and takes a handler as one step, or as
two where the code looks an address up again; `PeerEvents` has the accesses within a handler at one end, under packets that
come in any order, and `PeerRegistry` the list and the ids of several peers;
both leave the connect times out (either result of a comparison may occur).
`MessagePath` stands on top of the channels: in between, they do what
`ReliableDelivery` promises, which `rc_safety` shows of `ReliableChannel` on a
small instance and `ReliableChannelProofs!ChannelDelivers` for every one.  That
is a promise of safety: what is handed over, once and in order.  That a packet
which was lost is sent again belongs to none of them, since `rc_lossy` refutes
it; `MessagePath` lets a channel do so (`resend`) and does not assume it.  Its
`m_mtu` moves as `MtuDiscovery` moves it: one size up, or back to the start.

### ReliableChannel

The payload of a packet is its number in the order of submission.  The four
counters of a direction are modelled twice: wrapped, as in the code, and
`unwrapped`, a history variable that no guard reads and that the invariants are
stated with.  `pending_packet::m_timestamp` is the Boolean `due`: the resend
delay has passed.  `pending_packet::clear` leaves `is_sent` alone and so does
the model; `init` resets it.  `Admitted`, `Filled` and `WindowSlots` are the two
loops of `send_next_packets`; `RunLength` is the loop over early packets in
`process_packet` and the one over leading confirmed packets in `process_ack`;
`KeptBits` is the loop that cleans the bits of the slots that leave the window.
`m_ordered` is chosen in the initial state, as the constructor does.

`process_packet` is two kinds of step, because `m_outgoing_acks_mutex` is released
before a message is handed over: the first sets the ack bit, asks for the ack to
be sent and appends what it lets out to `released` (`next_packet`,
`early_packet`), each of the others is one call of `add_reliable_packet`
(`hand_over`).  In between, the logic thread may send the ack.  `delivered` is the
part of `released` that has been handed over.  The counters and slots that the
code changes between the calls are those of the receive thread alone, so they
move with the first step; the thread takes no other datagram before it has
handed over everything (`IsReceiving`).

External assumption (`Alive`): a datagram does not arrive after its sender has
moved on by more than `MaxAge` sequence numbers, `MaxAge <= MAX_SEQUENCE / 2`.
No protocol with wrapping numbers can do without such an assumption; in the
code it amounts to 16384 packets.

### SequencedChannel

`NoPacket` is `m_last_packet == nullptr`.  The ack carries channel id 0
(`AckChannel`), because `m_ack_packet` is never given the id of its channel,
and the channel with id 0 is not this one: `receive_ack` compares as the
look-up in `net_peer` does.

### ChannelSendQueue

Threads in `add_to_peer_channel_send_queue` go through `claim` (the
compare-and-swap) and `push`; the logic thread through `visit_channel`,
`send_acks`, `number_message`, `send_pending`, `decide`, `release` or
`requeue`.  `confirm` waits while the logic thread holds the mutex of the
pending packets.  `net_queue::size` takes no lock, so a size read while another
thread pushes is any of the values it may have.

### Connection

Two managers, each with at most one peer.  Datagrams are records: the kind, the
connect time and the connection number.  Only two bits of the number are
written to the header (`Wire`), while `net_connect_accept_packet` carries it in a
byte of its own.  A third bit, which only an uninitialised number can have, falls
on the flag of a fragment; a DISCONNECT without data is then too short, and
`verify` refuses it (`MarksFragment`, `MALFORMED`).

The code checks a peer and then looks its address up again, to shut down or to
remove whoever has it by then.  These are two steps here.  `handler[m]` is what
the receive thread is about to do: to end a session for a DISCONNECT or
PEER_NOT_FOUND packet (`end_session`), to disconnect and to remove a peer that a
request replaces (`disconnect_replaced`, `remove_replaced`, after which the
request is filed).  `logic[m]` is what the logic thread is about to do: to give a
connection up (`give_up`) or to remove a peer it marked (`remove_marked`).  In
between, the application may connect or solve a request, and so give the address
to another peer; the histories `stale` (the threads to which this has happened)
and `dropped` (the CONNECTED peers that such a thread removed) let the
properties say what is then lost.  A restart ends these threads too.

`Applications` are the kinds of application of a run: who
connects, how often they connect, disconnect and restart, whether requests may be
rejected and whether messages flow; `calls`, what is left of that, is the only
part of the state that no code has.  `net_manager::connect` leaves the number uninitialised when
there is no earlier peer: `Uninitialised` is the set of values tried.
`tick` stands for the updates during one `ping_interval`: the timers of a peer
count in ticks.  Where a connected peer would dereference the accept packet it
does not have, the model ends the process: its peer, its requests and its
events go (`ignore_request`); which runs get there is not claimed.

`Prompt` is the assumption of `conn_reconnect`: every datagram arrives and every
request is solved before the next tick, and the two logic threads take turns.

### PeerRegistry

Peers are numbered in the order of creation, so that a removed peer and its
successor at the same address are told apart.  A peer that was removed keeps
its `m_next_peer`, and the logic thread may be standing on it.

### PeerEvents

`pc` says where each thread is, with which peer (`r.peer` is the local variable
of the handler) and where `disconnect_peer` returns.  `net_peer::shutdown` is two
steps, the read and the write of the state, under `m_shutdown_mutex`
(`Locked`); `process_connect_accept`, `process_shutdown_ok` and `update` read and
write without it.  Every call of `disconnect_peer` looks the peer up again by
the address (`find`), as the code does, so a thread may end another peer than
the one it looked at.  `accept` and `reject` wait for a free place in
`1 .. MaxPeers`, which only bounds the run.  Handlers of events may call
`connect`, `disconnect`, `accept` and `reject`; that they do not call
`poll_events` is an assumption.

### MessagePath

Sizes are bytes and the header sizes are those of the code, so that the
comparisons of `send_internal` and `send_user_data` are the original ones.
`m_mtu` is read twice in `send_user_data`; the two reads are two steps
(`send_user_data`, `append`), and `move_mtu` may come between them.  The network
may lose a datagram (`lose`) and bring one again that came before (`repeat`).  What
was lost of a reliable channel stays with the channel (`lost`), which may send it
again, alone or merged with others (`resend`); an UNRELIABLE message is gone.  A
packet that comes again is dropped by its channel, as `ReliableDelivery` says, but
an UNRELIABLE one is handed over again (`unpack_again`): `net_peer::process_packet`
has nothing to know it by.  Only datagrams with an UNRELIABLE packet are kept for
that (`copies`), the others do nothing when they come again.  `m_connect_number` is
the number of the session: `m_merge_data` always carries 0, so that any other
session discards merged datagrams (`IsOfSession`, `discard`).  Packets of the
ordered channel that come early wait (`waiting`), those of the unordered one are handed
over at once.  `Entry` looks a fragment up by its id alone, as
`m_holded_fragments` does; `IsRefused` are the early returns of
`add_reliable_packet`.  `GARBLED` is a message made of parts of several; no
reachable state delivers it, and `IsRefused` holds for no part that arrives
(`NoPartIsRefused`).  External assumption (`IdIsFree`): a message that has the
same 16-bit id has been put together before the id is given again, that is,
fewer than 65536 messages are split while one is on its way.

### MtuDiscovery

`POSSIBLE_MTU` counts from 0 as the array does (`SizeAt`).  `capacity` is the
largest datagram that the network carries to an end; it may differ in the two
directions and may change.  `prompt` is chosen in the initial state: with it
the network answers within the second between two probes and loses only what
does not fit, and the timers of the two ends, which have one period, take turns.
`ResetAttempts` has two outcomes because the count of the attempts is written
by both threads without a lock.  `m_connect_number` is the number of the
session; the packets of the discovery carry 0, and in any other session they
are dropped (`IsForSession`).

## 3. The runs

| Run | Shows |
|---|---|
| `rc_safety` | `WindowOrder`, `NoMessageLost` (up to the calls of `add_reliable_packet`), `AcksAreTrue`, `SlotsAreNotOverwritten`, and that the channel implements `ReliableDelivery`, ordered and unordered, with packets repeated and reordered and acks lost |
| `rc_live` | nothing lost: every message is delivered (`EverythingIsDelivered`) |
| `rc_lossy` | *finding*: with one loss, `EverythingIsDelivered` fails |
| `sq` | `FlagIsALock`, `ScheduledIsVisited`, `UpdateReturns` |
| `sq_wakeup` | *finding*: a message pushed before the flag is reset is not scheduled (`QueuedIsSent`) |
| `conn_session` | `EveryConnectIsMatched`, `ConnectedWasAccepted`, `DisconnectEndsItsSession` for a client and a server with rejects, disconnects and restarts, and for two managers that connect to each other; with losses, retransmissions and peers that take an address while a thread is about to end or to remove who was there |
| `conn_reconnect` | *finding*: an idle second connection times out (`NoConnectionDrops`) |
| `pr_list` | `ListMatchesMap`, `IdsAreUnique`, `ScanMissesNobody` |
| `events` | `EndIsAnnounced`, `EndsOnce`, `AttemptEnds`, `EveryEventIsHandled`: every peer that goes down has its DISCONNECT event, once |
| `sc` | `DeliversInSequence`, `LastIsDelivered`, reliable and not |
| `path` | `SizesAreTrue`, `DatagramsFit`, `NoPartIsRefused`, `EveryMessageArrives`, and that `MessagePath` implements `MessageDelivery` (`DeliversWhole`), in the first and in a later session, over a network that loses or repeats a datagram; `EveryMessageArrives` speaks of a first session that loses none |
| `mtu` | `MtuWasConfirmed`, `ProbingEnds`, `FindsLargest` |

Every passing run but `rc_live` also checks the type invariant.

### Bounds, and why they are enough

* `ReliableChannel`: `WindowSize = 2`, `MaxSequence = 8`, nine messages in one
  direction.  Two is the smallest window with a gap and a slot that is used
  again while its neighbour waits; eight sequence numbers are four windows, the
  least that `ChannelAssumption` admits (a window ahead, a window behind, and
  half of the ring); the ninth message has the number of the first.  `rc_live`
  and `rc_lossy` need no wrap: three messages overfill the window, one loss is
  enough.  `Loses` names the ends that datagrams may be lost on the way to; in
  `rc_safety` acks are lost and packets, which are repeated for ever, may simply
  not be received.
* `ChannelSendQueue`: two channels (one can starve the other), two messages on
  one and one on the other with a window of one (so that a message must wait),
  one application thread beside the receive thread: two threads that claim.
  The theorem `Lock` holds for any number.
* `Connection`: connect times 1 and 2 (an earlier and a later attempt), one
  datagram at a time on its way to each side (in `conn_reconnect` four), one
  attempt beyond the first, timeouts of one or two ticks, two connects, one
  disconnect, one restart.  Four applications share `conn_session`: a client that
  disconnects and connects again, one that the server rejects (both with a
  restart), one that sends messages, and two managers that connect to each other.
  It has 2.4 million states, and both exceptions that its properties state occur in
  it: a CONNECTED peer that is removed in place of another, and one that the
  DISCONNECT of another session ends.  Repetition comes from retransmission; the theorems of
  `ConnectionProofs` hold with duplication by the network too.  `TieLosers`
  contains both managers: the comparison of addresses of the two sides may
  disagree (NAT), and both lose.  `Uninitialised` is 5, which the two bits of
  the wire turn into another number.
* `PeerRegistry`: three addresses, three peers, of which one address sends
  requests, and an array of one place that must grow.  Three are needed for a
  removal from the middle.  Symmetry is over the addresses that send requests
  and over those that do not; no property tells them apart.
* `SequencedChannel`: four sequence numbers, six messages, two at a time.
* `PeerEvents`: two peers at the address (one that ends and its successor), two
  threads of the application of which one polls, three calls or packets, one
  attempt beyond the first: enough for a disconnect of the application, one of a
  packet and a time-out to meet in one peer.
* `MessagePath`: connection numbers 0 (a first session) and 1 (a later one), one
  datagram that is lost or repeated, two threads, four messages, MTUs 508 and 1024 and one move
  between them: with 508 three messages are split in two and the unreliable one
  is refused, with 1024 two fit a datagram together or just do not; two fragment
  ids, so that an id is used again.
* `MtuDiscovery`: three of the seven sizes and two attempts of the four.  As in
  the code an end alone has fewer attempts than there are sizes, and reaches the
  last one only because the answers to the other end's probes set its count
  back.  Three capacities, one between each two sizes and one above; one
  PEER_NOT_FOUND or change of the route.

### Fairness

* The logic thread runs: weak fairness of its step (`send_and_check_queue`,
  `update`, `tick`).  `std::thread` and a `sleep` of `update_time` justify it.
* Clocks advance: weak fairness of `resend_delay_elapsed`.
* A thread that began a call ends it (`claim`, `push_channel`, `hand_over`): none
  of them blocks.
* A network that is given a datagram again and again delivers it: strong
  fairness of its reception, per message.  With `Loses = {}` nothing is lost.
* `ConfirmingSpec` adds a remote end that confirms what it is sent; it only
  serves `sq_wakeup`, which fails nevertheless.
* `MessagePath`: weak fairness of the logic thread, of the receive thread and of
  the senders that are splitting a message.  A datagram that is neither lost nor
  discarded is thereby received; nothing makes a channel send a lost packet
  again.  So `EveryMessageArrives` is claimed of a first session in which no
  datagram is lost, and that each channel sends every packet a first time is
  assumed there, as `sq_wakeup` shows.
* `MtuDiscovery`: weak fairness of each logic thread; probes and answers arrive
  or are lost; strong fairness of an answer that raises the MTU.  A network that
  carries all probes and loses all answers for ever is thereby excluded; on it
  the two ends would set each other's attempts back without end.
* `PeerEvents`: weak fairness of each thread within a call and of the logic
  thread; strong fairness of polling, because an application that polls again
  and again may find the queues empty in between.  Nothing else is assumed of
  the application, and nothing of the network.

### Findings

1. `rc_lossy` - `send_next_packets` says that there is nothing to do when no
   packet was sent, although pending packets wait for their resend delay
   (`net_reliable_channel.cpp:201`); `send_and_check_queue` takes the channel
   out of the queue and a lost packet is not sent again until something else
   schedules the channel.
2. `sq_wakeup` - `m_is_added_to_peer_channel_send_queue` is reset after the
   queue was looked at (`net_base_channel.h:27`); a message that is pushed in
   between finds the flag set.
3. `conn_reconnect` - the connection number of `m_ping_packet`,
   `m_pong_packet` and `m_merge_data` is never set; in a second session they are
   dropped (`net_peer.cpp:156`).

### Also seen while modelling

The models have these behaviours; no run claims that they do not occur.

* The branch of `net_manager.cpp:430` commented `//remote` is inside
  `if (netPeer) { //local`: a side that has the peer answers that it has not, and
  a live connection may end that way.
* The ack of a packet may be sent before its message is handed over
  (`net_reliable_channel.cpp:69`).
* An UNRELIABLE message comes out again when the network repeats its datagram
  (`net_peer.cpp:241`).
* The third bit of an uninitialised connection number sets the flag of a fragment
  (`net_packet.h:142`): the DISCONNECT of that session is refused as malformed.
* From the second session on, merged datagrams are discarded (`net_peer.cpp:156`):
  a message of a reliable channel then comes out only when its packets travel in
  datagrams of their own.
* The ack of a reliable sequenced channel has no channel id
  (`net_sequenced_channel.h:16`): its last packet is never confirmed and is
  repeated for ever.
* SHUTDOWN_OK is handled behind a check that the peer is connected
  (`net_peer.cpp:148`), so it never shortens a shutdown.
* The packets of MTU discovery have no connection number either: from the second
  session on, the MTU stays at its smallest value.  `reset_mtu` leaves
  `m_finish_mtu` alone, so that an end that had finished stays there too.
* The ping sequence wraps at 65536 and is compared modulo 32768: after the wrap
  half of the pings are taken for old ones and not answered (proved as
  `PingsLookOld`).
* `process_connect_accept` may undo a shutdown that came after its check
  (`net_peer.cpp:133`): the peer is CONNECTED again, its CONNECT event comes after
  a DISCONNECT event, and it ends a second time.  `EndsOnce` says that this is
  the only way to two ends.
* A peer is looked up again, by its address, for each step that ends it
  (`net_manager.cpp:736`), for the RECEIVE event (`:787`) and to be removed
  (`:248`).  Another peer may be at the address by then: it may be disconnected
  in place of the first, given to the application as the sender of its message,
  or removed without an event.  `EveryConnectIsMatched` counts the CONNECTED peers
  that go this way and says that no other connection ends unannounced;
  `DisconnectEndsItsSession` says that a DISCONNECT of a closed session can end
  another one in no other way.  A RECEIVE event may also come before the CONNECT
  event of its peer, or without a peer.

## 4. What is proved

For every value of the constants allowed by the named assumptions
(`MaxSequenceAssumption`, `ChannelAssumption`, `SendQueueAssumption`,
`ConnectionAssumption`, `MtuAssumption`, `SequencedAssumption`,
`RegistryAssumption`, `PeerEventsAssumption`, `PathAssumption`; TLC evaluates them in the runs).

* `ReliableChannelProofs!RelativeIsDifference`: for integers `a`, `b` at most half of
  the ring apart, `relative_sequence_number(a % M, b % M) = a - b`.  From the
  uniqueness of quotient and remainder; `Remainder` needs a case for each sign.
  Beside it lemmas on `Advance` (it wraps, it adds up, it is undone by
  `relative_sequence_number`).  `PingsLookOld` applies the same definition to
  the 16-bit sequence of the pings.  `SequencedChannelProofs` repeats those of
  these lemmas that it needs.
* `ChannelSendQueueProofs!TypeCorrect` and `!Lock`: any number of channels and
  threads.  `FlagIsALock` is inductive together with the types: `claim`
  establishes the right to push, `push_channel` passes it on to the queue,
  `visit_channel` to the logic thread, which returns it with `requeue` or gives
  it up with `release`.  That the queue holds no channel twice is what makes
  `visit_channel` leave no second copy behind.
* `ReliableChannelProofs!TypeCorrect`: any window, ring and number of messages.
  More than shapes: slots and sequence numbers stay in range, what is delivered
  is never an empty slot, and the run of packets that an ack confirms ends
  within the window (`ConfirmedStops`, which uses `RelativeIsDifference` and
  that the ring has four windows).
* `ReliableChannelProofs!WindowsKeepOrder`, `!NothingIsLost`, `!AcksTellTheTruth`,
  `!SlotsStay`, `!ChannelDelivers`, `!ConfirmedComesOut` and
  `!ComesOnceInOrder`: any window, any ring of at least four
  windows that the window divides, any number of messages, any loss, repetition
  and reordering of packets and acks, ordered or not.  None of the properties is
  inductive, because the next ack may be an old one: it describes a window that
  the receiver has left and slots that stand for other packets by now.  The
  invariant `IInv` is one formula for each direction (`Direction(p, Other(p))`),
  in numbers without wrap: the wrapped counters are these modulo `MaxSequence`
  (`CountersWrap`, `QueueIsNumbered`), the windows of the two ends overlap
  (`CountersMeet`), a slot of the sender holds a packet of its window that is
  still to be confirmed, and what it does not hold was received
  (`PendingIsTrue`), the slots and ack bits of the receiver are what it received
  (`WindowIsTrue`), and packets, acks on their way and delivered messages say
  what is so (`PacketsAreTrue`, `AckIsTrue`, `ReleasedIsTrue`).  The argument
  has three parts.  What was received stays received (`Grows`), so an ack that
  was true stays true (`AckStaysTrue`).  `RelativeIsDifference` turns each
  comparison of wrapped numbers into one of true ones; it needs the assumption on
  the age of datagrams, and the ack exactly half of the ring behind is a case of
  its own (`HalfBehind`).  The loops are lemmas about values alone
  (`SlideIsSound`, `EarlyIsSound`, `RunIsSound`, `NextIsSound`,
  `FilledSlots`), which the steps cite.  `ChannelDelivers` is then a step
  simulation: `hand_over` is a delivery, whose message was submitted and not
  delivered before (`ReleasedIsTrue`), `add_to_queue` submits, and every other step
  stutters.

  `NothingIsLost` goes on to `add_reliable_packet`: a message that has a number is
  pending, held behind a gap of an ordered channel, or let out to that function.
  For an ordered channel `ReleasedIsTrue` says so; for an unordered one it takes an
  invariant of its own, `ReceivedIsReleased` (what is received is let out), which
  needs that no step receives a packet without letting it out (`StepGetsOne`): the
  converse of what the loop lemmas say, so that `EarlyGets` and `NextGets` add that
  a step sets no bit but that of its packet.  Hence `ConfirmedComesOut`: the sender's
  `m_local_window_start` moves on only over messages for which the other end has
  called `add_reliable_packet`, or which its receive thread has let out and not yet
  passed on.  It is no stronger, because the ack may be sent before the call; and
  the part of a message that was split is only held there (`MessagePath`).
  `ComesOnceInOrder` draws from the refinement what `add_reliable_packet` can rely
  on: no packet twice, and on an ordered channel the first that were submitted, in
  order and without a gap.

* `ConnectionProofs!TypeCorrect`, `!EventsMatch`, `!ConnectionsAreAccepted` and
  `!DisconnectsAreMeant`: any times, bounds, time-outs, number of attempts and
  contents of the uninitialised `connectionNumber`; any loss, duplication and
  reordering.  None of the four is inductive alone, because each depends on what
  a packet that may arrive much later says.  The invariant `IInv` relates every
  packet on its way to what its sender did (`PacketIsSound`: an accept was
  accepted, a DISCONNECT with a time was for a closed session, a request has a
  time) and every peer to its own past (`PeerIsSound`, `AcceptIsSound`).
  `StepKeepsInv` reduces each handler to three questions: is the new peer sound,
  are the packets it sends, and did the history only grow.  That times are not 0
  is needed because `reject_force` sends a DISCONNECT without a connect time: a
  live session never has that time.  That a peer with an accept packet has a
  number below 4 is needed for the packet it sends again.  What a thread is about
  to do is part of the invariant: the session of a DISCONNECT that was accepted for
  handling is closed at its sender, and is that of the peer at the address unless
  the thread is in `stale`.  Both theorems state the exception: a CONNECTED peer
  that took an address behind the back of a thread goes without an event, or is
  ended in place of its predecessor.  They say that there is no other.

* `MtuDiscoveryProofs!TypeCorrect` and `!MtuIsConfirmed`: any table of ascending
  sizes, any number of attempts, any network.  `MtuWasConfirmed` depends on what
  an answer on its way says, hence `AnswersAreTrue` (an MTU_OK on its way has the
  size of a probe that arrived); that an end does not read past the table, hence
  that an end at the last size has finished (in `TypeOK`), which survives a
  reset because a reset only leads away from the last size.
* `SequencedChannelProofs!TypeCorrect`, `!InSequence`, `!SequenceIsKept` and
  `!TheLastIsKept`: any number of messages, any ring.  `IInv` says that wrapped counters are the true ones modulo
  `MaxSequence`, at the sender (`QueueIsNumbered`, `SenderIsNumbered`), in packets
  on their way (`PacketsAreNumbered`) and at the receiver (`ReceiverIsNumbered`).
  Then `RelativeIsDifference` turns the receiver's comparison into one of true
  numbers: `NewIsNewer` says that a packet it takes is newer than all it took.
  The assumption on the age of datagrams is needed there and nowhere else.
  `SequenceIsKept` says of all that was delivered what `InSequence` says of a
  step: it is strictly ascending.  `TheLastIsKept` is what the liveness of the
  reliable channel (`LastIsDelivered`) rests on: `m_last_packet` is always the
  packet of the latest message, because an ack packet carries the channel id 0 and
  never clears it; the sender repeats that packet for ever instead.
* `PeerRegistryProofs!TypeCorrect`, `!ListIsTheMap`, `!IdsStayUnique` and
  `!ScanVisitsAll`: any number of addresses and peers, any initial size of the
  array.  `IInv` is about all peers and not only the registered ones: the link of
  a removed peer, which the scan may be about to follow, still leads to an older
  peer and past no registered one (`Chain`), so that the next place of the scan
  is at most as far as the next peer it has to visit (`ScanIsSound`).  Ids are
  below the counter and the counter is at most the size of the array
  (`Numbered`): it follows that the array never has to double more than once
  (`GrownFits`), although `add_peer` has a loop for that.  `ConnectHolds` carries
  what `connect` knows between its two steps: it has the mutex, and the address
  is free.  `ChainAdd`, `ChainRemove`, `NumberedAdd` and `NumberedRemove` are
  lemmas about values, which `AddKeeps` and `RemoveKeeps` apply.
* `PeerEventsProofs!TypeCorrect`, `!EndsAreAnnounced` and `!EndsAreAnnouncedOnce`:
  any finite number of application threads, any number of peers, attempts and
  inputs, any interleaving of the accesses.  The two properties speak of events,
  the code of states: what ties them is a count, so `Ends(p)` adds the threads
  that are about to create a DISCONNECT event of `p` to the events made, and
  `Connects(p)` those of a CONNECT event.  Neither property is inductive, because
  a thread writes the state after it has read it; the invariant `Inv` says what
  holds of such a thread.  `m_shutdown_mutex` lets one thread at a time close a
  peer, and it finds the peer up unless a shutdown was undone (`Ends_once`); the
  logic thread lets only a peer expire that has ended or was never announced
  (`Ended_announced`); the receive thread undoes a shutdown of a peer at most
  once, because the state it checked was OUTGOING and never is again (`Joined`).
  The type of `m_connect_attempts` needs an argument of its own (`Tries`): the
  attempt past the last one is counted by the logic thread, which then takes the
  peer down before it looks at it again.  `MovedCounts` says what a move of one
  thread does to the counts, and `FateSame`, `OtherFate` and `QuietStep` reduce
  every step to the peer it is about.  The proof found no flaw in the model; it
  shows that the mutex is needed for "once" only, and that "announced" rests on
  `shutdown` returning true to its caller.

* `MessagePathProofs!TypeCorrect`, `!DatagramsAreFit`, `!DatagramSizes`,
  `!PartsAreTaken`, `!NothingIsLost`, `!PathDeliversWhole` and `!ComesOnceInOrder`:
  any finite set of threads and any scripts of them, any ascending sizes of the
  MTU that leave room for a part, any number of fragment ids, any moves of the
  MTU, any losses and repetitions, any connection number, any interleaving.
  `PathAssumption` also says that no message occurs twice
  in the scripts: a message stands for one call of `send`, and its `id` tells
  apart those with equal contents.  The invariant `IInv` has two halves.
  `PlacedOnce` is about places: a packet is in a queue, at the logic thread, in
  the merge buffer, in one datagram, at the receive thread, in the ordered
  channel, or lost and with its channel, and only in one of them, because the numbers that the channel gives
  are those of its queue.  From it follows that the actions of the logic thread,
  whatever they merge or send past the merge buffer, leave the set `Flight` of
  packets on their way as it is, and that the receive thread takes one packet out
  of it (`PlacesUserData` to `PlacesHandOver`).  A datagram that is lost or
  discarded moves its reliable packets to `lost`, which is a part of `Flight`, and
  takes the others out (`PlacesLose`); one that comes again adds nothing but
  UNRELIABLE messages to `delivered` (`CopiesKept`, `UnpackAgainStep`).  `MessagesAreTrue` is about
  `Flight` alone.  That a message is put together at all needs that its parts
  exist once (`PartsDiffer`) and that none is missing (`NothingIsMissing`); that
  it is put together of its own parts needs that two messages on their way never
  have one fragment id (`SplitOnce`, from which `IdsDiffer`), although the entry
  is found by the id alone; `AllParts` turns the count that `IsComplete` looks at
  into the presence of each part.  That the order is kept needs that a thread
  gives its messages ascending numbers (`NumbersFollow`), so that a packet whose
  number is `handed` has no earlier message behind it (`EarlierIsDelivered`).
  It follows that `add_reliable_packet` never refuses a part (`EntryFacts`, hence
  `PartsAreTaken`) and never makes a message of parts of others.  `NothingIsLost`
  is the conjunct `NothingIsMissing` as a theorem, the safety half of
  `EveryMessageArrives`: what is missing of a message of a reliable channel is with
  its thread, on its way, at the receiver, or lost and kept by its channel.  `SizesFit` is the invariant behind
  `DatagramsFit`: a packet was cut to an MTU that was in force, the one that is
  about to be appended was compared with one, and the merge buffer is compared
  again.  `NextStep` is the step of the invariant and of the refinement at once:
  `send_internal` is a Submit or refuses, the receive thread delivers or
  collects, all else stutters.  `ComesOnceInOrder` follows from the refinement: no
  message of a reliable channel comes out twice, and an ordered one only behind all
  ordered ones that its thread sent before it.  Of UNRELIABLE messages `once` is not
  claimed.  All of it rests on `IdIsFree`.

  `DatagramSizes` is about a sum over the packets of a datagram, which the model
  writes as a recursive function (`MergedLength`).  The induction theorems of the
  library cannot be used (see below), and none is needed: that the function exists
  (`LengthsExist`) and that it is the only one (`LengthsAgree`) follow from the
  least number for which they would fail, which exists because `<` is
  well-founded on the naturals (`Smallest`); from there `MergedLengthFacts` says
  what one packet more adds to the sum, and `SizesStep` has one case for each
  action.

Only model-checked are the liveness properties and the three violated ones:
TLAPS does not reason about fairness and ENABLED.  Every invariant and every
action property or refinement that a passing run checks is also a theorem.  Two
limits of the prover shape the proofs.  No theorem of the library that takes an
operator as a parameter can be used, induction among them: facts about sequences
of any length are either stated per element or proved by the smallest
counterexample, as above.  And the safety halves of liveness properties
(`NothingIsLost` in both modules, `TheLastIsKept`) are as near as it comes to
"arrives in the end"; the other half, that what is still on its way moves on, is
what the runs show.

## 5. Not modelled, and why

* The averages of the round-trip times only set how long the resend delay is,
  and the resend delay is the Boolean `due`.
* The packet pool: the buffer of a packet (2048 bytes) is larger than
  `MAX_PACKET_SIZE`, so `pool_recycle` never takes the branch that pools
  (`net_manager.cpp:290`); what is left is `new` and `delete`.
* `m_delivered_fragments` (user data of fragments) is never filled.  The error of
  a message of more than 65535 parts is left out.
* The delegates call what was registered; the events other than those of
  `PeerEvents` differ in their data only.
* `nat` messages, statistics: not implemented in the source.
* Unconnected messages and broadcast keep no state.  `net_data_reader` and
  `net_data_writer` serialise values; the socket, addresses, the stopwatch and
  the logger are system calls and wrappers.
* The memory of packets: who recycles a packet and when.

## 6. How the development was built, and what is open

Written in this order: `SequenceNumbers`, `ReliableDelivery`, `ReliableChannel`,
`ChannelSendQueue`, `Connection`, `PeerRegistry`, `SequencedChannel`, and their
proofs; then `MtuDiscovery`, `MessageDelivery` and `MessagePath`, `PeerEvents`,
the proofs of `MtuDiscovery` and `SequencedChannel`, the delivery of
`ReliableChannelProofs`, `PeerRegistryProofs`, `PeerEventsProofs` and
`MessagePathProofs`.  Open:

* `IdIsFree` is an assumption of `MessagePath`: nothing in the code keeps
  `m_fragment_id` from coming around while an earlier message is on its way, it
  takes 65536 messages that are split to do so.
* `MessagePath` assumes of its channels what `ReliableDelivery` says, and does not
  contain them: a packet that is sent again although it was not lost, of which the
  channel drops a copy, is in `ReliableChannel` only.
* `Connection` has one request, one address and one peer on each side; the
  registry of several peers is in `PeerRegistry`, where packets carry no times.
* The theorems of `ReliableChannelProofs` and `SequencedChannelProofs` assume that
  no datagram outlives the ring (`MaxAge`, half a turn); nothing in the code drops
  an older one.
