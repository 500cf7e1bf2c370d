---------------------------- MODULE MessagePath ----------------------------
(***************************************************************************)
(* The way of a message through two peers: net_peer::send_internal splits  *)
(* it when it does not fit m_mtu, send_user_data and send_merged put the   *)
(* packets of the channels into datagrams, process_packet takes them out   *)
(* and add_reliable_packet puts the message together.                      *)
(*                                                                         *)
(* Several application threads send; the logic thread runs update, the     *)
(* receive thread of the other end process_packet.  One channel number is  *)
(* used, so a channel is a delivery method.  In between, the channels do   *)
(* what ReliableDelivery says: each packet is handed over once, in order   *)
(* if the channel is ordered.  The network delays, loses and repeats       *)
(* datagrams; a session that is not the first of its address discards the  *)
(* merged ones, whose connection number is never set.  A packet that is    *)
(* lost so stays with its reliable channel, which may send it again; that  *)
(* it does is not promised, and one sent again before it is lost, of which *)
(* the channel drops a copy, is left to ReliableChannel.  m_mtu moves as   *)
(* in MtuDiscovery.  Sizes are those of the code, in bytes; the content of *)
(* a packet is the message it is a part of.                                *)
(*                                                                         *)
(* largest, splits, submitted, refused and delivered are history           *)
(* variables; of the guards only the assumption IdIsFree reads them.       *)
(* Definitions marked `Mutant' are errors made on purpose, one for each    *)
(* property; no action uses them.                                          *)
(***************************************************************************)
EXTENDS Integers, Sequences, SequencesExt, FiniteSets

CONSTANTS
    Thread,         \* the application threads that send
    Scripts,        \* what the threads send: functions from threads to sequences of messages
    POSSIBLE_MTU,   \* the values of m_mtu, ascending
    FragmentIds,    \* how many ids a message that is split may get (65536 in the code)
    ConnectNumbers, \* the values of m_connect_number (0 .. 3 in the code)
    MtuMoves,       \* bound: how often m_mtu moves
    Faults          \* bound: how often the network loses or repeats a datagram

HEADER_SIZE == 1
CHANNELED_HEADER_SIZE == 4
FRAGMENT_HEADER_SIZE == 6
FRAGMENTED_HEADER_TOTAL_SIZE == CHANNELED_HEADER_SIZE + FRAGMENT_HEADER_SIZE
MERGE_HEADER_SIZE == 2           \* the size that precedes a packet in m_merge_data
sizeTreshold == 20

Reliable == {"RELIABLE_ORDERED", "RELIABLE_UNORDERED"}
Method == Reliable \cup {"UNRELIABLE"}

ASSUME PathAssumption ==
    /\ IsFiniteSet(Thread)
    /\ \A s \in Scripts : \A t \in Thread : s[t] \in Seq([id : Nat, size : Nat \ {0}, method : Method])
    /\ \A s \in Scripts : \A t, u \in Thread : \A i \in DOMAIN s[t], j \in DOMAIN s[u] :
          s[t][i] = s[u][j] => t = u /\ i = j
    /\ POSSIBLE_MTU \in Seq(Nat) /\ Len(POSSIBLE_MTU) > 0
    /\ \A i \in 1 .. Len(POSSIBLE_MTU) : POSSIBLE_MTU[i] > FRAGMENTED_HEADER_TOTAL_SIZE
    /\ \A i, j \in 1 .. Len(POSSIBLE_MTU) : i < j => POSSIBLE_MTU[i] < POSSIBLE_MTU[j]
    /\ FragmentIds \in Nat \ {0}
    /\ ConnectNumbers \subseteq Nat /\ {MtuMoves, Faults} \subseteq Nat

Message == UNION {UNION {ToSet(s[t]) : t \in Thread} : s \in Scripts}

VARIABLES
    m_connect_number,    \* of the session, at both ends
    script,              \* script[t]: the messages that t sends
    m_mtu,               \* of the sending end
    m_fragment_id,
    next,                \* next[t]: the message that t sends next
    splitting,           \* splitting[t]: the packets that t still has to push
    m_outgoing_queue,    \* of each channel, and m_unreliable_channel
    pushed,              \* how many packets each channel was given
    appending,           \* the packet that the logic thread is about to append, or None
    m_merge_data,        \* the packets in the merge buffer
    m_merge_pos,
    lost,                \* packets of reliable channels that went with a datagram
    net,                 \* datagrams on their way
    copies,              \* datagrams that came, and that do something if they come again
    unpacking,           \* what the receive thread has still to take from a datagram
    repeated,            \* the same of a datagram that came again
    waiting,             \* packets that wait in the ordered channel of the receiving end
    handed,              \* how many packets it has handed over
    m_holded_fragments,  \* of the receiving end: fragment id -> incoming_fragments
    moves,               \* how often m_mtu has moved
    losses, repeats,     \* how many datagrams the network has lost and repeated
    largest,             \* history: the largest m_mtu so far
    splits,              \* history: the messages that were split, and into how many packets
    refused,             \* history: the messages that an error event answered
    submitted, delivered \* history: as in MessageDelivery

sending == <<script, m_fragment_id, next, splitting, splits, refused, submitted>>
merging == <<appending, m_merge_data, m_merge_pos>>
receiving == <<copies, unpacking, repeated, waiting, handed, m_holded_fragments, delivered>>
world == <<m_connect_number, moves, losses, repeats, largest>>
vars == <<m_mtu, sending, m_outgoing_queue, pushed, merging, lost, net, receiving, world>>

None == [total |-> 0]
GARBLED == [id |-> 0, size |-> 0, method |-> "UNRELIABLE"]

Init ==
    /\ m_connect_number \in ConnectNumbers
    /\ script \in Scripts
    /\ m_mtu \in ToSet(POSSIBLE_MTU)
    /\ m_fragment_id = 0
    /\ next = [t \in Thread |-> 1]
    /\ splitting = [t \in Thread |-> <<>>]
    /\ m_outgoing_queue = [c \in Method |-> <<>>]
    /\ pushed = [c \in Method |-> 0]
    /\ appending = None
    /\ m_merge_data = <<>>
    /\ m_merge_pos = 0
    /\ lost = {}
    /\ net = {}
    /\ copies = {}
    /\ unpacking = <<>>
    /\ repeated = <<>>
    /\ waiting = {}
    /\ handed = 0
    /\ m_holded_fragments = [id \in 0 .. FragmentIds - 1 |-> None]
    /\ moves = 0 /\ losses = 0 /\ repeats = 0
    /\ largest = m_mtu
    /\ splits = <<>>
    /\ refused = {}
    /\ submitted = [t \in Thread |-> <<>>]
    /\ delivered = <<>>
-----------------------------------------------------------------------------
(* The application's threads: send_internal. *)

HeaderSize(m) == IF m.method = "UNRELIABLE" THEN HEADER_SIZE ELSE CHANNELED_HEADER_SIZE

\* Mutant: the id is not advanced.
NextFragmentId_same == m_fragment_id

NextFragmentId == (m_fragment_id + 1) % FragmentIds

\* Assumption: a message that has the same fragment id has been put together.
IdIsFree == \A i \in 1 .. Len(splits) + 1 - FragmentIds : splits[i].message \in ToSet(delivered)

Whole(m) == <<[message |-> m, id |-> 0, part |-> 0, total |-> 0, size |-> HeaderSize(m) + m.size]>>

PacketDataSize == m_mtu - CHANNELED_HEADER_SIZE - FRAGMENT_HEADER_SIZE
TotalPackets(m) == (m.size \div PacketDataSize) + (IF m.size % PacketDataSize = 0 THEN 0 ELSE 1)

Fragments(m) ==
    [i \in 1 .. TotalPackets(m) |->
        LET rest == m.size - (i - 1) * PacketDataSize
        IN  [message |-> m, id |-> NextFragmentId, part |-> i - 1, total |-> TotalPackets(m),
             size |-> FRAGMENTED_HEADER_TOTAL_SIZE +
                      (IF rest > PacketDataSize THEN PacketDataSize ELSE rest)]]

\* add_to_queue, or the push to m_unreliable_channel.  The channel numbers the
\* packets in the order of its queue.
Push(c, packet) ==
    /\ m_outgoing_queue' = [m_outgoing_queue EXCEPT ![c] =
          Append(@, [number |-> pushed[c], packet |-> packet])]
    /\ pushed' = [pushed EXCEPT ![c] = @ + 1]

\* The first packet is pushed, and the others later, one by one.
Submit(t, m, packets) ==
    /\ Push(m.method, Head(packets))
    /\ splitting' = [splitting EXCEPT ![t] = Tail(packets)]
    /\ submitted' = [submitted EXCEPT ![t] = Append(@, m)]

send_whole(t, m) ==
    /\ m.size + HeaderSize(m) <= m_mtu
    /\ Submit(t, m, Whole(m))
    /\ UNCHANGED <<script, m_fragment_id, splits, refused>>

send_fragmented(t, m) ==
    /\ m.size + HeaderSize(m) > m_mtu
    /\ m.method \in Reliable
    /\ IdIsFree
    /\ m_fragment_id' = NextFragmentId
    /\ splits' = Append(splits, [message |-> m, total |-> TotalPackets(m)])
    /\ Submit(t, m, Fragments(m))
    /\ UNCHANGED <<script, refused>>

refuse(t, m) ==
    /\ m.size + HeaderSize(m) > m_mtu
    /\ m.method \notin Reliable
    /\ refused' = refused \cup {m}
    /\ UNCHANGED <<script, m_fragment_id, splits, splitting, submitted, m_outgoing_queue, pushed>>

send_internal(t) ==
    /\ splitting[t] = <<>>
    /\ next[t] <= Len(script[t])
    /\ LET m == script[t][next[t]] IN send_whole(t, m) \/ send_fragmented(t, m) \/ refuse(t, m)
    /\ next' = [next EXCEPT ![t] = @ + 1]
    /\ UNCHANGED <<m_mtu, merging, lost, net, receiving, world>>

\* The next part of the message that t is splitting.
push(t) ==
    /\ splitting[t] # <<>>
    /\ Push(Head(splitting[t]).message.method, Head(splitting[t]))
    /\ splitting' = [splitting EXCEPT ![t] = Tail(@)]
    /\ UNCHANGED <<script, m_mtu, m_fragment_id, next, splits, refused, submitted, merging, lost, net, receiving,
                   world>>
-----------------------------------------------------------------------------
(* The logic thread: update. *)

SizeOf(p) == p.packet.size
MergedPacketSize(p) == HEADER_SIZE + SizeOf(p) + MERGE_HEADER_SIZE

Datagram(packets, size) == [packets |-> packets, size |-> size]

\* Mutant: a lone packet is sent with its merge header.
MergedSize_lone == HEADER_SIZE + m_merge_pos

\* The size of the datagram that send_merged sends: a lone packet goes without
\* the headers of the merge buffer.
MergedSize ==
    IF Len(m_merge_data) > 1 THEN HEADER_SIZE + m_merge_pos ELSE m_merge_pos - MERGE_HEADER_SIZE

Merged == Datagram(m_merge_data, MergedSize)

\* send_user_data: a packet that leaves no room for another one is sent at once,
\* and overtakes the merge buffer.
send_user_data(p) ==
    /\ appending = None
    /\ IF MergedPacketSize(p) + sizeTreshold >= m_mtu
       THEN /\ net' = net \cup {Datagram(<<p>>, SizeOf(p))}
            /\ UNCHANGED appending
       ELSE /\ appending' = p
            /\ UNCHANGED net
    /\ UNCHANGED <<m_mtu, sending, pushed, m_merge_data, m_merge_pos, receiving, world>>

\* The next packet of a channel.
send_next(c) ==
    /\ m_outgoing_queue[c] # <<>>
    /\ m_outgoing_queue' = [m_outgoing_queue EXCEPT ![c] = Tail(@)]
    /\ send_user_data(Head(m_outgoing_queue[c]))
    /\ UNCHANGED lost

\* try_send, of a packet that was lost, some time after its resend delay.
resend(p) ==
    /\ p \in lost
    /\ lost' = lost \ {p}
    /\ send_user_data(p)
    /\ UNCHANGED m_outgoing_queue

\* Mutant: the header of the merged packet is forgotten.
IsFull_headless(p) == m_merge_pos + SizeOf(p) + MERGE_HEADER_SIZE > m_mtu

IsFull(p) == m_merge_pos + MergedPacketSize(p) > m_mtu

\* The rest of send_user_data: m_mtu is read again.
append ==
    /\ appending # None
    /\ IF IsFull(appending)
       THEN /\ net' = IF m_merge_data = <<>> THEN net ELSE net \cup {Merged}
            /\ m_merge_data' = <<appending>>
            /\ m_merge_pos' = SizeOf(appending) + MERGE_HEADER_SIZE
       ELSE /\ m_merge_data' = Append(m_merge_data, appending)
            /\ m_merge_pos' = m_merge_pos + SizeOf(appending) + MERGE_HEADER_SIZE
            /\ UNCHANGED net
    /\ appending' = None
    /\ UNCHANGED <<m_mtu, sending, m_outgoing_queue, pushed, lost, receiving, world>>

\* The end of an update, which visits as many packets as the windows of the
\* channels admit.
send_merged ==
    /\ appending = None
    /\ m_merge_data # <<>>
    /\ net' = net \cup {Merged}
    /\ m_merge_data' = <<>>
    /\ m_merge_pos' = 0
    /\ UNCHANGED <<m_mtu, sending, m_outgoing_queue, pushed, appending, lost, receiving, world>>

update == (\E c \in Method : send_next(c)) \/ append \/ send_merged
-----------------------------------------------------------------------------
(* The receive thread of the other end. *)

\* The ordered channel has the packet that comes next.
Releasable == {p \in waiting : p.number = handed}

\* The entry a fragment belongs to, by its id alone; the first one makes it.
Entry(f) ==
    IF m_holded_fragments[f.id] # None THEN m_holded_fragments[f.id]
    ELSE [total |-> f.total, channel |-> f.message.method, fragments |-> {}]

IsRefused(f) ==
    \/ f.part >= Entry(f).total
    \/ \E g \in Entry(f).fragments : g.part = f.part
    \/ f.message.method # Entry(f).channel

Collected(f) == Entry(f).fragments \cup {f}

\* Mutant: one fragment too few.
IsComplete_early(f) == Cardinality(Collected(f)) + 1 >= Entry(f).total

IsComplete(f) == Cardinality(Collected(f)) = Entry(f).total

\* The message that the parts make.
Assembled(f) ==
    IF \A g \in Collected(f) : g.message = f.message /\ g.total = Cardinality(Collected(f))
    THEN f.message ELSE GARBLED

\* Mutant: the entry of a message that is complete is kept.
After_kept(f) == [Entry(f) EXCEPT !.fragments = Collected(f)]

\* The entry after the fragment.
After(f) == IF IsComplete(f) THEN None ELSE [Entry(f) EXCEPT !.fragments = Collected(f)]

\* add_reliable_packet.
add_reliable_packet(f) ==
    IF f.total = 0
    THEN /\ delivered' = Append(delivered, f.message)
         /\ UNCHANGED m_holded_fragments
    ELSE IF IsRefused(f)
    THEN UNCHANGED <<delivered, m_holded_fragments>>
    ELSE /\ m_holded_fragments' = [m_holded_fragments EXCEPT ![f.id] = After(f)]
         /\ delivered' = IF IsComplete(f) THEN Append(delivered, Assembled(f)) ELSE delivered

IsEarly(p) == p.packet.message.method = "RELIABLE_ORDERED" /\ p.number # handed
Handed(p) == handed + (IF p.packet.message.method = "RELIABLE_ORDERED" THEN 1 ELSE 0)

\* process_packet, on a packet of a datagram: a message without a channel and
\* a packet of the unordered channel are handed over at once, an early one of
\* the ordered channel waits there.
process_packet(p) ==
    IF IsEarly(p)
    THEN /\ waiting' = waiting \cup {p}
         /\ UNCHANGED <<handed, m_holded_fragments, delivered>>
    ELSE /\ add_reliable_packet(p.packet)
         /\ handed' = Handed(p)
         /\ UNCHANGED waiting

IsReady == unpacking = <<>> /\ repeated = <<>> /\ Releasable = {}

\* m_merge_data has connection number 0, whatever the session's; a lone packet
\* has its own, which send_user_data has set.
IsOfSession(d) == Len(d.packets) = 1 \/ m_connect_number = 0

HasUnreliable(d) == \E p \in ToSet(d.packets) : p.packet.message.method = "UNRELIABLE"

\* The first packet of a datagram, and then the others of a merged one.
receive(d) ==
    /\ IsReady
    /\ IsOfSession(d)
    /\ process_packet(Head(d.packets))
    /\ unpacking' = Tail(d.packets)
    /\ net' = net \ {d}
    /\ copies' = IF HasUnreliable(d) THEN copies \cup {d} ELSE copies
    /\ UNCHANGED <<m_mtu, sending, m_outgoing_queue, pushed, merging, lost, repeated, world>>

\* The reliable channels keep what went with a datagram, until it is confirmed.
Lose(d) ==
    /\ net' = net \ {d}
    /\ lost' = lost \cup {p \in ToSet(d.packets) : p.packet.message.method \in Reliable}

\* The early return of process_packet.
discard(d) ==
    /\ IsReady
    /\ ~ IsOfSession(d)
    /\ Lose(d)
    /\ UNCHANGED <<m_mtu, sending, m_outgoing_queue, pushed, merging, receiving, world>>

unpack ==
    /\ unpacking # <<>> /\ Releasable = {}
    /\ process_packet(Head(unpacking))
    /\ unpacking' = Tail(unpacking)
    /\ UNCHANGED <<m_mtu, sending, m_outgoing_queue, pushed, merging, lost, net, copies, repeated, world>>

\* A packet of a datagram that has come before: its channel drops it, but a
\* message without a channel is handed over once more.
unpack_again ==
    /\ repeated # <<>>
    /\ LET p == Head(repeated) IN
          delivered' = IF p.packet.message.method = "UNRELIABLE" THEN Append(delivered, p.packet.message) ELSE delivered
    /\ repeated' = Tail(repeated)
    /\ UNCHANGED <<m_mtu, sending, m_outgoing_queue, pushed, merging, lost, net, copies, unpacking, waiting, handed,
                   m_holded_fragments, world>>

\* The ordered channel hands over those that waited for the packet.
hand_over ==
    /\ \E p \in Releasable : waiting' = waiting \ {p} /\ add_reliable_packet(p.packet)
    /\ handed' = handed + 1
    /\ UNCHANGED <<m_mtu, sending, m_outgoing_queue, pushed, merging, lost, net, copies, unpacking, repeated, world>>

receive_thread == (\E d \in net : receive(d) \/ discard(d)) \/ unpack \/ unpack_again \/ hand_over
-----------------------------------------------------------------------------
(* What the rest of the system does. *)

\* set_mtu(m_mtu_idx + 1) or reset_mtu.
move_mtu ==
    /\ moves < MtuMoves
    /\ moves' = moves + 1
    /\ \/ \E i \in 2 .. Len(POSSIBLE_MTU) : m_mtu = POSSIBLE_MTU[i - 1] /\ m_mtu' = POSSIBLE_MTU[i]
       \/ m_mtu' = POSSIBLE_MTU[1]
    /\ largest' = IF m_mtu' > largest THEN m_mtu' ELSE largest
    /\ UNCHANGED <<sending, m_outgoing_queue, pushed, merging, lost, net, receiving, m_connect_number, losses, repeats>>

lose(d) ==
    /\ losses + repeats < Faults
    /\ losses' = losses + 1
    /\ Lose(d)
    /\ UNCHANGED <<m_mtu, sending, m_outgoing_queue, pushed, merging, receiving, m_connect_number, moves, repeats, largest>>

\* The receive thread gets a datagram that it had before.
repeat(d) ==
    /\ losses + repeats < Faults
    /\ repeats' = repeats + 1
    /\ IsReady
    /\ repeated' = d.packets
    /\ UNCHANGED <<m_mtu, sending, m_outgoing_queue, pushed, merging, lost, net, copies, unpacking, waiting, handed,
                   m_holded_fragments, delivered, m_connect_number, moves, losses, largest>>

network == (\E d \in net : lose(d)) \/ (\E d \in copies : repeat(d))

Next ==
    \/ \E t \in Thread : send_internal(t) \/ push(t)
    \/ update
    \/ \E p \in lost : resend(p)
    \/ receive_thread
    \/ move_mtu
    \/ network

Spec == Init /\ [][Next]_vars

\* The logic thread visits the channels that have packets to send for the first
\* time (ChannelSendQueue shows when it does not: sq_wakeup), the receive thread
\* runs, and a call of send ends.  That a packet is sent again is not assumed:
\* rc_lossy shows that a channel may stop to.
FairSpec ==
    /\ Spec
    /\ WF_vars(update) /\ WF_vars(receive_thread)
    /\ WF_vars(\E t \in Thread : push(t))
-----------------------------------------------------------------------------
\* The types of the variables that the code has.
TypeOK ==
    /\ m_mtu \in ToSet(POSSIBLE_MTU)
    /\ m_fragment_id \in 0 .. FragmentIds - 1
    /\ m_merge_pos \in 0 .. POSSIBLE_MTU[Len(POSSIBLE_MTU)] - HEADER_SIZE
    /\ delivered \in Seq(Message)

\* How long packets are in the merge buffer, each with its size before it.
MergedLength(packets) ==
    LET length[i \in 0 .. Len(packets)] ==
            IF i = 0 THEN 0 ELSE length[i - 1] + MERGE_HEADER_SIZE + SizeOf(packets[i])
    IN  length[Len(packets)]

DatagramSize(packets) ==
    IF Len(packets) = 1 THEN SizeOf(packets[1]) ELSE HEADER_SIZE + MergedLength(packets)

\* m_merge_pos is where the next packet goes, and every datagram is as long as
\* its packets and the headers of their form: those of the merge buffer, or none
\* for a packet that is sent alone.
SizesAreTrue ==
    /\ m_merge_pos = MergedLength(m_merge_data)
    /\ \A d \in net : d.size = DatagramSize(d.packets)

\* No datagram is longer than the largest MTU that was ever in force, although
\* m_mtu may move between the two times it is read and after a packet was cut
\* to it; the merge buffer is never longer than that either.
DatagramsFit ==
    /\ \A d \in net : d.size <= largest
    /\ m_merge_pos + HEADER_SIZE <= largest

\* Messages come out whole and in order, and those of reliable channels once,
\* although threads push fragments between each other's, long packets overtake
\* merged ones, m_mtu moves while a message is on its way, fragment ids are used
\* again, and datagrams are lost, discarded and repeated.
Delivery == INSTANCE MessageDelivery WITH
                Ordered <- {m \in Message : m.method = "RELIABLE_ORDERED"},
                Unreliable <- {m \in Message : m.method = "UNRELIABLE"}
DeliversWhole == Delivery!Spec

\* add_reliable_packet never drops a part: the channel has confirmed it, so that
\* it would not come again and its message never be complete.
NoPartIsRefused ==
    \A p \in waiting \cup ToSet(unpacking) \cup UNION {ToSet(d.packets) : d \in net} :
        p.packet.total # 0 => ~ IsRefused(p.packet)

\* In the first session of an address, over a network that loses nothing, every
\* message that was sent on a reliable channel comes out in the end, whatever the
\* threads push in between.  Without these two conditions the code does not keep
\* it: a later session discards merged datagrams, and the resending of what is
\* lost may stop.
EveryMessageArrives ==
    m_connect_number = 0 /\ [](losses = 0) =>
        <>[](\A t \in Thread : \A m \in ToSet(submitted[t]) : m.method \in Reliable => m \in ToSet(delivered))
=============================================================================
