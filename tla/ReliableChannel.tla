-------------------------- MODULE ReliableChannel --------------------------
(***************************************************************************)
(* net_reliable_channel at the two ends of a connection, over a network    *)
(* that loses, duplicates and reorders datagrams.                          *)
(*                                                                         *)
(* process_packet and process_ack run on the receive thread,               *)
(* send_and_check_queue on the logic thread, add_to_queue on the           *)
(* application's.  process_packet is two steps and more: what it does      *)
(* under m_outgoing_acks_mutex, and then, outside it, one call of          *)
(* add_reliable_packet for each message that comes out.  The ack may       *)
(* therefore be sent, and confirm the packet, before the message is        *)
(* handed over.  The other steps are one handler each.  m_remote_sequence, *)
(* m_received_packets and m_early_received are assigned outside the mutex  *)
(* too, but only the receive thread reads them: the model assigns them in  *)
(* the first step, with the decision which messages come out.  The races   *)
(* for the "added to the send queue" flag are the subject of               *)
(* ChannelSendQueue; here queued[p] is that flag together with the queue   *)
(* entry it stands for.                                                    *)
(*                                                                         *)
(* The payload of a packet is its number in the order of submission.       *)
(* `unwrapped' is a history variable: the four sequence counters of the    *)
(* channel as they would be without the wrap at MAX_SEQUENCE.  No guard    *)
(* of the channel reads it.  `released' is the history of what             *)
(* process_packet hands to add_reliable_packet, in order, and handed[p]    *)
(* says how many of these calls have been made.  The call gives a whole    *)
(* message to the application; a fragment it puts with the others of its   *)
(* message (see MessagePath).                                              *)
(*                                                                         *)
(* Definitions marked `Mutant' are errors made on purpose, one for each    *)
(* property; no action uses them.                                          *)
(***************************************************************************)
EXTENDS SequenceNumbers, Sequences, FiniteSets

CONSTANTS
    Peer,          \* the two ends of the connection
    WindowSize,    \* net_constants::DEFAULT_WINDOW_SIZE (64 in the code)
    MaxMessages,   \* bound: MaxMessages[p] messages are sent by p
    MaxAge,        \* lifetime of a datagram, in sequence numbers (see Alive)
    Loses,         \* the ends whose datagrams may be lost on the way to them
    Duplicates     \* the network may deliver a datagram again

ASSUME ChannelAssumption ==
    /\ IsFiniteSet(Peer) /\ Cardinality(Peer) = 2
    /\ Loses \subseteq Peer /\ Duplicates \in BOOLEAN
    /\ WindowSize \in Nat \ {0}
    /\ MaxSequence % WindowSize = 0
    /\ MaxMessages \in [Peer -> Nat]
    /\ MaxAge \in 2 * WindowSize .. HALF_MAX_SEQUENCE

VARIABLES
    m_ordered,             \* RELIABLE_ORDERED or RELIABLE_UNORDERED, never assigned
    m_outgoing_queue,      \* messages not yet given a sequence number
    m_local_sequence, m_local_window_start,      \* sender half
    m_pending_packets,     \* slot -> pending_packet
    m_remote_sequence, m_remote_window_start,    \* receiver half
    m_outgoing_acks,       \* the ACK packet: window start and one bit a slot
    m_must_send_acks,
    m_received_packets,    \* slot -> packet held until the gap before it closes
    m_early_received,      \* slot -> let out ahead of m_remote_sequence
    queued,                \* the channel is in the peer's m_channel_send_queue
    packets, acks,         \* datagrams on their way to each end
    submitted,             \* what the applications sent
    released, handed,      \* what process_packet lets out, and how much is out
    unwrapped              \* history: the counters without wrap-around

sender == <<m_outgoing_queue, m_local_sequence, m_local_window_start, m_pending_packets>>
receiver == <<m_ordered, m_remote_sequence, m_remote_window_start, m_outgoing_acks,
              m_must_send_acks, m_received_packets, m_early_received>>
vars == <<sender, receiver, queued, packets, acks, submitted, released, handed, unwrapped>>

\* The messages that add_reliable_packet has been called with.
delivered == [p \in Peer |-> SubSeq(released[p], 1, handed[p])]

Other(p) == CHOOSE q \in Peer : q # p
NULL == -1                      \* nullptr where a message is expected
Slot == 0 .. WindowSize - 1
SlotOf(seq) == seq % WindowSize

\* The length of the run 0, 1, 2, ... that S starts with.
RunLength(S) == CHOOSE n \in 0 .. WindowSize :
                   n \notin S /\ \A j \in 0 .. n - 1 : j \in S

\* External assumption: a datagram is not delivered after its sender has moved
\* on by more than MaxAge sequence numbers.  Without it any 16-bit counter can
\* be deceived by a datagram that is one revolution old.
Alive(datagrams, sent) == {d \in datagrams : d.number + MaxAge >= sent}

Init ==
    /\ m_ordered \in BOOLEAN
    /\ m_outgoing_queue = [p \in Peer |-> <<>>]
    /\ m_local_sequence = [p \in Peer |-> 0]
    /\ m_local_window_start = [p \in Peer |-> 0]
    /\ m_pending_packets = [p \in Peer |-> [s \in Slot |->
          [number |-> NULL, seq |-> 0, is_sent |-> FALSE, due |-> FALSE]]]
    /\ m_remote_sequence = [p \in Peer |-> 0]
    /\ m_remote_window_start = [p \in Peer |-> 0]
    /\ m_outgoing_acks = [p \in Peer |-> [seq |-> 0, bits |-> {}]]
    /\ m_must_send_acks = [p \in Peer |-> FALSE]
    /\ m_received_packets = [p \in Peer |-> [s \in Slot |-> NULL]]
    /\ m_early_received = [p \in Peer |-> [s \in Slot |-> FALSE]]
    /\ queued = [p \in Peer |-> FALSE]
    /\ packets = [p \in Peer |-> {}]
    /\ acks = [p \in Peer |-> {}]
    /\ submitted = [p \in Peer |-> 0]
    /\ released = [p \in Peer |-> <<>>]
    /\ handed = [p \in Peer |-> 0]
    /\ unwrapped = [p \in Peer |-> [local |-> 0, localStart |-> 0,
                                    remote |-> 0, remoteStart |-> 0]]
-----------------------------------------------------------------------------
(* The application thread. *)

add_to_queue(p) ==
    /\ submitted[p] < MaxMessages[p]
    /\ m_outgoing_queue' = [m_outgoing_queue EXCEPT ![p] = Append(@, submitted[p])]
    /\ submitted' = [submitted EXCEPT ![p] = @ + 1]
    /\ queued' = [queued EXCEPT ![p] = TRUE]
    /\ UNCHANGED <<m_local_sequence, m_local_window_start, m_pending_packets,
                   receiver, packets, acks, released, handed, unwrapped>>
-----------------------------------------------------------------------------
(* The logic thread: one visit of the channel by net_peer::update. *)

\* Mutant: the window is not looked at.
Admitted_beyond_window(p) == Len(m_outgoing_queue[p])

\* How many messages of the outgoing queue the window has room for.
Admitted(p) ==
    LET room == WindowSize - relative_sequence_number(m_local_sequence[p],
                                                      m_local_window_start[p])
    IN  IF room <= 0 THEN 0
        ELSE IF room < Len(m_outgoing_queue[p]) THEN room ELSE Len(m_outgoing_queue[p])

\* The pending slots once the first n queued messages have been numbered.
Filled(p, n) ==
    [s \in Slot |->
        LET js == {j \in 0 .. n - 1 : SlotOf(Advance(m_local_sequence[p], j)) = s}
        IN  IF js = {} THEN m_pending_packets[p][s]
            ELSE LET j == CHOOSE j \in js : TRUE
                 IN  [number |-> m_outgoing_queue[p][j + 1],
                      seq |-> Advance(m_local_sequence[p], j),
                      is_sent |-> FALSE,
                      due |-> m_pending_packets[p][s].due]]

\* The slots of the window start .. end-1.
WindowSlots(start, end) ==
    {SlotOf(Advance(start, j)) : j \in 0 .. ((end - start) % MaxSequence) - 1}

\* pending_packet::try_send: a packet goes out the first time it is seen and
\* again whenever the resend delay has passed since it last went out.
TrySend(pending) == pending.number # NULL /\ (~pending.is_sent \/ pending.due)

\* send_next_packets and the flag update around it.  The channel stays in the
\* send queue if this visit sent a packet or left messages in the queue.
send_and_check_queue(p) ==
    LET n       == Admitted(p)
        end     == Advance(m_local_sequence[p], n)
        pending == Filled(p, n)
        sent    == {s \in WindowSlots(m_local_window_start[p], end) : TrySend(pending[s])}
        total   == unwrapped[p].local + n
    IN  /\ queued[p]
        /\ m_must_send_acks' = [m_must_send_acks EXCEPT ![p] = FALSE]
        /\ m_outgoing_queue' = [m_outgoing_queue EXCEPT ![p] = SubSeq(@, n + 1, Len(@))]
        /\ m_local_sequence' = [m_local_sequence EXCEPT ![p] = end]
        /\ m_pending_packets' = [m_pending_packets EXCEPT ![p] =
              [s \in Slot |-> IF s \in sent
                              THEN [pending[s] EXCEPT !.is_sent = TRUE, !.due = FALSE]
                              ELSE pending[s]]]
        /\ packets' = [packets EXCEPT ![Other(p)] =
              Alive(@ \cup {[seq |-> pending[s].seq, number |-> pending[s].number] : s \in sent},
                    total)]
        /\ acks' = [acks EXCEPT
              ![Other(p)] = IF m_must_send_acks[p]
                            THEN @ \cup {[seq |-> m_outgoing_acks[p].seq,
                                          bits |-> m_outgoing_acks[p].bits,
                                          number |-> unwrapped[p].remoteStart]}
                            ELSE @,
              ![p] = Alive(@, total)]
        /\ queued' = [queued EXCEPT ![p] = sent # {} \/ n < Len(m_outgoing_queue[p])]
        /\ unwrapped' = [unwrapped EXCEPT ![p].local = total]
        /\ UNCHANGED <<m_ordered, m_local_window_start, m_remote_sequence, m_remote_window_start,
                       m_outgoing_acks, m_received_packets, m_early_received,
                       submitted, released, handed>>

\* The resend delay of one pending packet passes.
resend_delay_elapsed(p) ==
    /\ \E s \in Slot :
          /\ m_pending_packets[p][s].number # NULL
          /\ m_pending_packets[p][s].is_sent
          /\ ~m_pending_packets[p][s].due
          /\ m_pending_packets' = [m_pending_packets EXCEPT ![p][s].due = TRUE]
    /\ UNCHANGED <<m_outgoing_queue, m_local_sequence, m_local_window_start,
                   receiver, queued, packets, acks, submitted, released, handed, unwrapped>>
-----------------------------------------------------------------------------
(* The receive thread: process_packet on a data packet. *)

\* The receive thread takes the next datagram when it has handed over what the
\* last one let out.
IsReceiving(p) == handed[p] = Len(released[p])

Relate(p, d) == relative_sequence_number(d.seq, m_remote_window_start[p])

\* Mutant: packets from before the window are not refused.
Acceptable_old(p, d) ==
    /\ d.seq < MaxSequence
    /\ relative_sequence_number(d.seq, m_remote_sequence[p]) <= WindowSize
    /\ Relate(p, d) < WindowSize * 2

Acceptable(p, d) ==
    /\ d.seq < MaxSequence
    /\ relative_sequence_number(d.seq, m_remote_sequence[p]) <= WindowSize
    /\ Relate(p, d) >= 0
    /\ Relate(p, d) < WindowSize * 2

\* Mutant: the window starts one place too far.
WindowShift_off_by_one(p, d) ==
    IF Relate(p, d) >= WindowSize THEN Relate(p, d) - WindowSize + 2 ELSE 0

\* How far the packet pushes the receive window, and the ack bits that stay.
WindowShift(p, d) == IF Relate(p, d) >= WindowSize THEN Relate(p, d) - WindowSize + 1 ELSE 0

\* Mutant: the bits of the slots that leave the window are not cleaned.
KeptBits_uncleaned(p, d) == m_outgoing_acks[p].bits

KeptBits(p, d) ==
    m_outgoing_acks[p].bits \
        {SlotOf(Advance(m_remote_window_start[p], j)) : j \in 0 .. WindowShift(p, d) - 1}

\* Mutant: a packet that is in the window already is not recognised.
IsDuplicate_never(p, d) == FALSE

IsDuplicate(p, d) == SlotOf(d.seq) \in KeptBits(p, d)

Consume(p, d) ==
    packets' = IF Duplicates THEN packets ELSE [packets EXCEPT ![p] = @ \ {d}]

\* The packet is outside the window: nothing happens.
drop_packet(p, d) ==
    /\ d \in packets[p] /\ IsReceiving(p)
    /\ ~Acceptable(p, d)
    /\ Consume(p, d)
    /\ UNCHANGED <<sender, receiver, queued, acks, submitted, released, handed, unwrapped>>

\* The part of process_packet that is common to every acceptable packet: move
\* the window, mark the packet as received, ask for an ack to be sent, which
\* the logic thread may do from here on.
AcceptIntoWindow(p, d) ==
    LET start == Advance(m_remote_window_start[p], WindowShift(p, d))
    IN  /\ d \in packets[p] /\ IsReceiving(p)
        /\ Acceptable(p, d)
        /\ m_remote_window_start' = [m_remote_window_start EXCEPT ![p] = start]
        /\ m_outgoing_acks' = [m_outgoing_acks EXCEPT ![p] =
              [seq |-> IF WindowShift(p, d) > 0 THEN start ELSE @.seq,
               bits |-> KeptBits(p, d) \cup {SlotOf(d.seq)}]]
        /\ m_must_send_acks' = [m_must_send_acks EXCEPT ![p] = TRUE]
        /\ queued' = [queued EXCEPT ![p] = TRUE]
        /\ Consume(p, d)
        /\ UNCHANGED <<m_ordered, sender, acks, submitted, handed>>

duplicate_packet(p, d) ==
    /\ AcceptIntoWindow(p, d)
    /\ IsDuplicate(p, d)
    /\ unwrapped' = [unwrapped EXCEPT ![p].remoteStart = @ + WindowShift(p, d)]
    /\ UNCHANGED <<m_remote_sequence, m_received_packets, m_early_received, released>>

\* The expected packet: it comes out, and with it every packet that was
\* held (or, unordered, every slot that was marked) right behind it.
next_packet(p, d) ==
    LET SlotAt(j) == SlotOf(Advance(m_remote_sequence[p], 1 + j))
        run == RunLength({j \in 0 .. WindowSize - 1 :
                            IF m_ordered THEN m_received_packets[p][SlotAt(j)] # NULL
                                       ELSE m_early_received[p][SlotAt(j)]})
        freed == {SlotAt(j) : j \in 0 .. run - 1}
        held == [i \in 1 .. run |-> m_received_packets[p][SlotAt(i - 1)]]
    IN  /\ AcceptIntoWindow(p, d)
        /\ ~IsDuplicate(p, d)
        /\ d.seq = m_remote_sequence[p]
        /\ m_remote_sequence' = [m_remote_sequence EXCEPT ![p] = Advance(@, 1 + run)]
        /\ m_received_packets' = [m_received_packets EXCEPT ![p] =
              [s \in Slot |-> IF m_ordered /\ s \in freed THEN NULL ELSE @[s]]]
        /\ m_early_received' = [m_early_received EXCEPT ![p] =
              [s \in Slot |-> IF ~m_ordered /\ s \in freed THEN FALSE ELSE @[s]]]
        /\ released' = [released EXCEPT ![p] =
              Append(@, d.number) \o (IF m_ordered THEN held ELSE <<>>)]
        /\ unwrapped' = [unwrapped EXCEPT ![p].remote = @ + 1 + run,
                                          ![p].remoteStart = @ + WindowShift(p, d)]

\* A packet from beyond a gap: an ordered channel holds it, an unordered one
\* lets it out and marks its slot.
early_packet(p, d) ==
    /\ AcceptIntoWindow(p, d)
    /\ ~IsDuplicate(p, d)
    /\ d.seq # m_remote_sequence[p]
    /\ IF m_ordered
       THEN /\ m_received_packets' = [m_received_packets EXCEPT ![p][SlotOf(d.seq)] = d.number]
            /\ UNCHANGED <<m_early_received, released>>
       ELSE /\ m_early_received' = [m_early_received EXCEPT ![p][SlotOf(d.seq)] = TRUE]
            /\ released' = [released EXCEPT ![p] = Append(@, d.number)]
            /\ UNCHANGED m_received_packets
    /\ unwrapped' = [unwrapped EXCEPT ![p].remoteStart = @ + WindowShift(p, d)]
    /\ UNCHANGED m_remote_sequence

process_packet(p, d) ==
    drop_packet(p, d) \/ duplicate_packet(p, d) \/ next_packet(p, d) \/ early_packet(p, d)

\* One call of add_reliable_packet, after the mutex is released.
hand_over(p) ==
    /\ handed[p] < Len(released[p])
    /\ handed' = [handed EXCEPT ![p] = @ + 1]
    /\ UNCHANGED <<sender, receiver, queued, packets, acks, submitted, released, unwrapped>>
-----------------------------------------------------------------------------
(* The receive thread: process_ack. *)

\* Mutant: the scan does not stop at the end of the window of the ack.
Confirmed_beyond_ack(p, a) ==
    {j \in 0 .. ((m_local_sequence[p] - m_local_window_start[p]) % MaxSequence) - 1 :
        SlotOf(Advance(m_local_window_start[p], j)) \in a.bits}

\* Offsets from m_local_window_start of the packets that ack a confirms.  The
\* scan stops at the first pending packet beyond the window of the ack.
Confirmed(p, a) ==
    {j \in 0 .. ((m_local_sequence[p] - m_local_window_start[p]) % MaxSequence) - 1 :
        LET seq == Advance(m_local_window_start[p], j)
        IN  /\ relative_sequence_number(seq, a.seq) < WindowSize
            /\ SlotOf(seq) \in a.bits}

\* Mutant: the ack of a window that starts where the sender's does is refused.
AckInWindow_strict(p, a) ==
    LET rel == relative_sequence_number(m_local_window_start[p], a.seq)
    IN  a.seq < MaxSequence /\ rel > 0 /\ rel < WindowSize

AckInWindow(p, a) ==
    LET rel == relative_sequence_number(m_local_window_start[p], a.seq)
    IN  a.seq < MaxSequence /\ rel >= 0 /\ rel < WindowSize

process_ack(p, a) ==
    LET offsets == IF AckInWindow(p, a) THEN Confirmed(p, a) ELSE {}
        lead    == RunLength(offsets)
        cleared == {SlotOf(Advance(m_local_window_start[p], j)) : j \in offsets}
    IN  /\ a \in acks[p] /\ IsReceiving(p)
        /\ m_local_window_start' = [m_local_window_start EXCEPT ![p] = Advance(@, lead)]
        /\ m_pending_packets' = [m_pending_packets EXCEPT ![p] =
              [s \in Slot |-> IF s \in cleared THEN [@[s] EXCEPT !.number = NULL] ELSE @[s]]]
        /\ acks' = IF Duplicates THEN acks ELSE [acks EXCEPT ![p] = @ \ {a}]
        /\ unwrapped' = [unwrapped EXCEPT ![p].localStart = @ + lead]
        /\ UNCHANGED <<m_outgoing_queue, m_local_sequence, receiver, queued, packets,
                       submitted, released, handed>>
-----------------------------------------------------------------------------
(* The network. *)

lose(p) ==
    /\ p \in Loses
    /\ \/ \E d \in packets[p] : packets' = [packets EXCEPT ![p] = @ \ {d}] /\ UNCHANGED acks
       \/ \E a \in acks[p] : acks' = [acks EXCEPT ![p] = @ \ {a}] /\ UNCHANGED packets
    /\ UNCHANGED <<sender, receiver, queued, submitted, released, handed, unwrapped>>

receive_packet(p) == \E d \in packets[p] : process_packet(p, d)
receive_ack(p) == \E a \in acks[p] : process_ack(p, a)

Next == \E p \in Peer :
    \/ add_to_queue(p)
    \/ send_and_check_queue(p)
    \/ resend_delay_elapsed(p)
    \/ receive_packet(p)
    \/ hand_over(p)
    \/ receive_ack(p)
    \/ lose(p)

Spec == Init /\ [][Next]_vars

\* Fairness.  The logic thread runs update every update_time milliseconds and
\* its clock advances; process_packet goes on to its end; the network that does not lose a datagram delivers it.
\* Nothing forces the application to send.
Fairness ==
    \A p \in Peer :
        /\ WF_vars(send_and_check_queue(p))
        /\ WF_vars(resend_delay_elapsed(p))
        /\ WF_vars(hand_over(p))
        /\ SF_vars(receive_ack(p))
        /\ \A m \in 0 .. MaxMessages[Other(p)] - 1 :
              SF_vars(\E d \in packets[p] : d.number = m /\ process_packet(p, d))

FairSpec == Spec /\ Fairness
-----------------------------------------------------------------------------
Message(p) == 0 .. MaxMessages[p] - 1

\* The type of every variable of the two ends of the channel.
TypeOK ==
    /\ m_ordered \in BOOLEAN
    /\ m_outgoing_queue \in [Peer -> Seq(Nat)]
    /\ m_local_sequence \in [Peer -> 0 .. MaxSequence - 1]
    /\ m_local_window_start \in [Peer -> 0 .. MaxSequence - 1]
    /\ m_pending_packets \in [Peer -> [Slot -> [number : Nat \cup {NULL}, seq : 0 .. MaxSequence - 1,
                                               is_sent : BOOLEAN, due : BOOLEAN]]]
    /\ m_remote_sequence \in [Peer -> 0 .. MaxSequence - 1]
    /\ m_remote_window_start \in [Peer -> 0 .. MaxSequence - 1]
    /\ m_outgoing_acks \in [Peer -> [seq : 0 .. MaxSequence - 1, bits : SUBSET Slot]]
    /\ m_must_send_acks \in [Peer -> BOOLEAN]
    /\ m_received_packets \in [Peer -> [Slot -> Nat \cup {NULL}]]
    /\ m_early_received \in [Peer -> [Slot -> BOOLEAN]]
    /\ queued \in [Peer -> BOOLEAN]
    /\ packets \in [Peer -> SUBSET [seq : 0 .. MaxSequence - 1, number : Nat]]
    /\ acks \in [Peer -> SUBSET [seq : 0 .. MaxSequence - 1, bits : SUBSET Slot, number : Nat]]
    /\ submitted \in [Peer -> Nat]
    /\ released \in [Peer -> Seq(Nat)]
    /\ handed \in [Peer -> Nat]
    /\ unwrapped \in [Peer -> [local : Nat, localStart : Nat, remote : Nat, remoteStart : Nat]]

\* The four counters of one direction stay in order and within one window, so
\* that the wrapped ones can be compared: the receiver's window never starts
\* ahead of the sender's (process_ack would ignore its acks), the sender never
\* forgets a packet the receiver still expects, and never overruns the window.
WindowOrder ==
    \A p \in Peer :
        LET q == Other(p)
        IN  /\ unwrapped[q].remoteStart <= unwrapped[p].localStart
            /\ unwrapped[p].localStart <= unwrapped[q].remote
            /\ unwrapped[q].remote <= unwrapped[p].local
            /\ unwrapped[p].local <= unwrapped[p].localStart + WindowSize

\* The message is at the receiver: passed in sequence, or in a slot beyond a gap.
Received(q, m) ==
    \/ m < unwrapped[q].remote
    \/ /\ m < unwrapped[q].remote + WindowSize
       /\ IF m_ordered THEN m_received_packets[q][SlotOf(m)] = m
                     ELSE m_early_received[q][SlotOf(m)]

\* process_ack drops the sender's copy of a packet only when the receiver has
\* it: a message that has been numbered is pending, held behind a gap of an
\* ordered channel, or one that process_packet has handed to
\* add_reliable_packet or is about to.
NoMessageLost ==
    \A p \in Peer : \A m \in 0 .. unwrapped[p].local - 1 :
        \/ m_pending_packets[p][SlotOf(m)].number = m
        \/ m_ordered /\ m_received_packets[Other(p)][SlotOf(m)] = m
        \/ \E i \in DOMAIN released[Other(p)] : released[Other(p)][i] = m

\* An ack bit on its way to the sender tells the truth, whatever packets the
\* same bit has stood for in earlier positions of the window.
AcksAreTrue ==
    \A p \in Peer : \A a \in acks[p] : \A m \in a.number .. a.number + WindowSize - 1 :
        SlotOf(m) \in a.bits => Received(Other(p), m)

\* A slot is never given to another packet while it holds one: neither the
\* receiver's held packets nor the sender's unconfirmed ones are overwritten.
SlotsAreNotOverwritten ==
    [][\A p \in Peer, s \in Slot :
        /\ m_received_packets[p][s] # NULL =>
              m_received_packets'[p][s] \in {NULL, m_received_packets[p][s]}
        /\ m_pending_packets[p][s].number # NULL =>
              m_pending_packets'[p][s].number \in {NULL, m_pending_packets[p][s].number}]_vars

\* The channel implements reliable (ordered) delivery: add_reliable_packet is
\* called for no message twice and for none that was not sent, and in order if
\* the channel is ordered.
Delivery == INSTANCE ReliableDelivery WITH ordered <- m_ordered
DeliversReliably == Delivery!Spec

\* add_reliable_packet is called with every message that the other end sends.
EverythingIsDelivered ==
    \A p \in Peer : \A m \in Message(p) :
        submitted[p] > m ~> \E i \in DOMAIN delivered[Other(p)] : delivered[Other(p)][i] = m
=============================================================================
