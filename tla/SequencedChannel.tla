-------------------------- MODULE SequencedChannel --------------------------
(***************************************************************************)
(* net_sequenced_channel: one direction of a SEQUENCED or                  *)
(* RELIABLE_SEQUENCED channel, over a network that loses, duplicates and   *)
(* reorders datagrams.  Old packets are dropped, missing ones are not      *)
(* asked for; a reliable channel goes on sending its last packet.          *)
(*                                                                         *)
(* The k-th message is the number k.  Each handler is one step.            *)
(*                                                                         *)
(* Definitions marked `Mutant' are errors made on purpose, one for each    *)
(* property; no action uses them.                                          *)
(***************************************************************************)
EXTENDS SequenceNumbers, Sequences

CONSTANTS
    MaxMessages,   \* bound: how many messages are sent
    MaxAge,        \* lifetime of a datagram, in sequence numbers (see Alive)
    MaxBurst,      \* bound: how many messages the application sends between two updates
    Loses,         \* the network may lose a datagram
    Duplicates     \* the network may deliver a datagram again

ASSUME SequencedAssumption ==
    /\ {Loses, Duplicates} \subseteq BOOLEAN
    /\ MaxMessages \in Nat
    /\ MaxAge \in 1 .. HALF_MAX_SEQUENCE
    /\ MaxBurst \in Nat \ {0}

NoPacket == [seq |-> 0, number |-> 0]

\* The channel id of a reliable sequenced channel; that of its ACK packet is
\* never set.
m_id == 3
AckChannel == 0

VARIABLES
    m_reliable,                  \* RELIABLE_SEQUENCED or SEQUENCED, never assigned
    m_outgoing_queue,            \* messages not yet given a sequence number
    m_local_sequence,
    m_last_packet, due,          \* the packet to be sent again, and whether it is time to
    queued,                      \* the channel is in the sender's m_channel_send_queue
    m_remote_sequence, m_must_send_ack,
    packets, acks,               \* datagrams on their way
    submitted, delivered         \* how many messages were sent; those handed over

sender == <<m_outgoing_queue, m_local_sequence, m_last_packet, due, queued>>
receiver == <<m_reliable, m_remote_sequence, m_must_send_ack>>
vars == <<sender, receiver, packets, acks, submitted, delivered>>

Init ==
    /\ m_reliable \in BOOLEAN
    /\ m_outgoing_queue = <<>>
    /\ m_local_sequence = 0
    /\ m_last_packet = NoPacket
    /\ due = FALSE
    /\ queued = FALSE
    /\ m_remote_sequence = 0
    /\ m_must_send_ack = FALSE
    /\ packets = {}
    /\ acks = {}
    /\ submitted = 0
    /\ delivered = <<>>

\* External assumption: a datagram is not delivered after its sender has moved
\* on by more than MaxAge sequence numbers.
Alive(datagrams, sent) == {d \in datagrams : d.number + MaxAge >= sent}
-----------------------------------------------------------------------------
add_to_queue ==
    /\ submitted < MaxMessages
    /\ Len(m_outgoing_queue) < MaxBurst
    /\ submitted' = submitted + 1
    /\ m_outgoing_queue' = Append(m_outgoing_queue, submitted + 1)
    /\ queued' = TRUE
    /\ UNCHANGED <<m_local_sequence, m_last_packet, due, receiver, packets, acks, delivered>>

\* Mutant: the last packet is not kept.
Kept_none(p) == m_last_packet

\* What m_last_packet becomes when p is the last of the queued packets.
Kept(p) == IF m_reliable THEN p ELSE m_last_packet

\* send_next_packets, with messages in the queue: all of them are sent.
send_queued ==
    LET n == Len(m_outgoing_queue)
        Numbered(i) == [seq |-> Advance(m_local_sequence, i), number |-> m_outgoing_queue[i]]
    IN  /\ queued
        /\ n > 0
        /\ m_outgoing_queue' = <<>>
        /\ m_local_sequence' = Advance(m_local_sequence, n)
        /\ packets' = Alive(packets \cup {Numbered(i) : i \in 1 .. n}, submitted)
        /\ m_last_packet' = Kept(Numbered(n))
        /\ due' = FALSE
        /\ queued' = (m_last_packet' # NoPacket)
        /\ UNCHANGED <<receiver, acks, submitted, delivered>>

\* send_next_packets, with nothing in the queue.
send_again ==
    /\ queued
    /\ m_outgoing_queue = <<>>
    /\ IF m_reliable /\ due /\ m_last_packet # NoPacket
       THEN /\ packets' = packets \cup {m_last_packet}
            /\ due' = FALSE
       ELSE UNCHANGED <<packets, due>>
    /\ queued' = (m_last_packet # NoPacket)
    /\ UNCHANGED <<m_outgoing_queue, m_local_sequence, m_last_packet, receiver, acks,
                   submitted, delivered>>

\* The resend delay passes.
resend_delay_elapsed ==
    /\ m_last_packet # NoPacket
    /\ ~due
    /\ due' = TRUE
    /\ UNCHANGED <<m_outgoing_queue, m_local_sequence, m_last_packet, queued, receiver,
                   packets, acks, submitted, delivered>>

\* process_packet on an ack.  The peer looks its channel up by the id in it.
receive_ack(a) ==
    /\ a \in acks
    /\ m_last_packet' = IF a.channel = m_id /\ a.seq = m_last_packet.seq THEN NoPacket
                        ELSE m_last_packet
    /\ acks' = acks \ {a}
    /\ UNCHANGED <<m_outgoing_queue, m_local_sequence, due, queued, receiver, packets,
                   submitted, delivered>>

\* Mutant: the packet that was delivered last is taken for a new one.
IsNewer_or_same(d) ==
    d.seq < MaxSequence /\ relative_sequence_number(d.seq, m_remote_sequence) >= 0

IsNewer(d) ==
    d.seq < MaxSequence /\ relative_sequence_number(d.seq, m_remote_sequence) > 0

\* process_packet on a data packet.
receive_packet(d) ==
    /\ d \in packets
    /\ IF IsNewer(d)
       THEN /\ m_remote_sequence' = d.seq
            /\ delivered' = Append(delivered, d.number)
       ELSE UNCHANGED <<m_remote_sequence, delivered>>
    /\ m_must_send_ack' = m_reliable
    /\ packets' = IF Duplicates THEN packets ELSE packets \ {d}
    /\ UNCHANGED <<m_reliable, sender, acks, submitted>>

\* send_next_packets at the receiving end: the ack.
send_ack ==
    /\ m_must_send_ack
    /\ m_must_send_ack' = FALSE
    /\ acks' = acks \cup {[channel |-> AckChannel, seq |-> m_remote_sequence]}
    /\ UNCHANGED <<m_reliable, sender, m_remote_sequence, packets, submitted, delivered>>

lose ==
    /\ Loses
    /\ \/ \E d \in packets : packets' = packets \ {d} /\ UNCHANGED acks
       \/ \E a \in acks : acks' = acks \ {a} /\ UNCHANGED packets
    /\ UNCHANGED <<sender, receiver, submitted, delivered>>

Next ==
    \/ add_to_queue \/ send_queued \/ send_again \/ resend_delay_elapsed
    \/ \E a \in acks : receive_ack(a)
    \/ \E d \in packets : receive_packet(d)
    \/ send_ack
    \/ lose

Spec == Init /\ [][Next]_vars

\* Fairness: the logic threads run and their clocks advance; a network to
\* which a datagram is given again and again delivers it and its ack.
Fairness ==
    /\ WF_vars(send_queued \/ send_again)
    /\ WF_vars(resend_delay_elapsed)
    /\ WF_vars(send_ack)
    /\ SF_vars(\E a \in acks : receive_ack(a))
    /\ \A m \in 1 .. MaxMessages : SF_vars(\E d \in packets : d.number = m /\ receive_packet(d))

FairSpec == Spec /\ Fairness
-----------------------------------------------------------------------------
\* The type of every variable.
TypeOK ==
    /\ m_outgoing_queue \in Seq(1 .. MaxMessages)
    /\ m_local_sequence \in 0 .. MaxSequence - 1
    /\ m_last_packet \in [seq : 0 .. MaxSequence - 1, number : 0 .. MaxMessages]
    /\ {m_reliable, due, queued, m_must_send_ack} \subseteq BOOLEAN
    /\ m_remote_sequence \in 0 .. MaxSequence - 1
    /\ packets \in SUBSET [seq : 0 .. MaxSequence - 1, number : 1 .. MaxMessages]
    /\ acks \in SUBSET [channel : {AckChannel}, seq : 0 .. MaxSequence - 1]
    /\ submitted \in 0 .. MaxMessages
    /\ delivered \in Seq(1 .. MaxMessages)

\* However the network reorders and repeats, and wherever the counter wraps,
\* no message is handed over after a newer one, and none twice.
DeliversInSequence ==
    [][\A i \in DOMAIN delivered' \ DOMAIN delivered :
          \A j \in DOMAIN delivered : delivered[j] < delivered'[i]]_vars

\* The last message that the receiver was given.
Newest == IF delivered = <<>> THEN 0 ELSE delivered[Len(delivered)]

\* The last message of a reliable channel arrives, however often it is lost.
\* The premise is the code's limit: after a burst of losses of half of the
\* sequence numbers the last message looks old.
LastIsDelivered ==
    \A m \in 1 .. MaxMessages :
        m_reliable /\ submitted = m /\ m - Newest < HALF_MAX_SEQUENCE
            ~> submitted > m \/ Newest = m
=============================================================================
