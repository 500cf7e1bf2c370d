----------------------- MODULE SequencedChannelProofs -----------------------
(***************************************************************************)
(* Proofs about SequencedChannel, for every MaxSequence and number of      *)
(* messages: the types, that nothing is delivered after something newer,   *)
(* and that the sender of a reliable channel keeps its last packet.        *)
(***************************************************************************)
EXTENDS SequencedChannel, SequenceTheorems, TLAPS

(* Remainders and relative_sequence_number, as in ReliableChannelProofs. *)

\* Quotient and remainder of a division by n.
LEMMA DivMod ==
    ASSUME NEW n \in Nat \ {0}, NEW a \in Int
    PROVE  /\ a \div n \in Int
           /\ a % n \in 0 .. n - 1
           /\ a = n * (a \div n) + (a % n)
OBVIOUS

\* Multiplication distributes over sums and differences.
LEMMA Distribute ==
    ASSUME NEW n \in Int, NEW j \in Int, NEW k \in Int
    PROVE  n * (j + k) = n * j + n * k /\ n * (j - k) = n * j - n * k
OBVIOUS

\* The only multiple of n between -n and n is 0.
LEMMA SmallMultiple ==
    ASSUME NEW n \in Nat \ {0}, NEW k \in Int, n * k < n, 0 - n < n * k
    PROVE  k = 0
<1>1. CASE k >= 1
  <2>1. n * (k - 1) >= 0
    BY <1>1
  <2>. QED BY <2>1
<1>2. CASE k <= 0 - 1
  <2>1. n * ((0 - 1) - k) >= 0
    BY <1>2
  <2>. QED BY <2>1
<1>. QED BY <1>1, <1>2

\* Quotient and remainder are unique.
LEMMA DivModUnique ==
    ASSUME NEW n \in Nat \ {0}, NEW q \in Int, NEW r \in 0 .. n - 1
    PROVE  (n * q + r) % n = r
<1>. DEFINE a == n * q + r
<1>1. n * q \in Int /\ a \in Int
  OBVIOUS
<1>2. a % n \in 0 .. n - 1 /\ a = n * (a \div n) + (a % n) /\ a \div n \in Int
  BY <1>1, DivMod
<1>. HIDE DEF a
<1>3. n * (q - (a \div n)) = (a % n) - r
  BY <1>1, <1>2 DEF a
<1>4. q - (a \div n) = 0
  <2>1. n * (q - (a \div n)) < n /\ 0 - n < n * (q - (a \div n))
    BY <1>2, <1>3
  <2>. QED BY <2>1, <1>2, SmallMultiple
<1>5. n * (q - (a \div n)) = 0
  BY <1>4
<1>. QED BY <1>5, <1>3, <1>2 DEF a

\* A number below n is its own remainder.
LEMMA SmallMod ==
    ASSUME NEW n \in Nat \ {0}, NEW a \in 0 .. n - 1
    PROVE  a % n = a
OBVIOUS

\* The remainder of a sum is that of the sum of a remainder.
LEMMA AddMod ==
    ASSUME NEW n \in Nat \ {0}, NEW a \in Int, NEW b \in Int
    PROVE  ((a % n) + b) % n = (a + b) % n
<1>. DEFINE c  == (a % n) + b
            qa == a \div n
            qc == c \div n
            ra == a % n
            rc == c % n
<1>1. a = n * qa + ra /\ qa \in Int /\ ra \in Int
  BY DivMod
<1>2. c \in Int /\ c = ra + b
  BY <1>1
<1>. HIDE DEF c
<1>3. c = n * qc + rc /\ qc \in Int /\ rc \in 0 .. n - 1
  BY <1>2, DivMod
<1>. HIDE DEF qa, qc, ra, rc
<1>4. n * (qa + qc) = n * qa + n * qc /\ n * qa \in Int /\ n * qc \in Int
  BY <1>1, <1>3, Distribute
<1>5. a + b = n * (qa + qc) + rc
  BY <1>1, <1>2, <1>3, <1>4
<1>6. (n * (qa + qc) + rc) % n = rc
  BY <1>1, <1>3, DivModUnique
<1>. QED BY <1>5, <1>6 DEF rc, c

\* Adding a multiple of n does not change the remainder by n.
LEMMA ModPlusMultiple ==
    ASSUME NEW n \in Nat \ {0}, NEW a \in Int, NEW k \in Int
    PROVE  (a + n * k) % n = a % n
<1>. DEFINE q == a \div n
            r == a % n
<1>1. q \in Int /\ r \in 0 .. n - 1 /\ a = n * q + r
  BY DivMod
<1>. HIDE DEF q, r
<1>2. n * (q + k) = n * q + n * k /\ n * q \in Int /\ n * k \in Int
  BY <1>1, Distribute
<1>3. a + n * k = n * (q + k) + r
  BY <1>1, <1>2
<1>4. (n * (q + k) + r) % n = r
  BY <1>1, DivModUnique
<1>. QED BY <1>3, <1>4 DEF r

\* A sequence number moved on is a sequence number, and moving on a wrapped
\* counter is wrapping the counter moved on.
LEMMA AdvanceWraps ==
    ASSUME NEW a \in Int, NEW n \in Int
    PROVE  /\ Advance(a, n) \in 0 .. MaxSequence - 1
           /\ Advance(a % MaxSequence, n) = (a + n) % MaxSequence
<1>1. MaxSequence \in Nat \ {0}
  BY MaxSequenceAssumption
<1>2. ((a % MaxSequence) + n) % MaxSequence = (a + n) % MaxSequence
  BY <1>1, AddMod
<1>. DEFINE c == a + n
<1>3. c \in Int
  OBVIOUS
<1>. HIDE DEF c
<1>4. c % MaxSequence \in 0 .. MaxSequence - 1
  BY <1>1, <1>3, DivMod
<1>. QED BY <1>2, <1>4 DEF Advance, c

\* Half of MaxSequence is exactly half.
LEMMA HalfMax ==
    /\ HALF_MAX_SEQUENCE \in Nat \ {0}
    /\ MaxSequence = 2 * HALF_MAX_SEQUENCE
<1>1. MaxSequence = 2 * (MaxSequence \div 2) + (MaxSequence % 2) /\ MaxSequence \div 2 \in Int
  BY DivMod, MaxSequenceAssumption
<1>. QED BY <1>1, MaxSequenceAssumption DEF HALF_MAX_SEQUENCE

\* Two counters at most half a revolution apart: the wrapped values tell by
\* how much one is ahead of the other.
LEMMA RelativeIsDifference ==
    ASSUME NEW a \in Int, NEW b \in Int,
           a - b < HALF_MAX_SEQUENCE, b - a <= HALF_MAX_SEQUENCE
    PROVE  relative_sequence_number(a % MaxSequence, b % MaxSequence) = a - b
<1>. DEFINE M == MaxSequence
            H == HALF_MAX_SEQUENCE
            q == b \div M
            r == b % M
            x == (a % M) - r + M + H
<1>1. M \in Nat \ {0} /\ H \in Nat \ {0} /\ M = 2 * H
  BY HalfMax, MaxSequenceAssumption
<1>2. q \in Int /\ r \in 0 .. M - 1 /\ b = M * q + r /\ a % M \in 0 .. M - 1
  BY <1>1, DivMod
<1>3. x \in Nat /\ a - b < H /\ b - a <= H
  BY <1>1, <1>2
<1>4. relative_sequence_number(a % M, b % M) = (x % M) - H
  BY <1>3 DEF relative_sequence_number, Remainder
<1>. HIDE DEF M, H, q, r
<1>5. x % M = (a + (M + H - r)) % M
  <2>. DEFINE c == M + H - r
  <2>1. c \in Int /\ x = (a % M) + c
    BY <1>1, <1>2
  <2>. HIDE DEF c
  <2>2. ((a % M) + c) % M = (a + c) % M
    BY <1>1, <2>1, AddMod
  <2>. QED BY <2>1, <2>2 DEF c
<1>6. a + (M + H - r) = (a - b + H) + M * (q + 1)
  <2>1. M * (q + 1) = M * q + M /\ M * q \in Int
    BY <1>1, <1>2, Distribute
  <2>. QED BY <2>1, <1>1, <1>2
<1>7. ((a - b + H) + M * (q + 1)) % M = (a - b + H) % M
  <2>. DEFINE c == a - b + H
              k == q + 1
  <2>1. c \in Int /\ k \in Int
    BY <1>1, <1>2
  <2>. HIDE DEF c, k
  <2>2. (c + M * k) % M = c % M
    BY <1>1, <2>1, ModPlusMultiple
  <2>. QED BY <2>2 DEF c, k
<1>8. (a - b + H) % M = a - b + H
  BY <1>1, <1>3, SmallMod
<1>9. x % M = a - b + H
  BY <1>5, <1>6, <1>7, <1>8
<1>. QED BY <1>1, <1>4, <1>9 DEF M

-----------------------------------------------------------------------------
(* Nothing is delivered after something newer. *)

\* How many messages have been given a sequence number.
Sent == submitted - Len(m_outgoing_queue)

\* The queue has the messages that come after those.
QueueIsNumbered ==
    /\ Sent >= 0
    /\ \A i \in 1 .. Len(m_outgoing_queue) : m_outgoing_queue[i] = Sent + i

\* Counter and last packet of the sender are those of the latest of them.
SenderIsNumbered ==
    /\ m_local_sequence = Sent % MaxSequence
    /\ m_last_packet # NoPacket =>
          m_last_packet.number = Sent /\ m_last_packet.seq = Sent % MaxSequence /\ Sent > 0
    /\ ~m_reliable => m_last_packet = NoPacket

\* A packet on its way carries the wrapped number of its message, and its
\* sender has not moved on by more than MaxAge.
PacketsAreNumbered ==
    \A d \in packets :
        d.number <= Sent /\ Sent <= d.number + MaxAge /\ d.seq = d.number % MaxSequence

\* The counter of the receiver is that of the newest message it has.
ReceiverIsNumbered ==
    /\ m_remote_sequence = Newest % MaxSequence
    /\ Newest \in 0 .. Sent
    /\ \A j \in DOMAIN delivered : delivered[j] <= Newest

\* The inductive invariant.
IInv == TypeOK /\ QueueIsNumbered /\ SenderIsNumbered /\ PacketsAreNumbered /\ ReceiverIsNumbered

\* The ring, in the form the proofs use.
LEMMA Ring ==
    /\ MaxSequence \in Nat \ {0} /\ HALF_MAX_SEQUENCE \in Nat \ {0}
    /\ MaxAge \in Nat /\ MaxAge <= HALF_MAX_SEQUENCE
    /\ MaxMessages \in Nat /\ MaxBurst \in Nat
    /\ \A a \in Int : a % MaxSequence \in 0 .. MaxSequence - 1
    /\ 0 % MaxSequence = 0
<1>1. MaxSequence \in Nat \ {0} /\ HALF_MAX_SEQUENCE \in Nat \ {0}
  BY MaxSequenceAssumption, HalfMax
<1>2. \A a \in Int : a % MaxSequence \in 0 .. MaxSequence - 1
  BY <1>1, DivMod
<1>3. 0 % MaxSequence = 0
  BY <1>1, SmallMod
<1>. QED BY <1>1, <1>2, <1>3, SequencedAssumption

\* Sent is a number of messages, Newest one of them or none.
LEMMA Counts ==
    ASSUME TypeOK, QueueIsNumbered
    PROVE  Sent \in 0 .. MaxMessages /\ Sent <= submitted /\ Newest \in 0 .. MaxMessages
<1>1. Len(m_outgoing_queue) \in Nat /\ submitted \in 0 .. MaxMessages
  BY LenProperties DEF TypeOK
<1>2. Newest \in 0 .. MaxMessages
  <2>1. CASE delivered = <<>>
    BY <2>1, Ring DEF Newest
  <2>2. CASE delivered # <<>>
    <3>1. delivered \in Seq(1 .. MaxMessages)
      BY DEF TypeOK
    <3>2. Len(delivered) \in Nat /\ Len(delivered) # 0
      BY <2>2, <3>1, LenProperties, EmptySeq
    <3>. DEFINE k == Len(delivered)
    <3>3. k \in 1 .. Len(delivered)
      BY <3>2
    <3>. HIDE DEF k
    <3>4. delivered[k] \in 1 .. MaxMessages
      BY <3>1, <3>3, ElementOfSeq
    <3>5. Newest = delivered[k]
      BY <2>2 DEF Newest, k
    <3>. QED BY <3>4, <3>5, Ring
  <2>. QED BY <2>1, <2>2
<1>. DEFINE n == Len(m_outgoing_queue)
<1>3. n \in Nat
  BY <1>1
<1>4. Sent = submitted - n /\ Sent >= 0
  BY DEF Sent, QueueIsNumbered
<1>. HIDE DEF n
<1>5. Sent \in 0 .. MaxMessages /\ Sent <= submitted
  BY <1>1, <1>3, <1>4, Ring
<1>. QED BY <1>2, <1>5

\* Nothing has been sent.
LEMMA InitInv == Init => IInv
<1>. SUFFICES ASSUME Init PROVE IInv
  OBVIOUS
<1>1. Len(m_outgoing_queue) = 0 /\ submitted = 0 /\ Sent = 0
  <2>1. Len(m_outgoing_queue) = 0
    BY EmptySeq DEF Init
  <2>. DEFINE n == Len(m_outgoing_queue)
  <2>2. n = 0 /\ submitted = 0 /\ Sent = submitted - n
    BY <2>1 DEF Init, Sent
  <2>. HIDE DEF n
  <2>3. Sent = 0
    BY <2>2
  <2>. QED BY <2>1, <2>2, <2>3
<1>2. Newest = 0 /\ DOMAIN delivered = {}
  <2>1. DOMAIN delivered = 1 .. 0
    BY EmptySeq, LenProperties DEF Init
  <2>. QED BY <2>1 DEF Init, Newest
<1>3. NoPacket \in [seq : 0 .. MaxSequence - 1, number : 0 .. MaxMessages]
  BY Ring DEF NoPacket
<1>4. TypeOK
  <2>1. m_outgoing_queue \in Seq(1 .. MaxMessages) /\ delivered \in Seq(1 .. MaxMessages)
    BY EmptySeq DEF Init
  <2>2. {m_reliable, due, queued, m_must_send_ack} \subseteq BOOLEAN
    BY ZenonT(20) DEF Init
  <2>3. m_last_packet \in [seq : 0 .. MaxSequence - 1, number : 0 .. MaxMessages]
    BY <1>3 DEF Init
  <2>4. /\ m_local_sequence \in 0 .. MaxSequence - 1 /\ m_remote_sequence \in 0 .. MaxSequence - 1
        /\ submitted \in 0 .. MaxMessages
        /\ packets = {} /\ acks = {}
    BY Ring DEF Init
  <2>. QED BY <2>1, <2>2, <2>3, <2>4 DEF TypeOK
<1>5. QueueIsNumbered
  BY <1>1 DEF QueueIsNumbered
<1>6. SenderIsNumbered /\ PacketsAreNumbered
  BY <1>1, Ring DEF Init, SenderIsNumbered, PacketsAreNumbered
<1>7. ReceiverIsNumbered
  BY <1>1, <1>2, Ring DEF Init, ReceiverIsNumbered
<1>. QED BY <1>4, <1>5, <1>6, <1>7 DEF IInv

-----------------------------------------------------------------------------
(* The steps. *)

\* A message is put behind those in the queue.
LEMMA AddInv ==
    ASSUME IInv, add_to_queue
    PROVE  IInv'
<1>. DEFINE q == m_outgoing_queue
<1>1. /\ submitted < MaxMessages /\ submitted' = submitted + 1
      /\ m_outgoing_queue' = Append(q, submitted + 1)
      /\ queued' = TRUE
      /\ UNCHANGED <<m_local_sequence, m_last_packet, due, m_reliable, m_remote_sequence,
                     m_must_send_ack, packets, acks, delivered>>
  BY DEF add_to_queue, receiver
<1>2. q \in Seq(1 .. MaxMessages) /\ submitted \in 0 .. MaxMessages /\ submitted' \in 1 .. MaxMessages
  BY <1>1, Ring DEF IInv, TypeOK
<1>3. /\ m_outgoing_queue' \in Seq(1 .. MaxMessages)
      /\ Len(m_outgoing_queue') = Len(q) + 1 /\ Len(q) \in Nat
      /\ \A i \in 1 .. Len(q) : m_outgoing_queue'[i] = q[i]
      /\ m_outgoing_queue'[Len(q) + 1] = submitted'
  BY <1>1, <1>2, AppendProperties, LenProperties
<1>4. Sent' = Sent
  BY <1>1, <1>2, <1>3 DEF Sent
<1>5. TypeOK'
  BY <1>1, <1>2, <1>3 DEF IInv, TypeOK
<1>6. QueueIsNumbered'
  <2>1. Sent' + Len(q) + 1 = submitted'
    BY <1>1, <1>2, <1>3, <1>4 DEF Sent
  <2>2. ASSUME NEW i \in 1 .. Len(m_outgoing_queue') PROVE m_outgoing_queue'[i] = Sent' + i
    BY <1>2, <1>3, <1>4, <2>1, Counts DEF IInv, QueueIsNumbered
  <2>. QED BY <1>4, <2>2 DEF IInv, QueueIsNumbered
<1>7. SenderIsNumbered' /\ PacketsAreNumbered' /\ ReceiverIsNumbered'
  BY <1>1, <1>4 DEF IInv, SenderIsNumbered, PacketsAreNumbered, ReceiverIsNumbered, Newest
<1>. QED BY <1>5, <1>6, <1>7 DEF IInv

\* All messages of the queue are numbered and sent.
LEMMA SendQueuedInv ==
    ASSUME IInv, send_queued
    PROVE  IInv'
<1>. DEFINE q == m_outgoing_queue
            n == Len(q)
            Numbered(i) == [seq |-> Advance(m_local_sequence, i), number |-> q[i]]
<1>1. /\ n > 0 /\ m_outgoing_queue' = <<>>
      /\ m_local_sequence' = Advance(m_local_sequence, n)
      /\ packets' = Alive(packets \cup {Numbered(i) : i \in 1 .. n}, submitted)
      /\ m_last_packet' = Kept(Numbered(n))
      /\ due' = FALSE /\ queued' = (m_last_packet' # NoPacket)
      /\ UNCHANGED <<m_reliable, m_remote_sequence, m_must_send_ack, acks, submitted, delivered>>
  BY DEF send_queued, receiver
<1>2. n \in Nat /\ Sent \in 0 .. MaxMessages /\ submitted \in 0 .. MaxMessages
  BY Counts, LenProperties DEF IInv, TypeOK
<1>3. Sent' = submitted /\ submitted = Sent + n /\ Len(m_outgoing_queue') = 0
  BY <1>1, <1>2, EmptySeq DEF Sent
<1>4. ASSUME NEW i \in 1 .. n
      PROVE  /\ Numbered(i).number = Sent + i
             /\ Numbered(i).seq = (Sent + i) % MaxSequence
             /\ Numbered(i) \in [seq : 0 .. MaxSequence - 1, number : 1 .. MaxMessages]
  <2>1. q[i] = Sent + i /\ Sent + i \in 1 .. MaxMessages
    BY <1>2, <1>3, Ring DEF IInv, QueueIsNumbered
  <2>2. i \in Int /\ Sent \in Int
    BY <1>2
  <2>3. /\ Advance(m_local_sequence, i) \in 0 .. MaxSequence - 1
        /\ Advance(m_local_sequence, i) = (Sent + i) % MaxSequence
    <3>1. m_local_sequence = Sent % MaxSequence
      BY DEF IInv, SenderIsNumbered
    <3>. DEFINE s == Sent
    <3>2. s \in Int
      BY <2>2
    <3>. HIDE DEF s
    <3>3. Advance(s % MaxSequence, i) = (s + i) % MaxSequence
      BY <2>2, <3>2, AdvanceWraps
    <3>4. s + i \in Int
      BY <2>2, <3>2
    <3>5. (s + i) % MaxSequence \in 0 .. MaxSequence - 1
      BY <3>4, Ring
    <3>. QED BY <3>1, <3>3, <3>5 DEF s
  <2>. QED BY <2>1, <2>3
<1>5. Numbered(n).number = Sent' /\ Numbered(n).seq = Sent' % MaxSequence
      /\ Numbered(n) \in [seq : 0 .. MaxSequence - 1, number : 1 .. MaxMessages]
  BY <1>1, <1>2, <1>3, <1>4
<1>6. m_local_sequence' = Sent' % MaxSequence /\ m_local_sequence' \in 0 .. MaxSequence - 1
  BY <1>1, <1>5, Ring
<1>7. /\ m_last_packet' \in [seq : 0 .. MaxSequence - 1, number : 0 .. MaxMessages]
      /\ m_last_packet' # NoPacket =>
            m_last_packet'.number = Sent' /\ m_last_packet'.seq = Sent' % MaxSequence
  <2>1. CASE m_reliable
    <3>1. m_last_packet' = Numbered(n)
      BY <1>1, <2>1 DEF Kept
    <3>. HIDE DEF Numbered
    <3>. QED BY <1>5, <3>1
  <2>2. CASE ~m_reliable
    <3>1. m_last_packet' = m_last_packet
      BY <1>1, <2>2 DEF Kept
    <3>2. m_last_packet = NoPacket
      BY <2>2 DEF IInv, SenderIsNumbered
    <3>. QED BY <3>1, <3>2 DEF IInv, TypeOK
  <2>. QED BY <2>1, <2>2
<1>8. SenderIsNumbered'
  BY <1>1, <1>2, <1>3, <1>6, <1>7 DEF IInv, SenderIsNumbered, Kept
<1>9. /\ packets' \in SUBSET [seq : 0 .. MaxSequence - 1, number : 1 .. MaxMessages]
      /\ PacketsAreNumbered'
  <2>1. ASSUME NEW d \in packets'
        PROVE  /\ d \in [seq : 0 .. MaxSequence - 1, number : 1 .. MaxMessages]
               /\ d.number <= Sent' /\ Sent' <= d.number + MaxAge
               /\ d.seq = d.number % MaxSequence
    <3>1. d \in packets \/ \E i \in 1 .. n : d = Numbered(i)
      BY <1>1 DEF Alive
    <3>2. Sent' <= d.number + MaxAge
      BY <1>1, <1>3 DEF Alive
    <3>3. CASE d \in packets
      BY <1>2, <1>3, <3>2, <3>3 DEF IInv, TypeOK, PacketsAreNumbered
    <3>4. ASSUME NEW i \in 1 .. n, d = Numbered(i)
          PROVE  d \in [seq : 0 .. MaxSequence - 1, number : 1 .. MaxMessages]
                 /\ d.number <= Sent' /\ d.seq = d.number % MaxSequence
      <4>. HIDE DEF Numbered
      <4>. QED BY <1>2, <1>3, <1>4, <3>4
    <3>. QED BY <3>1, <3>2, <3>3, <3>4
  <2>. QED BY <2>1 DEF PacketsAreNumbered
<1>10. QueueIsNumbered'
  BY <1>2, <1>3 DEF QueueIsNumbered
<1>11. ReceiverIsNumbered'
  BY <1>1, <1>2, <1>3 DEF IInv, ReceiverIsNumbered, Newest
<1>12. TypeOK'
  BY <1>1, <1>6, <1>7, <1>9, EmptySeq DEF IInv, TypeOK
<1>. QED BY <1>8, <1>9, <1>10, <1>11, <1>12 DEF IInv

\* The last packet is sent again, or not: the counters stay.
LEMMA SendAgainInv ==
    ASSUME IInv, send_again
    PROVE  IInv'
<1>1. /\ \/ packets' = packets
         \/ packets' = packets \cup {m_last_packet} /\ m_last_packet # NoPacket
      /\ due' = due \/ due' = FALSE
      /\ queued' = (m_last_packet # NoPacket)
      /\ UNCHANGED <<m_outgoing_queue, m_local_sequence, m_last_packet, m_reliable, m_remote_sequence,
                     m_must_send_ack, acks, submitted, delivered>>
  BY DEF send_again, receiver
<1>2. Sent' = Sent /\ Newest' = Newest
  BY <1>1 DEF Sent, Newest
<1>3. m_last_packet # NoPacket =>
         /\ m_last_packet \in [seq : 0 .. MaxSequence - 1, number : 1 .. MaxMessages]
         /\ m_last_packet.number = Sent /\ m_last_packet.seq = Sent % MaxSequence
  <2>. DEFINE l == m_last_packet
              n == Sent
  <2>1. /\ l \in [seq : 0 .. MaxSequence - 1, number : 0 .. MaxMessages]
        /\ l # NoPacket => l.number = n /\ l.seq = n % MaxSequence /\ n > 0
    BY DEF IInv, TypeOK, SenderIsNumbered
  <2>. HIDE DEF l, n
  <2>2. l # NoPacket => l \in [seq : 0 .. MaxSequence - 1, number : 1 .. MaxMessages]
    BY <2>1
  <2>. QED BY <2>1, <2>2 DEF l, n
<1>4. /\ packets' \in SUBSET [seq : 0 .. MaxSequence - 1, number : 1 .. MaxMessages]
      /\ PacketsAreNumbered'
  <2>1. Sent \in Nat /\ MaxAge \in Nat
    BY Counts, Ring DEF IInv
  <2>2. CASE packets' = packets
    BY <1>2, <2>2 DEF IInv, TypeOK, PacketsAreNumbered
  <2>3. CASE packets' = packets \cup {m_last_packet} /\ m_last_packet # NoPacket
    BY <1>2, <1>3, <2>1, <2>3 DEF IInv, TypeOK, PacketsAreNumbered
  <2>. QED BY <1>1, <2>2, <2>3
<1>5. QueueIsNumbered' /\ SenderIsNumbered' /\ ReceiverIsNumbered'
  BY <1>1, <1>2 DEF IInv, QueueIsNumbered, SenderIsNumbered, ReceiverIsNumbered
<1>6. due' \in BOOLEAN /\ queued' \in BOOLEAN
  BY <1>1, ZenonT(20) DEF IInv, TypeOK
<1>7. TypeOK'
  BY <1>1, <1>4, <1>6 DEF IInv, TypeOK
<1>. QED BY <1>4, <1>5, <1>7 DEF IInv

\* Nothing that the invariant speaks of changes, but that packets and acks may
\* be fewer, that there may be another ack, and that the last packet may be
\* forgotten.
LEMMA FrameInv ==
    ASSUME IInv,
           UNCHANGED <<m_outgoing_queue, m_local_sequence, m_reliable, m_remote_sequence,
                       submitted, delivered>>,
           m_last_packet' \in {m_last_packet, NoPacket},
           {due', queued', m_must_send_ack'} \subseteq BOOLEAN,
           packets' \subseteq packets,
           acks' \in SUBSET [channel : {AckChannel}, seq : 0 .. MaxSequence - 1]
    PROVE  IInv'
<1>1. Sent' = Sent /\ Newest' = Newest
  BY DEF Sent, Newest
<1>2. QueueIsNumbered' /\ PacketsAreNumbered' /\ ReceiverIsNumbered'
  BY <1>1 DEF IInv, QueueIsNumbered, PacketsAreNumbered, ReceiverIsNumbered
<1>3. SenderIsNumbered'
  BY <1>1 DEF IInv, SenderIsNumbered, NoPacket
<1>4. m_last_packet' \in [seq : 0 .. MaxSequence - 1, number : 0 .. MaxMessages]
  <2>1. NoPacket \in [seq : 0 .. MaxSequence - 1, number : 0 .. MaxMessages]
    BY Ring DEF NoPacket
  <2>. QED BY <2>1 DEF IInv, TypeOK
<1>5. {m_reliable', due', queued', m_must_send_ack'} \subseteq BOOLEAN
  BY ZenonT(20) DEF IInv, TypeOK
<1>6. TypeOK'
  BY <1>4, <1>5 DEF IInv, TypeOK
<1>. QED BY <1>2, <1>3, <1>6 DEF IInv

\* A packet that relative_sequence_number takes for a new one is newer than
\* everything delivered: it is not older than half of the ring.
LEMMA NewIsNewer ==
    ASSUME IInv, NEW d \in packets, IsNewer(d)
    PROVE  Newest < d.number /\ \A j \in DOMAIN delivered : delivered[j] < d.number
<1>. DEFINE a == d.number
            b == Newest
            s == Sent
<1>1. /\ a \in Nat /\ b \in Nat /\ s \in Nat
      /\ b <= s /\ s <= a + MaxAge
      /\ d.seq = a % MaxSequence /\ m_remote_sequence = b % MaxSequence
  <2>1. d \in [seq : 0 .. MaxSequence - 1, number : 1 .. MaxMessages]
    BY DEF IInv, TypeOK
  <2>2. a \in Nat
    BY <2>1, Ring
  <2>3. s \in 0 .. MaxMessages /\ b \in 0 .. MaxMessages /\ b \in 0 .. s
    BY Counts DEF IInv, ReceiverIsNumbered
  <2>4. s <= a + MaxAge /\ d.seq = a % MaxSequence /\ m_remote_sequence = b % MaxSequence
    BY DEF IInv, PacketsAreNumbered, ReceiverIsNumbered
  <2>. HIDE DEF a, b, s
  <2>. QED BY <2>2, <2>3, <2>4, Ring
<1>2. relative_sequence_number(a % MaxSequence, b % MaxSequence) > 0
  BY <1>1 DEF IsNewer
<1>3. \A j \in DOMAIN delivered : delivered[j] \in Nat /\ delivered[j] <= b
  <2>1. delivered \in Seq(1 .. MaxMessages)
    BY DEF IInv, TypeOK
  <2>2. \A j \in DOMAIN delivered : delivered[j] \in 1 .. MaxMessages
    BY <2>1, LenProperties, ElementOfSeq
  <2>. QED BY <2>2, Ring DEF IInv, ReceiverIsNumbered
<1>. HIDE DEF a, b, s
<1>4. b < a
  <2>1. SUFFICES ASSUME a <= b PROVE FALSE
    BY <1>1
  <2>2. a - b < HALF_MAX_SEQUENCE /\ b - a <= HALF_MAX_SEQUENCE
    BY <1>1, <2>1, Ring
  <2>3. relative_sequence_number(a % MaxSequence, b % MaxSequence) = a - b
    BY <1>1, <2>2, RelativeIsDifference
  <2>. QED BY <1>1, <1>2, <2>1, <2>3
<1>5. \A j \in DOMAIN delivered : delivered[j] < a
  BY <1>1, <1>3, <1>4
<1>. QED BY <1>4, <1>5 DEF a, b

\* A packet is delivered if it is newer.
LEMMA ReceiveInv ==
    ASSUME IInv, NEW d \in packets, receive_packet(d)
    PROVE  IInv'
<1>1. /\ m_must_send_ack' = m_reliable
      /\ packets' \subseteq packets
      /\ UNCHANGED <<m_reliable, m_outgoing_queue, m_local_sequence, m_last_packet, due, queued, acks,
                     submitted>>
  BY DEF receive_packet, sender
<1>2. {due', queued', m_must_send_ack'} \subseteq BOOLEAN
  BY <1>1, ZenonT(20) DEF IInv, TypeOK
<1>3. CASE ~IsNewer(d)
  <2>1. UNCHANGED <<m_remote_sequence, delivered>>
    BY <1>3 DEF receive_packet
  <2>. QED BY <1>1, <1>2, <2>1, FrameInv DEF IInv, TypeOK
<1>4. CASE IsNewer(d)
  <2>1. m_remote_sequence' = d.seq /\ delivered' = Append(delivered, d.number)
    BY <1>4 DEF receive_packet
  <2>2. /\ d \in [seq : 0 .. MaxSequence - 1, number : 1 .. MaxMessages]
        /\ d.number <= Sent /\ d.seq = d.number % MaxSequence
        /\ delivered \in Seq(1 .. MaxMessages)
    BY DEF IInv, TypeOK, PacketsAreNumbered
  <2>3. /\ delivered' \in Seq(1 .. MaxMessages) /\ Len(delivered) \in Nat
        /\ Len(delivered') = Len(delivered) + 1
        /\ \A i \in 1 .. Len(delivered) : delivered'[i] = delivered[i]
        /\ delivered'[Len(delivered) + 1] = d.number
        /\ DOMAIN delivered = 1 .. Len(delivered) /\ DOMAIN delivered' = 1 .. Len(delivered')
    BY <2>1, <2>2, AppendProperties, LenProperties
  <2>4. Newest' = d.number
    <3>1. delivered' # <<>>
      BY <2>3, EmptySeq
    <3>. QED BY <2>3, <3>1 DEF Newest
  <2>5. Sent' = Sent
    BY <1>1 DEF Sent
  <2>6. ReceiverIsNumbered'
    <3>1. \A j \in DOMAIN delivered : delivered[j] < d.number
      BY <1>4, NewIsNewer
    <3>2. \A j \in DOMAIN delivered' : delivered'[j] <= d.number
      <4>1. d.number \in Nat
        BY <2>2, Ring
      <4>2. ASSUME NEW j \in 1 .. Len(delivered) PROVE delivered'[j] <= d.number
        <5>1. delivered[j] \in 1 .. MaxMessages /\ delivered[j] < d.number
          BY <2>2, <2>3, <3>1, ElementOfSeq
        <5>2. delivered[j] \in Nat
          BY <5>1, SequencedAssumption
        <5>3. delivered'[j] = delivered[j]
          BY <2>3
        <5>. QED BY <4>1, <5>1, <5>2, <5>3
      <4>. QED BY <2>3, <4>1, <4>2
    <3>3. d.number \in 0 .. Sent
      BY <2>2, Ring, Counts DEF IInv
    <3>. QED BY <2>1, <2>2, <2>4, <2>5, <3>2, <3>3 DEF ReceiverIsNumbered
  <2>7. QueueIsNumbered' /\ SenderIsNumbered' /\ PacketsAreNumbered'
    BY <1>1, <2>5 DEF IInv, QueueIsNumbered, SenderIsNumbered, PacketsAreNumbered
  <2>8. {m_reliable', due', queued', m_must_send_ack'} \subseteq BOOLEAN
    BY <1>1, ZenonT(20) DEF IInv, TypeOK
  <2>9. TypeOK'
    BY <1>1, <2>1, <2>2, <2>3, <2>8 DEF IInv, TypeOK
  <2>. QED BY <2>6, <2>7, <2>9 DEF IInv
<1>. QED BY <1>3, <1>4

\* Every step keeps the invariant.
LEMMA StepKeepsInv == IInv /\ [Next]_vars => IInv'
<1>. SUFFICES ASSUME IInv, [Next]_vars PROVE IInv'
  OBVIOUS
<1>1. /\ {m_reliable, due, queued, m_must_send_ack} \subseteq BOOLEAN
      /\ acks \in SUBSET [channel : {AckChannel}, seq : 0 .. MaxSequence - 1]
      /\ m_remote_sequence \in 0 .. MaxSequence - 1
  BY DEF IInv, TypeOK
<1>2. CASE resend_delay_elapsed
  BY <1>1, <1>2, FrameInv DEF resend_delay_elapsed, receiver
<1>3. ASSUME NEW a \in acks, receive_ack(a) PROVE IInv'
  BY <1>1, <1>3, FrameInv DEF receive_ack, receiver
<1>4. CASE send_ack
  <2>1. [channel |-> AckChannel, seq |-> m_remote_sequence]
           \in [channel : {AckChannel}, seq : 0 .. MaxSequence - 1]
    BY <1>1
  <2>2. acks' \in SUBSET [channel : {AckChannel}, seq : 0 .. MaxSequence - 1]
    BY <1>1, <1>4, <2>1 DEF send_ack
  <2>. QED BY <1>1, <1>4, <2>2, FrameInv DEF send_ack, sender
<1>5. CASE lose
  BY <1>1, <1>5, FrameInv DEF lose, sender, receiver
<1>6. CASE UNCHANGED vars
  BY <1>1, <1>6, FrameInv DEF vars, sender, receiver
<1>. QED BY <1>2, <1>3, <1>4, <1>5, <1>6, AddInv, SendQueuedInv, SendAgainInv, ReceiveInv DEF Next

\* The variables of both ends keep their types: sequence numbers are below
\* MaxSequence, and only messages that were sent are delivered.
THEOREM TypeCorrect == Spec => []TypeOK
<1>1. IInv => TypeOK
  BY DEF IInv
<1>. QED BY InitInv, StepKeepsInv, <1>1, PTL DEF Spec

\* An action property: what process_packet hands over is newer than everything
\* it handed over before, for every MaxSequence and number of messages, as long
\* as no datagram is older than half of the ring.
THEOREM InSequence == Spec => DeliversInSequence
<1>1. IInv /\ [Next]_vars =>
        [\A i \in DOMAIN delivered' \ DOMAIN delivered :
            \A j \in DOMAIN delivered : delivered[j] < delivered'[i]]_vars
  <2>. SUFFICES ASSUME IInv, [Next]_vars,
                       NEW i \in DOMAIN delivered' \ DOMAIN delivered, NEW j \in DOMAIN delivered
                PROVE  delivered[j] < delivered'[i]
    OBVIOUS
  <2>1. CASE delivered' = delivered
    BY <2>1
  <2>2. ASSUME NEW d \in packets, receive_packet(d), delivered' # delivered
        PROVE  delivered[j] < delivered'[i]
    <3>1. IsNewer(d) /\ delivered' = Append(delivered, d.number)
      BY <2>2 DEF receive_packet
    <3>2. delivered \in Seq(1 .. MaxMessages) /\ d.number \in 1 .. MaxMessages
      BY DEF IInv, TypeOK
    <3>3. delivered'[i] = d.number
      BY <3>1, <3>2, AppendProperties, LenProperties
    <3>. QED BY <3>1, <3>3, NewIsNewer
  <2>3. [Next]_vars => delivered' = delivered \/ \E d \in packets : receive_packet(d)
    BY DEF Next, vars, add_to_queue, send_queued, send_again, resend_delay_elapsed, receive_ack,
           send_ack, lose
  <2>. QED BY <2>1, <2>2, <2>3
<1>. QED BY InitInv, StepKeepsInv, <1>1, PTL DEF Spec, DeliversInSequence

\* What the application sees: message after message, each newer than the one
\* before, and none that was not sent.
ComesInSequence ==
    /\ \A i, j \in DOMAIN delivered : i < j => delivered[i] < delivered[j]
    /\ \A i \in DOMAIN delivered : delivered[i] \in 1 .. Sent

\* A packet that process_packet takes goes behind older ones only.
LEMMA ReceiveKeepsSequence ==
    ASSUME IInv, IInv', ComesInSequence, NEW d \in packets, receive_packet(d)
    PROVE  \A i, j \in DOMAIN delivered' : i < j => delivered'[i] < delivered'[j]
<1>1. CASE ~IsNewer(d)
  BY <1>1 DEF receive_packet, ComesInSequence
<1>2. CASE IsNewer(d)
  <2>. DEFINE n == Len(delivered)
  <2>1. delivered' = Append(delivered, d.number)
    BY <1>2 DEF receive_packet
  <2>2. delivered \in Seq(1 .. MaxMessages) /\ d.number \in 1 .. MaxMessages
    BY DEF IInv, TypeOK
  <2>3. /\ n \in Nat /\ DOMAIN delivered = 1 .. n /\ DOMAIN delivered' = 1 .. n + 1
        /\ \A i \in 1 .. n : delivered'[i] = delivered[i]
        /\ delivered'[n + 1] = d.number
    BY <2>1, <2>2, AppendProperties, LenProperties
  <2>4. \A i \in 1 .. n : delivered[i] < d.number
    BY <1>2, <2>3, NewIsNewer
  <2>. HIDE DEF n
  <2>5. ASSUME NEW i \in 1 .. n + 1, NEW j \in 1 .. n + 1, i < j PROVE delivered'[i] < delivered'[j]
    <3>1. i \in 1 .. n
      BY <2>3, <2>5
    <3>2. CASE j \in 1 .. n
      BY <2>3, <2>5, <3>1, <3>2 DEF ComesInSequence
    <3>3. CASE j = n + 1
      BY <2>3, <2>4, <3>1, <3>3
    <3>. QED BY <2>3, <3>2, <3>3
  <2>. QED BY <2>3, <2>5
<1>. QED BY <1>1, <1>2

\* What comes out of the channel is strictly ascending: nothing twice, nothing late,
\* nothing that was not sent, for every MaxSequence and number of messages.
THEOREM SequenceIsKept == Spec => []ComesInSequence
<1>1. Init => ComesInSequence
  BY DEF Init, ComesInSequence
<1>2. IInv /\ IInv' /\ ComesInSequence /\ [Next]_vars => ComesInSequence'
  <2>. SUFFICES ASSUME IInv, IInv', ComesInSequence, [Next]_vars PROVE ComesInSequence'
    OBVIOUS
  <2>1. \A i, j \in DOMAIN delivered' : i < j => delivered'[i] < delivered'[j]
    <3>1. delivered' = delivered \/ \E d \in packets : receive_packet(d)
      BY DEF Next, vars, add_to_queue, send_queued, send_again, resend_delay_elapsed, receive_ack,
             send_ack, lose
    <3>2. CASE delivered' = delivered
      BY <3>2 DEF ComesInSequence
    <3>. QED BY <3>1, <3>2, ReceiveKeepsSequence
  <2>2. \A i \in DOMAIN delivered' : delivered'[i] \in 1 .. Sent'
    <3>1. delivered' \in Seq(1 .. MaxMessages) /\ Newest' \in 0 .. Sent'
          /\ \A j \in DOMAIN delivered' : delivered'[j] <= Newest'
      BY DEF IInv, TypeOK, ReceiverIsNumbered
    <3>2. Sent' \in Int
      <4>1. Len(m_outgoing_queue') \in Int /\ submitted' \in Int
        BY LenProperties DEF IInv, TypeOK
      <4>. QED BY <4>1 DEF Sent
    <3>3. \A i \in DOMAIN delivered' : delivered'[i] \in 1 .. MaxMessages
      BY <3>1, ElementOfSeq, LenProperties
    <3>4. MaxMessages \in Nat
      BY Ring
    <3>. HIDE DEF Sent
    <3>. QED BY <3>1, <3>2, <3>3, <3>4
  <2>. QED BY <2>1, <2>2 DEF ComesInSequence
<1>. QED BY <1>1, <1>2, InitInv, StepKeepsInv, PTL DEF Spec

\* What the sender of a reliable channel needs to go on: the packet of the
\* latest message that was given a sequence number.
LastIsKept ==
    m_reliable /\ Sent > 0 =>
        m_last_packet = [seq |-> Sent % MaxSequence, number |-> Sent]

\* The safety half of LastIsDelivered: m_last_packet is always the latest
\* packet.  No ack takes it away, since an ack packet has the channel id 0.
THEOREM TheLastIsKept == Spec => []LastIsKept
<1>1. Init => LastIsKept
  BY DEF Init, LastIsKept, Sent
<1>2. IInv /\ IInv' /\ LastIsKept /\ [Next]_vars => LastIsKept'
  <2>. SUFFICES ASSUME IInv, IInv', LastIsKept, [Next]_vars, m_reliable', Sent' > 0
                PROVE  m_last_packet' = [seq |-> Sent' % MaxSequence, number |-> Sent']
    BY DEF LastIsKept
  <2>1. m_reliable' = m_reliable
    BY DEF Next, vars, receiver, add_to_queue, send_queued, send_again, resend_delay_elapsed, receive_ack,
           receive_packet, send_ack, lose
  <2>2. CASE send_queued
    <3>1. m_last_packet' # NoPacket
      <4>1. m_last_packet' = [seq |-> Advance(m_local_sequence, Len(m_outgoing_queue)),
                              number |-> m_outgoing_queue[Len(m_outgoing_queue)]]
        BY <2>1, <2>2 DEF send_queued, Kept
      <4>2. m_outgoing_queue[Len(m_outgoing_queue)] \in 1 .. MaxMessages
        <5>1. m_outgoing_queue \in Seq(1 .. MaxMessages) /\ Len(m_outgoing_queue) > 0
          BY <2>2 DEF send_queued, IInv, TypeOK
        <5>2. Len(m_outgoing_queue) \in 1 .. Len(m_outgoing_queue)
          BY <5>1, LenProperties
        <5>. QED BY <5>1, <5>2, ElementOfSeq
      <4>. QED BY <4>1, <4>2 DEF NoPacket
    <3>2. /\ m_last_packet' \in [seq : 0 .. MaxSequence - 1, number : 0 .. MaxMessages]
          /\ m_last_packet'.number = Sent' /\ m_last_packet'.seq = Sent' % MaxSequence
      BY <3>1 DEF IInv, TypeOK, SenderIsNumbered
    <3>. QED BY <3>2
  <2>3. CASE ~send_queued
    <3>1. m_last_packet' = m_last_packet
      <4>1. ASSUME NEW a \in acks, receive_ack(a) PROVE m_last_packet' = m_last_packet
        <5>1. a.channel # m_id
          BY DEF IInv, TypeOK, AckChannel, m_id
        <5>. QED BY <4>1, <5>1 DEF receive_ack
      <4>. QED BY <2>3, <4>1 DEF Next, vars, sender, add_to_queue, send_again, resend_delay_elapsed,
                                receive_packet, send_ack, lose
    <3>2. Sent' = Sent
      <4>1. CASE UNCHANGED <<m_outgoing_queue, submitted>>
        BY <4>1 DEF Sent
      <4>2. CASE add_to_queue
        <5>1. /\ m_outgoing_queue \in Seq(1 .. MaxMessages) /\ submitted \in Nat
              /\ submitted' = submitted + 1 /\ submitted' \in 1 .. MaxMessages
              /\ m_outgoing_queue' = Append(m_outgoing_queue, submitted')
          BY <4>2, Ring DEF IInv, TypeOK, add_to_queue
        <5>2. Len(m_outgoing_queue) \in Nat /\ Len(m_outgoing_queue') = Len(m_outgoing_queue) + 1
          BY <5>1, AppendProperties, LenProperties
        <5>. QED BY <5>1, <5>2 DEF Sent
      <4>3. CASE ~add_to_queue
        <5>1. UNCHANGED <<m_outgoing_queue, submitted>>
          BY <2>3, <4>3 DEF Next, vars, sender, send_again, resend_delay_elapsed, receive_ack,
                            receive_packet, send_ack, lose
        <5>. QED BY <4>1, <5>1
      <4>. QED BY <4>2, <4>3
    <3>. QED BY <2>1, <3>1, <3>2 DEF LastIsKept
  <2>. QED BY <2>2, <2>3
<1>. QED BY <1>1, <1>2, InitInv, StepKeepsInv, PTL DEF Spec
=============================================================================
