------------------------ MODULE ReliableChannelProofs ------------------------
(***************************************************************************)
(* Proofs about ReliableChannel, for every window size, every number of    *)
(* sequence numbers and of messages, ordered or not: first the types; then *)
(* that the channel loses, repeats and invents nothing: the windows of the *)
(* two ends keep their order, acks tell the truth, what is confirmed is    *)
(* delivered, and the channel implements ReliableDelivery.                 *)
(***************************************************************************)
EXTENDS ReliableChannel, SequenceTheorems, FiniteSetTheorems, WellFoundedInduction, TLAPS

(* Remainders and relative_sequence_number: two counters that are less than  *)
(* half a revolution apart are compared correctly although both have wrapped. *)

\* Quotient and remainder of a division by n.
LEMMA DivMod ==
    ASSUME NEW n \in Nat \ {0}, NEW a \in Int
    PROVE  /\ a \div n \in Int
           /\ a % n \in 0 .. n - 1
           /\ a = n * (a \div n) + (a % n)
OBVIOUS

\* Multiplication distributes over sums and differences.
LEMMA Distribute ==
    ASSUME NEW n \in Int, NEW j \in Int, NEW k \in Int
    PROVE  n * (j + k) = n * j + n * k /\ n * (j - k) = n * j - n * k
OBVIOUS

\* The only multiple of n between -n and n is 0.
LEMMA SmallMultiple ==
    ASSUME NEW n \in Nat \ {0}, NEW k \in Int, n * k < n, 0 - n < n * k
    PROVE  k = 0
<1>1. CASE k >= 1
  <2>1. n * (k - 1) >= 0
    BY <1>1
  <2>. QED BY <2>1
<1>2. CASE k <= 0 - 1
  <2>1. n * ((0 - 1) - k) >= 0
    BY <1>2
  <2>. QED BY <2>1
<1>. QED BY <1>1, <1>2

\* Quotient and remainder are unique.
LEMMA DivModUnique ==
    ASSUME NEW n \in Nat \ {0}, NEW q \in Int, NEW r \in 0 .. n - 1
    PROVE  (n * q + r) % n = r
<1>. DEFINE a == n * q + r
<1>1. n * q \in Int /\ a \in Int
  OBVIOUS
<1>2. a % n \in 0 .. n - 1 /\ a = n * (a \div n) + (a % n) /\ a \div n \in Int
  BY <1>1, DivMod
<1>. HIDE DEF a
<1>3. n * (q - (a \div n)) = (a % n) - r
  BY <1>1, <1>2 DEF a
<1>4. q - (a \div n) = 0
  <2>1. n * (q - (a \div n)) < n /\ 0 - n < n * (q - (a \div n))
    BY <1>2, <1>3
  <2>. QED BY <2>1, <1>2, SmallMultiple
<1>5. n * (q - (a \div n)) = 0
  BY <1>4
<1>. QED BY <1>5, <1>3, <1>2 DEF a

\* A number below n is its own remainder.
LEMMA SmallMod ==
    ASSUME NEW n \in Nat \ {0}, NEW a \in 0 .. n - 1
    PROVE  a % n = a
OBVIOUS

\* Numbers less than n apart with the same remainder are equal.
LEMMA ModInjective ==
    ASSUME NEW n \in Nat \ {0}, NEW a \in Int, NEW b \in Int,
           a - b < n, b - a < n, a % n = b % n
    PROVE  a = b
<1>. DEFINE qa == a \div n
            qb == b \div n
            r  == a % n
<1>1. qa \in Int /\ qb \in Int /\ r \in Int /\ a = n * qa + r /\ b = n * qb + r
  BY DivMod
<1>. HIDE DEF qa, qb, r
<1>2. n * (qb - qa) = n * qb - n * qa /\ n * qa \in Int /\ n * qb \in Int
  BY <1>1, Distribute
<1>3. n * (qb - qa) = b - a
  BY <1>1, <1>2
<1>4. qb - qa = 0
  BY <1>3, <1>1, SmallMultiple
<1>. QED BY <1>4, <1>1

\* The remainder of a sum is that of the sum of a remainder.
LEMMA AddMod ==
    ASSUME NEW n \in Nat \ {0}, NEW a \in Int, NEW b \in Int
    PROVE  ((a % n) + b) % n = (a + b) % n
<1>. DEFINE c  == (a % n) + b
            qa == a \div n
            qc == c \div n
            ra == a % n
            rc == c % n
<1>1. a = n * qa + ra /\ qa \in Int /\ ra \in Int
  BY DivMod
<1>2. c \in Int /\ c = ra + b
  BY <1>1
<1>. HIDE DEF c
<1>3. c = n * qc + rc /\ qc \in Int /\ rc \in 0 .. n - 1
  BY <1>2, DivMod
<1>. HIDE DEF qa, qc, ra, rc
<1>4. n * (qa + qc) = n * qa + n * qc /\ n * qa \in Int /\ n * qc \in Int
  BY <1>1, <1>3, Distribute
<1>5. a + b = n * (qa + qc) + rc
  BY <1>1, <1>2, <1>3, <1>4
<1>6. (n * (qa + qc) + rc) % n = rc
  BY <1>1, <1>3, DivModUnique
<1>. QED BY <1>5, <1>6 DEF rc, c

\* Taking remainders twice, by a multiple of n and by n.
LEMMA ModMod ==
    ASSUME NEW n \in Nat \ {0}, NEW m \in Nat \ {0}, m % n = 0, NEW a \in Int
    PROVE  (a % m) % n = a % n
<1>. DEFINE q  == a \div m
            r  == a % m
            k  == m \div n
            q2 == r \div n
            r2 == r % n
<1>1. q \in Int /\ r \in Int /\ a = m * q + r
  BY DivMod
<1>. HIDE DEF r
<1>2. k \in Int /\ m = n * k
  BY DivMod
<1>3. q2 \in Int /\ r2 \in 0 .. n - 1 /\ r = n * q2 + r2
  BY <1>1, DivMod
<1>. HIDE DEF q, k, q2, r2
<1>4. m * q = n * (k * q) /\ k * q \in Int
  BY <1>1, <1>2
<1>5. n * (k * q + q2) = n * (k * q) + n * q2 /\ n * (k * q) \in Int /\ n * q2 \in Int
  BY <1>3, <1>4, Distribute
<1>6. a = n * (k * q + q2) + r2
  BY <1>1, <1>3, <1>4, <1>5
<1>7. (n * (k * q + q2) + r2) % n = r2
  BY <1>3, <1>4, DivModUnique
<1>. QED BY <1>6, <1>7 DEF r2, r

\* Adding a multiple of n does not change the remainder by n.
LEMMA ModPlusMultiple ==
    ASSUME NEW n \in Nat \ {0}, NEW a \in Int, NEW k \in Int
    PROVE  (a + n * k) % n = a % n
<1>. DEFINE q == a \div n
            r == a % n
<1>1. q \in Int /\ r \in 0 .. n - 1 /\ a = n * q + r
  BY DivMod
<1>. HIDE DEF q, r
<1>2. n * (q + k) = n * q + n * k /\ n * q \in Int /\ n * k \in Int
  BY <1>1, Distribute
<1>3. a + n * k = n * (q + k) + r
  BY <1>1, <1>2
<1>4. (n * (q + k) + r) % n = r
  BY <1>1, DivModUnique
<1>. QED BY <1>3, <1>4 DEF r

\* A sequence number moved on is a sequence number, and moving on a wrapped
\* counter is wrapping the counter moved on.
LEMMA AdvanceWraps ==
    ASSUME NEW a \in Int, NEW n \in Int
    PROVE  /\ Advance(a, n) \in 0 .. MaxSequence - 1
           /\ Advance(a % MaxSequence, n) = (a + n) % MaxSequence
<1>1. MaxSequence \in Nat \ {0}
  BY MaxSequenceAssumption
<1>2. ((a % MaxSequence) + n) % MaxSequence = (a + n) % MaxSequence
  BY <1>1, AddMod
<1>. DEFINE c == a + n
<1>3. c \in Int
  OBVIOUS
<1>. HIDE DEF c
<1>4. c % MaxSequence \in 0 .. MaxSequence - 1
  BY <1>1, <1>3, DivMod
<1>. QED BY <1>2, <1>4 DEF Advance, c

\* Half of MaxSequence is exactly half.
LEMMA HalfMax ==
    /\ HALF_MAX_SEQUENCE \in Nat \ {0}
    /\ MaxSequence = 2 * HALF_MAX_SEQUENCE
<1>1. MaxSequence = 2 * (MaxSequence \div 2) + (MaxSequence % 2) /\ MaxSequence \div 2 \in Int
  BY DivMod, MaxSequenceAssumption
<1>. QED BY <1>1, MaxSequenceAssumption DEF HALF_MAX_SEQUENCE

\* relative_sequence_number gives an integer for any two sequence numbers.
LEMMA RelativeType ==
    ASSUME NEW a \in 0 .. MaxSequence - 1, NEW b \in 0 .. MaxSequence - 1
    PROVE  relative_sequence_number(a, b) \in -HALF_MAX_SEQUENCE .. HALF_MAX_SEQUENCE - 1
<1>. DEFINE x == a - b + MaxSequence + HALF_MAX_SEQUENCE
<1>1. MaxSequence \in Nat \ {0} /\ x \in Nat
  BY HalfMax
<1>2. relative_sequence_number(a, b) = (x % MaxSequence) - HALF_MAX_SEQUENCE
  BY <1>1 DEF relative_sequence_number, Remainder
<1>. HIDE DEF x
<1>3. x % MaxSequence \in 0 .. MaxSequence - 1
  BY <1>1, DivMod
<1>. QED BY <1>2, <1>3, HalfMax

\* Two numbers of the ring below twice MaxSequence, as the 16-bit sequence of
\* the pings is (net_peer.cpp:191 and 569): when the pings have wrapped, the
\* peer that answered the last one before takes the next MaxSequence of them
\* for old ones, and does not answer them.
THEOREM PingsLookOld ==
    ASSUME NEW ping \in 0 .. MaxSequence - 1
    PROVE  relative_sequence_number(ping, 2 * MaxSequence - 1) <= 0
<1>. DEFINE x == ping - (2 * MaxSequence - 1) + MaxSequence + HALF_MAX_SEQUENCE
<1>1. MaxSequence \in Nat \ {0} /\ HALF_MAX_SEQUENCE \in Nat /\ MaxSequence = 2 * HALF_MAX_SEQUENCE
  BY HalfMax
<1>2. x \in Int /\ x <= HALF_MAX_SEQUENCE /\ 0 - MaxSequence < x
  BY <1>1
<1>3. relative_sequence_number(ping, 2 * MaxSequence - 1) = Remainder(x, MaxSequence) - HALF_MAX_SEQUENCE
  BY DEF relative_sequence_number
<1>. HIDE DEF x
<1>4. Remainder(x, MaxSequence) = x
  <2>1. CASE x >= 0
    <3>0. x \in 0 .. MaxSequence - 1
      BY <1>1, <1>2, <2>1
    <3>1. x % MaxSequence = x
      BY <1>1, <3>0, SmallMod
    <3>. QED BY <3>1, <2>1 DEF Remainder
  <2>2. CASE x < 0
    <3>. DEFINE y == 0 - x
    <3>1. y \in 0 .. MaxSequence - 1 /\ -x = y
      BY <1>1, <1>2, <2>2
    <3>. HIDE DEF y
    <3>2. y % MaxSequence = y
      BY <1>1, <3>1, SmallMod
    <3>3. Remainder(x, MaxSequence) = -y
      BY <1>2, <2>2, <3>1, <3>2 DEF Remainder
    <3>. QED BY <3>3, <1>2 DEF y
  <2>. QED BY <2>1, <2>2, <1>2
<1>. QED BY <1>1, <1>2, <1>3, <1>4

\* Two counters at most half a revolution apart: the wrapped values tell by
\* how much one is ahead of the other.
THEOREM RelativeIsDifference ==
    ASSUME NEW a \in Int, NEW b \in Int,
           a - b < HALF_MAX_SEQUENCE, b - a <= HALF_MAX_SEQUENCE
    PROVE  relative_sequence_number(a % MaxSequence, b % MaxSequence) = a - b
<1>. DEFINE M == MaxSequence
            H == HALF_MAX_SEQUENCE
            q == b \div M
            r == b % M
            x == (a % M) - r + M + H
<1>1. M \in Nat \ {0} /\ H \in Nat \ {0} /\ M = 2 * H
  BY HalfMax, MaxSequenceAssumption
<1>2. q \in Int /\ r \in 0 .. M - 1 /\ b = M * q + r /\ a % M \in 0 .. M - 1
  BY <1>1, DivMod
<1>3. x \in Nat /\ a - b < H /\ b - a <= H
  BY <1>1, <1>2
<1>4. relative_sequence_number(a % M, b % M) = (x % M) - H
  BY <1>3 DEF relative_sequence_number, Remainder
<1>. HIDE DEF M, H, q, r
<1>5. x % M = (a + (M + H - r)) % M
  <2>. DEFINE c == M + H - r
  <2>1. c \in Int /\ x = (a % M) + c
    BY <1>1, <1>2
  <2>. HIDE DEF c
  <2>2. ((a % M) + c) % M = (a + c) % M
    BY <1>1, <2>1, AddMod
  <2>. QED BY <2>1, <2>2 DEF c
<1>6. a + (M + H - r) = (a - b + H) + M * (q + 1)
  <2>1. M * (q + 1) = M * q + M /\ M * q \in Int
    BY <1>1, <1>2, Distribute
  <2>. QED BY <2>1, <1>1, <1>2
<1>7. ((a - b + H) + M * (q + 1)) % M = (a - b + H) % M
  <2>. DEFINE c == a - b + H
              k == q + 1
  <2>1. c \in Int /\ k \in Int
    BY <1>1, <1>2
  <2>. HIDE DEF c, k
  <2>2. (c + M * k) % M = c % M
    BY <1>1, <2>1, ModPlusMultiple
  <2>. QED BY <2>2 DEF c, k
<1>8. (a - b + H) % M = a - b + H
  BY <1>1, <1>3, SmallMod
<1>9. x % M = a - b + H
  BY <1>5, <1>6, <1>7, <1>8
<1>. QED BY <1>1, <1>4, <1>9 DEF M

\* A sequence number is as far ahead as relative_sequence_number says.
LEMMA AdvanceByRelative ==
    ASSUME NEW a \in 0 .. MaxSequence - 1, NEW b \in 0 .. MaxSequence - 1
    PROVE  Advance(b, relative_sequence_number(a, b)) = a
<1>. DEFINE M == MaxSequence
            H == HALF_MAX_SEQUENCE
            x == a - b + M + H
            q == x \div M
            r == x % M
<1>1. M \in Nat \ {0} /\ H \in Nat \ {0} /\ x \in Nat
  BY HalfMax
<1>2. relative_sequence_number(a, b) = r - H
  BY <1>1 DEF relative_sequence_number, Remainder
<1>. HIDE DEF r, q
<1>3. q \in Int /\ r \in Int /\ x = M * q + r
  BY <1>1, DivMod DEF q, r
<1>4. M * (1 - q) = M - M * q /\ M * q \in Int
  BY <1>1, <1>3, Distribute
<1>5. b + (r - H) = a + M * (1 - q)
  BY <1>1, <1>3, <1>4
<1>6. (a + M * (1 - q)) % M = a % M
  <2>. DEFINE k == 1 - q
  <2>1. k \in Int /\ a \in Int
    BY <1>3
  <2>. HIDE DEF k, M
  <2>2. (a + M * k) % M = a % M
    BY <1>1, <2>1, ModPlusMultiple
  <2>. QED BY <2>2 DEF k
<1>7. a % M = a
  BY <1>1, SmallMod
<1>. HIDE DEF H, M
<1>8. (b + (r - H)) % M = a
  BY <1>5, <1>6, <1>7
<1>. QED BY <1>2, <1>8 DEF Advance, M
-----------------------------------------------------------------------------
(* The operators the model is built from. *)

\* There is another end.
LEMMA OtherType ==
    ASSUME NEW p \in Peer
    PROVE  Other(p) \in Peer /\ Other(p) # p
<1>1. \E q \in Peer : q # p
  <2>. SUFFICES ASSUME \A q \in Peer : q = p PROVE FALSE
    OBVIOUS
  <2>1. Peer = {p}
    OBVIOUS
  <2>2. Cardinality({p}) = 1
    BY FS_Singleton
  <2>. QED BY <2>1, <2>2, ChannelAssumption
<1>. QED BY <1>1 DEF Other

\* Every sequence number has a slot.
LEMMA SlotType ==
    ASSUME NEW n \in Int
    PROVE  SlotOf(n) \in Slot
BY DivMod, ChannelAssumption DEF SlotOf, Slot

\* A set of natural numbers has a smallest element.
LEMMA Smallest ==
    ASSUME NEW T \in SUBSET Nat, T # {}
    PROVE  \E n \in T : \A m \in T : n <= m
<1>. DEFINE Less == {s \in Nat \X Nat : s[1] < s[2]}
<1>1. Less = OpToRel(<, Nat)
  BY Zenon DEF OpToRel
<1>2. IsWellFoundedOn(Less, Nat)
  BY NatLessThanWellFounded, <1>1
<1>3. \A i, j \in Nat : i < j => <<i, j>> \in Less
  OBVIOUS
<1>. HIDE DEF Less
<1>4. PICK n \in T : \A m \in T : <<m, n>> \notin Less
  BY <1>2, WFMin
<1>5. ASSUME NEW m \in T PROVE n <= m
  <2>1. n \in Nat /\ m \in Nat
    OBVIOUS
  <2>2. ~(m < n)
    BY <1>3, <1>4, <2>1
  <2>. QED BY <2>1, <2>2
<1>. QED BY <1>4, <1>5

\* The run of consecutive numbers that a set of offsets starts with.
LEMMA RunLengthType ==
    ASSUME NEW S, \E n \in 0 .. WindowSize : n \notin S
    PROVE  /\ RunLength(S) \in 0 .. WindowSize
           /\ RunLength(S) \notin S
           /\ \A j \in 0 .. RunLength(S) - 1 : j \in S
<1>. DEFINE T == {n \in 0 .. WindowSize : n \notin S}
<1>1. T \in SUBSET Nat /\ T # {}
  BY ChannelAssumption
<1>2. PICK n \in T : \A m \in T : n <= m
  BY <1>1, Smallest
<1>3. n \in 0 .. WindowSize /\ n \notin S /\ \A j \in 0 .. n - 1 : j \in S
  BY <1>2, ChannelAssumption
<1>. HIDE DEF T
<1>. QED BY <1>3 DEF RunLength
-----------------------------------------------------------------------------
(* The types. *)

Sequence == 0 .. MaxSequence - 1
Pending == [number : Nat \cup {NULL}, seq : Sequence, is_sent : BOOLEAN, due : BOOLEAN]
DataPacket == [seq : Sequence, number : Nat]
AckPacket == [seq : Sequence, bits : SUBSET Slot, number : Nat]

\* The constants, in the form the proofs use.
LEMMA Constants ==
    /\ MaxSequence \in Nat \ {0} /\ WindowSize \in Nat \ {0}
    /\ 0 \in Sequence
BY MaxSequenceAssumption, ChannelAssumption DEF Sequence

\* The types of the variables of one end.
LEMMA TypesAt ==
    ASSUME TypeOK, NEW p \in Peer
    PROVE  /\ m_outgoing_queue[p] \in Seq(Nat) /\ Len(m_outgoing_queue[p]) \in Nat
           /\ m_local_sequence[p] \in Sequence /\ m_local_sequence[p] \in Int
           /\ m_local_window_start[p] \in Sequence /\ m_local_window_start[p] \in Int
           /\ m_remote_sequence[p] \in Sequence /\ m_remote_sequence[p] \in Int
           /\ m_remote_window_start[p] \in Sequence /\ m_remote_window_start[p] \in Int
           /\ released[p] \in Seq(Nat)
<1>1. /\ m_outgoing_queue[p] \in Seq(Nat) /\ released[p] \in Seq(Nat)
      /\ m_local_sequence[p] \in Sequence /\ m_local_window_start[p] \in Sequence
      /\ m_remote_sequence[p] \in Sequence /\ m_remote_window_start[p] \in Sequence
  BY DEF TypeOK, Sequence
<1>2. Sequence \subseteq Int
  BY DEF Sequence
<1>. QED BY <1>1, <1>2, LenProperties

\* A sequence number further on is a sequence number, and has a slot.
LEMMA AdvanceType ==
    ASSUME NEW a \in Int, NEW n \in Int
    PROVE  Advance(a, n) \in Sequence /\ SlotOf(Advance(a, n)) \in Slot
<1>1. Advance(a, n) \in Sequence
  BY AdvanceWraps DEF Sequence
<1>2. Sequence \subseteq Int
  BY DEF Sequence
<1>. QED BY <1>1, <1>2, SlotType

\* At the start nothing is sent, held or on its way.
LEMMA InitTypeOK == Init => TypeOK
BY Constants DEF Init, TypeOK, Sequence, Slot

\* How many messages a visit numbers: at most as many as are queued.
LEMMA AdmittedType ==
    ASSUME TypeOK, NEW p \in Peer
    PROVE  Admitted(p) \in 0 .. Len(m_outgoing_queue[p])
<1>. DEFINE rel == relative_sequence_number(m_local_sequence[p], m_local_window_start[p])
<1>1. rel \in Int
  <2>1. m_local_sequence[p] \in Sequence /\ m_local_window_start[p] \in Sequence
    BY DEF TypeOK, Sequence
  <2>. QED BY <2>1, RelativeType, HalfMax DEF Sequence
<1>2. Len(m_outgoing_queue[p]) \in Nat
  BY LenProperties DEF TypeOK
<1>. HIDE DEF rel
<1>. QED BY <1>1, <1>2, Constants DEF Admitted, rel

\* The pending slots after the numbering.
LEMMA FilledType ==
    ASSUME TypeOK, NEW p \in Peer, NEW n \in 0 .. Len(m_outgoing_queue[p])
    PROVE  Filled(p, n) \in [Slot -> Pending]
<1>1. ASSUME NEW s \in Slot PROVE Filled(p, n)[s] \in Pending
  <2>. DEFINE js == {j \in 0 .. n - 1 : SlotOf(Advance(m_local_sequence[p], j)) = s}
              j0 == CHOOSE j \in js : TRUE
  <2>1. m_pending_packets[p][s] \in Pending
    BY DEF TypeOK, Pending, Sequence
  <2>2. CASE js = {}
    BY <2>1, <2>2 DEF Filled
  <2>3. CASE js # {}
    <3>1. j0 \in 0 .. n - 1
      BY <2>3
    <3>2. m_outgoing_queue[p] \in Seq(Nat)
      BY DEF TypeOK
    <3>3. j0 + 1 \in 1 .. Len(m_outgoing_queue[p])
      BY <3>1, <3>2, LenProperties
    <3>4. m_outgoing_queue[p][j0 + 1] \in Nat
      BY <3>2, <3>3, ElementOfSeq
    <3>5. Advance(m_local_sequence[p], j0) \in Sequence
      <4>1. j0 \in Int /\ m_local_sequence[p] \in Int
        BY <3>1, TypesAt
      <4>. HIDE DEF j0
      <4>. QED BY <4>1, AdvanceType
    <3>6. Filled(p, n)[s] = [number |-> m_outgoing_queue[p][j0 + 1],
                             seq |-> Advance(m_local_sequence[p], j0),
                             is_sent |-> FALSE,
                             due |-> m_pending_packets[p][s].due]
      BY <2>3 DEF Filled
    <3>. HIDE DEF j0
    <3>. QED BY <2>1, <3>4, <3>5, <3>6 DEF Pending
  <2>. QED BY <2>2, <2>3
<1>2. Filled(p, n) = [s \in Slot |-> Filled(p, n)[s]]
  BY DEF Filled
<1>. QED BY <1>1, <1>2

\* A message of the application.
LEMMA AddToQueueTypeOK ==
    ASSUME TypeOK, NEW p \in Peer, add_to_queue(p)
    PROVE  TypeOK'
<1>1. Append(m_outgoing_queue[p], submitted[p]) \in Seq(Nat)
  BY AppendProperties DEF TypeOK
<1>2. m_outgoing_queue' \in [Peer -> Seq(Nat)]
  BY <1>1 DEF add_to_queue, TypeOK
<1>3. submitted' \in [Peer -> Nat]
  BY DEF add_to_queue, TypeOK
<1>. QED BY <1>2, <1>3 DEF add_to_queue, TypeOK, receiver

\* One visit of the logic thread.
LEMMA SendTypeOK ==
    ASSUME TypeOK, NEW p \in Peer, send_and_check_queue(p)
    PROVE  TypeOK'
<1>. DEFINE n == Admitted(p)
            end == Advance(m_local_sequence[p], n)
            pending == Filled(p, n)
            sent == {s \in WindowSlots(m_local_window_start[p], end) : TrySend(pending[s])}
            total == unwrapped[p].local + n
            sentPackets == {[seq |-> pending[s].seq, number |-> pending[s].number] : s \in sent}
            ack == [seq |-> m_outgoing_acks[p].seq, bits |-> m_outgoing_acks[p].bits,
                    number |-> unwrapped[p].remoteStart]
            pendingAfter == [s \in Slot |-> IF s \in sent
                                THEN [pending[s] EXCEPT !.is_sent = TRUE, !.due = FALSE]
                                ELSE pending[s]]
<1>1. n \in 0 .. Len(m_outgoing_queue[p]) /\ n \in Nat /\ m_outgoing_queue[p] \in Seq(Nat)
  <2>1. m_outgoing_queue[p] \in Seq(Nat) /\ Len(m_outgoing_queue[p]) \in Nat
    BY TypesAt
  <2>2. n \in 0 .. Len(m_outgoing_queue[p])
    BY AdmittedType
  <2>. HIDE DEF n
  <2>. QED BY <2>1, <2>2
<1>2. end \in Sequence /\ end \in Int
  <2>1. m_local_sequence[p] \in Int /\ n \in Int
    BY <1>1, TypesAt
  <2>. HIDE DEF n
  <2>2. end \in Sequence
    BY <2>1, AdvanceType
  <2>. QED BY <2>2 DEF Sequence
<1>3. pending \in [Slot -> Pending]
  BY <1>1, FilledType
<1>4. total \in Nat
  BY <1>1 DEF TypeOK
<1>5. SubSeq(m_outgoing_queue[p], n + 1, Len(m_outgoing_queue[p])) \in Seq(Nat)
  BY <1>1, LenProperties, SubSeqProperties
<1>6. sent \subseteq Slot
  <2>1. \A j \in Int : SlotOf(Advance(m_local_window_start[p], j)) \in Slot
    BY TypesAt, AdvanceType
  <2>. HIDE DEF end
  <2>2. WindowSlots(m_local_window_start[p], end) \subseteq Slot
    BY <2>1 DEF WindowSlots
  <2>. QED BY <2>2
<1>7. Other(p) \in Peer
  BY OtherType
<1>8. sentPackets \subseteq DataPacket
  BY <1>3, <1>6 DEF TrySend, Pending, DataPacket
<1>9. ack \in AckPacket
  BY DEF TypeOK, AckPacket, Sequence
<1>10. pendingAfter \in [Slot -> Pending]
  BY <1>3 DEF Pending
<1>11. \A q \in Peer : packets[q] \subseteq DataPacket /\ acks[q] \subseteq AckPacket
  BY DEF TypeOK, DataPacket, AckPacket, Sequence
<1>12. packets' \in [Peer -> SUBSET DataPacket]
  <2>1. packets' = [packets EXCEPT ![Other(p)] = Alive(@ \cup sentPackets, total)]
    BY DEF send_and_check_queue
  <2>. HIDE DEF sentPackets, total
  <2>2. Alive(packets[Other(p)] \cup sentPackets, total) \subseteq DataPacket
    BY <1>7, <1>8, <1>11 DEF Alive
  <2>. QED BY <2>1, <2>2, <1>11 DEF TypeOK
<1>13. acks' \in [Peer -> SUBSET AckPacket]
  <2>1. acks' = [acks EXCEPT
              ![Other(p)] = IF m_must_send_acks[p] THEN @ \cup {ack} ELSE @,
              ![p] = Alive(@, total)]
    BY DEF send_and_check_queue
  <2>. HIDE DEF ack, total
  <2>2. (IF m_must_send_acks[p] THEN acks[Other(p)] \cup {ack} ELSE acks[Other(p)]) \in SUBSET AckPacket
    BY <1>7, <1>9, <1>11
  <2>3. Alive(acks[p], total) \in SUBSET AckPacket
    BY <1>11 DEF Alive
  <2>. QED BY <2>1, <2>2, <2>3, <1>7, <1>11, OtherType DEF TypeOK
<1>14. m_outgoing_queue' \in [Peer -> Seq(Nat)]
  <2>. DEFINE rest == SubSeq(m_outgoing_queue[p], n + 1, Len(m_outgoing_queue[p]))
  <2>1. m_outgoing_queue' = [m_outgoing_queue EXCEPT ![p] = rest]
    BY DEF send_and_check_queue
  <2>. HIDE DEF rest
  <2>. QED BY <2>1, <1>5 DEF TypeOK, rest
<1>15. m_local_sequence' \in [Peer -> Sequence]
  <2>1. m_local_sequence' = [m_local_sequence EXCEPT ![p] = end]
    BY DEF send_and_check_queue
  <2>. HIDE DEF end
  <2>. QED BY <2>1, <1>2 DEF TypeOK, Sequence
<1>16. m_pending_packets' \in [Peer -> [Slot -> Pending]]
  <2>1. m_pending_packets' = [m_pending_packets EXCEPT ![p] = pendingAfter]
    BY DEF send_and_check_queue
  <2>2. m_pending_packets \in [Peer -> [Slot -> Pending]]
    BY DEF TypeOK, Pending, Sequence
  <2>. HIDE DEF pendingAfter
  <2>. QED BY <2>1, <2>2, <1>10
<1>17. m_must_send_acks' \in [Peer -> BOOLEAN] /\ queued' \in [Peer -> BOOLEAN]
  <2>1. m_must_send_acks' = [m_must_send_acks EXCEPT ![p] = FALSE]
    BY DEF send_and_check_queue
  <2>2. queued' = [queued EXCEPT ![p] = sent # {} \/ n < Len(m_outgoing_queue[p])]
    BY DEF send_and_check_queue
  <2>. HIDE DEF sent, n
  <2>. QED BY <2>1, <2>2 DEF TypeOK
<1>18. unwrapped' \in [Peer -> [local : Nat, localStart : Nat, remote : Nat, remoteStart : Nat]]
  <2>1. unwrapped' = [unwrapped EXCEPT ![p].local = total]
    BY DEF send_and_check_queue
  <2>. HIDE DEF total
  <2>. QED BY <2>1, <1>4 DEF TypeOK
<1>. HIDE DEF n, end, pending, sent, total, sentPackets, ack, pendingAfter
<1>. QED BY <1>12, <1>13, <1>14, <1>15, <1>16, <1>17, <1>18
         DEF send_and_check_queue, TypeOK, Pending, DataPacket, AckPacket, Sequence

\* The resend delay of a pending packet passes.
LEMMA ResendDelayTypeOK ==
    ASSUME TypeOK, NEW p \in Peer, resend_delay_elapsed(p)
    PROVE  TypeOK'
<1>1. PICK s \in Slot : m_pending_packets' = [m_pending_packets EXCEPT ![p][s].due = TRUE]
  BY DEF resend_delay_elapsed
<1>2. m_pending_packets \in [Peer -> [Slot -> Pending]]
  BY DEF TypeOK, Pending, Sequence
<1>3. m_pending_packets' \in [Peer -> [Slot -> Pending]]
  <2>. DEFINE one == [m_pending_packets[p][s] EXCEPT !.due = TRUE]
              after == [m_pending_packets[p] EXCEPT ![s] = one]
  <2>1. one \in Pending
    <3>1. m_pending_packets[p][s] \in Pending
      BY <1>2
    <3>. QED BY <3>1 DEF Pending
  <2>2. m_pending_packets' = [m_pending_packets EXCEPT ![p] = after]
    BY <1>1, <1>2
  <2>. HIDE DEF one
  <2>3. after \in [Slot -> Pending]
    BY <2>1, <1>2
  <2>. HIDE DEF after
  <2>. QED BY <2>2, <2>3, <1>2
<1>. QED BY <1>3 DEF resend_delay_elapsed, TypeOK, receiver, Pending, Sequence

\* What process_packet computes from a datagram.
LEMMA ReceivedTypes ==
    ASSUME TypeOK, NEW p \in Peer, NEW d \in packets[p]
    PROVE  /\ d.seq \in Sequence /\ d.number \in Nat
           /\ SlotOf(d.seq) \in Slot
           /\ Relate(p, d) \in Int
           /\ WindowShift(p, d) \in Nat
           /\ Advance(m_remote_window_start[p], WindowShift(p, d)) \in Sequence
           /\ KeptBits(p, d) \subseteq Slot
<1>1. d.seq \in Sequence /\ d.number \in Nat
  BY DEF TypeOK, Sequence
<1>2. SlotOf(d.seq) \in Slot
  BY <1>1, SlotType DEF Sequence
<1>3. Relate(p, d) \in Int
  <2>1. m_remote_window_start[p] \in Sequence
    BY TypesAt
  <2>2. relative_sequence_number(d.seq, m_remote_window_start[p]) \in Int
    BY <1>1, <2>1, RelativeType, HalfMax DEF Sequence
  <2>. QED BY <2>2 DEF Relate
<1>4. WindowShift(p, d) \in Nat
  BY <1>3, Constants DEF WindowShift
<1>5. Advance(m_remote_window_start[p], WindowShift(p, d)) \in Sequence
  BY <1>4, TypesAt, AdvanceType
<1>6. KeptBits(p, d) \subseteq Slot
  <2>1. m_outgoing_acks[p].bits \subseteq Slot
    BY DEF TypeOK
  <2>. QED BY <2>1 DEF KeptBits
<1>. QED BY <1>1, <1>2, <1>3, <1>4, <1>5, <1>6

\* A datagram that was received leaves the network, or may come again.
LEMMA ConsumeType ==
    ASSUME TypeOK, NEW p \in Peer, NEW d, Consume(p, d)
    PROVE  packets' \in [Peer -> SUBSET DataPacket]
<1>1. packets \in [Peer -> SUBSET DataPacket]
  BY DEF TypeOK, DataPacket, Sequence
<1>2. packets' = packets \/ packets' = [packets EXCEPT ![p] = @ \ {d}]
  BY DEF Consume
<1>. QED BY <1>1, <1>2

\* The window, the acknowledgement and the network after an acceptable packet.
LEMMA WindowTypes ==
    ASSUME TypeOK, NEW p \in Peer, NEW d \in packets[p], AcceptIntoWindow(p, d)
    PROVE  /\ m_remote_window_start' \in [Peer -> Sequence]
           /\ m_outgoing_acks' \in [Peer -> [seq : Sequence, bits : SUBSET Slot]]
           /\ m_must_send_acks' \in [Peer -> BOOLEAN]
           /\ queued' \in [Peer -> BOOLEAN]
           /\ packets' \in [Peer -> SUBSET DataPacket]
<1>. DEFINE start == Advance(m_remote_window_start[p], WindowShift(p, d))
            bits == KeptBits(p, d) \cup {SlotOf(d.seq)}
            ackSeq == IF WindowShift(p, d) > 0 THEN start ELSE m_outgoing_acks[p].seq
<1>1. start \in Sequence /\ bits \subseteq Slot
  BY ReceivedTypes
<1>2. m_outgoing_acks \in [Peer -> [seq : Sequence, bits : SUBSET Slot]]
  BY DEF TypeOK, Sequence
<1>3. ackSeq \in Sequence
  BY <1>1, <1>2
<1>4. /\ m_remote_window_start' = [m_remote_window_start EXCEPT ![p] = start]
      /\ m_outgoing_acks' = [m_outgoing_acks EXCEPT ![p] = [seq |-> ackSeq, bits |-> bits]]
      /\ m_must_send_acks' = [m_must_send_acks EXCEPT ![p] = TRUE]
      /\ queued' = [queued EXCEPT ![p] = TRUE]
  BY <1>2 DEF AcceptIntoWindow
<1>5. packets' \in [Peer -> SUBSET DataPacket]
  BY ConsumeType DEF AcceptIntoWindow
<1>. HIDE DEF start, bits, ackSeq
<1>6. m_outgoing_acks' \in [Peer -> [seq : Sequence, bits : SUBSET Slot]]
  BY <1>1, <1>2, <1>3, <1>4
<1>7. m_remote_window_start' \in [Peer -> Sequence]
  BY <1>1, <1>4 DEF TypeOK, Sequence
<1>. QED BY <1>4, <1>5, <1>6, <1>7 DEF TypeOK

Counters == [local : Nat, localStart : Nat, remote : Nat, remoteStart : Nat]

\* A packet outside the window.
LEMMA DropTypeOK ==
    ASSUME TypeOK, NEW p \in Peer, NEW d \in packets[p], drop_packet(p, d)
    PROVE  TypeOK'
<1>1. packets' \in [Peer -> SUBSET DataPacket]
  BY ConsumeType DEF drop_packet
<1>. QED BY <1>1 DEF drop_packet, TypeOK, sender, receiver, DataPacket, Sequence

\* The receiver's window moves by n places.
LEMMA CountersType ==
    ASSUME TypeOK, NEW p \in Peer, NEW n \in Nat,
           unwrapped' = [unwrapped EXCEPT ![p].remoteStart = @ + n]
    PROVE  unwrapped' \in [Peer -> Counters]
<1>1. unwrapped \in [Peer -> Counters]
  BY DEF TypeOK, Counters
<1>. DEFINE after == [unwrapped[p] EXCEPT !.remoteStart = @ + n]
<1>2. after \in Counters
  BY <1>1 DEF Counters
<1>3. unwrapped' = [unwrapped EXCEPT ![p] = after]
  BY <1>1
<1>. HIDE DEF after
<1>. QED BY <1>1, <1>2, <1>3

\* A packet that is in the window already.
LEMMA DuplicateTypeOK ==
    ASSUME TypeOK, NEW p \in Peer, NEW d \in packets[p], duplicate_packet(p, d)
    PROVE  TypeOK'
<1>1. AcceptIntoWindow(p, d)
  BY DEF duplicate_packet
<1>2. unwrapped' \in [Peer -> Counters]
  BY ReceivedTypes, CountersType DEF duplicate_packet
<1>. QED BY <1>1, <1>2, WindowTypes
         DEF duplicate_packet, AcceptIntoWindow, TypeOK, sender, DataPacket, Sequence, Counters

\* A packet beyond a gap.
LEMMA EarlyTypeOK ==
    ASSUME TypeOK, NEW p \in Peer, NEW d \in packets[p], early_packet(p, d)
    PROVE  TypeOK'
<1>1. AcceptIntoWindow(p, d)
  BY DEF early_packet
<1>2. unwrapped' \in [Peer -> Counters]
  BY ReceivedTypes, CountersType DEF early_packet
<1>3. SlotOf(d.seq) \in Slot /\ d.number \in Nat
  BY ReceivedTypes
<1>4. Append(released[p], d.number) \in Seq(Nat)
  BY <1>3, TypesAt, AppendProperties
<1>5. m_received_packets' \in [Peer -> [Slot -> Nat \cup {NULL}]]
  <2>1. m_received_packets \in [Peer -> [Slot -> Nat \cup {NULL}]]
    BY DEF TypeOK
  <2>. DEFINE after == [m_received_packets[p] EXCEPT ![SlotOf(d.seq)] = d.number]
  <2>2. after \in [Slot -> Nat \cup {NULL}]
    BY <1>3, <2>1
  <2>3. \/ m_received_packets' = [m_received_packets EXCEPT ![p] = after]
        \/ m_received_packets' = m_received_packets
    BY <2>1 DEF early_packet
  <2>. HIDE DEF after
  <2>. QED BY <2>1, <2>2, <2>3
<1>6. m_early_received' \in [Peer -> [Slot -> BOOLEAN]]
  <2>1. m_early_received \in [Peer -> [Slot -> BOOLEAN]]
    BY DEF TypeOK
  <2>. DEFINE after == [m_early_received[p] EXCEPT ![SlotOf(d.seq)] = TRUE]
  <2>2. after \in [Slot -> BOOLEAN]
    BY <1>3, <2>1
  <2>3. \/ m_early_received' = [m_early_received EXCEPT ![p] = after]
        \/ m_early_received' = m_early_received
    BY <2>1 DEF early_packet
  <2>. HIDE DEF after
  <2>. QED BY <2>1, <2>2, <2>3
<1>7. released' \in [Peer -> Seq(Nat)]
  BY <1>4 DEF early_packet, TypeOK
<1>. QED BY <1>1, <1>2, <1>5, <1>6, <1>7, WindowTypes
         DEF early_packet, AcceptIntoWindow, TypeOK, sender, DataPacket, Sequence, Counters

\* A list of messages, or the empty one, behind a list of messages.
LEMMA ReleasedType ==
    ASSUME NEW q \in Seq(Nat), NEW m \in Nat, NEW r \in Nat, NEW f,
           \A i \in 1 .. r : f[i] \in Nat
    PROVE  /\ Append(q, m) \in Seq(Nat)
           /\ Append(q, m) \o [i \in 1 .. r |-> f[i]] \in Seq(Nat)
           /\ Append(q, m) \o << >> \in Seq(Nat)
<1>. DEFINE held == [i \in 1 .. r |-> f[i]]
<1>1. Append(q, m) \in Seq(Nat)
  BY AppendProperties
<1>2. held \in Seq(Nat)
  <2>1. held \in [1 .. r -> Nat]
    OBVIOUS
  <2>. HIDE DEF held
  <2>. QED BY <2>1, SeqDef
<1>3. << >> \in Seq(Nat)
  BY EmptySeq
<1>. HIDE DEF held
<1>. QED BY <1>1, <1>2, <1>3, ConcatProperties DEF held

\* The expected packet, and the packets it releases.
LEMMA NextTypeOK ==
    ASSUME TypeOK, NEW p \in Peer, NEW d \in packets[p], next_packet(p, d)
    PROVE  TypeOK'
<1>. DEFINE SlotAt(j) == SlotOf(Advance(m_remote_sequence[p], 1 + j))
            offsets == {j \in 0 .. WindowSize - 1 :
                          IF m_ordered THEN m_received_packets[p][SlotAt(j)] # NULL
                                     ELSE m_early_received[p][SlotAt(j)]}
            run == RunLength(offsets)
            freed == {SlotAt(j) : j \in 0 .. run - 1}
            held == [i \in 1 .. run |-> m_received_packets[p][SlotAt(i - 1)]]
            list == Append(released[p], d.number) \o (IF m_ordered THEN held ELSE <<>>)
            shift == WindowShift(p, d)
<1>1. AcceptIntoWindow(p, d)
  BY DEF next_packet
<1>2. /\ m_remote_sequence' = [m_remote_sequence EXCEPT ![p] = Advance(@, 1 + run)]
      /\ m_received_packets' = [m_received_packets EXCEPT ![p] =
            [s \in Slot |-> IF m_ordered /\ s \in freed THEN NULL ELSE @[s]]]
      /\ m_early_received' = [m_early_received EXCEPT ![p] =
            [s \in Slot |-> IF ~m_ordered /\ s \in freed THEN FALSE ELSE @[s]]]
      /\ released' = [released EXCEPT ![p] = list]
      /\ unwrapped' = [unwrapped EXCEPT ![p].remote = @ + 1 + run,
                                        ![p].remoteStart = @ + shift]
  BY DEF next_packet
<1>3. run \in Nat /\ \A j \in 0 .. run - 1 : j \in offsets
  <2>1. WindowSize \in 0 .. WindowSize /\ WindowSize \notin offsets
    BY Constants
  <2>. HIDE DEF offsets
  <2>. QED BY <2>1, RunLengthType, Constants
<1>4. d.number \in Nat /\ shift \in Nat
  BY ReceivedTypes
<1>5. \A j \in Int : SlotAt(j) \in Slot
  <2>1. \A j \in Int : 1 + j \in Int
    OBVIOUS
  <2>. QED BY <2>1, TypesAt, AdvanceType
<1>6. m_received_packets \in [Peer -> [Slot -> Nat \cup {NULL}]]
  BY DEF TypeOK
<1>7. list \in Seq(Nat)
  <2>. DEFINE f == [i \in 1 .. run |-> m_received_packets[p][SlotAt(i - 1)]]
  <2>1. CASE m_ordered
    <3>1. ASSUME NEW i \in 1 .. run PROVE f[i] \in Nat
      <4>1. i - 1 \in 0 .. run - 1 /\ i - 1 \in Int
        BY <1>3
      <4>2. i - 1 \in offsets
        BY <1>3, <4>1
      <4>3. m_received_packets[p][SlotAt(i - 1)] # NULL
        BY <4>2, <2>1
      <4>4. m_received_packets[p][SlotAt(i - 1)] \in Nat
        BY <4>1, <4>3, <1>5, <1>6
      <4>. HIDE DEF run
      <4>. QED BY <4>4
    <3>2. list = Append(released[p], d.number) \o [i \in 1 .. run |-> f[i]]
      <4>. HIDE DEF run, SlotAt
      <4>. QED BY <2>1
    <3>. HIDE DEF f, list, run
    <3>. QED BY <3>1, <3>2, <1>3, <1>4, TypesAt, ReleasedType
  <2>2. CASE ~m_ordered
    <3>1. list = Append(released[p], d.number) \o <<>>
      BY <2>2
    <3>2. Append(released[p], d.number) \in Seq(Nat)
      BY <1>4, TypesAt, AppendProperties
    <3>. HIDE DEF list
    <3>. QED BY <3>1, <3>2, EmptySeq, ConcatProperties
  <2>. QED BY <2>1, <2>2
<1>8. released' \in [Peer -> Seq(Nat)]
  <2>. HIDE DEF list
  <2>. QED BY <1>2, <1>7 DEF TypeOK
<1>9. m_remote_sequence' \in [Peer -> Sequence]
  <2>. DEFINE seq == Advance(m_remote_sequence[p], 1 + run)
  <2>1. 1 + run \in Int
    BY <1>3
  <2>2. seq \in Sequence
    <3>. DEFINE k == 1 + run
    <3>1. k \in Int
      BY <2>1
    <3>. HIDE DEF k
    <3>2. Advance(m_remote_sequence[p], k) \in Sequence
      BY <3>1, TypesAt, AdvanceType
    <3>. QED BY <3>2 DEF k
  <2>3. m_remote_sequence' = [m_remote_sequence EXCEPT ![p] = seq]
    BY <1>2
  <2>. HIDE DEF seq
  <2>. QED BY <2>2, <2>3 DEF TypeOK, Sequence
<1>10. m_received_packets' \in [Peer -> [Slot -> Nat \cup {NULL}]]
  <2>. DEFINE after == [s \in Slot |-> IF m_ordered /\ s \in freed
                                         THEN NULL ELSE m_received_packets[p][s]]
  <2>1. after \in [Slot -> Nat \cup {NULL}]
    <3>. HIDE DEF freed
    <3>. QED BY <1>6
  <2>2. m_received_packets' = [m_received_packets EXCEPT ![p] = after]
    BY <1>2
  <2>. HIDE DEF after
  <2>. QED BY <2>1, <2>2, <1>6
<1>11. m_early_received' \in [Peer -> [Slot -> BOOLEAN]]
  <2>. DEFINE after == [s \in Slot |-> IF ~m_ordered /\ s \in freed
                                         THEN FALSE ELSE m_early_received[p][s]]
  <2>1. m_early_received \in [Peer -> [Slot -> BOOLEAN]]
    BY DEF TypeOK
  <2>2. after \in [Slot -> BOOLEAN]
    <3>. HIDE DEF freed
    <3>. QED BY <2>1
  <2>3. m_early_received' = [m_early_received EXCEPT ![p] = after]
    BY <1>2
  <2>. HIDE DEF after
  <2>. QED BY <2>1, <2>2, <2>3
<1>12. unwrapped' \in [Peer -> Counters]
  <2>1. unwrapped \in [Peer -> Counters]
    BY DEF TypeOK, Counters
  <2>. HIDE DEF run, shift
  <2>. DEFINE after == [unwrapped[p] EXCEPT !.remote = @ + 1 + run, !.remoteStart = @ + shift]
  <2>2. after \in Counters
    <3>1. unwrapped[p] \in Counters
      BY <2>1
    <3>2. unwrapped[p].remote + 1 + run \in Nat /\ unwrapped[p].remoteStart + shift \in Nat
      BY <1>3, <1>4, <3>1 DEF Counters
    <3>. QED BY <3>1, <3>2 DEF Counters
  <2>3. unwrapped' = [unwrapped EXCEPT ![p] = after]
    BY <1>2, <2>1
  <2>. HIDE DEF after
  <2>. QED BY <2>1, <2>2, <2>3
<1>13. UNCHANGED <<m_ordered, sender, acks, submitted, handed>>
  BY <1>1 DEF AcceptIntoWindow
<1>. HIDE DEF run, shift, list, offsets, freed, held, SlotAt
<1>. QED BY <1>1, <1>8, <1>9, <1>10, <1>11, <1>12, <1>13, WindowTypes
         DEF TypeOK, sender, DataPacket, Sequence, Counters

\* An ack stops the scan of the pending packets within a window.
LEMMA ConfirmedStops ==
    ASSUME TypeOK, NEW p \in Peer, NEW a \in acks[p]
    PROVE  \E n \in 0 .. WindowSize :
              n \notin (IF AckInWindow(p, a) THEN Confirmed(p, a) ELSE {})
<1>. DEFINE start == m_local_window_start[p]
            rel == relative_sequence_number(start, a.seq)
            n == WindowSize - rel
<1>1. CASE ~AckInWindow(p, a)
  BY <1>1, Constants
<1>2. CASE AckInWindow(p, a)
  <2>1. a.seq \in Sequence /\ start \in Sequence
    <3>1. a.seq \in Sequence
      BY DEF TypeOK, Sequence
    <3>. QED BY <3>1, TypesAt
  <2>2. rel >= 0 /\ rel < WindowSize /\ rel \in Int
    <3>1. rel \in Int
      <4>1. rel \in -HALF_MAX_SEQUENCE .. HALF_MAX_SEQUENCE - 1
        BY <2>1, RelativeType DEF Sequence
      <4>. HIDE DEF rel
      <4>. QED BY <4>1, HalfMax
    <3>. QED BY <3>1, <1>2 DEF AckInWindow
  <2>3. Advance(a.seq, rel) = start
    BY <2>1, AdvanceByRelative DEF Sequence
  <2>. HIDE DEF rel, start
  <2>4. n \in 0 .. WindowSize /\ n \in Int /\ rel + n = WindowSize
    BY <2>2, Constants
  <2>. HIDE DEF n
  <2>5. a.seq \in Int /\ a.seq % MaxSequence = a.seq
    BY <2>1, SmallMod, Constants DEF Sequence
  <2>6. Advance(start, n) = (a.seq + WindowSize) % MaxSequence
    <3>. DEFINE c == a.seq + rel
    <3>1. c \in Int /\ c + n = a.seq + WindowSize
      BY <2>2, <2>4, <2>5, Constants
    <3>2. start = c % MaxSequence
      BY <2>3 DEF Advance
    <3>. HIDE DEF c
    <3>3. Advance(c % MaxSequence, n) = (c + n) % MaxSequence
      BY <3>1, <2>4, AdvanceWraps
    <3>. QED BY <3>1, <3>2, <3>3
  <2>7. relative_sequence_number(Advance(start, n), a.seq) = WindowSize
    <3>. DEFINE b == a.seq + WindowSize
    <3>1. /\ b \in Int /\ b - a.seq = WindowSize /\ a.seq - b <= HALF_MAX_SEQUENCE
          /\ WindowSize < HALF_MAX_SEQUENCE
      BY <2>5, Constants, HalfMax, ChannelAssumption
    <3>2. Advance(start, n) = b % MaxSequence
      BY <2>6
    <3>. HIDE DEF b
    <3>3. relative_sequence_number(b % MaxSequence, a.seq % MaxSequence) = b - a.seq
      BY <3>1, <2>5, RelativeIsDifference
    <3>. QED BY <3>1, <3>2, <3>3, <2>5
  <2>8. n \notin Confirmed(p, a)
    BY <2>7, Constants DEF Confirmed, start
  <2>. QED BY <1>2, <2>4, <2>8
<1>. QED BY <1>1, <1>2

\* An acknowledgement.
LEMMA AckTypeOK ==
    ASSUME TypeOK, NEW p \in Peer, NEW a \in acks[p], process_ack(p, a)
    PROVE  TypeOK'
<1>. DEFINE offsets == IF AckInWindow(p, a) THEN Confirmed(p, a) ELSE {}
            lead    == RunLength(offsets)
            cleared == {SlotOf(Advance(m_local_window_start[p], j)) : j \in offsets}
            start   == Advance(m_local_window_start[p], lead)
            after   == [s \in Slot |-> IF s \in cleared
                                       THEN [m_pending_packets[p][s] EXCEPT !.number = NULL]
                                       ELSE m_pending_packets[p][s]]
            counters == [unwrapped[p] EXCEPT !.localStart = @ + lead]
<1>1. lead \in Nat
  <2>1. \E n \in 0 .. WindowSize : n \notin offsets
    BY ConfirmedStops
  <2>. HIDE DEF offsets
  <2>. QED BY <2>1, RunLengthType, Constants
<1>2. start \in Sequence
  <2>1. lead \in Int
    BY <1>1
  <2>. HIDE DEF lead
  <2>. QED BY <2>1, TypesAt, AdvanceType
<1>3. m_pending_packets \in [Peer -> [Slot -> Pending]]
  BY DEF TypeOK, Pending, Sequence
<1>4. after \in [Slot -> Pending]
  <2>1. ASSUME NEW s \in Slot PROVE [m_pending_packets[p][s] EXCEPT !.number = NULL] \in Pending
    <3>1. m_pending_packets[p][s] \in Pending
      BY <1>3
    <3>. QED BY <3>1 DEF Pending
  <2>. HIDE DEF cleared
  <2>. QED BY <1>3, <2>1
<1>5. counters \in Counters /\ unwrapped \in [Peer -> Counters]
  <2>1. unwrapped \in [Peer -> Counters]
    BY DEF TypeOK, Counters
  <2>. HIDE DEF lead
  <2>. QED BY <1>1, <2>1 DEF Counters
<1>6. /\ m_local_window_start' = [m_local_window_start EXCEPT ![p] = start]
      /\ m_pending_packets' = [m_pending_packets EXCEPT ![p] = after]
      /\ unwrapped' = [unwrapped EXCEPT ![p].localStart = @ + lead]
      /\ acks' = acks \/ acks' = [acks EXCEPT ![p] = @ \ {a}]
  BY DEF process_ack
<1>7. unwrapped' = [unwrapped EXCEPT ![p] = counters]
  <2>. HIDE DEF lead
  <2>. QED BY <1>5, <1>6
<1>8. acks' \in [Peer -> SUBSET AckPacket]
  <2>1. acks \in [Peer -> SUBSET AckPacket]
    BY DEF TypeOK, AckPacket, Sequence
  <2>. QED BY <1>6, <2>1
<1>. HIDE DEF offsets, lead, cleared, start, after, counters
<1>9. m_local_window_start' \in [Peer -> Sequence]
  BY <1>2, <1>6 DEF TypeOK, Sequence
<1>10. m_pending_packets' \in [Peer -> [Slot -> Pending]]
  BY <1>3, <1>4, <1>6
<1>11. unwrapped' \in [Peer -> Counters]
  BY <1>5, <1>7
<1>. QED BY <1>8, <1>9, <1>10, <1>11
         DEF process_ack, TypeOK, receiver, Pending, AckPacket, Sequence, Counters

\* The network loses a datagram.
LEMMA LoseTypeOK ==
    ASSUME TypeOK, NEW p \in Peer, lose(p)
    PROVE  TypeOK'
<1>1. packets \in [Peer -> SUBSET DataPacket] /\ acks \in [Peer -> SUBSET AckPacket]
  BY DEF TypeOK, DataPacket, AckPacket, Sequence
<1>2. packets' \in [Peer -> SUBSET DataPacket] /\ acks' \in [Peer -> SUBSET AckPacket]
  BY <1>1 DEF lose
<1>. QED BY <1>2 DEF lose, TypeOK, sender, receiver, DataPacket, AckPacket, Sequence

\* process_packet hands one message over.
LEMMA HandOverTypeOK ==
    ASSUME TypeOK, NEW p \in Peer, hand_over(p)
    PROVE  TypeOK'
<1>1. handed' \in [Peer -> Nat]
  <2>1. handed \in [Peer -> Nat]
    BY DEF TypeOK
  <2>2. handed' = [handed EXCEPT ![p] = @ + 1]
    BY DEF hand_over
  <2>. QED BY <2>1, <2>2
<1>2. UNCHANGED <<sender, receiver, queued, packets, acks, submitted, released, unwrapped>>
  BY DEF hand_over
<1>. QED BY <1>1, <1>2 DEF TypeOK, sender, receiver

\* The variables of the two ends of the channel keep their types, whatever the
\* network does with the datagrams.
THEOREM TypeCorrect == Spec => []TypeOK
<1>1. Init => TypeOK
  BY InitTypeOK
<1>2. TypeOK /\ [Next]_vars => TypeOK'
  <2>. SUFFICES ASSUME TypeOK, [Next]_vars PROVE TypeOK'
    OBVIOUS
  <2>1. CASE UNCHANGED vars
    BY <2>1 DEF vars, sender, receiver, TypeOK
  <2>2. ASSUME NEW p \in Peer, add_to_queue(p) PROVE TypeOK'
    BY <2>2, AddToQueueTypeOK
  <2>3. ASSUME NEW p \in Peer, send_and_check_queue(p) PROVE TypeOK'
    BY <2>3, SendTypeOK
  <2>4. ASSUME NEW p \in Peer, resend_delay_elapsed(p) PROVE TypeOK'
    BY <2>4, ResendDelayTypeOK
  <2>5. ASSUME NEW p \in Peer, receive_packet(p) PROVE TypeOK'
    <3>1. PICK d \in packets[p] : process_packet(p, d)
      BY <2>5 DEF receive_packet
    <3>. QED BY <3>1, DropTypeOK, DuplicateTypeOK, NextTypeOK, EarlyTypeOK DEF process_packet
  <2>6. ASSUME NEW p \in Peer, receive_ack(p) PROVE TypeOK'
    BY <2>6, AckTypeOK DEF receive_ack
  <2>7. ASSUME NEW p \in Peer, lose(p) PROVE TypeOK'
    BY <2>7, LoseTypeOK
  <2>8. ASSUME NEW p \in Peer, hand_over(p) PROVE TypeOK'
    BY <2>8, HandOverTypeOK
  <2>. QED BY <2>1, <2>2, <2>3, <2>4, <2>5, <2>6, <2>7, <2>8 DEF Next
<1>. QED BY <1>1, <1>2, PTL DEF Spec

-----------------------------------------------------------------------------
(* Delivery.  The invariant speaks of one direction at a time, from p to   *)
(* Other(p), in the numbers without wrap.                                  *)

(* Windows and slots. *)

\* A direction has two ends.
LEMMA OtherOther ==
    ASSUME NEW p \in Peer
    PROVE  /\ Other(p) \in Peer /\ Other(p) # p /\ Other(Other(p)) = p
           /\ \A x \in Peer : x = p \/ x = Other(p)
<1>1. IsFiniteSet(Peer \ {p}) /\ Cardinality(Peer \ {p}) = 1
  BY FS_RemoveElement, ChannelAssumption
<1>2. PICK q : Peer \ {p} = {q}
  BY <1>1, FS_Singleton
<1>3. q \in Peer /\ q # p /\ Peer = {p, q}
  BY <1>2
<1>4. Other(p) = q /\ Other(q) = p
  BY <1>3 DEF Other
<1>. QED BY <1>3, <1>4

\* The constants once more.
LEMMA Ring ==
    /\ WindowSize \in Nat \ {0} /\ MaxSequence \in Nat \ {0} /\ HALF_MAX_SEQUENCE \in Nat \ {0}
    /\ MaxSequence = 2 * HALF_MAX_SEQUENCE
    /\ MaxAge \in Nat /\ 2 * WindowSize <= MaxAge /\ MaxAge <= HALF_MAX_SEQUENCE
    /\ MaxSequence % WindowSize = 0
BY Constants, HalfMax, ChannelAssumption

\* The slot of a wrapped number is the slot of the number.
LEMMA SlotOfWrapped ==
    ASSUME NEW m \in Int
    PROVE  SlotOf(m % MaxSequence) = SlotOf(m) /\ SlotOf(m) \in Slot
BY ModMod, Ring, SlotType DEF SlotOf

\* The slot of a sequence number does not depend on how often it wrapped.
LEMMA SlotOfAdvance ==
    ASSUME NEW m \in Int, NEW j \in Int
    PROVE  /\ SlotOf(Advance(m % MaxSequence, j)) = SlotOf(m + j)
           /\ Advance(m % MaxSequence, j) = (m + j) % MaxSequence
<1>1. Advance(m % MaxSequence, j) = (m + j) % MaxSequence /\ m + j \in Int
  BY AdvanceWraps
<1>. QED BY <1>1, SlotOfWrapped

\* Numbers less than a window apart have slots of their own.
LEMMA SlotsDiffer ==
    ASSUME NEW m \in Int, NEW k \in Int, m - k < WindowSize, k - m < WindowSize,
           SlotOf(m) = SlotOf(k)
    PROVE  m = k
BY ModInjective, Ring DEF SlotOf

\* After one turn of the window a slot is used again.
LEMMA SlotComesBack ==
    ASSUME NEW m \in Int
    PROVE  SlotOf(m - WindowSize) = SlotOf(m)
<1>1. (m + WindowSize * (-1)) % WindowSize = m % WindowSize
  <2>1. -1 \in Int
    OBVIOUS
  <2>. QED BY <2>1, ModPlusMultiple, Ring, Zenon
<1>2. m + WindowSize * (-1) = m - WindowSize
  BY Ring
<1>. QED BY <1>1, <1>2 DEF SlotOf

\* The comparison of numbers that are half of the ring apart.
LEMMA HalfBehind ==
    ASSUME NEW x \in Int, NEW y \in Int, x - y = HALF_MAX_SEQUENCE
    PROVE  relative_sequence_number(x % MaxSequence, y % MaxSequence) = 0 - HALF_MAX_SEQUENCE
<1>. DEFINE z == x + MaxSequence * (-1)
<1>1. z \in Int /\ z - y = 0 - HALF_MAX_SEQUENCE
  BY Ring
<1>2. z % MaxSequence = x % MaxSequence
  <2>1. -1 \in Int
    OBVIOUS
  <2>. QED BY <2>1, ModPlusMultiple, Ring, Zenon
<1>. HIDE DEF z
<1>3. z - y < HALF_MAX_SEQUENCE /\ y - z <= HALF_MAX_SEQUENCE
  BY <1>1, Ring
<1>4. relative_sequence_number(z % MaxSequence, y % MaxSequence) = z - y
  BY <1>1, <1>3, RelativeIsDifference, Zenon
<1>. QED BY <1>1, <1>2, <1>4

\* The distance of two wrapped numbers.
LEMMA Distance ==
    ASSUME NEW x \in Int, NEW y \in Int, 0 <= y - x, y - x < MaxSequence
    PROVE  ((y % MaxSequence) - (x % MaxSequence)) % MaxSequence = y - x
<1>. DEFINE qx == x \div MaxSequence
            qy == y \div MaxSequence
            rx == x % MaxSequence
            ry == y % MaxSequence
<1>1. /\ qx \in Int /\ rx \in Int /\ x = MaxSequence * qx + rx
      /\ qy \in Int /\ ry \in Int /\ y = MaxSequence * qy + ry
  <2>1. \A n \in 0 .. MaxSequence - 1 : n \in Int
    OBVIOUS
  <2>2. qx \in Int /\ rx \in 0 .. MaxSequence - 1 /\ x = MaxSequence * qx + rx
    BY DivMod, Ring, Zenon
  <2>3. qy \in Int /\ ry \in 0 .. MaxSequence - 1 /\ y = MaxSequence * qy + ry
    BY DivMod, Ring, Zenon
  <2>. QED BY <2>1, <2>2, <2>3, Zenon
<1>. HIDE DEF qx, qy, rx, ry
<1>2. MaxSequence * (qx - qy) = MaxSequence * qx - MaxSequence * qy /\ qx - qy \in Int
  BY <1>1, Distribute, Ring
<1>3. ry - rx = (y - x) + MaxSequence * (qx - qy)
  <2>. DEFINE u == MaxSequence * qx
              v == MaxSequence * qy
              w == MaxSequence * (qx - qy)
  <2>1. u \in Int /\ v \in Int /\ w = u - v
    BY <1>1, <1>2, Ring
  <2>2. x = u + rx /\ y = v + ry
    BY <1>1
  <2>. HIDE DEF u, v, w
  <2>3. ry - rx = (y - x) + w
    BY <1>1, <2>1, <2>2
  <2>. QED BY <2>3 DEF w
<1>4. ((y - x) + MaxSequence * (qx - qy)) % MaxSequence = (y - x) % MaxSequence
  <2>1. y - x \in Int
    OBVIOUS
  <2>. QED BY <2>1, <1>2, ModPlusMultiple, Ring
<1>5. (y - x) % MaxSequence = y - x
  BY SmallMod, Ring
<1>. QED BY <1>3, <1>4, <1>5 DEF rx, ry

\* The slots of the sender's window.
LEMMA SlotsOfWindow ==
    ASSUME NEW x \in Int, NEW y \in Int, 0 <= y - x, y - x < MaxSequence
    PROVE  WindowSlots(x % MaxSequence, y % MaxSequence) = {SlotOf(m) : m \in x .. y - 1}
<1>1. WindowSlots(x % MaxSequence, y % MaxSequence) = {SlotOf(x + j) : j \in 0 .. (y - x) - 1}
  <2>1. \A j \in 0 .. (y - x) - 1 : SlotOf(Advance(x % MaxSequence, j)) = SlotOf(x + j)
    BY SlotOfAdvance
  <2>. QED BY <2>1, Distance DEF WindowSlots
<1>2. \A m \in x .. y - 1 : m - x \in 0 .. (y - x) - 1 /\ m = x + (m - x)
  OBVIOUS
<1>3. \A j \in 0 .. (y - x) - 1 : x + j \in x .. y - 1
  OBVIOUS
<1>. QED BY <1>1, <1>2, <1>3
-----------------------------------------------------------------------------
(* What the receiver has, over explicit values: ordered, held, early, bits   *)
(* stand for m_ordered, m_received_packets, m_early_received and the bits of *)
(* m_outgoing_acks; r and start for the counters remote and remoteStart, and *)
(* l for the counter local of the other end.                                 *)

\* The message is at the receiver.
Has(ordered, held, early, r, m) ==
    \/ m < r
    \/ m < r + WindowSize /\ IF ordered THEN held[SlotOf(m)] = m ELSE early[SlotOf(m)]

\* A packet is held in the slot, or the slot is marked.
InUse(ordered, held, early, s) == IF ordered THEN held[s] # NULL ELSE early[s]

\* The slots in use are those of packets beyond the gap at r, and the bits are
\* those of the packets that the receiver has.
ReceiverIsSound(ordered, held, early, bits, r, start, l) ==
    /\ start <= r /\ r <= start + WindowSize /\ r <= l
    /\ \A m \in start .. start + WindowSize - 1 :
          InUse(ordered, held, early, SlotOf(m)) => r < m /\ m < l /\ (ordered => held[SlotOf(m)] = m)
    /\ \A m \in start .. start + WindowSize - 1 :
          SlotOf(m) \in bits <=> m < r \/ InUse(ordered, held, early, SlotOf(m))

Held == [Slot -> Nat \cup {NULL}]
Early == [Slot -> BOOLEAN]

\* A number has a slot, which for one in the window before is the slot of the
\* number a window ahead.
LEMMA SlotTurns ==
    ASSUME NEW m \in Int
    PROVE  SlotOf(m) \in Slot /\ SlotOf(m - WindowSize) = SlotOf(m) /\ m - WindowSize \in Int
BY SlotOfWrapped, SlotComesBack, Ring

\* The expected packet is not there, and what is there is before it or in a
\* slot of the window.
LEMMA HasInWindow ==
    ASSUME NEW ordered \in BOOLEAN, NEW held \in Held, NEW early \in Early, NEW bits,
           NEW r \in Nat, NEW start \in Nat, NEW l \in Nat,
           ReceiverIsSound(ordered, held, early, bits, r, start, l),
           NEW m \in Nat
    PROVE  Has(ordered, held, early, r, m) <=>
              \/ m < r
              \/ r < m /\ m < start + WindowSize /\ InUse(ordered, held, early, SlotOf(m))
<1>1. /\ start <= r /\ r <= start + WindowSize
      /\ \A k \in start .. start + WindowSize - 1 :
            InUse(ordered, held, early, SlotOf(k)) => r < k /\ (ordered => held[SlotOf(k)] = k)
  BY DEF ReceiverIsSound
<1>2. m # NULL /\ SlotOf(m) \in Slot
  BY SlotTurns DEF NULL
<1>3. CASE m < r
  BY <1>3 DEF Has
<1>4. CASE r <= m /\ m < start + WindowSize
  <2>1. m \in start .. start + WindowSize - 1 /\ m < r + WindowSize /\ ~(m < r)
    BY <1>1, <1>4, Ring
  <2>2. InUse(ordered, held, early, SlotOf(m)) => r < m /\ (ordered => held[SlotOf(m)] = m)
    BY <1>1, <2>1
  <2>. QED BY <1>2, <1>4, <2>1, <2>2 DEF Has, InUse
<1>5. CASE start + WindowSize <= m /\ m < r + WindowSize
  <2>. DEFINE k == m - WindowSize
  <2>1. k \in start .. start + WindowSize - 1 /\ ~(r < k) /\ SlotOf(k) = SlotOf(m)
    <3>1. SlotOf(k) = SlotOf(m)
      BY SlotTurns
    <3>. QED BY <1>1, <1>5, <3>1, Ring
  <2>. HIDE DEF k
  <2>2. ~InUse(ordered, held, early, SlotOf(m))
    BY <1>1, <2>1
  <2>3. ~(m < r) /\ ~(m < start + WindowSize)
    BY <1>1, <1>5, Ring
  <2>. QED BY <1>2, <2>2, <2>3 DEF Has, InUse
<1>6. CASE r + WindowSize <= m
  <2>1. ~(m < r) /\ ~(m < r + WindowSize) /\ ~(m < start + WindowSize)
    BY <1>1, <1>6, Ring
  <2>. QED BY <2>1 DEF Has
<1>. QED BY <1>1, <1>3, <1>4, <1>5, <1>6, Ring

\* The window moves on over packets that were passed in sequence.
LEMMA SlideIsSound ==
    ASSUME NEW ordered \in BOOLEAN, NEW held \in Held, NEW early \in Early, NEW bits,
           NEW r \in Nat, NEW start \in Nat, NEW l \in Nat,
           ReceiverIsSound(ordered, held, early, bits, r, start, l),
           NEW shift \in 0 .. WindowSize, start + shift <= r
    PROVE  ReceiverIsSound(ordered, held, early,
              bits \ {SlotOf(start + j) : j \in 0 .. shift - 1}, r, start + shift, l)
<1>. DEFINE gone == {SlotOf(start + j) : j \in 0 .. shift - 1}
            after == start + shift
<1>1. /\ start <= r /\ r <= start + WindowSize /\ r <= l
      /\ \A m \in start .. start + WindowSize - 1 :
            InUse(ordered, held, early, SlotOf(m)) => r < m /\ m < l /\ (ordered => held[SlotOf(m)] = m)
      /\ \A m \in start .. start + WindowSize - 1 :
            SlotOf(m) \in bits <=> m < r \/ InUse(ordered, held, early, SlotOf(m))
  BY DEF ReceiverIsSound
<1>2. shift \in Nat /\ after \in Nat /\ WindowSize \in Nat /\ after <= r /\ r <= after + WindowSize
  BY <1>1, Ring
<1>3. ASSUME NEW m \in after .. after + WindowSize - 1
      PROVE  /\ InUse(ordered, held, early, SlotOf(m)) =>
                   r < m /\ m < l /\ (ordered => held[SlotOf(m)] = m)
             /\ SlotOf(m) \in bits \ gone <=> m < r \/ InUse(ordered, held, early, SlotOf(m))
  <2>1. CASE m < start + WindowSize
    <3>1. m \in start .. start + WindowSize - 1
      BY <1>2, <2>1
    <3>2. SlotOf(m) \notin gone
      <4>. SUFFICES ASSUME NEW j \in 0 .. shift - 1, SlotOf(m) = SlotOf(start + j) PROVE FALSE
        OBVIOUS
      <4>. DEFINE k == start + j
      <4>1. k \in Int /\ m \in Int /\ m - k < WindowSize /\ k - m < WindowSize /\ m # k
        BY <1>2, <2>1
      <4>. HIDE DEF k
      <4>2. SlotOf(m) # SlotOf(k)
        BY <4>1, SlotsDiffer
      <4>. QED BY <4>2 DEF k
    <3>. QED BY <1>1, <3>1, <3>2
  <2>2. CASE start + WindowSize <= m
    <3>. DEFINE k == m - WindowSize
                j == k - start
    <3>1. k \in start .. start + WindowSize - 1 /\ k < after /\ j \in 0 .. shift - 1 /\ k = start + j
      BY <1>2, <2>2
    <3>2. SlotOf(k) = SlotOf(m)
      BY <1>2, SlotTurns
    <3>. HIDE DEF k, j
    <3>3. SlotOf(m) \in gone
      BY <3>1, <3>2
    <3>4. k \in Int /\ ~(r < k) /\ ~(m < r)
      BY <1>1, <1>2, <2>2, <3>1
    <3>5. ~InUse(ordered, held, early, SlotOf(m))
      BY <1>1, <3>1, <3>2, <3>4
    <3>. QED BY <3>3, <3>4, <3>5
  <2>. QED BY <1>2, <2>1, <2>2
<1>. HIDE DEF gone, after
<1>4. ReceiverIsSound(ordered, held, early, bits \ gone, r, after, l)
  BY <1>1, <1>2, <1>3 DEF ReceiverIsSound
<1>. QED BY <1>4 DEF gone, after

\* A packet beyond the gap is put into its slot.
LEMMA EarlyIsSound ==
    ASSUME NEW ordered \in BOOLEAN, NEW held \in Held, NEW early \in Early, NEW bits \in SUBSET Slot,
           NEW r \in Nat, NEW start \in Nat, NEW l \in Nat,
           ReceiverIsSound(ordered, held, early, bits, r, start, l),
           NEW n \in Nat, r < n, n < start + WindowSize, n < l,
           NEW held2 \in Held, NEW early2 \in Early,
           ordered => held2 = [held EXCEPT ![SlotOf(n)] = n],
           ~ordered => early2 = [early EXCEPT ![SlotOf(n)] = TRUE]
    PROVE  ReceiverIsSound(ordered, held2, early2, bits \cup {SlotOf(n)}, r, start, l)
<1>1. /\ start <= r /\ r <= start + WindowSize /\ r <= l
      /\ \A m \in start .. start + WindowSize - 1 :
            InUse(ordered, held, early, SlotOf(m)) => r < m /\ m < l /\ (ordered => held[SlotOf(m)] = m)
      /\ \A m \in start .. start + WindowSize - 1 :
            SlotOf(m) \in bits <=> m < r \/ InUse(ordered, held, early, SlotOf(m))
  BY DEF ReceiverIsSound
<1>2. n # NULL /\ SlotOf(n) \in Slot /\ n \in start .. start + WindowSize - 1
  BY <1>1, SlotTurns, Ring DEF NULL
<1>3. InUse(ordered, held2, early2, SlotOf(n)) /\ (ordered => held2[SlotOf(n)] = n)
  BY <1>2 DEF InUse, Held, Early
<1>4. ASSUME NEW m \in start .. start + WindowSize - 1
      PROVE  /\ InUse(ordered, held2, early2, SlotOf(m)) =>
                   r < m /\ m < l /\ (ordered => held2[SlotOf(m)] = m)
             /\ SlotOf(m) \in bits \cup {SlotOf(n)} <=> m < r \/ InUse(ordered, held2, early2, SlotOf(m))
  <2>1. CASE m = n
    BY <1>2, <1>3, <2>1
  <2>2. CASE m # n
    <3>1. SlotOf(m) # SlotOf(n) /\ SlotOf(m) \in Slot
      <4>1. m \in Int /\ n \in Int /\ m - n < WindowSize /\ n - m < WindowSize
        BY <1>2, Ring
      <4>. QED BY <2>2, <4>1, SlotsDiffer, SlotTurns
    <3>2. (ordered => held2[SlotOf(m)] = held[SlotOf(m)]) /\ (~ordered => early2[SlotOf(m)] = early[SlotOf(m)])
      BY <3>1 DEF Held, Early
    <3>3. InUse(ordered, held2, early2, SlotOf(m)) <=> InUse(ordered, held, early, SlotOf(m))
      BY <3>2 DEF InUse
    <3>. QED BY <1>1, <3>1, <3>2, <3>3
  <2>. QED BY <2>1, <2>2
<1>. QED BY <1>1, <1>4 DEF ReceiverIsSound

\* The receiver has n and whatever it had.
HasMore(ordered, held, early, r, n, held2, early2, r2) ==
    \A m \in Nat : m = n \/ Has(ordered, held, early, r, m) => Has(ordered, held2, early2, r2, m)

\* The receiver has nothing but n and what it had.
HasNoMore(ordered, held, early, r, n, held2, early2, r2) ==
    \A m \in Nat : Has(ordered, held2, early2, r2, m) => m = n \/ Has(ordered, held, early, r, m)

\* With it the receiver has that packet, and what it had, ...
LEMMA EarlyHas ==
    ASSUME NEW ordered \in BOOLEAN, NEW held \in Held, NEW early \in Early, NEW bits \in SUBSET Slot,
           NEW r \in Nat, NEW start \in Nat, NEW l \in Nat,
           ReceiverIsSound(ordered, held, early, bits, r, start, l),
           NEW n \in Nat, r < n, n < start + WindowSize, n < l,
           NEW held2 \in Held, NEW early2 \in Early,
           ordered => held2 = [held EXCEPT ![SlotOf(n)] = n],
           ~ordered => early2 = [early EXCEPT ![SlotOf(n)] = TRUE]
    PROVE  HasMore(ordered, held, early, r, n, held2, early2, r)
<1>. SUFFICES ASSUME NEW m \in Nat, m = n \/ Has(ordered, held, early, r, m)
              PROVE  Has(ordered, held2, early2, r, m)
  BY DEF HasMore
<1>1. ReceiverIsSound(ordered, held2, early2, bits \cup {SlotOf(n)}, r, start, l)
  BY EarlyIsSound
<1>2. InUse(ordered, held2, early2, SlotOf(n))
  BY SlotTurns DEF InUse, Held, Early, NULL
<1>3. ASSUME NEW s \in Slot, InUse(ordered, held, early, s) PROVE InUse(ordered, held2, early2, s)
  <2>1. CASE s = SlotOf(n)
    BY <1>2, <2>1
  <2>2. CASE s # SlotOf(n)
    BY <1>3, <2>2 DEF InUse, Held, Early
  <2>. QED BY <2>1, <2>2
<1>4. m < r \/ (r < m /\ m < start + WindowSize /\ InUse(ordered, held2, early2, SlotOf(m)))
  <2>1. CASE m = n
    BY <1>2, <2>1
  <2>2. CASE Has(ordered, held, early, r, m)
    <3>1. m < r \/ (r < m /\ m < start + WindowSize /\ InUse(ordered, held, early, SlotOf(m)))
      BY <2>2, HasInWindow
    <3>. QED BY <1>3, <3>1, SlotTurns
  <2>. QED BY <2>1, <2>2
<1>. QED BY <1>1, <1>4, HasInWindow

\* ... and nothing else.
LEMMA EarlyGets ==
    ASSUME NEW ordered \in BOOLEAN, NEW held \in Held, NEW early \in Early, NEW bits \in SUBSET Slot,
           NEW r \in Nat, NEW start \in Nat, NEW l \in Nat,
           ReceiverIsSound(ordered, held, early, bits, r, start, l),
           NEW n \in Nat, r < n, n < start + WindowSize, n < l,
           NEW held2 \in Held, NEW early2 \in Early,
           ordered => held2 = [held EXCEPT ![SlotOf(n)] = n],
           ~ordered => early2 = [early EXCEPT ![SlotOf(n)] = TRUE]
    PROVE  HasNoMore(ordered, held, early, r, n, held2, early2, r)
<1>. SUFFICES ASSUME NEW m \in Nat, Has(ordered, held2, early2, r, m), m # n
              PROVE  Has(ordered, held, early, r, m)
  BY DEF HasNoMore
<1>1. ReceiverIsSound(ordered, held2, early2, bits \cup {SlotOf(n)}, r, start, l)
  BY EarlyIsSound
<1>2. start <= r /\ SlotOf(m) \in Slot
  BY SlotTurns DEF ReceiverIsSound
<1>3. m < r \/ (r < m /\ m < start + WindowSize /\ InUse(ordered, held2, early2, SlotOf(m)))
  BY <1>1, HasInWindow
<1>4. CASE m < r
  BY <1>4 DEF Has
<1>5. CASE r < m /\ m < start + WindowSize /\ InUse(ordered, held2, early2, SlotOf(m))
  <2>1. m - n < WindowSize /\ n - m < WindowSize
    BY <1>2, <1>5, Ring
  <2>2. SlotOf(m) # SlotOf(n)
    BY <2>1, SlotsDiffer
  <2>3. InUse(ordered, held, early, SlotOf(m))
    BY <1>2, <1>5, <2>2 DEF InUse, Held, Early
  <2>. QED BY <1>5, <2>3, HasInWindow
<1>. QED BY <1>3, <1>4, <1>5

\* The expected packet comes, and with it run packets that were there behind
\* it: what the slots look like then.
Released(ordered, held, early, r, run, held2, early2) ==
    /\ run \in 0 .. WindowSize
    /\ \A j \in 0 .. run - 1 : InUse(ordered, held, early, SlotOf(r + 1 + j))
    /\ run < WindowSize => ~InUse(ordered, held, early, SlotOf(r + 1 + run))
    /\ held2 = [s \in Slot |->
          IF ordered /\ s \in {SlotOf(r + 1 + j) : j \in 0 .. run - 1} THEN NULL ELSE held[s]]
    /\ early2 = [s \in Slot |->
          IF ~ordered /\ s \in {SlotOf(r + 1 + j) : j \in 0 .. run - 1} THEN FALSE ELSE early[s]]

\* The packets that are released are in the window, and the next one is not
\* there.
LEMMA RunIsSound ==
    ASSUME NEW ordered \in BOOLEAN, NEW held \in Held, NEW early \in Early, NEW bits,
           NEW r \in Nat, NEW start \in Nat, NEW l \in Nat,
           ReceiverIsSound(ordered, held, early, bits, r, start, l),
           r < start + WindowSize, r < l,
           NEW run, NEW held2, NEW early2, Released(ordered, held, early, r, run, held2, early2)
    PROVE  /\ run \in Nat /\ r + 1 + run <= start + WindowSize /\ r + 1 + run <= l
           /\ \A j \in 0 .. run - 1 : ordered => held[SlotOf(r + 1 + j)] = r + 1 + j
           /\ r + 1 + run < start + WindowSize => ~InUse(ordered, held, early, SlotOf(r + 1 + run))
<1>1. /\ start <= r /\ r <= start + WindowSize /\ r <= l
      /\ \A m \in start .. start + WindowSize - 1 :
            InUse(ordered, held, early, SlotOf(m)) => r < m /\ m < l /\ (ordered => held[SlotOf(m)] = m)
  BY DEF ReceiverIsSound
<1>2. /\ run \in Nat /\ run <= WindowSize /\ WindowSize \in Nat \ {0}
      /\ \A j \in 0 .. run - 1 : InUse(ordered, held, early, SlotOf(r + 1 + j))
      /\ run < WindowSize => ~InUse(ordered, held, early, SlotOf(r + 1 + run))
  BY Ring DEF Released
<1>3. ASSUME NEW j \in 0 .. run - 1
      PROVE  /\ r + 1 + j < start + WindowSize /\ r + 1 + j < l
             /\ ordered => held[SlotOf(r + 1 + j)] = r + 1 + j
  <2>. DEFINE m == r + 1 + j
              k == m - WindowSize
  <2>1. m \in Int /\ j \in Nat /\ r < m /\ j < WindowSize
    BY <1>2
  <2>2. InUse(ordered, held, early, SlotOf(m))
    BY <1>2
  <2>3. SlotOf(k) = SlotOf(m)
    BY <2>1, SlotTurns
  <2>4. ~(r < k) /\ (k >= start => k \in start .. start + WindowSize - 1) /\ k \in Int
    BY <1>1, <1>2, <2>1
  <2>. HIDE DEF k
  <2>5. k < start
    BY <1>1, <2>2, <2>3, <2>4
  <2>6. m < start + WindowSize /\ m \in start .. start + WindowSize - 1
    BY <1>1, <1>2, <2>1, <2>5 DEF k
  <2>. HIDE DEF m
  <2>7. m < l /\ (ordered => held[SlotOf(m)] = m)
    BY <1>1, <2>2, <2>6
  <2>. QED BY <2>6, <2>7 DEF m
<1>4. r + 1 + run <= start + WindowSize /\ r + 1 + run <= l
  <2>1. CASE run = 0
    BY <1>1, <1>2, <2>1
  <2>2. CASE run # 0
    <3>. DEFINE j == run - 1
    <3>1. j \in 0 .. run - 1 /\ r + 1 + j = r + run
      BY <1>2, <2>2
    <3>2. r + 1 + j < start + WindowSize /\ r + 1 + j < l
      BY <1>3, <3>1
    <3>. QED BY <1>1, <1>2, <3>1, <3>2
  <2>. QED BY <2>1, <2>2
<1>5. r + 1 + run < start + WindowSize => run < WindowSize
  BY <1>1, <1>2
<1>. QED BY <1>2, <1>3, <1>4, <1>5

\* The loop that follows the next packet passes exactly the packets that came early.
LEMMA NextIsSound ==
    ASSUME NEW ordered \in BOOLEAN, NEW held \in Held, NEW early \in Early, NEW bits,
           NEW r \in Nat, NEW start \in Nat, NEW l \in Nat,
           ReceiverIsSound(ordered, held, early, bits, r, start, l),
           r < start + WindowSize, r < l,
           NEW run, NEW held2, NEW early2, Released(ordered, held, early, r, run, held2, early2)
    PROVE  /\ held2 \in Held /\ early2 \in Early
           /\ ReceiverIsSound(ordered, held2, early2, bits \cup {SlotOf(r)}, r + 1 + run, start, l)
<1>. DEFINE gone == {SlotOf(r + 1 + j) : j \in 0 .. run - 1}
            next == r + 1 + run
<1>1. /\ start <= r /\ r <= start + WindowSize /\ r <= l
      /\ \A m \in start .. start + WindowSize - 1 :
            InUse(ordered, held, early, SlotOf(m)) => r < m /\ m < l /\ (ordered => held[SlotOf(m)] = m)
      /\ \A m \in start .. start + WindowSize - 1 :
            SlotOf(m) \in bits <=> m < r \/ InUse(ordered, held, early, SlotOf(m))
  BY DEF ReceiverIsSound
<1>2. /\ run \in Nat /\ next <= start + WindowSize /\ next <= l
      /\ next < start + WindowSize => ~InUse(ordered, held, early, SlotOf(next))
      /\ WindowSize \in Nat \ {0}
  BY RunIsSound, Ring
<1>3. /\ \A j \in 0 .. run - 1 : InUse(ordered, held, early, SlotOf(r + 1 + j))
      /\ held2 = [s \in Slot |-> IF ordered /\ s \in gone THEN NULL ELSE held[s]]
      /\ early2 = [s \in Slot |-> IF ~ordered /\ s \in gone THEN FALSE ELSE early[s]]
  BY DEF Released
<1>4. held2 \in Held /\ early2 \in Early
  <2>. HIDE DEF gone
  <2>. QED BY <1>3 DEF Held, Early
<1>5. ASSUME NEW s \in Slot
      PROVE  /\ InUse(ordered, held2, early2, s) <=> InUse(ordered, held, early, s) /\ s \notin gone
             /\ InUse(ordered, held2, early2, s) /\ ordered => held2[s] = held[s]
  <2>. HIDE DEF gone
  <2>. QED BY <1>3 DEF InUse
<1>6. ASSUME NEW m \in start .. start + WindowSize - 1
      PROVE  /\ InUse(ordered, held2, early2, SlotOf(m)) =>
                   next < m /\ m < l /\ (ordered => held2[SlotOf(m)] = m)
             /\ SlotOf(m) \in bits \cup {SlotOf(r)} <=>
                   m < next \/ InUse(ordered, held2, early2, SlotOf(m))
  <2>1. m \in Int /\ SlotOf(m) \in Slot /\ next \in Int /\ next > r
    BY <1>2, SlotTurns
  <2>2. SlotOf(m) \in gone <=> r < m /\ m < next
    <3>1. ASSUME NEW j \in 0 .. run - 1, SlotOf(m) = SlotOf(r + 1 + j) PROVE r < m /\ m < next
      <4>. DEFINE k == r + 1 + j
      <4>1. k \in Int /\ r < k /\ k < next /\ m - k < WindowSize /\ k - m < WindowSize
        BY <1>1, <1>2
      <4>2. SlotOf(m) = SlotOf(k)
        BY <3>1
      <4>. HIDE DEF k, next
      <4>3. m = k
        BY <2>1, <4>1, <4>2, SlotsDiffer
      <4>. QED BY <4>1, <4>3
    <3>2. ASSUME r < m, m < next PROVE SlotOf(m) \in gone
      <4>. DEFINE j == m - r - 1
      <4>1. j \in 0 .. run - 1 /\ m = r + 1 + j
        BY <1>2, <3>2
      <4>. HIDE DEF j
      <4>. QED BY <4>1
    <3>. QED BY <3>1, <3>2
  <2>3. SlotOf(m) = SlotOf(r) <=> m = r
    <3>1. m - r < WindowSize /\ r - m < WindowSize /\ r \in Int
      BY <1>1, <1>2
    <3>. QED BY <2>1, <3>1, SlotsDiffer
  <2>4. InUse(ordered, held, early, SlotOf(m)) => m # next
    BY <1>2
  <2>5. r < m /\ m < next => InUse(ordered, held, early, SlotOf(m))
    BY <1>3, <2>2
  <2>6. /\ InUse(ordered, held, early, SlotOf(m)) => r < m /\ m < l /\ (ordered => held[SlotOf(m)] = m)
        /\ SlotOf(m) \in bits <=> m < r \/ InUse(ordered, held, early, SlotOf(m))
    BY <1>1
  <2>7. /\ InUse(ordered, held2, early2, SlotOf(m)) <=>
              InUse(ordered, held, early, SlotOf(m)) /\ SlotOf(m) \notin gone
        /\ InUse(ordered, held2, early2, SlotOf(m)) /\ ordered => held2[SlotOf(m)] = held[SlotOf(m)]
    BY <1>5, <2>1
  <2>. HIDE DEF next, gone
  <2>8. SlotOf(m) \in bits \cup {SlotOf(r)} <=> SlotOf(m) \in bits \/ m = r
    BY <2>3
  <2>. QED BY <2>1, <2>2, <2>4, <2>5, <2>6, <2>7, <2>8
<1>. HIDE DEF next, gone
<1>7. next \in Nat /\ start <= next
  BY <1>1, <1>2 DEF next
<1>8. ReceiverIsSound(ordered, held2, early2, bits \cup {SlotOf(r)}, next, start, l)
  BY <1>2, <1>6, <1>7 DEF ReceiverIsSound
<1>. QED BY <1>4, <1>8 DEF next

\* With the expected packet the receiver has what it had, ...
LEMMA NextHas ==
    ASSUME NEW ordered \in BOOLEAN, NEW held \in Held, NEW early \in Early, NEW bits,
           NEW r \in Nat, NEW start \in Nat, NEW l \in Nat,
           ReceiverIsSound(ordered, held, early, bits, r, start, l),
           r < start + WindowSize, r < l,
           NEW run, NEW held2, NEW early2, Released(ordered, held, early, r, run, held2, early2)
    PROVE  HasMore(ordered, held, early, r, r, held2, early2, r + 1 + run)
<1>. SUFFICES ASSUME NEW m \in Nat, m = r \/ Has(ordered, held, early, r, m)
              PROVE  Has(ordered, held2, early2, r + 1 + run, m)
  BY DEF HasMore
<1>. DEFINE next == r + 1 + run
<1>1. /\ held2 \in Held /\ early2 \in Early
      /\ ReceiverIsSound(ordered, held2, early2, bits \cup {SlotOf(r)}, next, start, l)
  BY NextIsSound
<1>2. run \in Nat /\ next \in Nat /\ r < next /\ start <= r
  <2>1. run \in Nat
    BY RunIsSound
  <2>. QED BY <2>1 DEF ReceiverIsSound
<1>3. m <= r \/ (r < m /\ m < start + WindowSize /\ InUse(ordered, held, early, SlotOf(m)))
  <2>1. CASE m = r
    BY <2>1
  <2>2. CASE Has(ordered, held, early, r, m)
    <3>1. m < r \/ (r < m /\ m < start + WindowSize /\ InUse(ordered, held, early, SlotOf(m)))
      BY <2>2, HasInWindow
    <3>. QED BY <3>1
  <2>. QED BY <2>1, <2>2
<1>4. CASE m < next
  BY <1>4 DEF Has
<1>5. CASE next <= m
  <2>1. m \in start .. start + WindowSize - 1 /\ InUse(ordered, held, early, SlotOf(m))
    BY <1>2, <1>3, <1>5, Ring
  <2>2. SlotOf(m) \in bits
    BY <2>1 DEF ReceiverIsSound
  <2>3. m < next \/ InUse(ordered, held2, early2, SlotOf(m))
    <3>. HIDE DEF next
    <3>1. SlotOf(m) \in bits \cup {SlotOf(r)}
      BY <2>2
    <3>. QED BY <1>1, <2>1, <3>1 DEF ReceiverIsSound
  <2>4. m # next
    <3>1. next < start + WindowSize => ~InUse(ordered, held, early, SlotOf(next))
      BY RunIsSound
    <3>2. m < start + WindowSize
      BY <1>2, <2>1, Ring
    <3>. HIDE DEF next
    <3>. QED BY <2>1, <3>1, <3>2
  <2>5. next < m /\ InUse(ordered, held2, early2, SlotOf(m)) /\ m < start + WindowSize
    BY <1>2, <1>5, <2>1, <2>3, <2>4, Ring
  <2>. HIDE DEF next
  <2>6. Has(ordered, held2, early2, next, m)
    BY <1>1, <1>2, <2>5, HasInWindow
  <2>. QED BY <2>6 DEF next
<1>. QED BY <1>2, <1>4, <1>5

\* ... and nothing else: the packets that are released were there.
LEMMA NextGets ==
    ASSUME NEW ordered \in BOOLEAN, NEW held \in Held, NEW early \in Early, NEW bits,
           NEW r \in Nat, NEW start \in Nat, NEW l \in Nat,
           ReceiverIsSound(ordered, held, early, bits, r, start, l),
           r < start + WindowSize, r < l,
           NEW run, NEW held2, NEW early2, Released(ordered, held, early, r, run, held2, early2)
    PROVE  HasNoMore(ordered, held, early, r, r, held2, early2, r + 1 + run)
<1>. SUFFICES ASSUME NEW m \in Nat, Has(ordered, held2, early2, r + 1 + run, m), m # r
              PROVE  Has(ordered, held, early, r, m)
  BY DEF HasNoMore
<1>. DEFINE next == r + 1 + run
<1>1. /\ held2 \in Held /\ early2 \in Early
      /\ ReceiverIsSound(ordered, held2, early2, bits \cup {SlotOf(r)}, next, start, l)
  BY NextIsSound
<1>2. run \in Nat /\ next \in Nat /\ r < next /\ next <= start + WindowSize /\ SlotOf(m) \in Slot
  <2>1. run \in Nat /\ next <= start + WindowSize
    BY RunIsSound
  <2>. QED BY <2>1, SlotTurns
<1>3. m < next \/ (next < m /\ m < start + WindowSize /\ InUse(ordered, held2, early2, SlotOf(m)))
  <2>. HIDE DEF next
  <2>1. Has(ordered, held2, early2, next, m)
    BY DEF next
  <2>. QED BY <1>1, <1>2, <2>1, HasInWindow
<1>4. CASE m < r
  BY <1>4 DEF Has
<1>5. CASE r < m /\ m < next
  <2>1. m - r - 1 \in 0 .. run - 1 /\ r + 1 + (m - r - 1) = m
    BY <1>2, <1>5
  <2>2. InUse(ordered, held, early, SlotOf(m))
    BY <2>1 DEF Released
  <2>3. m < start + WindowSize
    BY <1>2, <1>5, Ring
  <2>. QED BY <1>5, <2>2, <2>3, HasInWindow
<1>6. CASE next < m /\ m < start + WindowSize /\ InUse(ordered, held2, early2, SlotOf(m))
  <2>1. r < m
    BY <1>2, <1>6
  <2>2. /\ held2[SlotOf(m)] # NULL => held2[SlotOf(m)] = held[SlotOf(m)]
        /\ early2[SlotOf(m)] => early[SlotOf(m)]
    BY <1>2 DEF Released, Early
  <2>3. InUse(ordered, held, early, SlotOf(m))
    BY <1>6, <2>2 DEF InUse
  <2>. QED BY <1>6, <2>1, <2>3, HasInWindow
<1>. QED BY <1>2, <1>3, <1>4, <1>5, <1>6
-----------------------------------------------------------------------------
(* The invariant. *)

Local(p) == unwrapped[p].local
LocalStart(p) == unwrapped[p].localStart
Remote(q) == unwrapped[q].remote
RemoteStart(q) == unwrapped[q].remoteStart

\* The counters of an end are the unwrapped ones modulo MaxSequence.
CountersWrap(p) ==
    /\ m_local_sequence[p] = Local(p) % MaxSequence
    /\ m_local_window_start[p] = LocalStart(p) % MaxSequence
    /\ m_remote_sequence[p] = Remote(p) % MaxSequence
    /\ m_remote_window_start[p] = RemoteStart(p) % MaxSequence
    /\ m_outgoing_acks[p].seq = RemoteStart(p) % MaxSequence

\* The outgoing queue has the messages that have no number yet.
QueueIsNumbered(p) ==
    /\ submitted[p] = Local(p) + Len(m_outgoing_queue[p])
    /\ \A i \in 1 .. Len(m_outgoing_queue[p]) : m_outgoing_queue[p][i] = Local(p) + i - 1

\* Of the direction from p to q: the counters, ...
CountersMeet(p, q) ==
    /\ RemoteStart(q) <= LocalStart(p)
    /\ LocalStart(p) <= Remote(q)
    /\ Remote(q) <= Local(p)
    /\ Local(p) <= LocalStart(p) + WindowSize

\* ... the slots of the sender's window, of which one whose packet was
\* confirmed or has no number yet is free, ...
PendingIsTrue(p, q) ==
    \A m \in LocalStart(p) .. LocalStart(p) + WindowSize - 1 :
        \/ /\ m_pending_packets[p][SlotOf(m)].number = NULL
           /\ m < Local(p) => Received(q, m)
        \/ /\ m_pending_packets[p][SlotOf(m)].number = m
           /\ m_pending_packets[p][SlotOf(m)].seq = m % MaxSequence
           /\ m < Local(p)

\* ... the receiver's window, ...
WindowIsTrue(p, q) ==
    ReceiverIsSound(m_ordered, m_received_packets[q], m_early_received[q], m_outgoing_acks[q].bits,
                    Remote(q), RemoteStart(q), Local(p))

\* ... the datagrams on their way, ...
PacketsAreTrue(p, q) ==
    \A d \in packets[q] :
        d.seq = d.number % MaxSequence /\ d.number < Local(p) /\ Local(p) <= d.number + MaxAge

AckIsTrue(p, q, a) ==
    /\ a.seq = a.number % MaxSequence
    /\ a.number <= RemoteStart(q)
    /\ Local(p) <= a.number + MaxAge
    /\ \A m \in a.number .. a.number + WindowSize - 1 : SlotOf(m) \in a.bits => Received(q, m)

\* ... and what was delivered.
ReleasedIsTrue(p, q) ==
    IF m_ordered
    THEN released[q] = [i \in 1 .. Remote(q) |-> i - 1]
    ELSE \A i \in DOMAIN released[q] : Received(q, released[q][i])

Direction(p, q) ==
    /\ CountersMeet(p, q) /\ PendingIsTrue(p, q) /\ WindowIsTrue(p, q) /\ PacketsAreTrue(p, q)
    /\ \A a \in acks[p] : AckIsTrue(p, q, a)
    /\ ReleasedIsTrue(p, q)

IInv ==
    /\ TypeOK
    /\ \A p \in Peer : CountersWrap(p) /\ QueueIsNumbered(p) /\ Direction(p, Other(p))

\* The types of what the invariant speaks of.
LEMMA DirectionTypes ==
    ASSUME TypeOK, NEW p \in Peer
    PROVE  /\ {Local(p), LocalStart(p), Remote(p), RemoteStart(p)} \subseteq Nat
           /\ m_ordered \in BOOLEAN
           /\ m_received_packets[p] \in Held /\ m_early_received[p] \in Early
           /\ m_outgoing_acks[p].bits \in SUBSET Slot
           /\ \A d \in packets[p] : d.number \in Nat
           /\ \A a \in acks[p] : a.number \in Nat /\ a.bits \in SUBSET Slot
           /\ submitted[p] \in Nat /\ m_outgoing_queue[p] \in Seq(Nat) /\ Len(m_outgoing_queue[p]) \in Nat
           /\ released[p] \in Seq(Nat)
<1>1. {Local(p), LocalStart(p), Remote(p), RemoteStart(p)} \subseteq Nat
  BY DEF TypeOK, Local, LocalStart, Remote, RemoteStart
<1>2. m_received_packets[p] \in Held /\ m_early_received[p] \in Early
  BY DEF TypeOK, Held, Early
<1>3. /\ m_ordered \in BOOLEAN /\ m_outgoing_acks[p].bits \in SUBSET Slot
      /\ \A d \in packets[p] : d.number \in Nat
      /\ \A a \in acks[p] : a.number \in Nat /\ a.bits \in SUBSET Slot
      /\ submitted[p] \in Nat
  BY DEF TypeOK
<1>. QED BY <1>1, <1>2, <1>3, TypesAt

\* The same after a step.
LEMMA DirectionTypesAfter ==
    ASSUME TypeOK', NEW p \in Peer
    PROVE  /\ {Local(p)', LocalStart(p)', Remote(p)', RemoteStart(p)'} \subseteq Nat
           /\ m_ordered' \in BOOLEAN
           /\ m_received_packets'[p] \in Held /\ m_early_received'[p] \in Early
           /\ m_outgoing_acks'[p].bits \in SUBSET Slot
           /\ \A d \in packets'[p] : d.number \in Nat
           /\ \A a \in acks'[p] : a.number \in Nat /\ a.bits \in SUBSET Slot
<1>1. {Local(p)', LocalStart(p)', Remote(p)', RemoteStart(p)'} \subseteq Nat
  BY DEF TypeOK, Local, LocalStart, Remote, RemoteStart
<1>2. m_received_packets'[p] \in Held /\ m_early_received'[p] \in Early
  BY DEF TypeOK, Held, Early
<1>3. /\ m_ordered' \in BOOLEAN /\ m_outgoing_acks'[p].bits \in SUBSET Slot
      /\ \A d \in packets'[p] : d.number \in Nat
      /\ \A a \in acks'[p] : a.number \in Nat /\ a.bits \in SUBSET Slot
  BY DEF TypeOK
<1>. QED BY <1>1, <1>2, <1>3

\* Received, said of the counters without wrap.
LEMMA ReceivedIsHas ==
    ASSUME NEW q \in Peer, NEW m
    PROVE  /\ Received(q, m) <=>
                 Has(m_ordered, m_received_packets[q], m_early_received[q], Remote(q), m)
           /\ Received(q, m)' <=>
                 Has(m_ordered', m_received_packets'[q], m_early_received'[q], Remote(q)', m)
BY DEF Received, Has, Remote

\* A step that leaves the sender's half of a direction alone.
SenderSame(p) ==
    /\ m_local_sequence'[p] = m_local_sequence[p]
    /\ m_local_window_start'[p] = m_local_window_start[p]
    /\ \A s \in Slot : /\ m_pending_packets'[p][s].number = m_pending_packets[p][s].number
                       /\ m_pending_packets'[p][s].seq = m_pending_packets[p][s].seq
    /\ Local(p)' = Local(p) /\ LocalStart(p)' = LocalStart(p)

\* A step that leaves the receiver's half alone.
ReceiverSame(q) ==
    /\ m_ordered' = m_ordered
    /\ m_remote_sequence'[q] = m_remote_sequence[q]
    /\ m_remote_window_start'[q] = m_remote_window_start[q]
    /\ m_outgoing_acks'[q] = m_outgoing_acks[q]
    /\ m_received_packets'[q] = m_received_packets[q]
    /\ m_early_received'[q] = m_early_received[q]
    /\ released'[q] = released[q]
    /\ Remote(q)' = Remote(q) /\ RemoteStart(q)' = RemoteStart(q)

\* What the receiver has is never lost again.
Grows(q) == \A m \in Nat : Received(q, m) => Received(q, m)'

\* An ack stays true while the receiver has more and more.
LEMMA AckStaysTrue ==
    ASSUME TypeOK, TypeOK', NEW p \in Peer, NEW q \in Peer, NEW a, a.number \in Nat,
           AckIsTrue(p, q, a), Local(p)' = Local(p), RemoteStart(q) <= RemoteStart(q)', Grows(q)
    PROVE  AckIsTrue(p, q, a)'
<1>1. RemoteStart(q) \in Nat /\ RemoteStart(q)' \in Nat /\ Local(p) \in Nat
  BY DirectionTypes, DirectionTypesAfter
<1>2. ASSUME NEW m \in a.number .. a.number + WindowSize - 1, SlotOf(m) \in a.bits
      PROVE  Received(q, m)'
  <2>1. Received(q, m)
    BY <1>2 DEF AckIsTrue
  <2>2. m \in Nat
    BY Ring
  <2>. QED BY <2>1, <2>2 DEF Grows
<1>3. /\ a.seq = a.number % MaxSequence /\ a.number <= RemoteStart(q)'
      /\ Local(p)' <= a.number + MaxAge
  BY <1>1 DEF AckIsTrue
<1>. QED BY <1>2, <1>3 DEF AckIsTrue

\* A step of the receiver of a direction.
LEMMA ReceiverMoves ==
    ASSUME TypeOK, TypeOK', NEW p \in Peer, NEW q \in Peer, Direction(p, q),
           SenderSame(p), Grows(q), WindowIsTrue(p, q)', ReleasedIsTrue(p, q)',
           RemoteStart(q) <= RemoteStart(q)', RemoteStart(q)' <= LocalStart(p), Remote(q) <= Remote(q)',
           packets'[q] \subseteq packets[q], \A a \in acks'[p] : a \in acks[p] \/ AckIsTrue(p, q, a)
    PROVE  Direction(p, q)'
<1>1. /\ {Local(p), LocalStart(p), Remote(q), RemoteStart(q)} \subseteq Nat
      /\ {Remote(q)', RemoteStart(q)'} \subseteq Nat
      /\ Local(p)' = Local(p) /\ LocalStart(p)' = LocalStart(p)
  BY DirectionTypes, DirectionTypesAfter DEF SenderSame
<1>2. CountersMeet(p, q)'
  <2>1. Remote(q)' <= Local(p)'
    BY DEF WindowIsTrue, ReceiverIsSound
  <2>2. LocalStart(p) <= Remote(q) /\ Local(p) <= LocalStart(p) + WindowSize
    BY DEF Direction, CountersMeet
  <2>3. LocalStart(p)' <= Remote(q)'
    BY <1>1, <2>2
  <2>. QED BY <1>1, <2>1, <2>2, <2>3 DEF CountersMeet
<1>3. PendingIsTrue(p, q)'
  <2>. SUFFICES ASSUME NEW m \in LocalStart(p) .. LocalStart(p) + WindowSize - 1
                PROVE  \/ /\ m_pending_packets'[p][SlotOf(m)].number = NULL
                          /\ m < Local(p) => Received(q, m)'
                       \/ /\ m_pending_packets'[p][SlotOf(m)].number = m
                          /\ m_pending_packets'[p][SlotOf(m)].seq = m % MaxSequence
                          /\ m < Local(p)
    BY <1>1 DEF PendingIsTrue
  <2>1. m \in Nat /\ SlotOf(m) \in Slot
    BY <1>1, SlotTurns, Ring
  <2>2. \/ m_pending_packets[p][SlotOf(m)].number = NULL /\ (m < Local(p) => Received(q, m))
        \/ /\ m_pending_packets[p][SlotOf(m)].number = m
           /\ m_pending_packets[p][SlotOf(m)].seq = m % MaxSequence
           /\ m < Local(p)
    BY DEF Direction, PendingIsTrue
  <2>3. Received(q, m) => Received(q, m)'
    BY <2>1 DEF Grows
  <2>4. /\ m_pending_packets'[p][SlotOf(m)].number = m_pending_packets[p][SlotOf(m)].number
        /\ m_pending_packets'[p][SlotOf(m)].seq = m_pending_packets[p][SlotOf(m)].seq
    BY <2>1 DEF SenderSame
  <2>. QED BY <2>2, <2>3, <2>4
<1>4. PacketsAreTrue(p, q)'
  BY <1>1 DEF PacketsAreTrue, Direction
<1>5. ASSUME NEW a \in acks'[p] PROVE AckIsTrue(p, q, a)'
  <2>1. a.number \in Nat
    BY DirectionTypesAfter
  <2>2. AckIsTrue(p, q, a)
    BY DEF Direction
  <2>. QED BY <1>1, <2>1, <2>2, AckStaysTrue
<1>. QED BY <1>2, <1>3, <1>4, <1>5 DEF Direction

\* A step that leaves both halves alone: datagrams are lost or consumed, and a
\* true ack is sent.
LEMMA DirectionSame ==
    ASSUME TypeOK, TypeOK', NEW p \in Peer, NEW q \in Peer, Direction(p, q),
           SenderSame(p), ReceiverSame(q),
           packets'[q] \subseteq packets[q], \A a \in acks'[p] : a \in acks[p] \/ AckIsTrue(p, q, a)
    PROVE  Direction(p, q)'
<1>1. \A m : Received(q, m)' <=> Received(q, m)
  BY ReceivedIsHas DEF ReceiverSame
<1>2. Grows(q)
  BY <1>1 DEF Grows
<1>3. WindowIsTrue(p, q)'
  <2>1. WindowIsTrue(p, q)
    BY DEF Direction
  <2>. QED BY <2>1 DEF WindowIsTrue, SenderSame, ReceiverSame
<1>4. ReleasedIsTrue(p, q)'
  <2>1. ReleasedIsTrue(p, q)
    BY DEF Direction
  <2>. QED BY <1>1, <2>1 DEF ReleasedIsTrue, ReceiverSame
<1>5. /\ RemoteStart(q) <= RemoteStart(q)' /\ RemoteStart(q)' <= LocalStart(p)
      /\ Remote(q) <= Remote(q)'
  <2>1. RemoteStart(q) <= LocalStart(p) /\ {RemoteStart(q), Remote(q)} \subseteq Nat
    BY DirectionTypes DEF Direction, CountersMeet
  <2>. QED BY <2>1 DEF ReceiverSame
<1>. QED BY <1>2, <1>3, <1>4, <1>5, ReceiverMoves
-----------------------------------------------------------------------------
(* The receiver: process_packet. *)

\* What a datagram of a direction is to the receiver: the wrapped numbers tell
\* its place in the window.
LEMMA Arrives ==
    ASSUME IInv, NEW p \in Peer, NEW q \in Peer, q = Other(p), NEW d \in packets[q]
    PROVE  /\ Relate(q, d) = d.number - RemoteStart(q)
           /\ Acceptable(q, d) => RemoteStart(q) <= d.number
           /\ WindowShift(q, d) = IF d.number < RemoteStart(q) + WindowSize THEN 0
                                  ELSE d.number - RemoteStart(q) - WindowSize + 1
           /\ RemoteStart(q) <= d.number =>
                 /\ WindowShift(q, d) \in 0 .. WindowSize
                 /\ RemoteStart(q) + WindowShift(q, d) <= LocalStart(p)
                 /\ RemoteStart(q) + WindowShift(q, d) <= d.number
                 /\ d.number < RemoteStart(q) + WindowShift(q, d) + WindowSize
<1>. DEFINE n == d.number
            rs == RemoteStart(q)
<1>1. TypeOK /\ Direction(p, q) /\ CountersWrap(q)
  BY DEF IInv
<1>2. /\ n \in Nat /\ rs \in Nat /\ Remote(q) \in Nat /\ LocalStart(p) \in Nat /\ Local(p) \in Nat
  BY <1>1, DirectionTypes
<1>3. /\ rs <= LocalStart(p) /\ LocalStart(p) <= Remote(q) /\ Remote(q) <= Local(p)
      /\ Local(p) <= LocalStart(p) + WindowSize /\ Remote(q) <= rs + WindowSize
      /\ d.seq = n % MaxSequence /\ n < Local(p) /\ Local(p) <= n + MaxAge
      /\ m_remote_window_start[q] = rs % MaxSequence
  BY <1>1 DEF Direction, CountersMeet, WindowIsTrue, ReceiverIsSound, PacketsAreTrue, CountersWrap
<1>. HIDE DEF n, rs
<1>4. n - rs < HALF_MAX_SEQUENCE /\ rs - n <= HALF_MAX_SEQUENCE /\ n \in Int /\ rs \in Int
  BY <1>2, <1>3, Ring
<1>5. Relate(q, d) = n - rs
  <2>1. relative_sequence_number(n % MaxSequence, rs % MaxSequence) = n - rs
    BY <1>4, RelativeIsDifference
  <2>. QED BY <1>3, <2>1 DEF Relate
<1>6. Acceptable(q, d) => rs <= n
  BY <1>2, <1>5 DEF Acceptable
<1>7. WindowShift(q, d) = IF n < rs + WindowSize THEN 0 ELSE n - rs - WindowSize + 1
  BY <1>2, <1>5, Ring DEF WindowShift
<1>8. rs <= n =>
         /\ WindowShift(q, d) \in 0 .. WindowSize
         /\ rs + WindowShift(q, d) <= LocalStart(p)
         /\ rs + WindowShift(q, d) <= n
         /\ n < rs + WindowShift(q, d) + WindowSize
  BY <1>2, <1>3, <1>7, Ring
<1>. QED BY <1>5, <1>6, <1>7, <1>8 DEF n, rs

\* The receiver's window after the datagram has moved it.
Start(q, d) == RemoteStart(q) + WindowShift(q, d)

\* The window of the receiver after an acceptable packet, which may have moved it: the
\* packet lies in it, and what the receiver holds is what it held.
LEMMA Slides ==
    ASSUME IInv, NEW p \in Peer, NEW q \in Peer, q = Other(p), NEW d \in packets[q], Acceptable(q, d)
    PROVE  /\ d.number \in Nat /\ d.seq = d.number % MaxSequence /\ d.number < Local(p)
           /\ SlotOf(d.seq) = SlotOf(d.number) /\ SlotOf(d.number) \in Slot
           /\ Start(q, d) \in Nat /\ WindowShift(q, d) \in 0 .. WindowSize
           /\ Start(q, d) <= d.number /\ d.number < Start(q, d) + WindowSize
           /\ RemoteStart(q) <= Start(q, d) /\ Start(q, d) <= LocalStart(p)
           /\ KeptBits(q, d) \in SUBSET Slot
           /\ ReceiverIsSound(m_ordered, m_received_packets[q], m_early_received[q], KeptBits(q, d),
                              Remote(q), Start(q, d), Local(p))
<1>. DEFINE rs == RemoteStart(q)
            shift == WindowShift(q, d)
<1>1. TypeOK /\ Direction(p, q) /\ CountersWrap(q)
  BY DEF IInv
<1>2. /\ d.number \in Nat /\ rs \in Nat /\ Remote(q) \in Nat /\ LocalStart(p) \in Nat /\ Local(p) \in Nat
      /\ m_ordered \in BOOLEAN /\ m_received_packets[q] \in Held /\ m_early_received[q] \in Early
      /\ m_outgoing_acks[q].bits \in SUBSET Slot
  BY <1>1, DirectionTypes
<1>3. /\ shift \in 0 .. WindowSize /\ rs + shift <= LocalStart(p) /\ rs + shift <= d.number
      /\ d.number < rs + shift + WindowSize
  BY Arrives
<1>4. /\ d.seq = d.number % MaxSequence /\ d.number < Local(p) /\ LocalStart(p) <= Remote(q)
      /\ m_remote_window_start[q] = rs % MaxSequence
      /\ ReceiverIsSound(m_ordered, m_received_packets[q], m_early_received[q],
                         m_outgoing_acks[q].bits, Remote(q), rs, Local(p))
  BY <1>1 DEF Direction, CountersMeet, WindowIsTrue, PacketsAreTrue, CountersWrap
<1>5. SlotOf(d.seq) = SlotOf(d.number) /\ SlotOf(d.number) \in Slot
  BY <1>2, <1>4, SlotOfWrapped
<1>6. KeptBits(q, d) = m_outgoing_acks[q].bits \ {SlotOf(rs + j) : j \in 0 .. shift - 1}
  <2>1. \A j \in 0 .. shift - 1 : SlotOf(Advance(m_remote_window_start[q], j)) = SlotOf(rs + j)
    <3>. SUFFICES ASSUME NEW j \in 0 .. shift - 1
                  PROVE  SlotOf(Advance(rs % MaxSequence, j)) = SlotOf(rs + j)
      BY <1>4
    <3>1. j \in Int /\ rs \in Int
      BY <1>2
    <3>. HIDE DEF rs
    <3>. QED BY <3>1, SlotOfAdvance
  <2>. HIDE DEF rs
  <2>. QED BY <2>1 DEF KeptBits
<1>7. rs + shift <= Remote(q) /\ shift \in Nat
  BY <1>2, <1>3, <1>4, Ring
<1>. HIDE DEF rs, shift
<1>8. ReceiverIsSound(m_ordered, m_received_packets[q], m_early_received[q],
         m_outgoing_acks[q].bits \ {SlotOf(rs + j) : j \in 0 .. shift - 1}, Remote(q), rs + shift, Local(p))
  BY <1>2, <1>3, <1>4, <1>7, SlideIsSound
<1>9. rs + shift \in Nat /\ rs <= rs + shift
  BY <1>2, <1>7
<1>. QED BY <1>2, <1>3, <1>4, <1>5, <1>6, <1>8, <1>9 DEF rs, shift, Start

\* What every acceptable packet changes, at the receiver ...
LEMMA AcceptFacts ==
    ASSUME IInv, NEW p \in Peer, NEW q \in Peer, q = Other(p), NEW d \in packets[q],
           AcceptIntoWindow(q, d)
    PROVE  /\ m_ordered' = m_ordered
           /\ m_remote_window_start'[q] = Start(q, d) % MaxSequence
           /\ m_outgoing_acks'[q].seq = Start(q, d) % MaxSequence
           /\ m_outgoing_acks'[q].bits = KeptBits(q, d) \cup {SlotOf(d.number)}
           /\ packets'[q] \subseteq packets[q] /\ packets'[p] = packets[p] /\ acks' = acks
           /\ UNCHANGED sender /\ submitted' = submitted
           /\ m_remote_window_start'[p] = m_remote_window_start[p]
           /\ m_outgoing_acks'[p] = m_outgoing_acks[p]
<1>1. TypeOK /\ CountersWrap(q) /\ Acceptable(q, d) /\ p # q
  BY OtherOther DEF IInv, AcceptIntoWindow
<1>2. Start(q, d) \in Nat /\ WindowShift(q, d) \in 0 .. WindowSize /\ SlotOf(d.seq) = SlotOf(d.number)
  BY <1>1, Slides
<1>3. RemoteStart(q) \in Int /\ WindowShift(q, d) \in Int /\ WindowShift(q, d) >= 0
  <2>1. RemoteStart(q) \in Nat
    BY <1>1, DirectionTypes
  <2>. QED BY <1>2, <2>1, Ring
<1>4. Advance(m_remote_window_start[q], WindowShift(q, d)) = Start(q, d) % MaxSequence
  <2>1. m_remote_window_start[q] = RemoteStart(q) % MaxSequence
    BY <1>1 DEF CountersWrap
  <2>. QED BY <1>3, <2>1, SlotOfAdvance DEF Start
<1>5. WindowShift(q, d) = 0 => m_outgoing_acks[q].seq = Start(q, d) % MaxSequence
  <2>1. m_outgoing_acks[q].seq = RemoteStart(q) % MaxSequence
    BY <1>1 DEF CountersWrap
  <2>2. WindowShift(q, d) = 0 => Start(q, d) = RemoteStart(q)
    BY <1>3 DEF Start
  <2>. QED BY <2>1, <2>2
<1>6. /\ m_outgoing_acks \in [Peer -> [seq : Sequence, bits : SUBSET Slot]]
      /\ m_remote_window_start \in [Peer -> Sequence]
  BY <1>1 DEF TypeOK, Sequence
<1>7. /\ m_remote_window_start' = [m_remote_window_start EXCEPT ![q] = Start(q, d) % MaxSequence]
      /\ m_outgoing_acks' = [m_outgoing_acks EXCEPT ![q] =
            [seq |-> IF WindowShift(q, d) > 0 THEN Start(q, d) % MaxSequence ELSE @.seq,
             bits |-> KeptBits(q, d) \cup {SlotOf(d.number)}]]
  BY <1>2, <1>4 DEF AcceptIntoWindow
<1>8. packets'[q] \subseteq packets[q] /\ packets'[p] = packets[p]
  <2>1. packets' = packets \/ packets' = [packets EXCEPT ![q] = @ \ {d}]
    BY DEF AcceptIntoWindow, Consume
  <2>2. packets \in [Peer -> SUBSET DataPacket]
    BY <1>1 DEF TypeOK, DataPacket, Sequence
  <2>. QED BY <1>1, <2>1, <2>2
<1>9. UNCHANGED <<m_ordered, sender, acks, submitted>>
  BY DEF AcceptIntoWindow
<1>10. m_outgoing_acks'[q].seq = Start(q, d) % MaxSequence
  BY <1>3, <1>5, <1>6, <1>7
<1>. QED BY <1>1, <1>6, <1>7, <1>8, <1>9, <1>10

\* ... and what follows for the rest, once the receiver's half is sound.
LEMMA ReceiveInv ==
    ASSUME IInv, TypeOK', NEW p \in Peer, NEW q \in Peer, q = Other(p), p = Other(q),
           NEW d \in packets[q], AcceptIntoWindow(q, d),
           RemoteStart(q)' = Start(q, d), Remote(q) <= Remote(q)',
           m_remote_sequence'[q] = Remote(q)' % MaxSequence,
           Local(q)' = Local(q), LocalStart(q)' = LocalStart(q), unwrapped'[p] = unwrapped[p],
           m_remote_sequence'[p] = m_remote_sequence[p],
           m_received_packets'[p] = m_received_packets[p], m_early_received'[p] = m_early_received[p],
           released'[p] = released[p],
           Grows(q), ReleasedIsTrue(p, q)', WindowIsTrue(p, q)'
    PROVE  IInv'
<1>1. TypeOK /\ Direction(p, q) /\ Direction(q, p)
  BY DEF IInv
<1>2. /\ RemoteStart(q) <= Start(q, d) /\ Start(q, d) <= LocalStart(p)
  BY Slides DEF AcceptIntoWindow
<1>3. /\ m_ordered' = m_ordered
      /\ m_remote_window_start'[q] = Start(q, d) % MaxSequence
      /\ m_outgoing_acks'[q].seq = Start(q, d) % MaxSequence
      /\ packets'[q] \subseteq packets[q] /\ packets'[p] = packets[p] /\ acks' = acks
      /\ UNCHANGED sender /\ submitted' = submitted
      /\ m_remote_window_start'[p] = m_remote_window_start[p]
      /\ m_outgoing_acks'[p] = m_outgoing_acks[p]
  BY AcceptFacts
<1>4. /\ Local(p)' = Local(p) /\ LocalStart(p)' = LocalStart(p)
      /\ Remote(p)' = Remote(p) /\ RemoteStart(p)' = RemoteStart(p)
  BY DEF Local, LocalStart, Remote, RemoteStart
<1>5. SenderSame(p) /\ SenderSame(q)
  BY <1>3, <1>4 DEF SenderSame, sender
<1>6. Direction(p, q)'
  BY <1>1, <1>2, <1>3, <1>5, ReceiverMoves
<1>7. Direction(q, p)'
  BY <1>1, <1>3, <1>4, <1>5, DirectionSame DEF ReceiverSame
<1>8. CountersWrap(p)' /\ CountersWrap(q)'
  <2>1. CountersWrap(p) /\ CountersWrap(q)
    BY DEF IInv
  <2>. QED BY <2>1, <1>3, <1>4 DEF CountersWrap, sender
<1>9. QueueIsNumbered(p)' /\ QueueIsNumbered(q)'
  <2>1. QueueIsNumbered(p) /\ QueueIsNumbered(q)
    BY DEF IInv
  <2>. QED BY <2>1, <1>3, <1>4 DEF QueueIsNumbered, sender
<1>. QED BY <1>6, <1>7, <1>8, <1>9, OtherOther DEF IInv

\* What was delivered, in terms of the values.
LEMMA ReleasedIsHas ==
    ASSUME NEW p \in Peer, NEW q \in Peer
    PROVE  /\ ~m_ordered => (ReleasedIsTrue(p, q) <=> \A i \in DOMAIN released[q] :
                 Has(m_ordered, m_received_packets[q], m_early_received[q], Remote(q), released[q][i]))
           /\ ~m_ordered' => (ReleasedIsTrue(p, q)' <=> \A i \in DOMAIN released'[q] :
                 Has(m_ordered', m_received_packets'[q], m_early_received'[q], Remote(q)', released'[q][i]))
BY DEF ReleasedIsTrue, Received, Has, Remote

\* The elements of a sequence with one more.
LEMMA AppendElements ==
    ASSUME NEW s \in Seq(Nat), NEW n \in Nat, NEW i \in DOMAIN Append(s, n)
    PROVE  Append(s, n)[i] = n \/ \E k \in DOMAIN s : Append(s, n)[i] = s[k]
<1>1. i = Len(s) + 1 \/ i \in DOMAIN s
  BY AppendProperties, LenProperties
<1>. QED BY <1>1, AppendProperties, LenProperties

\* A packet only moves the window.
LEMMA WindowMoves ==
    ASSUME TypeOK, NEW p \in Peer, NEW q \in Peer, p # q, NEW d, WindowShift(q, d) \in Nat,
           unwrapped' = [unwrapped EXCEPT ![q].remoteStart = @ + WindowShift(q, d)]
    PROVE  /\ RemoteStart(q)' = Start(q, d) /\ Remote(q)' = Remote(q)
           /\ Local(q)' = Local(q) /\ LocalStart(q)' = LocalStart(q) /\ unwrapped'[p] = unwrapped[p]
<1>1. unwrapped \in [Peer -> Counters]
  BY DEF TypeOK, Counters
<1>. QED BY <1>1 DEF Counters, Local, LocalStart, Remote, RemoteStart, Start

\* A packet that the receiver has already.
LEMMA DuplicateInv ==
    ASSUME IInv, TypeOK', NEW p \in Peer, NEW q \in Peer, q = Other(p), p = Other(q),
           NEW d \in packets[q], duplicate_packet(q, d)
    PROVE  IInv'
<1>1. TypeOK /\ CountersWrap(q) /\ Direction(p, q) /\ p # q
  BY OtherOther DEF IInv
<1>2. AcceptIntoWindow(q, d) /\ Acceptable(q, d) /\ SlotOf(d.seq) \in KeptBits(q, d)
  BY DEF duplicate_packet, AcceptIntoWindow, IsDuplicate
<1>3. /\ SlotOf(d.seq) = SlotOf(d.number) /\ WindowShift(q, d) \in Nat
      /\ ReceiverIsSound(m_ordered, m_received_packets[q], m_early_received[q], KeptBits(q, d),
                         Remote(q), Start(q, d), Local(p))
  <2>1. WindowShift(q, d) \in 0 .. WindowSize /\ WindowSize \in Nat
    BY <1>2, Slides, Ring
  <2>2. WindowShift(q, d) \in Nat
    BY <2>1
  <2>. QED BY <1>2, <2>2, Slides
<1>4. /\ RemoteStart(q)' = Start(q, d) /\ Remote(q)' = Remote(q)
      /\ Local(q)' = Local(q) /\ LocalStart(q)' = LocalStart(q) /\ unwrapped'[p] = unwrapped[p]
  BY <1>1, <1>3, WindowMoves DEF duplicate_packet
<1>5. /\ m_ordered' = m_ordered
      /\ UNCHANGED <<m_remote_sequence, m_received_packets, m_early_received, released>>
      /\ m_outgoing_acks'[q].bits = KeptBits(q, d)
      /\ Local(p)' = Local(p)
  <2>1. m_outgoing_acks'[q].bits = KeptBits(q, d) \cup {SlotOf(d.number)} /\ m_ordered' = m_ordered
    BY <1>2, AcceptFacts
  <2>2. Local(p)' = Local(p)
    BY <1>4 DEF Local
  <2>. QED BY <1>2, <1>3, <2>1, <2>2 DEF duplicate_packet
<1>6. WindowIsTrue(p, q)'
  BY <1>3, <1>4, <1>5 DEF WindowIsTrue
<1>7. \A m : Received(q, m)' <=> Received(q, m)
  BY <1>4, <1>5, ReceivedIsHas
<1>8. Grows(q)
  BY <1>7 DEF Grows
<1>9. ReleasedIsTrue(p, q)'
  <2>1. ReleasedIsTrue(p, q)
    BY <1>1 DEF Direction
  <2>. QED BY <1>4, <1>5, <1>7, <2>1 DEF ReleasedIsTrue
<1>10. m_remote_sequence'[q] = Remote(q)' % MaxSequence /\ Remote(q) <= Remote(q)'
  <2>1. Remote(q) \in Nat
    BY <1>1, DirectionTypes
  <2>. QED BY <1>1, <1>4, <1>5, <2>1 DEF CountersWrap
<1>. QED BY <1>2, <1>4, <1>5, <1>6, <1>8, <1>9, <1>10, ReceiveInv

\* A packet from beyond a gap.
LEMMA EarlyInv ==
    ASSUME IInv, TypeOK', NEW p \in Peer, NEW q \in Peer, q = Other(p), p = Other(q),
           NEW d \in packets[q], early_packet(q, d)
    PROVE  /\ IInv'
           /\ ~m_ordered => /\ released' = [released EXCEPT ![q] = Append(@, d.number)]
                            /\ d.number \in Nat /\ d.number < Local(p) /\ ~Received(q, d.number)
           /\ \A m \in Nat : Received(q, m)' => m = d.number \/ Received(q, m)
<1>. DEFINE n == d.number
<1>1. TypeOK /\ CountersWrap(q) /\ Direction(p, q) /\ p # q
  BY OtherOther DEF IInv
<1>2. AcceptIntoWindow(q, d) /\ Acceptable(q, d) /\ SlotOf(d.seq) \notin KeptBits(q, d)
  BY DEF early_packet, AcceptIntoWindow, IsDuplicate
<1>3. /\ n \in Nat /\ d.seq = n % MaxSequence /\ n < Local(p)
      /\ SlotOf(d.seq) = SlotOf(n) /\ SlotOf(n) \in Slot
      /\ Start(q, d) \in Nat /\ WindowShift(q, d) \in 0 .. WindowSize
      /\ Start(q, d) <= n /\ n < Start(q, d) + WindowSize
      /\ KeptBits(q, d) \in SUBSET Slot
      /\ ReceiverIsSound(m_ordered, m_received_packets[q], m_early_received[q], KeptBits(q, d),
                         Remote(q), Start(q, d), Local(p))
  BY <1>2, Slides
<1>. HIDE DEF n
<1>4. /\ Remote(q) \in Nat /\ Local(p) \in Nat /\ WindowShift(q, d) \in Nat
      /\ m_ordered \in BOOLEAN /\ m_received_packets[q] \in Held /\ m_early_received[q] \in Early
      /\ m_received_packets'[q] \in Held /\ m_early_received'[q] \in Early
      /\ released[q] \in Seq(Nat)
  <2>1. WindowShift(q, d) \in Nat
    BY <1>3, Ring
  <2>. QED BY <1>1, <2>1, DirectionTypes, DirectionTypesAfter
<1>5. Remote(q) < n
  <2>1. n # Remote(q)
    BY <1>1, <1>3 DEF early_packet, CountersWrap
  <2>2. ~(n < Remote(q))
    <3>. SUFFICES ASSUME n < Remote(q) PROVE FALSE
      OBVIOUS
    <3>1. n \in Start(q, d) .. Start(q, d) + WindowSize - 1
      BY <1>3, Ring
    <3>2. SlotOf(n) \in KeptBits(q, d)
      BY <1>3, <3>1 DEF ReceiverIsSound
    <3>. QED BY <1>2, <1>3, <3>2
  <2>. QED BY <1>3, <1>4, <2>1, <2>2
<1>6. ~Received(q, n)
  <2>1. ~(n < Remote(q)) /\ n \in Start(q, d) .. Start(q, d) + WindowSize - 1
    BY <1>3, <1>4, <1>5, Ring
  <2>2. ~InUse(m_ordered, m_received_packets[q], m_early_received[q], SlotOf(n))
    BY <1>2, <1>3, <2>1 DEF ReceiverIsSound
  <2>3. ~Has(m_ordered, m_received_packets[q], m_early_received[q], Remote(q), n)
    BY <1>3, <1>4, <2>1, <2>2, HasInWindow
  <2>. QED BY <2>3, ReceivedIsHas
<1>7. /\ RemoteStart(q)' = Start(q, d) /\ Remote(q)' = Remote(q)
      /\ Local(q)' = Local(q) /\ LocalStart(q)' = LocalStart(q) /\ unwrapped'[p] = unwrapped[p]
  BY <1>1, <1>4, WindowMoves DEF early_packet
<1>8. /\ m_ordered' = m_ordered /\ m_remote_sequence' = m_remote_sequence
      /\ m_outgoing_acks'[q].bits = KeptBits(q, d) \cup {SlotOf(n)}
      /\ Local(p)' = Local(p)
  <2>1. m_outgoing_acks'[q].bits = KeptBits(q, d) \cup {SlotOf(n)} /\ m_ordered' = m_ordered
    BY <1>2, AcceptFacts DEF n
  <2>2. Local(p)' = Local(p)
    BY <1>7 DEF Local
  <2>. QED BY <2>1, <2>2 DEF early_packet
<1>9. /\ m_ordered =>
            /\ m_received_packets' = [m_received_packets EXCEPT ![q][SlotOf(n)] = n]
            /\ UNCHANGED <<m_early_received, released>>
      /\ ~m_ordered =>
            /\ m_early_received' = [m_early_received EXCEPT ![q][SlotOf(n)] = TRUE]
            /\ released' = [released EXCEPT ![q] = Append(@, n)]
            /\ UNCHANGED m_received_packets
  BY <1>3 DEF early_packet, n
<1>10. /\ m_received_packets \in [Peer -> Held] /\ m_early_received \in [Peer -> Early]
       /\ released \in [Peer -> Seq(Nat)]
  BY <1>1 DEF TypeOK, Held, Early
<1>11. /\ m_ordered => m_received_packets'[q] = [m_received_packets[q] EXCEPT ![SlotOf(n)] = n]
       /\ ~m_ordered => m_early_received'[q] = [m_early_received[q] EXCEPT ![SlotOf(n)] = TRUE]
       /\ m_received_packets'[p] = m_received_packets[p] /\ m_early_received'[p] = m_early_received[p]
       /\ released'[p] = released[p]
       /\ m_ordered => released'[q] = released[q]
       /\ ~m_ordered => released'[q] = Append(released[q], n)
  BY <1>1, <1>9, <1>10
<1>12. /\ m_ordered \in BOOLEAN /\ m_received_packets[q] \in Held /\ m_early_received[q] \in Early
       /\ KeptBits(q, d) \in SUBSET Slot
       /\ Remote(q) \in Nat /\ Start(q, d) \in Nat /\ Local(p) \in Nat
       /\ ReceiverIsSound(m_ordered, m_received_packets[q], m_early_received[q], KeptBits(q, d),
                          Remote(q), Start(q, d), Local(p))
       /\ n \in Nat /\ Remote(q) < n /\ n < Start(q, d) + WindowSize /\ n < Local(p)
       /\ m_received_packets'[q] \in Held /\ m_early_received'[q] \in Early
       /\ m_ordered => m_received_packets'[q] = [m_received_packets[q] EXCEPT ![SlotOf(n)] = n]
       /\ ~m_ordered => m_early_received'[q] = [m_early_received[q] EXCEPT ![SlotOf(n)] = TRUE]
  BY <1>3, <1>4, <1>5, <1>11
<1>13. WindowIsTrue(p, q)'
  <2>1. ReceiverIsSound(m_ordered, m_received_packets'[q], m_early_received'[q],
                        KeptBits(q, d) \cup {SlotOf(n)}, Remote(q), Start(q, d), Local(p))
    BY <1>12, EarlyIsSound
  <2>. QED BY <1>7, <1>8, <2>1 DEF WindowIsTrue
<1>14. \A m \in Nat :
          m = n \/ Has(m_ordered, m_received_packets[q], m_early_received[q], Remote(q), m)
             => Has(m_ordered, m_received_packets'[q], m_early_received'[q], Remote(q), m)
  <2>1. HasMore(m_ordered, m_received_packets[q], m_early_received[q], Remote(q), n,
                m_received_packets'[q], m_early_received'[q], Remote(q))
    BY <1>12, EarlyHas
  <2>. QED BY <2>1 DEF HasMore
<1>15. Grows(q)
  BY <1>7, <1>8, <1>14, ReceivedIsHas DEF Grows
<1>16. ReleasedIsTrue(p, q)'
  <2>1. ReleasedIsTrue(p, q)
    BY <1>1 DEF Direction
  <2>2. CASE m_ordered
    BY <1>7, <1>8, <1>11, <2>1, <2>2 DEF ReleasedIsTrue
  <2>3. CASE ~m_ordered
    <3>. SUFFICES ASSUME NEW i \in DOMAIN released'[q]
                  PROVE  Has(m_ordered, m_received_packets'[q], m_early_received'[q], Remote(q), released'[q][i])
      BY <1>7, <1>8, <2>3, ReleasedIsHas
    <3>1. released'[q] = Append(released[q], n)
      BY <1>11, <2>3
    <3>2. released'[q][i] = n \/ \E k \in DOMAIN released[q] : released'[q][i] = released[q][k]
      <4>1. \A k \in DOMAIN Append(released[q], n) : Append(released[q], n)[k] = n
               \/ \E j \in DOMAIN released[q] : Append(released[q], n)[k] = released[q][j]
        BY <1>3, <1>4, AppendElements
      <4>. QED BY <3>1, <4>1
    <3>3. \A k \in DOMAIN released[q] :
             /\ released[q][k] \in Nat
             /\ Has(m_ordered, m_received_packets[q], m_early_received[q], Remote(q), released[q][k])
      BY <1>4, <2>1, <2>3, ReleasedIsHas
    <3>. QED BY <1>3, <1>14, <3>2, <3>3
  <2>. QED BY <2>2, <2>3
<1>17. m_remote_sequence'[q] = Remote(q)' % MaxSequence /\ Remote(q) <= Remote(q)'
  BY <1>1, <1>4, <1>7, <1>8 DEF CountersWrap
<1>18. IInv'
  BY <1>2, <1>7, <1>8, <1>11, <1>13, <1>15, <1>16, <1>17, ReceiveInv
<1>19. \A m \in Nat : Received(q, m)' => m = n \/ Received(q, m)
  <2>1. HasNoMore(m_ordered, m_received_packets[q], m_early_received[q], Remote(q), n,
                  m_received_packets'[q], m_early_received'[q], Remote(q))
    BY <1>12, EarlyGets
  <2>. QED BY <1>7, <1>8, <2>1, ReceivedIsHas DEF HasNoMore
<1>. QED BY <1>3, <1>6, <1>9, <1>18, <1>19 DEF n

\* What the expected packet releases.
LEMMA NextReleases ==
    ASSUME TypeOK, NEW q \in Peer, NEW d \in packets[q], CountersWrap(q), next_packet(q, d)
    PROVE  \E run \in Nat :
              /\ Released(m_ordered, m_received_packets[q], m_early_received[q], Remote(q), run,
                          m_received_packets'[q], m_early_received'[q])
              /\ m_remote_sequence'[q] = Advance(m_remote_sequence[q], 1 + run)
              /\ \A x \in Peer \ {q} : /\ m_remote_sequence'[x] = m_remote_sequence[x]
                                       /\ m_received_packets'[x] = m_received_packets[x]
                                       /\ m_early_received'[x] = m_early_received[x]
              /\ unwrapped' = [unwrapped EXCEPT ![q].remote = @ + 1 + run,
                                                ![q].remoteStart = @ + WindowShift(q, d)]
              /\ released' = [released EXCEPT ![q] = Append(@, d.number) \o
                    (IF m_ordered
                     THEN [i \in 1 .. run |-> m_received_packets[q][SlotOf(Remote(q) + 1 + (i - 1))]]
                     ELSE <<>>)]
<1>. DEFINE r == Remote(q)
            SlotAt(j) == SlotOf(Advance(m_remote_sequence[q], 1 + j))
            offsets == {j \in 0 .. WindowSize - 1 :
                          IF m_ordered THEN m_received_packets[q][SlotAt(j)] # NULL
                                     ELSE m_early_received[q][SlotAt(j)]}
            run == RunLength(offsets)
            freed == {SlotAt(j) : j \in 0 .. run - 1}
<1>1. r \in Nat /\ m_remote_sequence[q] = r % MaxSequence
  BY DirectionTypes DEF CountersWrap
<1>2. \A j \in Int : SlotAt(j) = SlotOf(r + 1 + j)
  <2>. SUFFICES ASSUME NEW j \in Int PROVE SlotAt(j) = SlotOf(r + 1 + j)
    OBVIOUS
  <2>1. 1 + j \in Int /\ r \in Int /\ r + (1 + j) = r + 1 + j
    BY <1>1
  <2>. HIDE DEF r
  <2>2. SlotOf(Advance(r % MaxSequence, 1 + j)) = SlotOf(r + (1 + j))
    BY <2>1, SlotOfAdvance
  <2>. QED BY <1>1, <2>1, <2>2
<1>3. /\ m_remote_sequence' = [m_remote_sequence EXCEPT ![q] = Advance(@, 1 + run)]
      /\ m_received_packets' = [m_received_packets EXCEPT ![q] =
            [s \in Slot |-> IF m_ordered /\ s \in freed THEN NULL ELSE @[s]]]
      /\ m_early_received' = [m_early_received EXCEPT ![q] =
            [s \in Slot |-> IF ~m_ordered /\ s \in freed THEN FALSE ELSE @[s]]]
      /\ released' = [released EXCEPT ![q] = Append(@, d.number) \o
            (IF m_ordered THEN [i \in 1 .. run |-> m_received_packets[q][SlotAt(i - 1)]] ELSE <<>>)]
      /\ unwrapped' = [unwrapped EXCEPT ![q].remote = @ + 1 + run,
                                        ![q].remoteStart = @ + WindowShift(q, d)]
  BY DEF next_packet
<1>4. /\ run \in 0 .. WindowSize /\ run \notin offsets
      /\ \A j \in 0 .. run - 1 : j \in offsets
  <2>1. WindowSize \in 0 .. WindowSize /\ WindowSize \notin offsets
    BY Ring
  <2>. HIDE DEF offsets
  <2>. QED BY <2>1, RunLengthType
<1>5. \A j \in 0 .. WindowSize - 1 :
         j \in offsets <=> InUse(m_ordered, m_received_packets[q], m_early_received[q], SlotOf(r + 1 + j))
  <2>. SUFFICES ASSUME NEW j \in 0 .. WindowSize - 1
                PROVE  j \in offsets <=> InUse(m_ordered, m_received_packets[q], m_early_received[q],
                                               SlotOf(r + 1 + j))
    OBVIOUS
  <2>1. SlotAt(j) = SlotOf(r + 1 + j)
    BY <1>2
  <2>2. j \in offsets <=> IF m_ordered THEN m_received_packets[q][SlotAt(j)] # NULL
                                     ELSE m_early_received[q][SlotAt(j)]
    OBVIOUS
  <2>. HIDE DEF offsets, SlotAt, r
  <2>. QED BY <2>1, <2>2 DEF InUse
<1>. HIDE DEF offsets, run
<1>6. run \in Nat /\ WindowSize \in Nat
  BY <1>4, Ring
<1>7. freed = {SlotOf(r + 1 + j) : j \in 0 .. run - 1}
  BY <1>2, <1>6
<1>8. [i \in 1 .. run |-> m_received_packets[q][SlotAt(i - 1)]]
         = [i \in 1 .. run |-> m_received_packets[q][SlotOf(r + 1 + (i - 1))]]
  BY <1>2, <1>6
<1>. HIDE DEF freed, SlotAt
<1>9. /\ m_received_packets'[q] =
            [s \in Slot |-> IF m_ordered /\ s \in freed THEN NULL ELSE m_received_packets[q][s]]
      /\ m_early_received'[q] =
            [s \in Slot |-> IF ~m_ordered /\ s \in freed THEN FALSE ELSE m_early_received[q][s]]
      /\ m_remote_sequence'[q] = Advance(m_remote_sequence[q], 1 + run)
  BY <1>3 DEF TypeOK
<1>10. Released(m_ordered, m_received_packets[q], m_early_received[q], r, run,
                m_received_packets'[q], m_early_received'[q])
  <2>1. \A j \in 0 .. run - 1 : InUse(m_ordered, m_received_packets[q], m_early_received[q], SlotOf(r + 1 + j))
    <3>1. \A j \in 0 .. run - 1 : j \in 0 .. WindowSize - 1
      BY <1>4, <1>6
    <3>. QED BY <1>4, <1>5, <3>1
  <2>2. run < WindowSize => ~InUse(m_ordered, m_received_packets[q], m_early_received[q], SlotOf(r + 1 + run))
    <3>1. run < WindowSize => run \in 0 .. WindowSize - 1
      BY <1>6
    <3>. QED BY <1>4, <1>5, <3>1
  <2>. HIDE DEF r
  <2>. QED BY <1>4, <1>7, <1>9, <2>1, <2>2 DEF Released
<1>11. released' = [released EXCEPT ![q] = Append(@, d.number) \o
          (IF m_ordered
           THEN [i \in 1 .. run |-> m_received_packets[q][SlotOf(r + 1 + (i - 1))]] ELSE <<>>)]
  BY <1>3, <1>8
<1>12. \A x \in Peer \ {q} : /\ m_remote_sequence'[x] = m_remote_sequence[x]
                              /\ m_received_packets'[x] = m_received_packets[x]
                              /\ m_early_received'[x] = m_early_received[x]
  BY <1>3 DEF TypeOK
<1>. QED BY <1>3, <1>6, <1>9, <1>10, <1>11, <1>12

\* The packets in sequence, once the next one and a run behind it are there.
LEMMA InSequenceGrows ==
    ASSUME NEW r \in Nat, NEW run \in Nat, NEW t, t = [i \in 1 .. run |-> r + i]
    PROVE  Append([i \in 1 .. r |-> i - 1], r) \o t = [i \in 1 .. r + 1 + run |-> i - 1]
<1>. DEFINE s == [i \in 1 .. r |-> i - 1]
            u == [i \in 1 .. r + 1 + run |-> i - 1]
<1>1. s \in Seq(Int) /\ Len(s) = r /\ \A i \in 1 .. r : s[i] = i - 1
  OBVIOUS
<1>2. t \in Seq(Int) /\ Len(t) = run /\ \A i \in 1 .. run : t[i] = r + i
  OBVIOUS
<1>3. u \in Seq(Int) /\ Len(u) = r + 1 + run /\ \A i \in 1 .. r + 1 + run : u[i] = i - 1
  OBVIOUS
<1>. HIDE DEF s, u
<1>4. /\ Append(s, r) \in Seq(Int) /\ Len(Append(s, r)) = r + 1
      /\ \A i \in 1 .. r : Append(s, r)[i] = i - 1
      /\ Append(s, r)[r + 1] = r
  BY <1>1, AppendProperties
<1>. DEFINE a == Append(s, r)
<1>. HIDE DEF a
<1>5. /\ a \in Seq(Int) /\ Len(a) = r + 1 /\ \A i \in 1 .. r + 1 : a[i] = i - 1
  <2>1. \A i \in 1 .. r + 1 : i \in 1 .. r \/ i = r + 1
    OBVIOUS
  <2>. QED BY <1>4, <2>1 DEF a
<1>6. /\ a \o t \in Seq(Int) /\ Len(a \o t) = r + 1 + run
      /\ \A i \in 1 .. r + 1 + run : (a \o t)[i] = IF i <= r + 1 THEN a[i] ELSE t[i - (r + 1)]
  <2>1. /\ a \o t \in Seq(Int) /\ Len(a \o t) = Len(a) + Len(t)
        /\ \A i \in 1 .. Len(a) + Len(t) : (a \o t)[i] = IF i <= Len(a) THEN a[i] ELSE t[i - Len(a)]
    BY <1>2, <1>5, ConcatProperties
  <2>2. Len(a) = r + 1 /\ Len(t) = run
    BY <1>2, <1>5
  <2>. QED BY <2>1, <2>2
<1>7. \A i \in 1 .. r + 1 + run : (a \o t)[i] = u[i]
  <2>. SUFFICES ASSUME NEW i \in 1 .. r + 1 + run PROVE (a \o t)[i] = i - 1
    BY <1>3
  <2>1. CASE i <= r + 1
    BY <1>5, <1>6, <2>1
  <2>2. CASE ~(i <= r + 1)
    <3>1. i - (r + 1) \in 1 .. run
      BY <2>2
    <3>. QED BY <1>2, <1>6, <2>2, <3>1
  <2>. QED BY <2>1, <2>2
<1>8. a \o t = u
  BY <1>3, <1>6, <1>7, SeqEqual
<1>. QED BY <1>8 DEF a, s, u

\* The expected packet.
LEMMA NextInv ==
    ASSUME IInv, TypeOK', NEW p \in Peer, NEW q \in Peer, q = Other(p), p = Other(q),
           NEW d \in packets[q], next_packet(q, d)
    PROVE  /\ IInv'
           /\ m_ordered => \E n \in Remote(q) + 1 .. Local(p) :
                 released' = [released EXCEPT ![q] = [i \in 1 .. n |-> i - 1]]
           /\ ~m_ordered => /\ released' = [released EXCEPT ![q] = Append(@, d.number)]
                            /\ d.number \in Nat /\ d.number < Local(p) /\ ~Received(q, d.number)
           /\ \A m \in Nat : Received(q, m)' => m = d.number \/ Received(q, m)
<1>. DEFINE n == d.number
<1>1. TypeOK /\ CountersWrap(q) /\ Direction(p, q) /\ p # q
  BY OtherOther DEF IInv
<1>2. AcceptIntoWindow(q, d) /\ Acceptable(q, d) /\ SlotOf(d.seq) \notin KeptBits(q, d)
      /\ d.seq = m_remote_sequence[q]
  BY DEF next_packet, AcceptIntoWindow, IsDuplicate
<1>3. /\ n \in Nat /\ d.seq = n % MaxSequence /\ n < Local(p)
      /\ SlotOf(d.seq) = SlotOf(n) /\ SlotOf(n) \in Slot
      /\ Start(q, d) \in Nat /\ WindowShift(q, d) \in 0 .. WindowSize
      /\ Start(q, d) <= n /\ n < Start(q, d) + WindowSize
      /\ KeptBits(q, d) \in SUBSET Slot
      /\ ReceiverIsSound(m_ordered, m_received_packets[q], m_early_received[q], KeptBits(q, d),
                         Remote(q), Start(q, d), Local(p))
  BY <1>2, Slides
<1>. HIDE DEF n
<1>4. /\ Remote(q) \in Nat /\ Local(p) \in Nat /\ WindowShift(q, d) \in Nat
      /\ m_ordered \in BOOLEAN /\ m_received_packets[q] \in Held /\ m_early_received[q] \in Early
      /\ released[q] \in Seq(Nat)
  <2>1. WindowShift(q, d) \in Nat
    BY <1>3, Ring
  <2>. QED BY <1>1, <2>1, DirectionTypes
<1>5. n = Remote(q)
  <2>1. Start(q, d) <= Remote(q) /\ Remote(q) <= Start(q, d) + WindowSize
    BY <1>3 DEF ReceiverIsSound
  <2>2. n - Remote(q) < MaxSequence /\ Remote(q) - n < MaxSequence /\ n \in Int /\ Remote(q) \in Int
    <3>1. /\ n \in Nat /\ Remote(q) \in Nat /\ Start(q, d) \in Nat
          /\ Start(q, d) <= n /\ n < Start(q, d) + WindowSize
      BY <1>3, <1>4
    <3>2. WindowSize \in Nat /\ MaxSequence \in Nat /\ WindowSize < MaxSequence
      BY Ring
    <3>. QED BY <2>1, <3>1, <3>2
  <2>3. n % MaxSequence = Remote(q) % MaxSequence
    BY <1>1, <1>2, <1>3 DEF CountersWrap
  <2>. QED BY <2>2, <2>3, ModInjective, Ring
<1>6. PICK run \in Nat :
          /\ Released(m_ordered, m_received_packets[q], m_early_received[q], Remote(q), run,
                      m_received_packets'[q], m_early_received'[q])
          /\ m_remote_sequence'[q] = Advance(m_remote_sequence[q], 1 + run)
          /\ \A x \in Peer \ {q} : /\ m_remote_sequence'[x] = m_remote_sequence[x]
                                   /\ m_received_packets'[x] = m_received_packets[x]
                                   /\ m_early_received'[x] = m_early_received[x]
          /\ unwrapped' = [unwrapped EXCEPT ![q].remote = @ + 1 + run,
                                            ![q].remoteStart = @ + WindowShift(q, d)]
          /\ released' = [released EXCEPT ![q] = Append(@, d.number) \o
                (IF m_ordered
                 THEN [i \in 1 .. run |-> m_received_packets[q][SlotOf(Remote(q) + 1 + (i - 1))]]
                 ELSE <<>>)]
  BY <1>1, NextReleases
<1>. DEFINE next == Remote(q) + 1 + run
<1>7. /\ RemoteStart(q)' = Start(q, d) /\ Remote(q)' = next
      /\ Local(q)' = Local(q) /\ LocalStart(q)' = LocalStart(q) /\ unwrapped'[p] = unwrapped[p]
  <2>1. unwrapped \in [Peer -> Counters]
    BY <1>1 DEF TypeOK, Counters
  <2>. QED BY <1>1, <1>6, <2>1 DEF Counters, Local, LocalStart, Remote, RemoteStart, Start
<1>8. next \in Nat /\ Remote(q) < next /\ next \in Remote(q) + 1 .. Local(p)
      /\ (m_ordered => \A j \in 0 .. run - 1 :
             m_received_packets[q][SlotOf(Remote(q) + 1 + j)] = Remote(q) + 1 + j)
  <2>1. /\ Remote(q) + 1 + run <= Local(p)
        /\ \A j \in 0 .. run - 1 : m_ordered =>
              m_received_packets[q][SlotOf(Remote(q) + 1 + j)] = Remote(q) + 1 + j
    <3>1. Remote(q) < Start(q, d) + WindowSize /\ Remote(q) < Local(p)
      BY <1>3, <1>5
    <3>. QED BY <1>3, <1>4, <1>6, <3>1, RunIsSound
  <2>2. {run, Remote(q), Local(p)} \subseteq Nat
    BY <1>4, <1>6
  <2>. QED BY <2>1, <2>2
<1>9. /\ m_ordered' = m_ordered
      /\ m_outgoing_acks'[q].bits = KeptBits(q, d) \cup {SlotOf(n)}
      /\ Local(p)' = Local(p)
      /\ m_remote_sequence'[p] = m_remote_sequence[p]
      /\ m_received_packets'[p] = m_received_packets[p] /\ m_early_received'[p] = m_early_received[p]
      /\ released'[p] = released[p]
  <2>1. m_outgoing_acks'[q].bits = KeptBits(q, d) \cup {SlotOf(n)} /\ m_ordered' = m_ordered
    BY <1>2, AcceptFacts DEF n
  <2>2. Local(p)' = Local(p)
    BY <1>7 DEF Local
  <2>3. /\ m_remote_sequence'[p] = m_remote_sequence[p]
        /\ m_received_packets'[p] = m_received_packets[p] /\ m_early_received'[p] = m_early_received[p]
    BY <1>1, <1>6
  <2>5. released'[p] = released[p]
    BY <1>1, <1>6 DEF TypeOK
  <2>. QED BY <2>1, <2>2, <2>3, <2>5
<1>10. ReceiverIsSound(m_ordered, m_received_packets'[q], m_early_received'[q],
                       KeptBits(q, d) \cup {SlotOf(Remote(q))}, next, Start(q, d), Local(p))
  BY <1>3, <1>4, <1>5, <1>6, NextIsSound
<1>11. HasMore(m_ordered, m_received_packets[q], m_early_received[q], Remote(q), Remote(q),
               m_received_packets'[q], m_early_received'[q], next)
  BY <1>3, <1>4, <1>5, <1>6, NextHas
<1>. HIDE DEF next
<1>12. WindowIsTrue(p, q)'
  BY <1>5, <1>7, <1>9, <1>10 DEF WindowIsTrue
<1>13. Grows(q)
  BY <1>7, <1>9, <1>11, ReceivedIsHas DEF Grows, HasMore
<1>14. /\ m_ordered => released'[q] = [i \in 1 .. next |-> i - 1]
       /\ ~m_ordered => released'[q] = Append(released[q], n)
  <2>1. CASE m_ordered
    <3>. DEFINE f == [i \in 1 .. run |-> m_received_packets[q][SlotOf(Remote(q) + 1 + (i - 1))]]
    <3>1. released'[q] = Append(released[q], n) \o f
      BY <1>1, <1>6, <2>1 DEF TypeOK, n
    <3>2. \A i \in 1 .. run : f[i] = Remote(q) + i
      <4>. SUFFICES ASSUME NEW i \in 1 .. run PROVE f[i] = Remote(q) + i
        OBVIOUS
      <4>1. i - 1 \in 0 .. run - 1 /\ Remote(q) + 1 + (i - 1) = Remote(q) + i
        BY <1>4, <1>6
      <4>2. m_received_packets[q][SlotOf(Remote(q) + 1 + (i - 1))] = Remote(q) + 1 + (i - 1)
        BY <1>8, <2>1, <4>1
      <4>. QED BY <4>1, <4>2
    <3>3. f = [i \in 1 .. run |-> Remote(q) + i]
      BY <3>2
    <3>. HIDE DEF f
    <3>4. released[q] = [i \in 1 .. Remote(q) |-> i - 1]
      BY <1>1, <2>1 DEF Direction, ReleasedIsTrue
    <3>5. Append([i \in 1 .. Remote(q) |-> i - 1], Remote(q)) \o f
             = [i \in 1 .. Remote(q) + 1 + run |-> i - 1]
      <4>1. Remote(q) \in Nat /\ run \in Nat
        BY <1>4, <1>6
      <4>. QED BY <3>3, <4>1, InSequenceGrows
    <3>. QED BY <1>5, <2>1, <3>1, <3>4, <3>5 DEF next
  <2>2. CASE ~m_ordered
    <3>1. released'[q] = Append(released[q], n) \o <<>>
      BY <1>1, <1>6, <2>2 DEF TypeOK, n
    <3>2. Append(released[q], n) \in Seq(Nat)
      BY <1>3, <1>4, AppendProperties
    <3>. QED BY <2>2, <3>1, <3>2, ConcatEmptySeq
  <2>. QED BY <2>1, <2>2
<1>15. ReleasedIsTrue(p, q)'
  <2>1. CASE m_ordered
    BY <1>7, <1>9, <1>14, <2>1 DEF ReleasedIsTrue
  <2>2. CASE ~m_ordered
    <3>. SUFFICES ASSUME NEW i \in DOMAIN released'[q]
                  PROVE  Has(m_ordered, m_received_packets'[q], m_early_received'[q], next, released'[q][i])
      BY <1>7, <1>9, <2>2, ReleasedIsHas
    <3>1. released'[q][i] = n \/ \E k \in DOMAIN released[q] : released'[q][i] = released[q][k]
      <4>1. \A k \in DOMAIN Append(released[q], n) : Append(released[q], n)[k] = n
               \/ \E j \in DOMAIN released[q] : Append(released[q], n)[k] = released[q][j]
        BY <1>3, <1>4, AppendElements
      <4>. QED BY <1>14, <2>2, <4>1
    <3>2. \A k \in DOMAIN released[q] :
             /\ released[q][k] \in Nat
             /\ Has(m_ordered, m_received_packets[q], m_early_received[q], Remote(q), released[q][k])
      <4>1. ReleasedIsTrue(p, q)
        BY <1>1 DEF Direction
      <4>. QED BY <1>4, <2>2, <4>1, ReleasedIsHas
    <3>. QED BY <1>3, <1>5, <1>11, <3>1, <3>2 DEF HasMore
  <2>. QED BY <2>1, <2>2
<1>16. m_remote_sequence'[q] = next % MaxSequence
  <2>1. m_remote_sequence[q] = Remote(q) % MaxSequence /\ 1 + run \in Int /\ Remote(q) \in Int
    BY <1>1, <1>4, <1>6 DEF CountersWrap
  <2>2. Advance(Remote(q) % MaxSequence, 1 + run) = (Remote(q) + (1 + run)) % MaxSequence
    BY <2>1, SlotOfAdvance
  <2>3. Remote(q) + (1 + run) = next
    BY <1>4, <1>6 DEF next
  <2>. QED BY <1>6, <2>1, <2>2, <2>3
<1>17. Remote(q) <= Remote(q)'
  BY <1>4, <1>7, <1>8
<1>18. IInv'
  BY <1>2, <1>7, <1>9, <1>12, <1>13, <1>15, <1>16, <1>17, ReceiveInv
<1>19. ~Received(q, n)
  <2>1. ~(n < Remote(q)) /\ ~(Remote(q) < n)
    <3>1. Remote(q) \in Nat
      BY <1>4
    <3>2. ~(Remote(q) < Remote(q))
      BY <3>1
    <3>. QED BY <1>5, <3>2, Zenon
  <2>2. ~Has(m_ordered, m_received_packets[q], m_early_received[q], Remote(q), n)
    BY <1>3, <1>4, <2>1, HasInWindow
  <2>. QED BY <2>2, ReceivedIsHas
<1>20. released' = [released EXCEPT ![q] = released'[q]]
  BY <1>6
<1>21. \A m \in Nat : Received(q, m)' => m = n \/ Received(q, m)
  <2>1. HasNoMore(m_ordered, m_received_packets[q], m_early_received[q], Remote(q), Remote(q),
                  m_received_packets'[q], m_early_received'[q], next)
    BY <1>3, <1>4, <1>5, <1>6, NextGets DEF next
  <2>. QED BY <1>5, <1>7, <1>9, <2>1, ReceivedIsHas DEF HasNoMore
<1>. QED BY <1>3, <1>8, <1>14, <1>18, <1>19, <1>20, <1>21 DEF n
-----------------------------------------------------------------------------
(* Steps that leave the windows of both ends alone. *)

\* A step that changes nothing of a direction but the packets that it loses keeps its part
\* of the invariant.
LEMMA QuietInv ==
    ASSUME IInv, TypeOK',
           m_local_sequence' = m_local_sequence, m_local_window_start' = m_local_window_start,
           \A x \in Peer : \A s \in Slot :
              /\ m_pending_packets'[x][s].number = m_pending_packets[x][s].number
              /\ m_pending_packets'[x][s].seq = m_pending_packets[x][s].seq,
           UNCHANGED <<receiver, released, unwrapped>>,
           \A x \in Peer : QueueIsNumbered(x)',
           \A x \in Peer : packets'[x] \subseteq packets[x] /\ acks'[x] \subseteq acks[x]
    PROVE  IInv'
<1>1. TypeOK
  BY DEF IInv
<1>2. ASSUME NEW p \in Peer PROVE CountersWrap(p)' /\ Direction(p, Other(p))'
  <2>. DEFINE q == Other(p)
  <2>1. q \in Peer /\ CountersWrap(p) /\ Direction(p, q)
    BY OtherOther DEF IInv
  <2>2. SenderSame(p) /\ ReceiverSame(q)
    BY DEF SenderSame, ReceiverSame, receiver, Local, LocalStart, Remote, RemoteStart
  <2>3. CountersWrap(p)'
    BY <2>1 DEF CountersWrap, receiver, Local, LocalStart, Remote, RemoteStart
  <2>4. packets'[q] \subseteq packets[q] /\ \A a \in acks'[p] : a \in acks[p] \/ AckIsTrue(p, q, a)
    BY <2>1
  <2>5. q' = q
    BY DEF Other
  <2>. HIDE DEF q
  <2>6. Direction(p, q)'
    BY <1>1, <2>1, <2>2, <2>4, DirectionSame
  <2>. QED BY <2>3, <2>5, <2>6 DEF q
<1>. QED BY <1>2 DEF IInv

\* Where the queue is left alone too.
LEMMA QueueSame ==
    ASSUME IInv, UNCHANGED <<m_outgoing_queue, submitted, unwrapped>>, NEW x \in Peer
    PROVE  QueueIsNumbered(x)'
<1>1. QueueIsNumbered(x)
  BY DEF IInv
<1>. QED BY <1>1 DEF QueueIsNumbered, Local

\* A packet outside of the window changes nothing.
LEMMA DropInv ==
    ASSUME IInv, TypeOK', NEW q \in Peer, NEW d \in packets[q], drop_packet(q, d)
    PROVE  IInv'
<1>1. \A x \in Peer : packets'[x] \subseteq packets[x]
  <2>1. packets' = packets \/ packets' = [packets EXCEPT ![q] = @ \ {d}]
    BY DEF drop_packet, Consume
  <2>2. packets \in [Peer -> SUBSET DataPacket]
    BY DEF IInv, TypeOK, DataPacket, Sequence
  <2>. QED BY <2>1, <2>2
<1>2. UNCHANGED <<sender, receiver, queued, acks, submitted, released, unwrapped>>
  BY DEF drop_packet
<1>3. \A x \in Peer : QueueIsNumbered(x)'
  BY <1>2, QueueSame DEF sender
<1>. QED BY <1>1, <1>2, <1>3, QuietInv DEF sender

\* Losing a datagram keeps the invariant.
LEMMA LoseInv ==
    ASSUME IInv, TypeOK', NEW q \in Peer, lose(q)
    PROVE  IInv'
<1>1. \A x \in Peer : packets'[x] \subseteq packets[x] /\ acks'[x] \subseteq acks[x]
  <2>1. \/ \E d \in packets[q] : packets' = [packets EXCEPT ![q] = @ \ {d}] /\ UNCHANGED acks
        \/ \E a \in acks[q] : acks' = [acks EXCEPT ![q] = @ \ {a}] /\ UNCHANGED packets
    BY DEF lose
  <2>2. packets \in [Peer -> SUBSET DataPacket] /\ acks \in [Peer -> SUBSET AckPacket]
    BY DEF IInv, TypeOK, DataPacket, AckPacket, Sequence
  <2>. QED BY <2>1, <2>2
<1>2. UNCHANGED <<sender, receiver, queued, submitted, released, unwrapped>>
  BY DEF lose
<1>3. \A x \in Peer : QueueIsNumbered(x)'
  BY <1>2, QueueSame DEF sender
<1>. QED BY <1>1, <1>2, <1>3, QuietInv DEF sender

\* The passing of the resend delay keeps the invariant.
LEMMA ResendDelayInv ==
    ASSUME IInv, TypeOK', NEW p \in Peer, resend_delay_elapsed(p)
    PROVE  IInv'
<1>1. UNCHANGED <<m_outgoing_queue, m_local_sequence, m_local_window_start,
                  receiver, queued, packets, acks, submitted, released, unwrapped>>
  BY DEF resend_delay_elapsed
<1>2. PICK s \in Slot : m_pending_packets' = [m_pending_packets EXCEPT ![p][s].due = TRUE]
  BY DEF resend_delay_elapsed
<1>3. m_pending_packets \in [Peer -> [Slot -> Pending]]
  BY DEF IInv, TypeOK, Pending, Sequence
<1>4. \A x \in Peer : \A y \in Slot :
         /\ m_pending_packets'[x][y].number = m_pending_packets[x][y].number
         /\ m_pending_packets'[x][y].seq = m_pending_packets[x][y].seq
  BY <1>2, <1>3 DEF Pending
<1>5. \A x \in Peer : QueueIsNumbered(x)'
  BY <1>1, QueueSame
<1>. QED BY <1>1, <1>4, <1>5, QuietInv

\* Handing a message over keeps the invariant: the windows do not move.
LEMMA HandOverInv ==
    ASSUME IInv, TypeOK', NEW p \in Peer, hand_over(p)
    PROVE  IInv'
<1>1. UNCHANGED <<sender, receiver, queued, packets, acks, submitted, released, unwrapped>>
  BY DEF hand_over
<1>2. \A x \in Peer : QueueIsNumbered(x)'
  BY <1>1, QueueSame DEF sender
<1>. QED BY <1>1, <1>2, QuietInv DEF sender

\* The queue after one more message was submitted.
LEMMA AddInv ==
    ASSUME IInv, TypeOK', NEW p \in Peer, add_to_queue(p)
    PROVE  IInv'
<1>1. /\ m_outgoing_queue' = [m_outgoing_queue EXCEPT ![p] = Append(@, submitted[p])]
      /\ submitted' = [submitted EXCEPT ![p] = @ + 1]
      /\ UNCHANGED <<m_local_sequence, m_local_window_start, m_pending_packets,
                     receiver, packets, acks, released, unwrapped>>
  BY DEF add_to_queue
<1>2. ASSUME NEW x \in Peer PROVE QueueIsNumbered(x)'
  <2>1. QueueIsNumbered(x) /\ TypeOK /\ Local(x)' = Local(x)
    BY <1>1 DEF IInv, Local
  <2>2. CASE x # p
    <3>1. m_outgoing_queue'[x] = m_outgoing_queue[x] /\ submitted'[x] = submitted[x]
      BY <1>1, <2>1, <2>2 DEF TypeOK
    <3>. QED BY <2>1, <3>1 DEF QueueIsNumbered
  <2>3. CASE x = p
    <3>. DEFINE queue == m_outgoing_queue[p]
                after == Append(queue, submitted[p])
    <3>1. m_outgoing_queue'[p] = after /\ submitted'[p] = submitted[p] + 1
      BY <1>1, <2>1 DEF TypeOK
    <3>2. queue \in Seq(Nat) /\ submitted[p] \in Nat /\ Local(p) \in Nat /\ Len(queue) \in Nat
      BY <2>1, DirectionTypes
    <3>3. /\ submitted[p] = Local(p) + Len(queue)
          /\ \A i \in 1 .. Len(queue) : queue[i] = Local(p) + i - 1
      BY <2>1, <2>3 DEF QueueIsNumbered
    <3>. HIDE DEF queue
    <3>4. /\ Len(after) = Len(queue) + 1
          /\ \A i \in 1 .. Len(queue) : after[i] = queue[i]
          /\ after[Len(queue) + 1] = submitted[p]
      BY <3>2, AppendProperties
    <3>. HIDE DEF after
    <3>5. \A i \in 1 .. Len(after) : after[i] = Local(p) + i - 1
      <4>. SUFFICES ASSUME NEW i \in 1 .. Len(after) PROVE after[i] = Local(p) + i - 1
        OBVIOUS
      <4>1. i \in 1 .. Len(queue) \/ i = Len(queue) + 1
        BY <3>2, <3>4
      <4>. QED BY <3>2, <3>3, <3>4, <4>1
    <3>6. submitted[p] + 1 = Local(p) + Len(after)
      BY <3>2, <3>3, <3>4
    <3>. QED BY <2>1, <2>3, <3>1, <3>5, <3>6 DEF QueueIsNumbered
  <2>. QED BY <2>2, <2>3
<1>3. \A x \in Peer : packets'[x] \subseteq packets[x] /\ acks'[x] \subseteq acks[x]
  BY <1>1
<1>. QED BY <1>1, <1>2, <1>3, QuietInv
-----------------------------------------------------------------------------
(* The sender: process_ack. *)

Offsets(p, a) == IF AckInWindow(p, a) THEN Confirmed(p, a) ELSE {}

\* The packets that an ack confirms are at the receiver.
LEMMA ConfirmedIsReceived ==
    ASSUME IInv, NEW p \in Peer, NEW q \in Peer, q = Other(p), NEW a \in acks[p]
    PROVE  \A j \in Offsets(p, a) :
              j \in 0 .. Local(p) - LocalStart(p) - 1 /\ Received(q, LocalStart(p) + j)
<1>. DEFINE n == a.number
            ls == LocalStart(p)
            l == Local(p)
<1>1. TypeOK /\ Direction(p, q) /\ CountersWrap(p)
  BY DEF IInv
<1>2. n \in Nat /\ ls \in Nat /\ l \in Nat /\ RemoteStart(q) \in Nat
  BY <1>1, DirectionTypes
<1>3. /\ RemoteStart(q) <= ls /\ ls <= l /\ l <= ls + WindowSize
      /\ n <= RemoteStart(q) /\ l <= n + MaxAge /\ a.seq = n % MaxSequence
      /\ \A m \in n .. n + WindowSize - 1 : SlotOf(m) \in a.bits => Received(q, m)
  <2>1. CountersMeet(p, q) /\ AckIsTrue(p, q, a) /\ Remote(q) \in Nat
    BY <1>1, DirectionTypes DEF Direction
  <2>2. ls <= l
    BY <1>2, <2>1 DEF CountersMeet
  <2>. QED BY <2>1, <2>2 DEF CountersMeet, AckIsTrue
<1>4. m_local_window_start[p] = ls % MaxSequence /\ m_local_sequence[p] = l % MaxSequence
  BY <1>1 DEF CountersWrap
<1>. HIDE DEF n, ls, l
<1>5. AckInWindow(p, a) => ls - n < WindowSize
  <2>1. CASE ls - n = HALF_MAX_SEQUENCE
    <3>1. relative_sequence_number(ls % MaxSequence, n % MaxSequence) = 0 - HALF_MAX_SEQUENCE
      BY <1>2, <2>1, HalfBehind
    <3>2. ~(0 - HALF_MAX_SEQUENCE >= 0)
      BY Ring
    <3>. QED BY <1>3, <1>4, <3>1, <3>2 DEF AckInWindow
  <2>2. CASE ls - n < HALF_MAX_SEQUENCE
    <3>1. n - ls <= HALF_MAX_SEQUENCE /\ ls \in Int /\ n \in Int
      BY <1>2, <1>3, Ring
    <3>2. relative_sequence_number(ls % MaxSequence, n % MaxSequence) = ls - n
      BY <2>2, <3>1, RelativeIsDifference
    <3>. QED BY <1>3, <1>4, <3>2 DEF AckInWindow
  <2>3. ls - n <= HALF_MAX_SEQUENCE
    <3>1. ls <= n + MaxAge
      BY <1>2, <1>3, Ring
    <3>. QED BY <1>2, <3>1, Ring
  <2>. QED BY <1>2, <2>1, <2>2, <2>3, Ring
<1>6. ((m_local_sequence[p] - m_local_window_start[p]) % MaxSequence) = l - ls
  <2>1. 0 <= l - ls /\ l - ls < MaxSequence /\ l \in Int /\ ls \in Int
    BY <1>2, <1>3, Ring
  <2>. QED BY <1>4, <2>1, Distance
<1>7. ASSUME NEW j \in Confirmed(p, a) PROVE j \in 0 .. l - ls - 1 /\ Received(q, ls + j)
  <2>1. /\ j \in 0 .. (l - ls) - 1
        /\ relative_sequence_number(Advance(m_local_window_start[p], j), a.seq) < WindowSize
        /\ SlotOf(Advance(m_local_window_start[p], j)) \in a.bits
    BY <1>6 DEF Confirmed
  <2>2. j \in Int /\ ls \in Int /\ ls + j \in Int /\ ls + j < l /\ ls <= ls + j
    BY <1>2, <2>1
  <2>3. /\ SlotOf(Advance(ls % MaxSequence, j)) = SlotOf(ls + j)
        /\ Advance(ls % MaxSequence, j) = (ls + j) % MaxSequence
    BY <2>2, SlotOfAdvance
  <2>4. relative_sequence_number((ls + j) % MaxSequence, n % MaxSequence) = (ls + j) - n
    <3>1. (ls + j) - n < HALF_MAX_SEQUENCE /\ n - (ls + j) <= HALF_MAX_SEQUENCE /\ n \in Int
      BY <1>2, <1>3, <2>2, Ring
    <3>. QED BY <2>2, <3>1, RelativeIsDifference
  <2>5. (ls + j) - n < WindowSize /\ SlotOf(ls + j) \in a.bits
    BY <1>3, <1>4, <2>1, <2>3, <2>4
  <2>6. ls + j \in n .. n + WindowSize - 1
    BY <1>2, <1>3, <2>2, <2>5, Ring
  <2>7. Received(q, ls + j)
    BY <1>3, <2>5, <2>6
  <2>. QED BY <1>2, <2>1, <2>7
<1>. QED BY <1>7 DEF Offsets, ls, l

\* How far an ack moves the sender's window: not past what the receiver expects.
LEMMA LeadIsSound ==
    ASSUME IInv, NEW p \in Peer, NEW q \in Peer, q = Other(p), NEW a \in acks[p]
    PROVE  /\ RunLength(Offsets(p, a)) \in Nat
           /\ \A j \in 0 .. RunLength(Offsets(p, a)) - 1 : j \in Offsets(p, a)
           /\ LocalStart(p) + RunLength(Offsets(p, a)) <= Remote(q)
<1>. DEFINE lead == RunLength(Offsets(p, a))
            ls == LocalStart(p)
            r == Remote(q)
<1>1. TypeOK /\ Direction(p, q)
  BY DEF IInv
<1>2. ls \in Nat /\ r \in Nat /\ ls <= r
  BY <1>1, DirectionTypes DEF Direction, CountersMeet
<1>3. lead \in 0 .. WindowSize /\ \A j \in 0 .. lead - 1 : j \in Offsets(p, a)
  <2>1. \E n \in 0 .. WindowSize : n \notin Offsets(p, a)
    BY <1>1, ConfirmedStops DEF Offsets
  <2>. QED BY <2>1, RunLengthType
<1>4. ~Received(q, r)
  <2>1. /\ m_ordered \in BOOLEAN /\ m_received_packets[q] \in Held /\ m_early_received[q] \in Early
        /\ RemoteStart(q) \in Nat /\ Local(p) \in Nat
    BY <1>1, DirectionTypes
  <2>2. ReceiverIsSound(m_ordered, m_received_packets[q], m_early_received[q],
                        m_outgoing_acks[q].bits, r, RemoteStart(q), Local(p))
    BY <1>1 DEF Direction, WindowIsTrue
  <2>3. ~(r < r)
    BY <1>2
  <2>4. ~Has(m_ordered, m_received_packets[q], m_early_received[q], r, r)
    BY <1>2, <2>1, <2>2, <2>3, HasInWindow
  <2>. QED BY <2>4, ReceivedIsHas
<1>. HIDE DEF lead
<1>5. lead \in Nat
  BY <1>3, Ring
<1>6. ls + lead <= r
  <2>. SUFFICES ASSUME r < ls + lead PROVE FALSE
    BY <1>2, <1>5
  <2>. DEFINE j == r - ls
  <2>1. j \in 0 .. lead - 1 /\ ls + j = r
    BY <1>2, <1>5
  <2>. HIDE DEF j, r, ls
  <2>2. j \in Offsets(p, a)
    BY <1>3, <2>1
  <2>3. Received(q, LocalStart(p) + j)
    BY <2>2, ConfirmedIsReceived
  <2>. QED BY <1>4, <2>1, <2>3 DEF ls
<1>. QED BY <1>3, <1>5, <1>6 DEF lead

\* process_ack keeps the invariant.
LEMMA AckInv ==
    ASSUME IInv, TypeOK', NEW p \in Peer, NEW q \in Peer, q = Other(p), p = Other(q),
           NEW a \in acks[p], process_ack(p, a)
    PROVE  IInv'
<1>. DEFINE ls == LocalStart(p)
            offsets == Offsets(p, a)
            lead == RunLength(offsets)
            cleared == {SlotOf(Advance(m_local_window_start[p], j)) : j \in offsets}
<1>1. TypeOK /\ Direction(p, q) /\ Direction(q, p) /\ p # q /\ CountersWrap(p) /\ CountersWrap(q)
  BY OtherOther DEF IInv
<1>2. /\ m_local_window_start' = [m_local_window_start EXCEPT ![p] = Advance(@, lead)]
      /\ m_pending_packets' = [m_pending_packets EXCEPT ![p] =
            [s \in Slot |-> IF s \in cleared THEN [@[s] EXCEPT !.number = NULL] ELSE @[s]]]
      /\ unwrapped' = [unwrapped EXCEPT ![p].localStart = @ + lead]
      /\ acks' = IF Duplicates THEN acks ELSE [acks EXCEPT ![p] = @ \ {a}]
      /\ UNCHANGED <<m_outgoing_queue, m_local_sequence, receiver, queued, packets,
                     submitted, released>>
  BY DEF process_ack, Offsets
<1>3. lead \in Nat /\ \A j \in 0 .. lead - 1 : j \in offsets
  BY LeadIsSound
<1>4. ls + lead <= Remote(q)
  BY LeadIsSound
<1>5. \A j \in offsets : j \in 0 .. Local(p) - ls - 1 /\ Received(q, ls + j)
  BY ConfirmedIsReceived
<1>. HIDE DEF ls, offsets, lead
<1>6. /\ ls \in Nat /\ Local(p) \in Nat /\ RemoteStart(q) \in Nat /\ Remote(q) \in Nat
      /\ WindowSize \in Nat
  BY <1>1, DirectionTypes, Ring DEF ls
<1>7. m_local_window_start[p] = ls % MaxSequence
  BY <1>1 DEF CountersWrap, ls
<1>8. cleared = {SlotOf(ls + j) : j \in offsets}
  <2>1. \A j \in offsets : SlotOf(Advance(m_local_window_start[p], j)) = SlotOf(ls + j)
    <3>. SUFFICES ASSUME NEW j \in offsets
                  PROVE  SlotOf(Advance(ls % MaxSequence, j)) = SlotOf(ls + j)
      BY <1>7
    <3>1. j \in Int /\ ls \in Int
      BY <1>5, <1>6
    <3>. QED BY <3>1, SlotOfAdvance
  <2>. QED BY <2>1
<1>. HIDE DEF cleared
<1>9. m_pending_packets \in [Peer -> [Slot -> Pending]]
  BY <1>1 DEF TypeOK, Pending, Sequence
<1>10. \A s \in Slot :
          /\ s \in cleared => m_pending_packets'[p][s].number = NULL
          /\ s \notin cleared => m_pending_packets'[p][s] = m_pending_packets[p][s]
  <2>. SUFFICES ASSUME NEW s \in Slot
                PROVE  /\ s \in cleared => m_pending_packets'[p][s].number = NULL
                       /\ s \notin cleared => m_pending_packets'[p][s] = m_pending_packets[p][s]
    OBVIOUS
  <2>1. m_pending_packets'[p][s] = IF s \in cleared THEN [m_pending_packets[p][s] EXCEPT !.number = NULL]
                                   ELSE m_pending_packets[p][s]
    BY <1>2, <1>9
  <2>2. m_pending_packets[p][s] \in Pending
    BY <1>9
  <2>. QED BY <2>1, <2>2 DEF Pending
<1>11. m_pending_packets'[q] = m_pending_packets[q]
  BY <1>1, <1>2, <1>9
<1>12. /\ LocalStart(p)' = ls + lead /\ Local(p)' = Local(p)
       /\ Remote(p)' = Remote(p) /\ RemoteStart(p)' = RemoteStart(p)
       /\ Local(q)' = Local(q) /\ LocalStart(q)' = LocalStart(q)
       /\ Remote(q)' = Remote(q) /\ RemoteStart(q)' = RemoteStart(q)
  <2>1. unwrapped \in [Peer -> Counters]
    BY <1>1 DEF TypeOK, Counters
  <2>. QED BY <1>1, <1>2, <2>1 DEF Counters, ls, Local, LocalStart, Remote, RemoteStart
<1>13. /\ m_local_window_start'[p] = (ls + lead) % MaxSequence
       /\ m_local_window_start'[q] = m_local_window_start[q]
  <2>1. m_local_window_start \in [Peer -> 0 .. MaxSequence - 1]
    BY <1>1 DEF TypeOK
  <2>2. Advance(ls % MaxSequence, lead) = (ls + lead) % MaxSequence
    <3>1. ls \in Int /\ lead \in Int
      BY <1>3, <1>6
    <3>. QED BY <3>1, SlotOfAdvance
  <2>. QED BY <1>1, <1>2, <1>7, <2>1, <2>2
<1>14. acks'[p] \subseteq acks[p] /\ acks'[q] \subseteq acks[q]
  BY <1>1, <1>2 DEF TypeOK
<1>15. \A m : Received(q, m)' <=> Received(q, m)
  BY <1>2, <1>12, ReceivedIsHas DEF receiver
<1>16. PendingIsTrue(p, q)'
  <2>. SUFFICES ASSUME NEW m \in ls + lead .. ls + lead + WindowSize - 1
                PROVE  \/ /\ m_pending_packets'[p][SlotOf(m)].number = NULL
                          /\ m < Local(p) => Received(q, m)
                       \/ /\ m_pending_packets'[p][SlotOf(m)].number = m
                          /\ m_pending_packets'[p][SlotOf(m)].seq = m % MaxSequence
                          /\ m < Local(p)
    BY <1>12, <1>15 DEF PendingIsTrue
  <2>1. m \in Nat /\ SlotOf(m) \in Slot
    BY <1>3, <1>6, SlotTurns
  <2>2. CASE ls + WindowSize <= m
    <3>. DEFINE k == m - WindowSize
                j == k - ls
    <3>1. j \in 0 .. lead - 1 /\ ls + j = k
      BY <1>3, <1>6, <2>1, <2>2
    <3>2. SlotOf(k) = SlotOf(m)
      BY <2>1, SlotTurns
    <3>. HIDE DEF j, k
    <3>3. SlotOf(m) \in cleared
      BY <1>3, <1>8, <3>1, <3>2
    <3>4. ~(m < Local(p))
      <4>1. Local(p) <= ls + WindowSize
        BY <1>1 DEF Direction, CountersMeet, ls
      <4>. QED BY <1>6, <2>1, <2>2, <4>1
    <3>. QED BY <1>10, <2>1, <3>3, <3>4
  <2>3. CASE m < ls + WindowSize
    <3>1. m \in ls .. ls + WindowSize - 1
      BY <1>3, <1>6, <2>1, <2>3
    <3>2. CASE SlotOf(m) \in cleared
      <4>1. PICK j \in offsets : SlotOf(m) = SlotOf(ls + j)
        BY <1>8, <3>2
      <4>2. ls + j \in Int /\ m \in Int /\ m - (ls + j) < WindowSize /\ (ls + j) - m < WindowSize
        <5>1. j \in 0 .. Local(p) - ls - 1
          BY <1>5
        <5>2. Local(p) <= ls + WindowSize
          BY <1>1 DEF Direction, CountersMeet, ls
        <5>. QED BY <1>6, <2>1, <3>1, <5>1, <5>2
      <4>3. m = ls + j
        BY <4>1, <4>2, SlotsDiffer
      <4>. QED BY <1>5, <1>10, <2>1, <3>2, <4>3
    <3>3. CASE SlotOf(m) \notin cleared
      <4>1. \/ m_pending_packets[p][SlotOf(m)].number = NULL /\ (m < Local(p) => Received(q, m))
            \/ /\ m_pending_packets[p][SlotOf(m)].number = m
               /\ m_pending_packets[p][SlotOf(m)].seq = m % MaxSequence
               /\ m < Local(p)
        BY <1>1, <3>1 DEF Direction, PendingIsTrue, ls
      <4>. QED BY <1>10, <2>1, <3>3, <4>1
    <3>. QED BY <3>2, <3>3
  <2>. QED BY <1>6, <2>1, <2>2, <2>3
<1>17. Direction(p, q)'
  <2>1. CountersMeet(p, q)'
    <3>1. CountersMeet(p, q)
      BY <1>1 DEF Direction
    <3>. QED BY <1>3, <1>4, <1>6, <1>12, <3>1 DEF CountersMeet, ls
  <2>2. WindowIsTrue(p, q)'
    <3>1. WindowIsTrue(p, q)
      BY <1>1 DEF Direction
    <3>. QED BY <1>2, <1>12, <3>1 DEF WindowIsTrue, receiver
  <2>3. PacketsAreTrue(p, q)'
    <3>1. PacketsAreTrue(p, q)
      BY <1>1 DEF Direction
    <3>. QED BY <1>2, <1>12, <3>1 DEF PacketsAreTrue
  <2>4. ASSUME NEW b \in acks'[p] PROVE AckIsTrue(p, q, b)'
    <3>1. b.number \in Nat /\ Grows(q) /\ RemoteStart(q) <= RemoteStart(q)'
      BY <1>6, <1>12, <1>15, DirectionTypesAfter DEF Grows
    <3>2. AckIsTrue(p, q, b)
      BY <1>1, <1>14 DEF Direction
    <3>. QED BY <1>1, <1>12, <3>1, <3>2, AckStaysTrue
  <2>5. ReleasedIsTrue(p, q)'
    <3>1. ReleasedIsTrue(p, q)
      BY <1>1 DEF Direction
    <3>. QED BY <1>2, <1>12, <1>15, <3>1 DEF ReleasedIsTrue, receiver
  <2>. QED BY <1>16, <2>1, <2>2, <2>3, <2>4, <2>5 DEF Direction
<1>18. Direction(q, p)'
  <2>1. SenderSame(q) /\ ReceiverSame(p)
    BY <1>2, <1>11, <1>12, <1>13 DEF SenderSame, ReceiverSame, receiver
  <2>. QED BY <1>1, <1>2, <1>14, <2>1, DirectionSame
<1>19. CountersWrap(p)' /\ CountersWrap(q)'
  BY <1>1, <1>2, <1>12, <1>13 DEF CountersWrap, receiver
<1>20. QueueIsNumbered(p)' /\ QueueIsNumbered(q)'
  <2>1. QueueIsNumbered(p) /\ QueueIsNumbered(q)
    BY DEF IInv
  <2>. QED BY <1>2, <1>12, <2>1 DEF QueueIsNumbered
<1>. QED BY <1>17, <1>18, <1>19, <1>20, OtherOther DEF IInv
-----------------------------------------------------------------------------
(* The sender: send_and_check_queue. *)

\* The messages that get a number fit into the window.
LEMMA AdmittedFits ==
    ASSUME IInv, NEW p \in Peer
    PROVE  /\ Admitted(p) \in Nat /\ Admitted(p) <= Len(m_outgoing_queue[p])
           /\ Local(p) + Admitted(p) <= LocalStart(p) + WindowSize
<1>. DEFINE l == Local(p)
            ls == LocalStart(p)
            n == Admitted(p)
            len == Len(m_outgoing_queue[p])
<1>1. TypeOK /\ CountersWrap(p) /\ CountersMeet(p, Other(p)) /\ Other(p) \in Peer
  BY OtherOther DEF IInv, Direction
<1>2. l \in Nat /\ ls \in Nat /\ Remote(Other(p)) \in Nat /\ len \in Nat
  BY <1>1, DirectionTypes
<1>3. ls <= l /\ l <= ls + WindowSize
  BY <1>1, <1>2 DEF CountersMeet
<1>4. m_local_sequence[p] = l % MaxSequence /\ m_local_window_start[p] = ls % MaxSequence
  BY <1>1 DEF CountersWrap
<1>. HIDE DEF l, ls
<1>5. relative_sequence_number(m_local_sequence[p], m_local_window_start[p]) = l - ls
  <2>1. l - ls < HALF_MAX_SEQUENCE /\ ls - l <= HALF_MAX_SEQUENCE /\ l \in Int /\ ls \in Int
    BY <1>2, <1>3, Ring
  <2>. QED BY <1>4, <2>1, RelativeIsDifference
<1>6. n = IF WindowSize - (l - ls) <= 0 THEN 0
          ELSE IF WindowSize - (l - ls) < len THEN WindowSize - (l - ls) ELSE len
  BY <1>5 DEF Admitted
<1>. HIDE DEF n, len
<1>7. n \in Nat /\ n <= len /\ l + n <= ls + WindowSize
  BY <1>2, <1>3, <1>6, Ring
<1>. QED BY <1>7 DEF l, ls, n, len

\* The slots after the first n messages of the queue were given numbers.
LEMMA FilledSlots ==
    ASSUME IInv, NEW p \in Peer, NEW n \in Nat, n <= Len(m_outgoing_queue[p]),
           Local(p) + n <= LocalStart(p) + WindowSize,
           NEW m \in LocalStart(p) .. LocalStart(p) + WindowSize - 1
    PROVE  IF m \in Local(p) .. Local(p) + n - 1
           THEN Filled(p, n)[SlotOf(m)].number = m /\ Filled(p, n)[SlotOf(m)].seq = m % MaxSequence
           ELSE Filled(p, n)[SlotOf(m)] = m_pending_packets[p][SlotOf(m)]
<1>. DEFINE l == Local(p)
            ls == LocalStart(p)
            queue == m_outgoing_queue[p]
            js == {j \in 0 .. n - 1 : SlotOf(Advance(m_local_sequence[p], j)) = SlotOf(m)}
<1>1. TypeOK /\ CountersWrap(p) /\ QueueIsNumbered(p) /\ CountersMeet(p, Other(p)) /\ Other(p) \in Peer
  BY OtherOther DEF IInv, Direction
<1>2. l \in Nat /\ ls \in Nat /\ Remote(Other(p)) \in Nat /\ WindowSize \in Nat
  BY <1>1, DirectionTypes, Ring
<1>3. ls <= l
  BY <1>1, <1>2 DEF CountersMeet
<1>4. m \in Int /\ ls <= m /\ m < ls + WindowSize /\ SlotOf(m) \in Slot
  <2>1. m \in Int /\ ls <= m /\ m < ls + WindowSize
    BY <1>2
  <2>. QED BY <2>1, SlotTurns
<1>5. m_local_sequence[p] = l % MaxSequence
  BY <1>1 DEF CountersWrap
<1>6. \A i \in 1 .. n : queue[i] = l + i - 1
  BY <1>1, DirectionTypes DEF QueueIsNumbered
<1>7. Filled(p, n)[SlotOf(m)] =
         IF js = {} THEN m_pending_packets[p][SlotOf(m)]
         ELSE LET j == CHOOSE j \in js : TRUE
              IN  [number |-> queue[j + 1], seq |-> Advance(m_local_sequence[p], j),
                   is_sent |-> FALSE, due |-> m_pending_packets[p][SlotOf(m)].due]
  BY <1>4 DEF Filled
<1>. HIDE DEF l, ls, queue
<1>8. \A j \in 0 .. n - 1 :
         /\ SlotOf(Advance(m_local_sequence[p], j)) = SlotOf(l + j)
         /\ Advance(m_local_sequence[p], j) = (l + j) % MaxSequence
  <2>. SUFFICES ASSUME NEW j \in 0 .. n - 1
                PROVE  /\ SlotOf(Advance(l % MaxSequence, j)) = SlotOf(l + j)
                       /\ Advance(l % MaxSequence, j) = (l + j) % MaxSequence
    BY <1>5
  <2>1. l \in Int /\ j \in Int
    BY <1>2
  <2>. QED BY <2>1, SlotOfAdvance
<1>9. \A j \in 0 .. n - 1 : j \in js <=> m = l + j
  <2>. SUFFICES ASSUME NEW j \in 0 .. n - 1 PROVE j \in js <=> m = l + j
    OBVIOUS
  <2>1. j \in js <=> SlotOf(l + j) = SlotOf(m)
    BY <1>8
  <2>2. l + j \in Int /\ m - (l + j) < WindowSize /\ (l + j) - m < WindowSize
    <3>1. l + n <= ls + WindowSize
      BY DEF l, ls
    <3>. QED BY <1>2, <1>3, <1>4, <3>1
  <2>3. SlotOf(l + j) = SlotOf(m) => m = l + j
    BY <1>4, <2>2, SlotsDiffer
  <2>. QED BY <2>1, <2>3
<1>10. js \subseteq 0 .. n - 1
  OBVIOUS
<1>. HIDE DEF js
<1>11. CASE m \in l .. l + n - 1
  <2>. DEFINE i == m - l
  <2>1. i \in 0 .. n - 1 /\ m = l + i
    BY <1>2, <1>4, <1>11
  <2>. HIDE DEF i
  <2>2. i \in js
    BY <1>9, <2>1
  <2>3. \A j \in js : j = i
    <3>1. \A j \in js : j \in 0 .. n - 1 /\ m = l + j
      BY <1>9, <1>10
    <3>. QED BY <1>2, <2>1, <3>1
  <2>4. js # {} /\ (CHOOSE j \in js : TRUE) = i
    BY <2>2, <2>3
  <2>5. Filled(p, n)[SlotOf(m)] =
           [number |-> queue[i + 1], seq |-> Advance(m_local_sequence[p], i),
            is_sent |-> FALSE, due |-> m_pending_packets[p][SlotOf(m)].due]
    BY <1>7, <2>4
  <2>6. queue[i + 1] = m
    <3>1. i + 1 \in 1 .. n /\ l + (i + 1) - 1 = m
      BY <1>2, <2>1
    <3>. QED BY <1>6, <3>1
  <2>7. Advance(m_local_sequence[p], i) = m % MaxSequence
    BY <1>8, <2>1
  <2>8. Filled(p, n)[SlotOf(m)].number = m /\ Filled(p, n)[SlotOf(m)].seq = m % MaxSequence
    BY <2>5, <2>6, <2>7
  <2>. QED BY <1>11, <2>8 DEF l
<1>12. CASE m \notin l .. l + n - 1
  <2>1. js = {}
    <3>1. \A j \in 0 .. n - 1 : m # l + j
      BY <1>2, <1>4, <1>12
    <3>. QED BY <1>9, <1>10, <3>1
  <2>. QED BY <1>7, <1>12, <2>1 DEF l
<1>. QED BY <1>11, <1>12

\* What the receiver has stays sound when the sender goes on.
LEMMA SenderGoesOn ==
    ASSUME NEW ordered, NEW held, NEW early, NEW bits, NEW r \in Nat, NEW start \in Nat,
           NEW l \in Nat, NEW l2 \in Nat, l <= l2,
           ReceiverIsSound(ordered, held, early, bits, r, start, l)
    PROVE  ReceiverIsSound(ordered, held, early, bits, r, start, l2)
<1>1. \A m \in start .. start + WindowSize - 1 : m < l => m < l2
  BY Ring
<1>2. r <= l => r <= l2
  OBVIOUS
<1>. QED BY <1>1, <1>2 DEF ReceiverIsSound

\* The ack that an end sends is true.
LEMMA OutgoingAckIsTrue ==
    ASSUME IInv, NEW p \in Peer, NEW q \in Peer, q = Other(p), p = Other(q)
    PROVE  AckIsTrue(q, p, [seq |-> m_outgoing_acks[p].seq, bits |-> m_outgoing_acks[p].bits,
                            number |-> unwrapped[p].remoteStart])
<1>. DEFINE rs == RemoteStart(p)
            r == Remote(p)
<1>1. TypeOK /\ Direction(q, p) /\ CountersWrap(p)
  BY DEF IInv
<1>2. /\ rs \in Nat /\ r \in Nat /\ Local(q) \in Nat /\ LocalStart(q) \in Nat
      /\ m_ordered \in BOOLEAN /\ m_received_packets[p] \in Held /\ m_early_received[p] \in Early
  BY <1>1, DirectionTypes
<1>3. ReceiverIsSound(m_ordered, m_received_packets[p], m_early_received[p], m_outgoing_acks[p].bits,
                      r, rs, Local(q))
  BY <1>1 DEF Direction, WindowIsTrue
<1>4. CountersMeet(q, p)
  BY <1>1 DEF Direction
<1>5. Local(q) <= rs + MaxAge
  <2>1. LocalStart(q) <= r /\ Local(q) <= LocalStart(q) + WindowSize /\ r <= rs + WindowSize
    BY <1>3, <1>4 DEF CountersMeet, ReceiverIsSound
  <2>. HIDE DEF r, rs
  <2>. QED BY <1>2, <2>1, Ring
<1>6. ASSUME NEW m \in rs .. rs + WindowSize - 1, SlotOf(m) \in m_outgoing_acks[p].bits
      PROVE  Received(p, m)
  <2>. HIDE DEF r, rs
  <2>1. m \in Nat /\ m < rs + WindowSize
    BY <1>2, Ring
  <2>2. m < r \/ InUse(m_ordered, m_received_packets[p], m_early_received[p], SlotOf(m))
    BY <1>3, <1>6 DEF ReceiverIsSound
  <2>3. InUse(m_ordered, m_received_packets[p], m_early_received[p], SlotOf(m)) => r < m
    BY <1>3 DEF ReceiverIsSound
  <2>4. Has(m_ordered, m_received_packets[p], m_early_received[p], r, m)
    BY <1>2, <1>3, <2>1, <2>2, <2>3, HasInWindow
  <2>. QED BY <2>4, ReceivedIsHas DEF r
<1>7. m_outgoing_acks[p].seq = rs % MaxSequence
  BY <1>1 DEF CountersWrap
<1>8. unwrapped[p].remoteStart = rs
  BY DEF RemoteStart
<1>. HIDE DEF rs
<1>9. rs <= RemoteStart(p)
  BY <1>2 DEF rs
<1>. QED BY <1>5, <1>6, <1>7, <1>8, <1>9 DEF AckIsTrue

\* What is left of the queue is numbered from where the sender now is.
LEMMA RestIsNumbered ==
    ASSUME NEW queue \in Seq(Nat), NEW l \in Nat, NEW n \in Nat, n <= Len(queue),
           \A i \in 1 .. Len(queue) : queue[i] = l + i - 1
    PROVE  LET rest == SubSeq(queue, n + 1, Len(queue))
           IN  /\ Len(rest) = Len(queue) - n
               /\ \A i \in 1 .. Len(rest) : rest[i] = (l + n) + i - 1
<1>. DEFINE rest == SubSeq(queue, n + 1, Len(queue))
            len == Len(queue)
<1>1. len \in Nat
  BY LenProperties
<1>2. /\ Len(rest) = IF n + 1 <= len THEN len - (n + 1) + 1 ELSE 0
      /\ \A i \in 1 .. len - (n + 1) + 1 : rest[i] = queue[(n + 1) + i - 1]
  <2>1. n + 1 \in Int /\ len \in Int /\ \A i \in n + 1 .. len : queue[i] \in Nat
    BY <1>1, LenProperties
  <2>. HIDE DEF len
  <2>. QED BY <2>1, SubSeqProperties DEF len
<1>. HIDE DEF rest, len
<1>3. Len(rest) = len - n
  <2>1. n <= len
    BY DEF len
  <2>. QED BY <1>1, <1>2, <2>1
<1>4. ASSUME NEW i \in 1 .. len - n PROVE rest[i] = (l + n) + i - 1
  <2>1. /\ n + i \in 1 .. len /\ l + (n + i) - 1 = (l + n) + i - 1
        /\ i \in 1 .. len - (n + 1) + 1 /\ (n + 1) + i - 1 = n + i
    BY <1>1
  <2>2. queue[n + i] = l + (n + i) - 1
    BY <2>1 DEF len
  <2>. QED BY <1>2, <2>1, <2>2
<1>. QED BY <1>3, <1>4 DEF rest, len

\* send_next_packets keeps the invariant.
LEMMA SendInv ==
    ASSUME IInv, TypeOK', NEW p \in Peer, NEW q \in Peer, q = Other(p), p = Other(q),
           send_and_check_queue(p)
    PROVE  IInv'
<1>. DEFINE n       == Admitted(p)
            end     == Advance(m_local_sequence[p], n)
            pending == Filled(p, n)
            sent    == {s \in WindowSlots(m_local_window_start[p], end) : TrySend(pending[s])}
            total   == unwrapped[p].local + n
            sentPackets == {[seq |-> pending[s].seq, number |-> pending[s].number] : s \in sent}
            ack == [seq |-> m_outgoing_acks[p].seq, bits |-> m_outgoing_acks[p].bits,
                    number |-> unwrapped[p].remoteStart]
            after == [s \in Slot |-> IF s \in sent
                                     THEN [pending[s] EXCEPT !.is_sent = TRUE, !.due = FALSE]
                                     ELSE pending[s]]
            l == Local(p)
            ls == LocalStart(p)
<1>1. TypeOK /\ Direction(p, q) /\ Direction(q, p) /\ p # q /\ CountersWrap(p) /\ CountersWrap(q)
  BY OtherOther DEF IInv
<1>2. /\ m_outgoing_queue' = [m_outgoing_queue EXCEPT
            ![p] = SubSeq(m_outgoing_queue[p], n + 1, Len(m_outgoing_queue[p]))]
      /\ m_local_sequence' = [m_local_sequence EXCEPT ![p] = end]
      /\ m_pending_packets' = [m_pending_packets EXCEPT ![p] = after]
      /\ packets' = [packets EXCEPT ![q] = Alive(packets[q] \cup sentPackets, total)]
      /\ acks' = [acks EXCEPT ![q] = IF m_must_send_acks[p] THEN acks[q] \cup {ack} ELSE acks[q],
                              ![p] = Alive(@, total)]
      /\ unwrapped' = [unwrapped EXCEPT ![p].local = total]
      /\ UNCHANGED <<m_ordered, m_local_window_start, m_remote_sequence, m_remote_window_start,
                     m_outgoing_acks, m_received_packets, m_early_received, submitted, released>>
  <2>1. /\ m_outgoing_queue' = [m_outgoing_queue EXCEPT ![p] = SubSeq(@, n + 1, Len(@))]
        /\ packets' = [packets EXCEPT ![q] = Alive(@ \cup sentPackets, total)]
        /\ acks' = [acks EXCEPT ![q] = IF m_must_send_acks[p] THEN @ \cup {ack} ELSE @,
                                ![p] = Alive(@, total)]
    BY DEF send_and_check_queue
  <2>2. m_outgoing_queue' = [m_outgoing_queue EXCEPT
            ![p] = SubSeq(m_outgoing_queue[p], n + 1, Len(m_outgoing_queue[p]))]
    BY <2>1
  <2>3. packets' = [packets EXCEPT ![q] = Alive(packets[q] \cup sentPackets, total)]
    BY <2>1
  <2>4. acks' = [acks EXCEPT ![q] = IF m_must_send_acks[p] THEN acks[q] \cup {ack} ELSE acks[q],
                             ![p] = Alive(@, total)]
    BY <2>1
  <2>. QED BY <2>2, <2>3, <2>4 DEF send_and_check_queue
<1>3. AckIsTrue(q, p, ack)
  BY OutgoingAckIsTrue
<1>4. n \in Nat /\ n <= Len(m_outgoing_queue[p])
  BY AdmittedFits
<1>5. l + n <= ls + WindowSize
  BY AdmittedFits
<1>6. ASSUME NEW m \in ls .. ls + WindowSize - 1
      PROVE  IF m \in l .. l + n - 1
             THEN pending[SlotOf(m)].number = m /\ pending[SlotOf(m)].seq = m % MaxSequence
             ELSE pending[SlotOf(m)] = m_pending_packets[p][SlotOf(m)]
  BY <1>4, <1>5, FilledSlots
<1>7. pending \in [Slot -> Pending]
  <2>1. n \in 0 .. Len(m_outgoing_queue[p])
    BY <1>1, AdmittedType
  <2>. HIDE DEF n
  <2>. QED BY <1>1, <2>1, FilledType
<1>. HIDE DEF n, pending
<1>8. /\ ls \in Nat /\ l \in Nat /\ RemoteStart(q) \in Nat /\ Remote(q) \in Nat /\ WindowSize \in Nat
      /\ RemoteStart(p) \in Nat /\ Remote(p) \in Nat
  BY <1>1, DirectionTypes, Ring
<1>9. CountersMeet(p, q) /\ ls <= l
  <2>1. CountersMeet(p, q)
    BY <1>1 DEF Direction
  <2>. QED BY <1>8, <2>1 DEF CountersMeet
<1>10. m_local_sequence[p] = l % MaxSequence /\ m_local_window_start[p] = ls % MaxSequence
  BY <1>1 DEF CountersWrap
<1>11. total = l + n
  BY DEF Local
<1>. HIDE DEF total, ack
<1>12. end = (l + n) % MaxSequence
  <2>1. l \in Int /\ n \in Int
    BY <1>4, <1>8
  <2>. HIDE DEF l
  <2>2. Advance(l % MaxSequence, n) = (l + n) % MaxSequence
    BY <2>1, SlotOfAdvance
  <2>. QED BY <1>10, <2>2
<1>. HIDE DEF end
<1>13. WindowSlots(m_local_window_start[p], end) = {SlotOf(m) : m \in ls .. l + n - 1}
  <2>1. ls \in Int /\ l + n \in Int /\ 0 <= (l + n) - ls /\ (l + n) - ls < MaxSequence
    <3>1. l \in Nat /\ n \in Nat /\ ls \in Nat /\ ls <= l /\ l + n <= ls + WindowSize
      BY <1>4, <1>5, <1>8, <1>9
    <3>2. WindowSize \in Nat /\ MaxSequence \in Nat /\ WindowSize < MaxSequence
      BY Ring
    <3>. HIDE DEF l, ls
    <3>. QED BY <3>1, <3>2
  <2>. HIDE DEF l, ls
  <2>2. WindowSlots(ls % MaxSequence, (l + n) % MaxSequence) = {SlotOf(m) : m \in ls .. (l + n) - 1}
    BY <2>1, SlotsOfWindow
  <2>3. WindowSlots(m_local_window_start[p], end) = {SlotOf(m) : m \in ls .. (l + n) - 1}
    BY <1>10, <1>12, <2>2, Zenon DEF l, ls
  <2>4. (l + n) - 1 = l + n - 1
    BY <1>4, <1>8 DEF l
  <2>. QED BY <2>3, <2>4, Zenon
<1>. HIDE DEF l, ls
<1>14. ASSUME NEW m \in ls .. ls + WindowSize - 1
       PROVE  /\ m \in l .. l + n - 1 =>
                    pending[SlotOf(m)].number = m /\ pending[SlotOf(m)].seq = m % MaxSequence
              /\ m \notin l .. l + n - 1 =>
                    \/ pending[SlotOf(m)].number = NULL /\ (m < l => Received(q, m))
                    \/ /\ pending[SlotOf(m)].number = m
                       /\ pending[SlotOf(m)].seq = m % MaxSequence
                       /\ m < l
  <2>1. \/ m_pending_packets[p][SlotOf(m)].number = NULL /\ (m < l => Received(q, m))
        \/ /\ m_pending_packets[p][SlotOf(m)].number = m
           /\ m_pending_packets[p][SlotOf(m)].seq = m % MaxSequence
           /\ m < l
    BY <1>1 DEF Direction, PendingIsTrue, l, ls
  <2>. QED BY <1>6, <2>1
<1>15. /\ LocalStart(p)' = ls /\ Local(p)' = l + n
       /\ Remote(p)' = Remote(p) /\ RemoteStart(p)' = RemoteStart(p)
       /\ Local(q)' = Local(q) /\ LocalStart(q)' = LocalStart(q)
       /\ Remote(q)' = Remote(q) /\ RemoteStart(q)' = RemoteStart(q)
  <2>1. unwrapped \in [Peer -> Counters]
    BY <1>1 DEF TypeOK, Counters
  <2>. QED BY <1>1, <1>2, <1>11, <2>1 DEF Counters, ls, Local, LocalStart, Remote, RemoteStart
<1>16. \A m : Received(q, m)' <=> Received(q, m)
  BY <1>2, <1>15, ReceivedIsHas
<1>17. m_pending_packets'[p] = after /\ m_pending_packets'[q] = m_pending_packets[q]
  <2>1. m_pending_packets \in [Peer -> [Slot -> Pending]]
    BY <1>1 DEF TypeOK, Pending, Sequence
  <2>. HIDE DEF after
  <2>. QED BY <1>1, <1>2, <2>1
<1>18. \A s \in Slot : after[s].number = pending[s].number /\ after[s].seq = pending[s].seq
  <2>. HIDE DEF sent
  <2>. QED BY <1>7 DEF Pending
<1>19. packets'[p] = packets[p] /\ packets'[q] = Alive(packets[q] \cup sentPackets, total)
  <2>1. packets \in [Peer -> SUBSET DataPacket]
    BY <1>1 DEF TypeOK, DataPacket, Sequence
  <2>. HIDE DEF sentPackets
  <2>. QED BY <1>1, <1>2, <2>1
<1>20. /\ acks'[p] = Alive(acks[p], total)
       /\ \A a \in acks'[q] : a \in acks[q] \/ a = ack
  <2>1. acks \in [Peer -> SUBSET AckPacket]
    BY <1>1 DEF TypeOK, AckPacket, Sequence
  <2>2. acks'[q] = IF m_must_send_acks[p] THEN acks[q] \cup {ack} ELSE acks[q]
    BY <1>1, <1>2, <2>1
  <2>3. acks'[p] = Alive(acks[p], total)
    BY <1>1, <1>2, <2>1
  <2>. QED BY <2>2, <2>3
<1>. HIDE DEF after
<1>21. Direction(p, q)'
  <2>1. CountersMeet(p, q)'
    <3>1. /\ RemoteStart(q) <= ls /\ ls <= Remote(q) /\ Remote(q) <= l
      BY <1>9 DEF CountersMeet, l, ls
    <3>2. Remote(q) <= l + n
      BY <1>4, <1>8, <3>1 DEF l
    <3>. QED BY <1>5, <1>15, <3>1, <3>2 DEF CountersMeet, l, ls
  <2>2. PendingIsTrue(p, q)'
    <3>. SUFFICES ASSUME NEW m \in ls .. ls + WindowSize - 1
                  PROVE  \/ /\ after[SlotOf(m)].number = NULL
                            /\ m < l + n => Received(q, m)
                         \/ /\ after[SlotOf(m)].number = m
                            /\ after[SlotOf(m)].seq = m % MaxSequence
                            /\ m < l + n
      BY <1>15, <1>16, <1>17 DEF PendingIsTrue
    <3>1. m \in Int /\ l \in Nat /\ n \in Nat
      BY <1>4, <1>8 DEF l, ls
    <3>2. after[SlotOf(m)].number = pending[SlotOf(m)].number /\ after[SlotOf(m)].seq = pending[SlotOf(m)].seq
      BY <1>18, <3>1, SlotTurns
    <3>3. CASE m \in l .. l + n - 1
      <4>1. m < l + n
        BY <3>1, <3>3
      <4>. QED BY <1>14, <3>2, <3>3, <4>1
    <3>4. CASE m \notin l .. l + n - 1
      <4>1. (m < l => m < l + n) /\ (m < l + n => m < l)
        BY <3>1, <3>4
      <4>. QED BY <1>14, <3>2, <3>4, <4>1
    <3>. QED BY <3>3, <3>4
  <2>3. WindowIsTrue(p, q)'
    <3>1. ReceiverIsSound(m_ordered, m_received_packets[q], m_early_received[q],
                          m_outgoing_acks[q].bits, Remote(q), RemoteStart(q), l)
      BY <1>1 DEF Direction, WindowIsTrue, l
    <3>2. l \in Nat /\ l + n \in Nat /\ l <= l + n
      BY <1>4, <1>8 DEF l
    <3>3. ReceiverIsSound(m_ordered, m_received_packets[q], m_early_received[q],
                          m_outgoing_acks[q].bits, Remote(q), RemoteStart(q), l + n)
      BY <1>8, <3>1, <3>2, SenderGoesOn
    <3>. QED BY <1>2, <1>15, <3>3 DEF WindowIsTrue
  <2>4. PacketsAreTrue(p, q)'
    <3>. SUFFICES ASSUME NEW d \in packets'[q]
                  PROVE  d.seq = d.number % MaxSequence /\ d.number < l + n /\ l + n <= d.number + MaxAge
      BY <1>15 DEF PacketsAreTrue
    <3>1. l \in Nat /\ n \in Nat /\ ls \in Nat /\ MaxAge \in Nat /\ 2 * WindowSize <= MaxAge /\ WindowSize \in Nat
      BY <1>4, <1>8, Ring DEF l, ls
    <3>2. CASE d \in packets[q]
      <4>1. d.seq = d.number % MaxSequence /\ d.number < l /\ d.number \in Nat
        BY <1>1, <3>2, DirectionTypes DEF Direction, PacketsAreTrue, l
      <4>2. l + n <= d.number + MaxAge
        BY <1>11, <1>19, <3>1, <4>1 DEF Alive, l
      <4>. QED BY <3>1, <4>1, <4>2
    <3>3. CASE d \in sentPackets
      <4>1. PICK s \in sent : d = [seq |-> pending[s].seq, number |-> pending[s].number]
        BY <3>3
      <4>2. PICK m \in ls .. l + n - 1 : s = SlotOf(m)
        BY <1>13 DEF l, ls
      <4>3. m \in Nat /\ m \in ls .. ls + WindowSize - 1 /\ m < l + n /\ ls <= m
        BY <1>5, <3>1 DEF l, ls
      <4>4. pending[s].number # NULL
        BY DEF TrySend
      <4>5. pending[s].number = m /\ pending[s].seq = m % MaxSequence
        BY <1>14, <4>2, <4>3, <4>4
      <4>6. l + n <= m + MaxAge
        <5>1. l + n <= ls + WindowSize
          BY <1>5 DEF l, ls
        <5>. QED BY <3>1, <4>3, <5>1
      <4>. QED BY <4>1, <4>3, <4>5, <4>6
    <3>. QED BY <1>19, <3>2, <3>3 DEF Alive
  <2>5. ASSUME NEW a \in acks'[p] PROVE AckIsTrue(p, q, a)'
    <3>1. a \in acks[p] /\ a.number + MaxAge >= l + n
      BY <1>11, <1>20 DEF Alive, l
    <3>2. AckIsTrue(p, q, a) /\ a.number \in Nat
      BY <1>1, <3>1, DirectionTypes DEF Direction
    <3>3. l + n <= a.number + MaxAge
      <4>1. l + n \in Nat /\ a.number + MaxAge \in Nat
        BY <1>4, <1>8, <3>2, Ring DEF l
      <4>. QED BY <3>1, <4>1
    <3>. QED BY <1>15, <1>16, <3>2, <3>3 DEF AckIsTrue
  <2>6. ReleasedIsTrue(p, q)'
    <3>1. ReleasedIsTrue(p, q)
      BY <1>1 DEF Direction
    <3>. QED BY <1>2, <1>15, <1>16, <3>1 DEF ReleasedIsTrue
  <2>. QED BY <2>1, <2>2, <2>3, <2>4, <2>5, <2>6 DEF Direction
<1>22. Direction(q, p)'
  <2>1. m_local_sequence'[q] = m_local_sequence[q]
    BY <1>1, <1>2 DEF TypeOK
  <2>2. SenderSame(q) /\ ReceiverSame(p)
    BY <1>2, <1>15, <1>17, <2>1 DEF SenderSame, ReceiverSame
  <2>3. \A a \in acks'[q] : a \in acks[q] \/ AckIsTrue(q, p, a)
    BY <1>3, <1>20
  <2>. QED BY <1>1, <1>19, <2>2, <2>3, DirectionSame
<1>23. CountersWrap(p)' /\ CountersWrap(q)'
  <2>1. m_local_sequence'[p] = end /\ m_local_sequence'[q] = m_local_sequence[q]
    BY <1>1, <1>2 DEF TypeOK
  <2>2. m_local_sequence'[p] = Local(p)' % MaxSequence
    BY <1>12, <1>15, <2>1 DEF l
  <2>. QED BY <1>1, <1>2, <1>15, <2>1, <2>2 DEF CountersWrap, ls
<1>24. QueueIsNumbered(p)' /\ QueueIsNumbered(q)'
  <2>1. QueueIsNumbered(p) /\ QueueIsNumbered(q)
    BY DEF IInv
  <2>. DEFINE queue == m_outgoing_queue[p]
              rest == SubSeq(queue, n + 1, Len(queue))
  <2>2. m_outgoing_queue'[p] = rest /\ m_outgoing_queue'[q] = m_outgoing_queue[q]
    BY <1>1, <1>2 DEF TypeOK
  <2>3. queue \in Seq(Nat) /\ Len(queue) \in Nat /\ n <= Len(queue) /\ l \in Nat
    BY <1>1, <1>4, <1>8, DirectionTypes DEF l
  <2>4. submitted[p] = l + Len(queue) /\ \A i \in 1 .. Len(queue) : queue[i] = l + i - 1
    BY <2>1 DEF QueueIsNumbered, l
  <2>5. Len(rest) = Len(queue) - n /\ \A i \in 1 .. Len(rest) : rest[i] = (l + n) + i - 1
    BY <1>4, <2>3, <2>4, RestIsNumbered
  <2>. HIDE DEF queue, rest
  <2>6. submitted[p] = (l + n) + Len(rest)
    BY <1>4, <2>3, <2>4, <2>5
  <2>. QED BY <1>2, <1>15, <2>1, <2>2, <2>5, <2>6 DEF QueueIsNumbered
<1>. QED BY <1>21, <1>22, <1>23, <1>24, OtherOther DEF IInv
-----------------------------------------------------------------------------
(* The initial state, and what a step does to a slot in use. *)

\* The invariant holds of a new channel.
LEMMA InitInv == Init => IInv
<1>. SUFFICES ASSUME Init PROVE IInv
  OBVIOUS
<1>1. TypeOK
  BY InitTypeOK
<1>2. 0 % MaxSequence = 0 /\ 0 \in Nat /\ WindowSize \in Nat
  BY SmallMod, Ring
<1>3. ASSUME NEW p \in Peer
      PROVE  /\ Local(p) = 0 /\ LocalStart(p) = 0 /\ Remote(p) = 0 /\ RemoteStart(p) = 0
             /\ CountersWrap(p) /\ QueueIsNumbered(p)
  <2>1. Local(p) = 0 /\ LocalStart(p) = 0 /\ Remote(p) = 0 /\ RemoteStart(p) = 0
    BY DEF Init, Local, LocalStart, Remote, RemoteStart
  <2>2. CountersWrap(p)
    BY <1>2, <2>1 DEF Init, CountersWrap
  <2>3. m_outgoing_queue[p] = <<>> /\ submitted[p] = 0
    BY DEF Init
  <2>. QED BY <2>1, <2>2, <2>3 DEF QueueIsNumbered
<1>4. ASSUME NEW p \in Peer, NEW q \in Peer PROVE Direction(p, q)
  <2>1. CountersMeet(p, q)
    BY <1>2, <1>3 DEF CountersMeet
  <2>2. PendingIsTrue(p, q)
    <3>. SUFFICES ASSUME NEW m \in 0 .. WindowSize - 1
                  PROVE  m_pending_packets[p][SlotOf(m)].number = NULL /\ ~(m < 0)
      BY <1>2, <1>3 DEF PendingIsTrue
    <3>1. SlotOf(m) \in Slot
      BY SlotTurns
    <3>. QED BY <1>2, <3>1 DEF Init
  <2>3. WindowIsTrue(p, q)
    <3>1. ASSUME NEW m \in 0 .. WindowSize - 1
          PROVE  ~InUse(m_ordered, m_received_packets[q], m_early_received[q], SlotOf(m)) /\ ~(m < 0)
      <4>1. SlotOf(m) \in Slot
        BY SlotTurns
      <4>. QED BY <1>2, <4>1 DEF Init, InUse
    <3>2. m_outgoing_acks[q].bits = {}
      BY DEF Init
    <3>. QED BY <1>2, <1>3, <3>1, <3>2 DEF WindowIsTrue, ReceiverIsSound
  <2>4. packets[q] = {} /\ acks[p] = {}
    BY DEF Init
  <2>5. ReleasedIsTrue(p, q)
    <3>1. released[q] = <<>>
      BY DEF Init
    <3>2. DOMAIN released[q] = {} /\ released[q] = [i \in 1 .. 0 |-> i - 1]
      BY <3>1
    <3>. QED BY <1>3, <3>2 DEF ReleasedIsTrue
  <2>. QED BY <2>1, <2>2, <2>3, <2>4, <2>5 DEF Direction, PacketsAreTrue
<1>. QED BY <1>1, <1>3, <1>4, OtherOther DEF IInv

\* An early packet takes a free slot.
LEMMA EarlySlotIsFree ==
    ASSUME IInv, NEW q \in Peer, NEW d \in packets[q], early_packet(q, d), m_ordered
    PROVE  m_received_packets[q][SlotOf(d.seq)] = NULL
<1>. DEFINE p == Other(q)
<1>1. p \in Peer /\ q = Other(p) /\ TypeOK
  BY OtherOther DEF IInv
<1>2. Acceptable(q, d) /\ SlotOf(d.seq) \notin KeptBits(q, d)
  BY DEF early_packet, AcceptIntoWindow, IsDuplicate
<1>. HIDE DEF p
<1>3. /\ SlotOf(d.seq) = SlotOf(d.number) /\ d.number \in Nat /\ Start(q, d) \in Nat
      /\ Start(q, d) <= d.number /\ d.number < Start(q, d) + WindowSize
      /\ ReceiverIsSound(m_ordered, m_received_packets[q], m_early_received[q], KeptBits(q, d),
                         Remote(q), Start(q, d), Local(p))
  BY <1>1, <1>2, Slides
<1>4. d.number \in Start(q, d) .. Start(q, d) + WindowSize - 1
  BY <1>3, Ring
<1>5. ~InUse(m_ordered, m_received_packets[q], m_early_received[q], SlotOf(d.number))
  BY <1>2, <1>3, <1>4 DEF ReceiverIsSound
<1>. QED BY <1>3, <1>5 DEF InUse

\* A message that gets a number takes a free slot.
LEMMA FilledSlotIsFree ==
    ASSUME IInv, NEW p \in Peer, NEW s \in Slot, m_pending_packets[p][s].number # NULL
    PROVE  Filled(p, Admitted(p))[s] = m_pending_packets[p][s]
<1>. DEFINE n == Admitted(p)
            l == Local(p)
            ls == LocalStart(p)
            js == {j \in 0 .. n - 1 : SlotOf(Advance(m_local_sequence[p], j)) = s}
<1>1. TypeOK /\ CountersWrap(p) /\ Direction(p, Other(p)) /\ Other(p) \in Peer
  BY OtherOther DEF IInv
<1>2. n \in Nat
  BY AdmittedFits
<1>3. l + n <= ls + WindowSize
  BY AdmittedFits
<1>4. l \in Nat /\ ls \in Nat /\ Remote(Other(p)) \in Nat /\ WindowSize \in Nat
  BY <1>1, DirectionTypes, Ring
<1>5. ls <= l /\ m_local_sequence[p] = l % MaxSequence
  BY <1>1, <1>4 DEF Direction, CountersMeet, CountersWrap
<1>6. ASSUME NEW m \in l .. l + n - 1 PROVE m_pending_packets[p][SlotOf(m)].number = NULL
  <2>. HIDE DEF n, l, ls
  <2>1. m \in ls .. ls + WindowSize - 1 /\ ~(m < l)
    BY <1>2, <1>3, <1>4, <1>5
  <2>. QED BY <1>1, <2>1 DEF Direction, PendingIsTrue, l, ls
<1>7. js = {}
  <2>. SUFFICES ASSUME NEW j \in 0 .. n - 1, SlotOf(Advance(l % MaxSequence, j)) = s PROVE FALSE
    BY <1>5
  <2>. HIDE DEF n, l
  <2>1. j \in Int /\ l \in Int /\ l + j \in l .. l + n - 1
    BY <1>2, <1>4
  <2>2. SlotOf(l + j) = s
    BY <2>1, SlotOfAdvance
  <2>. QED BY <1>6, <2>1, <2>2
<1>. HIDE DEF n
<1>8. Filled(p, n)[s] = IF js = {} THEN m_pending_packets[p][s]
         ELSE LET j == CHOOSE j \in js : TRUE
              IN  [number |-> m_outgoing_queue[p][j + 1], seq |-> Advance(m_local_sequence[p], j),
                   is_sent |-> FALSE, due |-> m_pending_packets[p][s].due]
  BY DEF Filled
<1>. HIDE DEF js
<1>. QED BY <1>7, <1>8 DEF n

\* What a step may do to a slot in use.
SlotsKept ==
    \A x \in Peer, s \in Slot :
        /\ m_received_packets[x][s] # NULL =>
              m_received_packets'[x][s] \in {NULL, m_received_packets[x][s]}
        /\ m_pending_packets[x][s].number # NULL =>
              m_pending_packets'[x][s].number \in {NULL, m_pending_packets[x][s].number}

\* send_next_packets puts packets into empty slots only.
LEMMA SendKeepsSlots ==
    ASSUME IInv, NEW p \in Peer, send_and_check_queue(p)
    PROVE  SlotsKept
<1>1. /\ m_received_packets' = m_received_packets
      /\ m_pending_packets \in [Peer -> [Slot -> Pending]] /\ TypeOK
  BY DEF IInv, TypeOK, Pending, Sequence, send_and_check_queue
<1>2. Filled(p, Admitted(p)) \in [Slot -> Pending]
  BY <1>1, AdmittedType, FilledType
<1>3. PICK sent : m_pending_packets' = [m_pending_packets EXCEPT ![p] =
         [s \in Slot |-> IF s \in sent
                         THEN [Filled(p, Admitted(p))[s] EXCEPT !.is_sent = TRUE, !.due = FALSE]
                         ELSE Filled(p, Admitted(p))[s]]]
  BY DEF send_and_check_queue
<1>4. ASSUME NEW x \in Peer, NEW s \in Slot, m_pending_packets[x][s].number # NULL
      PROVE  m_pending_packets'[x][s].number = m_pending_packets[x][s].number
  <2>1. CASE x = p
    <3>1. Filled(p, Admitted(p))[s] = m_pending_packets[p][s]
      BY <1>4, <2>1, FilledSlotIsFree
    <3>2. Filled(p, Admitted(p))[s] \in Pending
      BY <1>2
    <3>3. m_pending_packets'[p][s].number = Filled(p, Admitted(p))[s].number
      <4>. DEFINE filled == Filled(p, Admitted(p))
      <4>1. m_pending_packets' = [m_pending_packets EXCEPT ![p] =
               [y \in Slot |-> IF y \in sent THEN [filled[y] EXCEPT !.is_sent = TRUE, !.due = FALSE]
                               ELSE filled[y]]]
        BY <1>3
      <4>. HIDE DEF filled
      <4>2. m_pending_packets'[p][s] = IF s \in sent
               THEN [filled[s] EXCEPT !.is_sent = TRUE, !.due = FALSE] ELSE filled[s]
        BY <1>1, <4>1
      <4>3. filled[s] \in Pending
        BY <3>2 DEF filled
      <4>4. m_pending_packets'[p][s].number = filled[s].number
        BY <4>2, <4>3 DEF Pending
      <4>. QED BY <4>4 DEF filled
    <3>. QED BY <2>1, <3>1, <3>3
  <2>2. CASE x # p
    BY <1>1, <1>3, <2>2
  <2>. QED BY <2>1, <2>2
<1>. QED BY <1>1, <1>4 DEF SlotsKept

\* process_ack empties slots and fills none.
LEMMA AckKeepsSlots ==
    ASSUME IInv, NEW p \in Peer, NEW a \in acks[p], process_ack(p, a)
    PROVE  SlotsKept
<1>1. /\ m_received_packets' = m_received_packets
      /\ m_pending_packets \in [Peer -> [Slot -> Pending]]
  BY DEF IInv, TypeOK, Pending, Sequence, process_ack, receiver
<1>2. \E cleared : m_pending_packets' = [m_pending_packets EXCEPT ![p] =
         [s \in Slot |-> IF s \in cleared THEN [@[s] EXCEPT !.number = NULL] ELSE @[s]]]
  BY DEF process_ack
<1>3. ASSUME NEW x \in Peer, NEW s \in Slot
      PROVE  m_pending_packets'[x][s].number \in {NULL, m_pending_packets[x][s].number}
  <2>1. m_pending_packets[x][s] \in Pending
    BY <1>1
  <2>. QED BY <1>1, <1>2, <2>1 DEF Pending
<1>. QED BY <1>1, <1>3 DEF SlotsKept

\* The steps that receive a packet leave the sender's slots alone.
LEMMA ReceiveKeepsSlots ==
    ASSUME IInv, NEW q \in Peer, NEW d \in packets[q], process_packet(q, d)
    PROVE  SlotsKept
<1>1. m_pending_packets' = m_pending_packets
  BY DEF process_packet, drop_packet, duplicate_packet, next_packet, early_packet,
         AcceptIntoWindow, sender
<1>2. m_received_packets \in [Peer -> Held]
  BY DEF IInv, TypeOK, Held
<1>3. CASE drop_packet(q, d) \/ duplicate_packet(q, d)
  BY <1>1, <1>3 DEF drop_packet, duplicate_packet, receiver, SlotsKept
<1>4. CASE next_packet(q, d)
  <2>1. \E freed : m_received_packets' = [m_received_packets EXCEPT ![q] =
           [s \in Slot |-> IF m_ordered /\ s \in freed THEN NULL ELSE @[s]]]
    BY <1>4 DEF next_packet
  <2>2. \A x \in Peer, s \in Slot : m_received_packets'[x][s] \in {NULL, m_received_packets[x][s]}
    BY <1>2, <2>1 DEF Held
  <2>. QED BY <1>1, <2>2 DEF SlotsKept
<1>5. CASE early_packet(q, d)
  <2>1. CASE m_ordered
    <3>1. m_received_packets[q][SlotOf(d.seq)] = NULL
      BY <1>5, <2>1, EarlySlotIsFree
    <3>2. m_received_packets' = [m_received_packets EXCEPT ![q][SlotOf(d.seq)] = d.number]
      BY <1>5, <2>1 DEF early_packet
    <3>3. \A x \in Peer, s \in Slot : m_received_packets[x][s] # NULL =>
             m_received_packets'[x][s] = m_received_packets[x][s]
      BY <1>2, <3>1, <3>2 DEF Held
    <3>. QED BY <1>1, <3>3 DEF SlotsKept
  <2>2. CASE ~m_ordered
    BY <1>1, <1>5, <2>2 DEF early_packet, SlotsKept
  <2>. QED BY <2>1, <2>2
<1>. QED BY <1>3, <1>4, <1>5 DEF process_packet

\* A step that keeps the slots whole.
LEMMA QuietKeepsSlots ==
    ASSUME IInv, NEW p \in Peer,
           add_to_queue(p) \/ resend_delay_elapsed(p) \/ hand_over(p) \/ lose(p)
    PROVE  SlotsKept
<1>1. m_received_packets' = m_received_packets
  BY DEF add_to_queue, resend_delay_elapsed, hand_over, lose, receiver
<1>2. CASE add_to_queue(p) \/ hand_over(p) \/ lose(p)
  BY <1>1, <1>2 DEF add_to_queue, hand_over, lose, sender, SlotsKept
<1>3. CASE resend_delay_elapsed(p)
  <2>1. m_pending_packets \in [Peer -> [Slot -> Pending]]
    BY DEF IInv, TypeOK, Pending, Sequence
  <2>2. PICK s \in Slot : m_pending_packets' = [m_pending_packets EXCEPT ![p][s].due = TRUE]
    BY <1>3 DEF resend_delay_elapsed
  <2>3. \A x \in Peer : \A y \in Slot :
           m_pending_packets'[x][y].number = m_pending_packets[x][y].number
    BY <2>1, <2>2 DEF Pending
  <2>. QED BY <1>1, <2>3 DEF SlotsKept
<1>. QED BY <1>2, <1>3
-----------------------------------------------------------------------------
(* The specification. *)

\* Every step keeps the invariant.
LEMMA StepInv ==
    ASSUME IInv, Next
    PROVE  IInv' /\ SlotsKept
<1>1. TypeOK
  BY DEF IInv
<1>2. ASSUME NEW p \in Peer, add_to_queue(p) PROVE IInv' /\ SlotsKept
  BY <1>1, <1>2, AddToQueueTypeOK, AddInv, QuietKeepsSlots
<1>3. ASSUME NEW p \in Peer, send_and_check_queue(p) PROVE IInv' /\ SlotsKept
  <2>1. TypeOK'
    BY <1>1, <1>3, SendTypeOK
  <2>. QED BY <1>3, <2>1, OtherOther, SendInv, SendKeepsSlots
<1>4. ASSUME NEW p \in Peer, resend_delay_elapsed(p) PROVE IInv' /\ SlotsKept
  BY <1>1, <1>4, ResendDelayTypeOK, ResendDelayInv, QuietKeepsSlots
<1>5. ASSUME NEW p \in Peer, receive_packet(p) PROVE IInv' /\ SlotsKept
  <2>1. PICK d \in packets[p] : process_packet(p, d)
    BY <1>5 DEF receive_packet
  <2>. DEFINE q == Other(p)
  <2>2. q \in Peer /\ p = Other(q)
    BY OtherOther
  <2>3. q = Other(p)
    OBVIOUS
  <2>. HIDE DEF q
  <2>. SUFFICES IInv'
    BY <2>1, ReceiveKeepsSlots
  <2>4. CASE drop_packet(p, d)
    <3>1. TypeOK'
      BY <1>1, <2>4, DropTypeOK
    <3>. QED BY <2>4, <3>1, DropInv
  <2>5. CASE duplicate_packet(p, d)
    <3>1. TypeOK'
      BY <1>1, <2>5, DuplicateTypeOK
    <3>. QED BY <2>2, <2>3, <2>5, <3>1, DuplicateInv
  <2>6. CASE next_packet(p, d)
    <3>1. TypeOK'
      BY <1>1, <2>6, NextTypeOK
    <3>. QED BY <2>2, <2>3, <2>6, <3>1, NextInv
  <2>7. CASE early_packet(p, d)
    <3>1. TypeOK'
      BY <1>1, <2>7, EarlyTypeOK
    <3>. QED BY <2>2, <2>3, <2>7, <3>1, EarlyInv
  <2>. QED BY <2>1, <2>4, <2>5, <2>6, <2>7 DEF process_packet
<1>6. ASSUME NEW p \in Peer, receive_ack(p) PROVE IInv' /\ SlotsKept
  <2>1. PICK a \in acks[p] : process_ack(p, a)
    BY <1>6 DEF receive_ack
  <2>2. TypeOK'
    BY <1>1, <2>1, AckTypeOK
  <2>. QED BY <2>1, <2>2, OtherOther, AckInv, AckKeepsSlots
<1>7. ASSUME NEW p \in Peer, lose(p) PROVE IInv' /\ SlotsKept
  BY <1>1, <1>7, LoseTypeOK, LoseInv, QuietKeepsSlots
<1>8. ASSUME NEW p \in Peer, hand_over(p) PROVE IInv' /\ SlotsKept
  BY <1>1, <1>8, HandOverTypeOK, HandOverInv, QuietKeepsSlots
<1>. QED BY <1>2, <1>3, <1>4, <1>5, <1>6, <1>7, <1>8 DEF Next

\* A step that changes nothing.
LEMMA StutterInv ==
    ASSUME IInv, UNCHANGED vars
    PROVE  IInv' /\ SlotsKept
<1>1. TypeOK
  BY DEF IInv
<1>2. TypeOK'
  BY <1>1 DEF vars, sender, receiver, TypeOK
<1>3. \A x \in Peer : QueueIsNumbered(x)'
  BY QueueSame DEF vars, sender
<1>4. \A x \in Peer : packets'[x] \subseteq packets[x] /\ acks'[x] \subseteq acks[x]
  BY DEF vars
<1>5. IInv'
  BY <1>2, <1>3, <1>4, QuietInv DEF vars, sender
<1>. QED BY <1>5 DEF SlotsKept, vars, sender, receiver

\* What one end has numbered, confirmed and received stays consistent with the
\* other end's window, for every window and any network.
THEOREM ChannelInvariant == Spec => []IInv
<1>1. Init => IInv
  BY InitInv
<1>2. IInv /\ [Next]_vars => IInv'
  BY StepInv, StutterInv
<1>. QED BY <1>1, <1>2, PTL DEF Spec

\* process_ack never ignores the acks of the window it waits for, and the
\* sender overruns no window: the four counters of a direction keep their order
\* and stay within one window.
THEOREM WindowsKeepOrder == Spec => []WindowOrder
<1>1. IInv => WindowOrder
  <2>. SUFFICES ASSUME IInv, NEW p \in Peer PROVE CountersMeet(p, Other(p))
    BY DEF WindowOrder, CountersMeet, Local, LocalStart, Remote, RemoteStart
  <2>. QED BY DEF IInv, Direction
<1>. QED BY <1>1, ChannelInvariant, PTL

\* process_packet has handed the message to add_reliable_packet, or is about to.
IsReleased(q, m) == \E i \in DOMAIN released[q] : released[q][i] = m

\* An unordered channel has let out what it has received.  (An ordered one that
\* which is before the gap: ReleasedIsTrue.)
ReceivedIsReleased ==
    ~m_ordered => \A q \in Peer : \A m \in Nat : Received(q, m) => IsReleased(q, m)

\* What a step adds to the packets that an end has received.
GetsOne(q) ==
    \/ released'[q] = released[q] /\ \A m \in Nat : Received(q, m)' => Received(q, m)
    \/ \E n \in Nat : /\ released'[q] = Append(released[q], n)
                      /\ \A m \in Nat : Received(q, m)' => m = n \/ Received(q, m)

\* On an unordered channel a step that receives a packet lets it out.
LEMMA StepGetsOne ==
    ASSUME IInv, ~m_ordered, [Next]_vars, NEW x \in Peer
    PROVE  m_ordered' = m_ordered /\ GetsOne(x)
<1>1. TypeOK /\ unwrapped \in [Peer -> Counters] /\ released \in [Peer -> Seq(Nat)]
  BY DEF IInv, TypeOK, Counters
<1>2. CASE /\ UNCHANGED <<m_ordered, m_received_packets, m_early_received, released>>
           /\ unwrapped'[x].remote = unwrapped[x].remote
  BY <1>2 DEF GetsOne, Received
<1>3. CASE UNCHANGED vars
  BY <1>2, <1>3 DEF vars, receiver
<1>4. ASSUME NEW p \in Peer,
             \/ add_to_queue(p) \/ send_and_check_queue(p) \/ resend_delay_elapsed(p)
             \/ receive_ack(p) \/ hand_over(p) \/ lose(p)
      PROVE  m_ordered' = m_ordered /\ GetsOne(x)
  <2>1. UNCHANGED <<m_ordered, m_received_packets, m_early_received, released>>
    BY <1>4 DEF add_to_queue, send_and_check_queue, resend_delay_elapsed, receive_ack, process_ack,
                hand_over, lose, receiver
  <2>2. CASE add_to_queue(p) \/ resend_delay_elapsed(p) \/ hand_over(p) \/ lose(p)
    BY <1>2, <2>1, <2>2 DEF add_to_queue, resend_delay_elapsed, hand_over, lose
  <2>3. CASE send_and_check_queue(p)
    <3>1. unwrapped'[x].remote = unwrapped[x].remote
      <4>1. \E total : unwrapped' = [unwrapped EXCEPT ![p].local = total]
        BY <2>3 DEF send_and_check_queue
      <4>. QED BY <1>1, <4>1 DEF Counters
    <3>. QED BY <1>2, <2>1, <3>1
  <2>4. CASE receive_ack(p)
    <3>1. unwrapped'[x].remote = unwrapped[x].remote
      <4>1. \E lead : unwrapped' = [unwrapped EXCEPT ![p].localStart = @ + lead]
        BY <2>4 DEF receive_ack, process_ack
      <4>. QED BY <1>1, <4>1 DEF Counters
    <3>. QED BY <1>2, <2>1, <3>1
  <2>. QED BY <1>4, <2>2, <2>3, <2>4
<1>5. ASSUME NEW q \in Peer, NEW d \in packets[q], process_packet(q, d)
      PROVE  m_ordered' = m_ordered /\ GetsOne(x)
  <2>. DEFINE p == Other(q)
  <2>1. p \in Peer /\ q = Other(p)
    BY OtherOther
  <2>2. p = Other(q)
    OBVIOUS
  <2>. HIDE DEF p
  <2>3. CASE drop_packet(q, d)
    BY <1>2, <2>3 DEF drop_packet, receiver
  <2>4. CASE duplicate_packet(q, d)
    <3>1. unwrapped'[x].remote = unwrapped[x].remote
      <4>1. \E shift : unwrapped' = [unwrapped EXCEPT ![q].remoteStart = @ + shift]
        BY <2>4 DEF duplicate_packet
      <4>. QED BY <1>1, <4>1 DEF Counters
    <3>. QED BY <1>2, <2>4, <3>1 DEF duplicate_packet, AcceptIntoWindow
  <2>5. CASE (next_packet(q, d) \/ early_packet(q, d)) /\ x # q
    <3>1. m_ordered' = m_ordered
      BY <2>5 DEF next_packet, early_packet, AcceptIntoWindow
    <3>2. m_received_packets'[x] = m_received_packets[x] /\ m_early_received'[x] = m_early_received[x]
      <4>1. CASE next_packet(q, d)
        <5>1. CountersWrap(q)
          BY DEF IInv
        <5>. QED BY <1>1, <2>5, <4>1, <5>1, NextReleases
      <4>2. CASE early_packet(q, d)
        BY <1>1, <2>5, <4>2 DEF early_packet, TypeOK
      <4>. QED BY <2>5, <4>1, <4>2
    <3>3. released'[x] = released[x]
      <4>1. released' = released \/ \E s : released' = [released EXCEPT ![q] = s]
        BY <2>5 DEF next_packet, early_packet
      <4>. QED BY <1>1, <2>5, <4>1
    <3>4. unwrapped'[x] = unwrapped[x]
      <4>1. CASE next_packet(q, d)
        <5>1. CountersWrap(q)
          BY DEF IInv
        <5>2. PICK run \in Nat :
                 unwrapped' = [unwrapped EXCEPT ![q].remote = @ + 1 + run,
                                                ![q].remoteStart = @ + WindowShift(q, d)]
          BY <1>1, <4>1, <5>1, NextReleases
        <5>. QED BY <1>1, <2>5, <5>2
      <4>2. CASE early_packet(q, d)
        BY <1>1, <2>5, <4>2 DEF early_packet
      <4>. QED BY <2>5, <4>1, <4>2
    <3>. QED BY <3>1, <3>2, <3>3, <3>4 DEF GetsOne, Received
  <2>6. CASE next_packet(q, d) /\ x = q
    <3>1. TypeOK'
      BY <1>1, <2>6, NextTypeOK
    <3>2. /\ released' = [released EXCEPT ![q] = Append(@, d.number)] /\ d.number \in Nat
          /\ \A m \in Nat : Received(q, m)' => m = d.number \/ Received(q, m)
      BY <2>1, <2>2, <2>6, <3>1, NextInv
    <3>3. m_ordered' = m_ordered
      BY <2>6 DEF next_packet, AcceptIntoWindow
    <3>. QED BY <1>1, <2>6, <3>2, <3>3 DEF GetsOne
  <2>7. CASE early_packet(q, d) /\ x = q
    <3>1. TypeOK'
      BY <1>1, <2>7, EarlyTypeOK
    <3>2. /\ released' = [released EXCEPT ![q] = Append(@, d.number)] /\ d.number \in Nat
          /\ \A m \in Nat : Received(q, m)' => m = d.number \/ Received(q, m)
      BY <2>1, <2>2, <2>7, <3>1, EarlyInv
    <3>3. m_ordered' = m_ordered
      BY <2>7 DEF early_packet, AcceptIntoWindow
    <3>. QED BY <1>1, <2>7, <3>2, <3>3 DEF GetsOne
  <2>. QED BY <1>5, <2>3, <2>4, <2>5, <2>6, <2>7 DEF process_packet
<1>6. ASSUME NEW q \in Peer, receive_packet(q) PROVE m_ordered' = m_ordered /\ GetsOne(x)
  BY <1>5, <1>6 DEF receive_packet
<1>. QED BY <1>3, <1>4, <1>6 DEF Next

\* The delivery method of a channel does not change.
LEMMA ModeStays ==
    ASSUME [Next]_vars
    PROVE  m_ordered' = m_ordered
<1>1. ASSUME NEW p \in Peer, add_to_queue(p) PROVE m_ordered' = m_ordered
  BY <1>1 DEF add_to_queue, receiver
<1>2. ASSUME NEW p \in Peer, send_and_check_queue(p) PROVE m_ordered' = m_ordered
  BY <1>2 DEF send_and_check_queue
<1>3. ASSUME NEW p \in Peer, resend_delay_elapsed(p) \/ hand_over(p) \/ lose(p)
      PROVE  m_ordered' = m_ordered
  BY <1>3 DEF resend_delay_elapsed, hand_over, lose, receiver
<1>4. ASSUME NEW p \in Peer, receive_ack(p) PROVE m_ordered' = m_ordered
  BY <1>4 DEF receive_ack, process_ack, receiver
<1>5. ASSUME NEW p \in Peer, NEW d \in packets[p], process_packet(p, d) PROVE m_ordered' = m_ordered
  <2>1. drop_packet(p, d) => m_ordered' = m_ordered
    BY DEF drop_packet, receiver
  <2>2. AcceptIntoWindow(p, d) => m_ordered' = m_ordered
    BY DEF AcceptIntoWindow
  <2>3. duplicate_packet(p, d) \/ next_packet(p, d) \/ early_packet(p, d) => AcceptIntoWindow(p, d)
    BY DEF duplicate_packet, next_packet, early_packet
  <2>. QED BY <1>5, <2>1, <2>2, <2>3 DEF process_packet
<1>6. UNCHANGED vars => m_ordered' = m_ordered
  BY DEF vars, receiver
<1>. QED BY <1>1, <1>2, <1>3, <1>4, <1>5, <1>6 DEF Next, receive_packet

\* Every step keeps it that what an unordered channel has received is out.
LEMMA StepKeepsReleased ==
    ASSUME IInv, ReceivedIsReleased, [Next]_vars
    PROVE  ReceivedIsReleased'
<1>1. m_ordered' = m_ordered
  BY ModeStays
<1>2. SUFFICES ASSUME ~m_ordered, NEW q \in Peer, NEW m \in Nat, Received(q, m)'
               PROVE  IsReleased(q, m)'
  BY <1>1 DEF ReceivedIsReleased
<1>3. released[q] \in Seq(Nat)
  BY DEF IInv, TypeOK
<1>4. Received(q, m) => IsReleased(q, m)
  BY <1>2 DEF ReceivedIsReleased
<1>5. GetsOne(q)
  BY <1>2, StepGetsOne
<1>6. CASE released'[q] = released[q] /\ \A k \in Nat : Received(q, k)' => Received(q, k)
  BY <1>2, <1>4, <1>6 DEF IsReleased
<1>7. ASSUME NEW n \in Nat, released'[q] = Append(released[q], n),
             \A k \in Nat : Received(q, k)' => k = n \/ Received(q, k)
      PROVE  IsReleased(q, m)'
  <2>1. /\ Len(released[q]) + 1 \in DOMAIN released'[q] /\ released'[q][Len(released[q]) + 1] = n
        /\ \A i \in DOMAIN released[q] : i \in DOMAIN released'[q] /\ released'[q][i] = released[q][i]
    BY <1>3, <1>7, AppendProperties, LenProperties
  <2>2. m = n \/ IsReleased(q, m)
    BY <1>2, <1>4, <1>7
  <2>. QED BY <2>1, <2>2 DEF IsReleased
<1>. QED BY <1>5, <1>6, <1>7 DEF GetsOne

\* What an end of an unordered channel has received, it has let out.
THEOREM ReleasedInvariant == Spec => []ReceivedIsReleased
<1>1. Init => ReceivedIsReleased
  <2>. SUFFICES ASSUME Init, ~m_ordered, NEW q \in Peer, NEW m \in Nat PROVE ~Received(q, m)
    BY DEF ReceivedIsReleased
  <2>1. unwrapped[q].remote = 0 /\ \A k \in Slot : ~m_early_received[q][k]
    BY DEF Init
  <2>2. SlotOf(m) \in Slot
    BY SlotTurns
  <2>. QED BY <2>1, <2>2 DEF Received
<1>2. IInv /\ ReceivedIsReleased /\ [Next]_vars => ReceivedIsReleased'
  BY StepKeepsReleased
<1>. QED BY <1>1, <1>2, ChannelInvariant, PTL DEF Spec

\* What was passed in sequence is out.
LEMMA PassedIsReleased ==
    ASSUME IInv, ReceivedIsReleased, NEW q \in Peer, NEW m \in Nat, m < Remote(q)
    PROVE  IsReleased(q, m)
<1>. DEFINE p == Other(q)
<1>1. p \in Peer /\ q = Other(p)
  BY OtherOther
<1>. HIDE DEF p
<1>2. TypeOK /\ ReleasedIsTrue(p, q)
  BY <1>1 DEF IInv, Direction
<1>3. CASE ~m_ordered
  BY <1>3 DEF ReceivedIsReleased, Received, Remote
<1>4. CASE m_ordered
  <2>1. Remote(q) \in Nat
    BY <1>2, DirectionTypes
  <2>2. released[q] = [i \in 1 .. Remote(q) |-> i - 1]
    BY <1>2, <1>4 DEF ReleasedIsTrue
  <2>3. m + 1 \in 1 .. Remote(q) /\ (m + 1) - 1 = m
    BY <2>1
  <2>4. m + 1 \in DOMAIN released[q] /\ released[q][m + 1] = m
    BY <2>2, <2>3
  <2>. QED BY <2>4 DEF IsReleased
<1>. QED BY <1>3, <1>4

\* process_ack drops the copy of a packet only when the other end has it: a
\* message with a number is pending, held behind a gap, or one that
\* process_packet has handed to add_reliable_packet or is about to.
THEOREM NothingIsLost == Spec => []NoMessageLost
<1>1. IInv /\ ReceivedIsReleased => NoMessageLost
  <2>. SUFFICES ASSUME IInv, ReceivedIsReleased, NEW p \in Peer, NEW m \in 0 .. unwrapped[p].local - 1
                PROVE  \/ m_pending_packets[p][SlotOf(m)].number = m
                       \/ m_ordered /\ m_received_packets[Other(p)][SlotOf(m)] = m
                       \/ IsReleased(Other(p), m)
    BY DEF NoMessageLost, IsReleased
  <2>. DEFINE q == Other(p)
  <2>1. TypeOK /\ q \in Peer /\ CountersMeet(p, q) /\ PendingIsTrue(p, q)
    BY OtherOther DEF IInv, Direction
  <2>2. q = Other(p)
    OBVIOUS
  <2>. HIDE DEF q
  <2>3. /\ Local(p) \in Nat /\ LocalStart(p) \in Nat /\ Remote(q) \in Nat /\ m \in Nat /\ m < Local(p)
        /\ WindowSize \in Nat
    <3>1. Local(p) \in Nat /\ LocalStart(p) \in Nat /\ Remote(q) \in Nat
      BY <2>1, DirectionTypes
    <3>. QED BY <3>1, Ring DEF Local
  <2>4. m_pending_packets[p][SlotOf(m)].number = m \/ Received(q, m)
    <3>1. CASE m < LocalStart(p)
      <4>1. m < Remote(q)
        BY <2>1, <2>3, <3>1 DEF CountersMeet
      <4>. QED BY <4>1 DEF Received, Remote
    <3>2. CASE LocalStart(p) <= m
      <4>1. m \in LocalStart(p) .. LocalStart(p) + WindowSize - 1
        BY <2>1, <2>3, <3>2 DEF CountersMeet
      <4>. QED BY <2>1, <2>3, <4>1 DEF PendingIsTrue
    <3>. QED BY <2>3, <3>1, <3>2
  <2>5. CASE m < Remote(q)
    BY <2>1, <2>2, <2>3, <2>5, PassedIsReleased
  <2>6. CASE Received(q, m) /\ ~(m < Remote(q))
    <3>1. CASE m_ordered
      BY <2>2, <2>6, <3>1 DEF Received, Remote
    <3>2. CASE ~m_ordered
      BY <2>1, <2>2, <2>3, <2>6, <3>2 DEF ReceivedIsReleased
    <3>. QED BY <3>1, <3>2
  <2>. QED BY <2>2, <2>4, <2>5, <2>6
<1>. QED BY <1>1, ChannelInvariant, ReleasedInvariant, PTL

\* An ack bit that reaches process_ack stands for a packet that the other end
\* has, in whatever window positions the bit was used before.
THEOREM AcksTellTheTruth == Spec => []AcksAreTrue
<1>1. IInv => AcksAreTrue
  <2>. SUFFICES ASSUME IInv, NEW p \in Peer, NEW a \in acks[p] PROVE AckIsTrue(p, Other(p), a)
    BY DEF AcksAreTrue, AckIsTrue
  <2>. QED BY DEF IInv, Direction
<1>. QED BY <1>1, ChannelInvariant, PTL

\* process_packet puts no packet over one that it holds, and
\* send_next_packets none over one that is not confirmed.
THEOREM SlotsStay == Spec => SlotsAreNotOverwritten
<1>1. IInv /\ [Next]_vars => [SlotsKept]_vars
  BY StepInv
<1>2. SlotsKept <=> (\A p \in Peer, s \in Slot :
        /\ m_received_packets[p][s] # NULL =>
              m_received_packets'[p][s] \in {NULL, m_received_packets[p][s]}
        /\ m_pending_packets[p][s].number # NULL =>
              m_pending_packets'[p][s].number \in {NULL, m_pending_packets[p][s].number})
  BY DEF SlotsKept
<1>. QED BY <1>1, <1>2, ChannelInvariant, PTL DEF Spec, SlotsAreNotOverwritten
-----------------------------------------------------------------------------
(* What comes out of the channel, and what has been handed over of it. *)

\* A run of consecutive messages comes out of an ordered channel ...
ReleaseInOrder(q) ==
    /\ m_ordered
    /\ \E n \in Len(released[q]) + 1 .. submitted[Other(q)] :
          released' = [released EXCEPT ![q] = [i \in 1 .. n |-> i - 1]]

\* ... and one message of an unordered one.
ReleaseAny(q) ==
    /\ ~m_ordered
    /\ \E m \in 0 .. submitted[Other(q)] - 1 :
          /\ \A i \in DOMAIN released[q] : released[q][i] # m
          /\ released' = [released EXCEPT ![q] = Append(@, m)]

\* A packet that comes out of sequence did not come out before.
LEMMA ReleasesAny ==
    ASSUME IInv, NEW p \in Peer, NEW q \in Peer, q = Other(p), p = Other(q), ~m_ordered,
           NEW m \in Nat, m < Local(p), ~Received(q, m),
           released' = [released EXCEPT ![q] = Append(@, m)]
    PROVE  ReleaseAny(q)
<1>1. TypeOK /\ ReleasedIsTrue(p, q) /\ QueueIsNumbered(p)
  BY DEF IInv, Direction
<1>2. m \in 0 .. submitted[p] - 1
  <2>1. submitted[p] \in Nat /\ Local(p) \in Nat /\ Len(m_outgoing_queue[p]) \in Nat
    BY <1>1, DirectionTypes
  <2>2. submitted[p] = Local(p) + Len(m_outgoing_queue[p])
    BY <1>1 DEF QueueIsNumbered
  <2>. QED BY <2>1, <2>2
<1>3. \A i \in DOMAIN released[q] : released[q][i] # m
  <2>1. ~Has(m_ordered, m_received_packets[q], m_early_received[q], Remote(q), m)
    BY ReceivedIsHas
  <2>2. \A i \in DOMAIN released[q] :
           Has(m_ordered, m_received_packets[q], m_early_received[q], Remote(q), released[q][i])
    BY <1>1, ReleasedIsHas
  <2>. QED BY <2>1, <2>2
<1>. QED BY <1>2, <1>3 DEF ReleaseAny

\* What the receipt of a packet lets out.
LEMMA PacketReleases ==
    ASSUME IInv, NEW q \in Peer, NEW d \in packets[q], process_packet(q, d)
    PROVE  /\ ReleaseInOrder(q) \/ ReleaseAny(q) \/ UNCHANGED released
           /\ UNCHANGED <<m_ordered, submitted, handed>>
           /\ IsReceiving(q)
<1>. DEFINE p == Other(q)
<1>1. p \in Peer /\ q = Other(p)
  BY OtherOther
<1>2. p = Other(q)
  OBVIOUS
<1>. HIDE DEF p
<1>3. TypeOK /\ ReleasedIsTrue(p, q) /\ QueueIsNumbered(p)
  BY <1>1 DEF IInv, Direction
<1>4. UNCHANGED <<m_ordered, submitted, handed>> /\ IsReceiving(q)
  <2>1. AcceptIntoWindow(q, d) => UNCHANGED <<m_ordered, submitted, handed>> /\ IsReceiving(q)
    BY DEF AcceptIntoWindow
  <2>2. drop_packet(q, d) => UNCHANGED <<m_ordered, submitted, handed>> /\ IsReceiving(q)
    BY DEF drop_packet, receiver
  <2>3. duplicate_packet(q, d) \/ next_packet(q, d) \/ early_packet(q, d) => AcceptIntoWindow(q, d)
    BY DEF duplicate_packet, next_packet, early_packet
  <2>. QED BY <2>1, <2>2, <2>3 DEF process_packet
<1>5. CASE drop_packet(q, d) \/ duplicate_packet(q, d)
  BY <1>4, <1>5 DEF drop_packet, duplicate_packet
<1>6. CASE next_packet(q, d)
  <2>1. TypeOK'
    BY <1>3, <1>6, NextTypeOK
  <2>2. /\ m_ordered => \E n \in Remote(q) + 1 .. Local(p) :
              released' = [released EXCEPT ![q] = [i \in 1 .. n |-> i - 1]]
        /\ ~m_ordered => /\ released' = [released EXCEPT ![q] = Append(@, d.number)]
                         /\ d.number \in Nat /\ d.number < Local(p) /\ ~Received(q, d.number)
    BY <1>1, <1>2, <1>6, <2>1, NextInv
  <2>3. CASE m_ordered
    <3>1. PICK n \in Remote(q) + 1 .. Local(p) :
             released' = [released EXCEPT ![q] = [i \in 1 .. n |-> i - 1]]
      BY <2>2, <2>3
    <3>2. /\ submitted[p] \in Nat /\ Local(p) \in Nat /\ Len(m_outgoing_queue[p]) \in Nat
          /\ Remote(q) \in Nat
      BY <1>1, <1>3, DirectionTypes
    <3>3. submitted[p] = Local(p) + Len(m_outgoing_queue[p])
      BY <1>3 DEF QueueIsNumbered
    <3>4. Len(released[q]) = Remote(q)
      <4>1. released[q] = [i \in 1 .. Remote(q) |-> i - 1]
        BY <1>3, <2>3 DEF ReleasedIsTrue
      <4>. QED BY <3>2, <4>1
    <3>5. n \in Len(released[q]) + 1 .. submitted[p]
      BY <3>2, <3>3, <3>4
    <3>. QED BY <1>2, <1>4, <2>3, <3>1, <3>5 DEF ReleaseInOrder
  <2>4. CASE ~m_ordered
    BY <1>1, <1>2, <1>4, <2>2, <2>4, ReleasesAny
  <2>. QED BY <2>3, <2>4
<1>7. CASE early_packet(q, d)
  <2>1. TypeOK'
    BY <1>3, <1>7, EarlyTypeOK
  <2>2. CASE m_ordered
    BY <1>4, <1>7, <2>2 DEF early_packet
  <2>3. CASE ~m_ordered
    <3>1. /\ released' = [released EXCEPT ![q] = Append(@, d.number)]
          /\ d.number \in Nat /\ d.number < Local(p) /\ ~Received(q, d.number)
      BY <1>1, <1>2, <1>7, <2>1, <2>3, EarlyInv
    <3>. QED BY <1>1, <1>2, <1>4, <2>3, <3>1, ReleasesAny
  <2>. QED BY <2>2, <2>3
<1>. QED BY <1>5, <1>6, <1>7 DEF process_packet

\* What a step of the channel does to the messages that came out of it: it is a
\* submission, a packet that lets messages out, a message handed over, or
\* nothing that concerns them.
LEMMA StepReleases ==
    ASSUME IInv, [Next]_vars
    PROVE  \/ \E p \in Peer : /\ submitted' = [submitted EXCEPT ![p] = @ + 1]
                              /\ UNCHANGED <<m_ordered, released, handed>>
           \/ \E q \in Peer : /\ ReleaseInOrder(q) \/ ReleaseAny(q)
                              /\ UNCHANGED <<m_ordered, submitted, handed>>
                              /\ IsReceiving(q)
           \/ \E q \in Peer : /\ handed[q] < Len(released[q])
                              /\ handed' = [handed EXCEPT ![q] = @ + 1]
                              /\ UNCHANGED <<m_ordered, submitted, released>>
           \/ UNCHANGED <<m_ordered, submitted, released, handed>>
<1>1. ASSUME NEW p \in Peer, add_to_queue(p)
      PROVE  submitted' = [submitted EXCEPT ![p] = @ + 1] /\ UNCHANGED <<m_ordered, released, handed>>
  BY <1>1 DEF add_to_queue, receiver
<1>2. ASSUME NEW p \in Peer,
             send_and_check_queue(p) \/ resend_delay_elapsed(p) \/ receive_ack(p) \/ lose(p)
      PROVE  UNCHANGED <<m_ordered, submitted, released, handed>>
  BY <1>2 DEF send_and_check_queue, resend_delay_elapsed, receive_ack, process_ack, lose, receiver
<1>3. ASSUME NEW q \in Peer, receive_packet(q)
      PROVE  /\ ReleaseInOrder(q) \/ ReleaseAny(q) \/ UNCHANGED released
             /\ UNCHANGED <<m_ordered, submitted, handed>>
             /\ IsReceiving(q)
  BY <1>3, PacketReleases DEF receive_packet
<1>4. ASSUME NEW q \in Peer, hand_over(q)
      PROVE  /\ handed[q] < Len(released[q])
             /\ handed' = [handed EXCEPT ![q] = @ + 1]
             /\ UNCHANGED <<m_ordered, submitted, released>>
  BY <1>4 DEF hand_over, receiver
<1>5. CASE UNCHANGED vars
  BY <1>5 DEF vars, receiver
<1>6. CASE Next
  <2>1. PICK p \in Peer : \/ add_to_queue(p) \/ receive_packet(p) \/ hand_over(p)
                          \/ send_and_check_queue(p) \/ resend_delay_elapsed(p)
                          \/ receive_ack(p) \/ lose(p)
    BY <1>6 DEF Next
  <2>2. CASE add_to_queue(p)
    BY <1>1, <2>2
  <2>3. CASE receive_packet(p)
    BY <1>3, <2>3
  <2>4. CASE hand_over(p)
    BY <1>4, <2>4
  <2>5. CASE send_and_check_queue(p) \/ resend_delay_elapsed(p) \/ receive_ack(p) \/ lose(p)
    BY <1>2, <2>5
  <2>. QED BY <2>1, <2>2, <2>3, <2>4, <2>5
<1>. QED BY <1>5, <1>6

\* The messages that came out were sent, each came out once, and the receive
\* thread has handed over no more than came out.
ReleasedOnce(q) ==
    /\ \A i \in DOMAIN released[q] : released[q][i] \in 0 .. submitted[Other(q)] - 1
    /\ \A i, j \in DOMAIN released[q] : released[q][i] = released[q][j] => i = j
    /\ handed[q] <= Len(released[q])

\* A step that lets out one message, or a run of messages.
LEMMA ReleaseKeepsOnce ==
    ASSUME IInv, NEW q \in Peer, ReleasedOnce(q), ReleaseInOrder(q) \/ ReleaseAny(q),
           UNCHANGED <<m_ordered, submitted, handed>>
    PROVE  /\ ReleasedOnce(q)'
           /\ Len(released[q]) <= Len(released'[q])
           /\ m_ordered => \A i \in 1 .. Len(released[q]) : released'[q][i] = i - 1
           /\ ~m_ordered => \A i \in 1 .. Len(released[q]) : released'[q][i] = released[q][i]
           /\ \A x \in Peer : x # q => released'[x] = released[x]
<1>1. /\ released \in [Peer -> Seq(Nat)] /\ released[q] \in Seq(Nat)
      /\ submitted[Other(q)] \in Nat /\ handed[q] \in Nat
  BY OtherOther DEF IInv, TypeOK
<1>. DEFINE n == Len(released[q])
<1>2. n \in Nat /\ DOMAIN released[q] = 1 .. n
  BY <1>1, LenProperties
<1>3. Other(q)' = Other(q)
  BY DEF Other
<1>4. CASE ReleaseInOrder(q)
  <2>1. PICK k \in n + 1 .. submitted[Other(q)] :
           released' = [released EXCEPT ![q] = [i \in 1 .. k |-> i - 1]]
    BY <1>4 DEF ReleaseInOrder
  <2>2. released'[q] = [i \in 1 .. k |-> i - 1]
    BY <1>1, <2>1
  <2>. HIDE DEF n
  <2>3. k \in Nat /\ n < k /\ k <= submitted[Other(q)]
    BY <1>1, <1>2, <2>1
  <2>4. DOMAIN released'[q] = 1 .. k /\ Len(released'[q]) = k
    BY <2>2, <2>3
  <2>5. \A i \in 1 .. k : released'[q][i] = i - 1
    BY <2>2
  <2>6. ReleasedOnce(q)'
    <3>1. \A i \in DOMAIN released'[q] : released'[q][i] \in 0 .. submitted'[Other(q)] - 1
      BY <1>1, <2>3, <2>4, <2>5
    <3>2. \A i, j \in DOMAIN released'[q] : released'[q][i] = released'[q][j] => i = j
      BY <2>3, <2>4, <2>5
    <3>3. handed'[q] <= Len(released'[q])
      BY <1>1, <1>2, <2>3, <2>4 DEF ReleasedOnce, n
    <3>. QED BY <1>3, <3>1, <3>2, <3>3 DEF ReleasedOnce
  <2>7. m_ordered /\ \A x \in Peer : x # q => released'[x] = released[x]
    BY <1>1, <1>4, <2>1 DEF ReleaseInOrder
  <2>8. \A i \in 1 .. n : i \in 1 .. k
    BY <1>2, <2>3
  <2>. QED BY <1>2, <2>3, <2>4, <2>5, <2>6, <2>7, <2>8 DEF n
<1>5. CASE ReleaseAny(q)
  <2>1. PICK m \in 0 .. submitted[Other(q)] - 1 :
           /\ \A i \in DOMAIN released[q] : released[q][i] # m
           /\ released' = [released EXCEPT ![q] = Append(@, m)]
    BY <1>5 DEF ReleaseAny
  <2>2. m \in Nat
    BY <1>1, <2>1
  <2>3. released'[q] = Append(released[q], m)
    BY <1>1, <2>1
  <2>4. /\ DOMAIN released'[q] = 1 .. n + 1 /\ Len(released'[q]) = n + 1
        /\ \A i \in 1 .. n : released'[q][i] = released[q][i]
        /\ released'[q][n + 1] = m
    BY <1>1, <2>2, <2>3, AppendProperties, LenProperties
  <2>. HIDE DEF n
  <2>5. ReleasedOnce(q)'
    <3>1. \A i \in 1 .. n + 1 : i \in 1 .. n \/ i = n + 1
      BY <1>2
    <3>2. \A i \in DOMAIN released'[q] : released'[q][i] \in 0 .. submitted'[Other(q)] - 1
      BY <1>2, <2>1, <2>4, <3>1 DEF ReleasedOnce
    <3>3. ASSUME NEW i \in 1 .. n + 1, NEW j \in 1 .. n + 1, released'[q][i] = released'[q][j]
          PROVE  i = j
      <4>1. CASE i \in 1 .. n /\ j \in 1 .. n
        BY <1>2, <2>4, <3>3, <4>1 DEF ReleasedOnce
      <4>2. CASE i = n + 1 /\ j \in 1 .. n
        BY <1>2, <2>1, <2>4, <3>3, <4>2
      <4>3. CASE i \in 1 .. n /\ j = n + 1
        BY <1>2, <2>1, <2>4, <3>3, <4>3
      <4>. QED BY <3>1, <4>1, <4>2, <4>3
    <3>4. handed'[q] <= Len(released'[q])
      BY <1>1, <1>2, <2>4 DEF ReleasedOnce, n
    <3>. QED BY <1>3, <2>4, <3>2, <3>3, <3>4 DEF ReleasedOnce
  <2>6. ~m_ordered /\ \A x \in Peer : x # q => released'[x] = released[x]
    BY <1>1, <1>5, <2>1 DEF ReleaseAny
  <2>. QED BY <1>2, <2>4, <2>5, <2>6 DEF n
<1>. QED BY <1>4, <1>5

\* Every step keeps it that a message comes out at most once.
LEMMA StepKeepsOnce ==
    ASSUME IInv, [Next]_vars, \A x \in Peer : ReleasedOnce(x), NEW x \in Peer
    PROVE  ReleasedOnce(x)'
<1>1. /\ released[x] \in Seq(Nat) /\ Len(released[x]) \in Nat
      /\ submitted \in [Peer -> Nat] /\ handed \in [Peer -> Nat] /\ Other(x) \in Peer
  BY OtherOther, LenProperties DEF IInv, TypeOK
<1>2. Other(x)' = Other(x)
  BY DEF Other
<1>3. ASSUME NEW p \in Peer, submitted' = [submitted EXCEPT ![p] = @ + 1],
             UNCHANGED <<released, handed>>
      PROVE  ReleasedOnce(x)'
  <2>1. submitted'[Other(x)] \in Nat /\ submitted[Other(x)] <= submitted'[Other(x)]
    BY <1>1, <1>3
  <2>2. \A i \in DOMAIN released[x] : released[x][i] \in 0 .. submitted'[Other(x)] - 1
    BY <1>1, <2>1 DEF ReleasedOnce
  <2>. QED BY <1>2, <1>3, <2>2 DEF ReleasedOnce
<1>4. ASSUME NEW q \in Peer, ReleaseInOrder(q) \/ ReleaseAny(q),
             UNCHANGED <<m_ordered, submitted, handed>>
      PROVE  ReleasedOnce(x)'
  <2>1. CASE x = q
    BY <1>4, <2>1, ReleaseKeepsOnce
  <2>2. CASE x # q
    <3>1. released'[x] = released[x]
      BY <1>4, <2>2, ReleaseKeepsOnce
    <3>. QED BY <1>2, <1>4, <3>1 DEF ReleasedOnce
  <2>. QED BY <2>1, <2>2
<1>5. ASSUME NEW q \in Peer, handed[q] < Len(released[q]), handed' = [handed EXCEPT ![q] = @ + 1],
             UNCHANGED <<submitted, released>>
      PROVE  ReleasedOnce(x)'
  <2>1. handed'[x] <= Len(released[x])
    BY <1>1, <1>5 DEF ReleasedOnce
  <2>. QED BY <1>2, <1>5, <2>1 DEF ReleasedOnce
<1>6. CASE UNCHANGED <<submitted, released, handed>>
  BY <1>2, <1>6 DEF ReleasedOnce
<1>. QED BY <1>3, <1>4, <1>5, <1>6, StepReleases

\* No message comes out twice, and none that was not sent.
LEMMA OnceInvariant == Spec => [](\A q \in Peer : ReleasedOnce(q))
<1>1. Init => \A q \in Peer : ReleasedOnce(q)
  <2>. SUFFICES ASSUME Init, NEW q \in Peer PROVE ReleasedOnce(q)
    OBVIOUS
  <2>1. released[q] = <<>> /\ handed[q] = 0
    BY DEF Init
  <2>2. DOMAIN released[q] = {} /\ Len(released[q]) = 0
    BY <2>1
  <2>. QED BY <2>1, <2>2 DEF ReleasedOnce
<1>2. IInv /\ (\A q \in Peer : ReleasedOnce(q)) /\ [Next]_vars => (\A q \in Peer : ReleasedOnce(q))'
  BY StepKeepsOnce
<1>. QED BY <1>1, <1>2, ChannelInvariant, PTL DEF Spec

\* The first h elements of a sequence.
LEMMA PrefixIs ==
    ASSUME NEW s \in Seq(Nat), NEW h \in Nat, h <= Len(s)
    PROVE  /\ SubSeq(s, 1, h) \in Seq(Nat) /\ Len(SubSeq(s, 1, h)) = h
           /\ DOMAIN SubSeq(s, 1, h) = 1 .. h
           /\ \A i \in 1 .. h : SubSeq(s, 1, h)[i] = s[i] /\ i \in DOMAIN s
<1>1. Len(s) \in Nat /\ DOMAIN s = 1 .. Len(s)
  BY LenProperties
<1>2. \A i \in 1 .. h : i \in 1 .. Len(s)
  BY <1>1
<1>3. /\ SubSeq(s, 1, h) \in Seq(Nat) /\ Len(SubSeq(s, 1, h)) = h
      /\ \A i \in 1 .. h : SubSeq(s, 1, h)[i] = s[i]
  BY <1>1, <1>2
<1>4. DOMAIN SubSeq(s, 1, h) = 1 .. h
  BY <1>3, LenProperties
<1>. QED BY <1>1, <1>2, <1>3, <1>4

\* What has been handed over.
LEMMA DeliveredIs ==
    ASSUME TypeOK, NEW q \in Peer, handed[q] <= Len(released[q])
    PROVE  /\ delivered[q] \in Seq(Nat)
           /\ Len(delivered[q]) = handed[q] /\ DOMAIN delivered[q] = 1 .. handed[q]
           /\ \A i \in 1 .. handed[q] : delivered[q][i] = released[q][i] /\ i \in DOMAIN released[q]
<1>1. released[q] \in Seq(Nat) /\ handed[q] \in Nat
  BY DEF TypeOK
<1>2. delivered[q] = SubSeq(released[q], 1, handed[q])
  BY DEF delivered
<1>. QED BY <1>1, <1>2, PrefixIs

\* Two sequences that hold the same.
LEMMA SameSequence ==
    ASSUME NEW s \in Seq(Nat), NEW t \in Seq(Nat), Len(s) = Len(t),
           \A i \in 1 .. Len(s) : s[i] = t[i]
    PROVE  s = t
BY SeqEqual

\* A message that is confirmed has been handed to add_reliable_packet, or the
\* receive thread of the other end is on its way to do so: the ack bit is set, and
\* the ack sent, before the call.  When that thread takes the next datagram,
\* every message that m_local_window_start has moved over has been handed over.
THEOREM ConfirmedComesOut ==
    Spec => [](\A p \in Peer : \A m \in 0 .. unwrapped[p].localStart - 1 :
                  LET q == Other(p)
                  IN  \/ \E i \in DOMAIN delivered[q] : delivered[q][i] = m
                      \/ /\ ~IsReceiving(q)
                         /\ \E i \in handed[q] + 1 .. Len(released[q]) : released[q][i] = m)
<1>1. ASSUME IInv, ReceivedIsReleased, \A q \in Peer : ReleasedOnce(q),
             NEW p \in Peer, NEW m \in 0 .. unwrapped[p].localStart - 1, NEW q, q = Other(p)
      PROVE  \/ \E i \in DOMAIN delivered[q] : delivered[q][i] = m
             \/ /\ ~IsReceiving(q)
                /\ \E i \in handed[q] + 1 .. Len(released[q]) : released[q][i] = m
  <2>1. TypeOK /\ q \in Peer /\ LocalStart(p) <= Remote(q)
    BY <1>1, OtherOther DEF IInv, Direction, CountersMeet
  <2>2. LocalStart(p) \in Nat /\ Remote(q) \in Nat
    BY <1>1, <2>1, DirectionTypes
  <2>3. m \in Nat /\ m < Remote(q)
    BY <2>1, <2>2 DEF LocalStart
  <2>4. PICK i \in DOMAIN released[q] : released[q][i] = m
    BY <1>1, <2>1, <2>3, PassedIsReleased DEF IsReleased
  <2>5. released[q] \in Seq(Nat) /\ handed[q] \in Nat /\ handed[q] <= Len(released[q])
    BY <1>1, <2>1 DEF ReleasedOnce, TypeOK
  <2>6. i \in 1 .. Len(released[q]) /\ Len(released[q]) \in Nat
    BY <2>4, <2>5, LenProperties
  <2>7. CASE i <= handed[q]
    <3>1. i \in 1 .. handed[q]
      BY <2>5, <2>6, <2>7
    <3>2. i \in DOMAIN delivered[q] /\ delivered[q][i] = m
      BY <2>1, <2>4, <2>5, <3>1, DeliveredIs
    <3>. QED BY <3>2
  <2>8. CASE ~(i <= handed[q])
    <3>1. i \in handed[q] + 1 .. Len(released[q]) /\ handed[q] # Len(released[q])
      BY <2>5, <2>6, <2>8
    <3>. QED BY <2>4, <3>1 DEF IsReceiving
  <2>. QED BY <2>7, <2>8
<1>2. IInv /\ ReceivedIsReleased /\ (\A q \in Peer : ReleasedOnce(q)) =>
         \A p \in Peer : \A m \in 0 .. unwrapped[p].localStart - 1 :
            LET q == Other(p)
            IN  \/ \E i \in DOMAIN delivered[q] : delivered[q][i] = m
                \/ /\ ~IsReceiving(q)
                   /\ \E i \in handed[q] + 1 .. Len(released[q]) : released[q][i] = m
  BY <1>1
<1>. QED BY <1>2, ChannelInvariant, ReleasedInvariant, OnceInvariant, PTL
-----------------------------------------------------------------------------
(* The channel implements ReliableDelivery. *)

\* A packet that lets messages out hands none over.
LEMMA ReleaseKeepsDelivered ==
    ASSUME IInv, IInv', \A x \in Peer : ReleasedOnce(x), NEW q \in Peer, IsReceiving(q),
           ReleaseInOrder(q) \/ ReleaseAny(q), UNCHANGED <<m_ordered, submitted, handed>>
    PROVE  delivered' = delivered
<1>1. TypeOK /\ TypeOK' /\ handed[q] = Len(released[q])
  BY DEF IInv, IsReceiving
<1>2. ASSUME NEW x \in Peer, x # q PROVE delivered'[x] = delivered[x]
  <2>1. released'[x] = released[x]
    BY <1>2, ReleaseKeepsOnce
  <2>. QED BY <2>1 DEF delivered
<1>3. delivered'[q] = delivered[q]
  <2>1. /\ ReleasedOnce(q)'
        /\ m_ordered => \A i \in 1 .. Len(released[q]) : released'[q][i] = i - 1
        /\ ~m_ordered => \A i \in 1 .. Len(released[q]) : released'[q][i] = released[q][i]
    BY ReleaseKeepsOnce
  <2>2. \A i \in 1 .. Len(released[q]) : released'[q][i] = released[q][i]
    <3>1. CASE m_ordered
      <4>. DEFINE p == Other(q)
      <4>1. p \in Peer /\ q = Other(p)
        BY OtherOther
      <4>. HIDE DEF p
      <4>2. released[q] = [i \in 1 .. Remote(q) |-> i - 1] /\ Remote(q) \in Nat
        BY <1>1, <3>1, <4>1, DirectionTypes DEF IInv, Direction, ReleasedIsTrue
      <4>3. Len(released[q]) = Remote(q)
        BY <4>2
      <4>. QED BY <2>1, <3>1, <4>2, <4>3
    <3>. QED BY <2>1, <3>1
  <2>3. /\ delivered[q] \in Seq(Nat) /\ Len(delivered[q]) = handed[q]
        /\ \A i \in 1 .. handed[q] : delivered[q][i] = released[q][i]
    BY <1>1, DeliveredIs DEF ReleasedOnce
  <2>4. handed'[q] <= Len(released'[q])
    BY <2>1 DEF ReleasedOnce
  <2>5. released'[q] \in Seq(Nat) /\ handed[q] \in Nat /\ delivered'[q] = SubSeq(released'[q], 1, handed[q])
    BY <1>1 DEF TypeOK, delivered
  <2>6. /\ delivered'[q] \in Seq(Nat) /\ Len(delivered'[q]) = handed[q]
        /\ \A i \in 1 .. handed[q] : delivered'[q][i] = released'[q][i]
    BY <2>4, <2>5, PrefixIs
  <2>7. \A i \in 1 .. Len(delivered[q]) : delivered'[q][i] = delivered[q][i]
    BY <1>1, <2>2, <2>3, <2>6
  <2>. QED BY <2>3, <2>6, <2>7, SameSequence
<1>. QED BY <1>2, <1>3 DEF delivered

\* What the call of add_reliable_packet adds.
LEMMA HandsOneOver ==
    ASSUME IInv, \A x \in Peer : ReleasedOnce(x), NEW q \in Peer,
           handed[q] < Len(released[q]), handed' = [handed EXCEPT ![q] = @ + 1],
           UNCHANGED released
    PROVE  /\ delivered' = [delivered EXCEPT ![q] = Append(@, released[q][handed[q] + 1])]
           /\ handed[q] + 1 \in DOMAIN released[q]
<1>. DEFINE h == handed[q]
            m == released[q][h + 1]
<1>1. TypeOK /\ released[q] \in Seq(Nat) /\ h \in Nat /\ Len(released[q]) \in Nat
  BY LenProperties DEF IInv, TypeOK
<1>2. h + 1 \in 1 .. Len(released[q]) /\ DOMAIN released[q] = 1 .. Len(released[q])
  BY <1>1, LenProperties
<1>3. handed'[q] = h + 1 /\ \A x \in Peer : x # q => handed'[x] = handed[x]
  BY DEF IInv, TypeOK
<1>4. m \in Nat
  BY <1>1, <1>2, ElementOfSeq
<1>5. /\ delivered[q] \in Seq(Nat) /\ Len(delivered[q]) = h
      /\ \A i \in 1 .. h : delivered[q][i] = released[q][i]
  BY <1>1, DeliveredIs
<1>6. delivered'[q] = SubSeq(released[q], 1, h + 1)
  BY <1>3 DEF delivered
<1>. HIDE DEF h
<1>7. \A i \in 1 .. h + 1 : i \in 1 .. Len(released[q])
  BY <1>1, <1>2
<1>8. /\ SubSeq(released[q], 1, h + 1) \in Seq(Nat)
      /\ Len(SubSeq(released[q], 1, h + 1)) = h + 1
      /\ \A i \in 1 .. h + 1 : SubSeq(released[q], 1, h + 1)[i] = released[q][i]
  BY <1>1, <1>7
<1>. HIDE DEF m
<1>9. /\ Append(delivered[q], m) \in Seq(Nat) /\ Len(Append(delivered[q], m)) = h + 1
      /\ \A i \in 1 .. h : Append(delivered[q], m)[i] = delivered[q][i]
      /\ Append(delivered[q], m)[h + 1] = m
  BY <1>4, <1>5, AppendProperties
<1>10. \A i \in 1 .. h + 1 : Append(delivered[q], m)[i] = SubSeq(released[q], 1, h + 1)[i]
  <2>1. \A i \in 1 .. h + 1 : i \in 1 .. h \/ i = h + 1
    BY <1>1
  <2>. QED BY <1>5, <1>8, <1>9, <2>1 DEF m
<1>11. delivered'[q] = Append(delivered[q], m)
  BY <1>6, <1>8, <1>9, <1>10, SameSequence
<1>12. ASSUME NEW x \in Peer, x # q PROVE delivered'[x] = delivered[x]
  <2>1. released'[x] = released[x] /\ handed'[x] = handed[x]
    BY <1>3, <1>12
  <2>2. delivered'[x] = SubSeq(released'[x], 1, handed'[x])
    BY DEF delivered
  <2>3. delivered[x] = SubSeq(released[x], 1, handed[x])
    BY DEF delivered
  <2>. QED BY <2>1, <2>2, <2>3, Zenon
<1>13. delivered \in [Peer -> Seq(Nat)] /\ delivered' \in [Peer -> Seq(Nat)]
  <2>1. ASSUME NEW x \in Peer PROVE delivered[x] \in Seq(Nat)
    BY <1>1, DeliveredIs DEF ReleasedOnce
  <2>2. ASSUME NEW x \in Peer PROVE delivered'[x] \in Seq(Nat)
    <3>1. CASE x = q
      BY <1>9, <1>11, <3>1
    <3>2. CASE x # q
      BY <1>12, <2>1, <3>2
    <3>. QED BY <3>1, <3>2
  <2>. QED BY <2>1, <2>2 DEF delivered
<1>. HIDE DEF h
<1>14. delivered' = [delivered EXCEPT ![q] = Append(@, m)]
  BY <1>11, <1>12, <1>13
<1>. QED BY <1>2, <1>14 DEF h, m

\* Every step of the channel is one of ReliableDelivery or a stutter.
LEMMA StepDelivers ==
    ASSUME IInv, IInv', \A x \in Peer : ReleasedOnce(x), [Next]_vars
    PROVE  [Delivery!Next]_(Delivery!vars)
<1>1. ASSUME NEW p \in Peer, submitted' = [submitted EXCEPT ![p] = @ + 1],
             UNCHANGED <<m_ordered, released, handed>>
      PROVE  Delivery!Submit(p)
  BY <1>1 DEF Delivery!Submit, delivered
<1>2. ASSUME NEW q \in Peer, ReleaseInOrder(q) \/ ReleaseAny(q), IsReceiving(q),
             UNCHANGED <<m_ordered, submitted, handed>>
      PROVE  UNCHANGED Delivery!vars
  BY <1>2, ReleaseKeepsDelivered DEF Delivery!vars
<1>3. ASSUME NEW q \in Peer, handed[q] < Len(released[q]), handed' = [handed EXCEPT ![q] = @ + 1],
             UNCHANGED <<m_ordered, submitted, released>>
      PROVE  Delivery!DeliverInOrder(q) \/ Delivery!DeliverAny(q)
  <2>. DEFINE h == handed[q]
              m == released[q][h + 1]
  <2>1. /\ delivered' = [delivered EXCEPT ![q] = Append(@, m)]
        /\ h + 1 \in DOMAIN released[q]
    BY <1>3, HandsOneOver
  <2>2. TypeOK /\ h \in Nat /\ Other(q) \in Peer /\ Delivery!Other(q) = Other(q)
    BY OtherOther DEF IInv, TypeOK, Delivery!Other, Other
  <2>3. m \in 0 .. submitted[Other(q)] - 1 /\ submitted[Other(q)] \in Nat
    BY <2>1, <2>2 DEF ReleasedOnce, TypeOK
  <2>4. /\ Len(delivered[q]) = h /\ DOMAIN delivered[q] = 1 .. h
        /\ \A i \in 1 .. h : delivered[q][i] = released[q][i] /\ i \in DOMAIN released[q]
    BY <2>2, DeliveredIs DEF ReleasedOnce
  <2>5. CASE m_ordered
    <3>. DEFINE p == Other(q)
    <3>1. p \in Peer /\ q = Other(p)
      BY OtherOther
    <3>. HIDE DEF p
    <3>2. released[q] = [i \in 1 .. Remote(q) |-> i - 1] /\ Remote(q) \in Nat
      BY <2>2, <2>5, <3>1, DirectionTypes DEF IInv, Direction, ReleasedIsTrue
    <3>3. m = h
      BY <2>1, <2>2, <3>2
    <3>4. Len(delivered[q]) < submitted[Other(q)]
      BY <2>2, <2>3, <2>4, <3>3
    <3>. HIDE DEF h, m
    <3>5. delivered' = [delivered EXCEPT ![q] = Append(@, Len(@))]
      BY <2>1, <2>4, <3>3 DEF delivered
    <3>. QED BY <1>3, <2>2, <2>5, <3>4, <3>5 DEF Delivery!DeliverInOrder
  <2>6. CASE ~m_ordered
    <3>1. \A i \in DOMAIN delivered[q] : delivered[q][i] # m
      <4>. SUFFICES ASSUME NEW i \in 1 .. h, released[q][i] = m PROVE FALSE
        BY <2>4
      <4>1. i = h + 1
        BY <2>1, <2>4 DEF ReleasedOnce
      <4>. QED BY <2>2, <4>1
    <3>. HIDE DEF h, m
    <3>. QED BY <1>3, <2>1, <2>2, <2>3, <2>6, <3>1 DEF Delivery!DeliverAny
  <2>. QED BY <2>5, <2>6
<1>4. CASE UNCHANGED <<m_ordered, submitted, released, handed>>
  BY <1>4 DEF Delivery!vars, delivered
<1>5. CASE \E p \in Peer : /\ submitted' = [submitted EXCEPT ![p] = @ + 1]
                           /\ UNCHANGED <<m_ordered, released, handed>>
  BY <1>1, <1>5 DEF Delivery!Next
<1>6. CASE \E q \in Peer : /\ ReleaseInOrder(q) \/ ReleaseAny(q)
                           /\ UNCHANGED <<m_ordered, submitted, handed>>
                           /\ IsReceiving(q)
  BY <1>2, <1>6
<1>7. CASE \E q \in Peer : /\ handed[q] < Len(released[q])
                           /\ handed' = [handed EXCEPT ![q] = @ + 1]
                           /\ UNCHANGED <<m_ordered, submitted, released>>
  BY <1>3, <1>7 DEF Delivery!Next
<1>. QED BY <1>4, <1>5, <1>6, <1>7, StepReleases

\* Whatever the network does with the datagrams, add_reliable_packet is called for
\* no message twice and for none that was not sent, and by an ordered channel
\* in the order in which the messages were sent: every step of the two ends is
\* a step of ReliableDelivery or leaves its variables alone.
THEOREM ChannelDelivers == Spec => DeliversReliably
<1>1. Init => Delivery!Init
  <2>. SUFFICES ASSUME Init PROVE Delivery!Init
    OBVIOUS
  <2>1. ASSUME NEW p \in Peer PROVE SubSeq(released[p], 1, handed[p]) = <<>>
    <3>1. released[p] = <<>> /\ handed[p] = 0
      BY DEF Init
    <3>. QED BY <3>1
  <2>2. delivered = [p \in Peer |-> <<>>]
    BY <2>1 DEF delivered
  <2>. QED BY <2>2 DEF Init, Delivery!Init
<1>2. /\ IInv /\ IInv' /\ (\A q \in Peer : ReleasedOnce(q)) /\ [Next]_vars
      => [Delivery!Next]_(Delivery!vars)
  BY StepDelivers
<1>. QED BY <1>1, <1>2, ChannelInvariant, OnceInvariant, PTL DEF Spec, DeliversReliably, Delivery!Spec

\* add_reliable_packet is called for no message twice, and by an ordered channel
\* for all messages in the order in which they were sent, without a gap.
THEOREM ComesOnceInOrder == Spec => [](Delivery!ComesOnce /\ Delivery!ComesInOrder)
<1>1. ASSUME IInv, \A q \in Peer : ReleasedOnce(q) PROVE Delivery!ComesOnce /\ Delivery!ComesInOrder
  <2>. SUFFICES ASSUME NEW q \in Peer
                PROVE  /\ \A i, j \in DOMAIN delivered[q] : delivered[q][i] = delivered[q][j] => i = j
                       /\ m_ordered => \A i \in DOMAIN delivered[q] : delivered[q][i] = i - 1
    BY DEF Delivery!ComesOnce, Delivery!ComesInOrder
  <2>1. TypeOK /\ ReleasedOnce(q)
    BY <1>1 DEF IInv
  <2>2. /\ DOMAIN delivered[q] = 1 .. handed[q]
        /\ \A i \in 1 .. handed[q] : delivered[q][i] = released[q][i] /\ i \in DOMAIN released[q]
    BY <2>1, DeliveredIs DEF ReleasedOnce
  <2>3. \A i, j \in DOMAIN delivered[q] : delivered[q][i] = delivered[q][j] => i = j
    BY <2>1, <2>2 DEF ReleasedOnce
  <2>4. CASE m_ordered
    <3>. DEFINE p == Other(q)
    <3>1. p \in Peer /\ q = Other(p)
      BY OtherOther
    <3>. HIDE DEF p
    <3>2. released[q] = [i \in 1 .. Remote(q) |-> i - 1]
      BY <1>1, <2>4, <3>1 DEF IInv, Direction, ReleasedIsTrue
    <3>. QED BY <2>2, <2>3, <3>2
  <2>. QED BY <2>3, <2>4
<1>2. IInv /\ (\A q \in Peer : ReleasedOnce(q)) => Delivery!ComesOnce /\ Delivery!ComesInOrder
  BY <1>1
<1>. QED BY <1>2, ChannelInvariant, OnceInvariant, PTL DEF Delivery!ComesOnce, Delivery!ComesInOrder
=============================================================================
