------------------------- MODULE MessagePathProofs -------------------------
(***************************************************************************)
(* Proofs about MessagePath, for any threads, messages, sizes of the MTU,  *)
(* connection and fragment ids, and faults of the network: the types, that *)
(* datagrams fit and are as long as their packets, that the path           *)
(* implements MessageDelivery, and what follows of it: of what reliable    *)
(* channels carry, nothing is refused, missing, doubled or out of order.   *)
(*                                                                         *)
(* The inductive invariant has two halves.  One says where packets are:    *)
(* every packet that was pushed, has not been handed over and is not gone  *)
(* with a datagram without a channel to keep it is in one place, once      *)
(* (PlacedOnce); the actions of the logic thread only move packets.  The   *)
(* other half speaks of the set Flight of these packets, whatever their    *)
(* places: which messages they are parts of (PartsAreTrue), what has been  *)
(* collected (HeldIsTrue), that no part is missing (NothingIsMissing), and *)
(* how the numbers of the ordered channel follow the order in which a      *)
(* thread sent (NumbersFollow).  CopiesAreTrue is about what comes again.  *)
(***************************************************************************)
EXTENDS MessagePath, FiniteSetTheorems, SequenceTheorems, WellFoundedInduction, TLAPS

-----------------------------------------------------------------------------
(* The inductive invariant. *)

Packet == [message : Message, id : 0 .. FragmentIds - 1, part : Nat, total : Nat, size : Nat]
Numbered == [number : Nat, packet : Packet]
Incoming == [total : Nat, channel : Method, fragments : SUBSET Packet]

Types ==
    /\ script \in Scripts
    /\ next \in [Thread -> Nat \ {0}]
    /\ splitting \in [Thread -> Seq(Packet)]
    /\ m_outgoing_queue \in [Method -> Seq(Numbered)]
    /\ pushed \in [Method -> Nat]
    /\ appending \in Numbered \cup {None}
    /\ m_merge_data \in Seq(Numbered)
    /\ m_merge_pos \in Nat
    /\ lost \in SUBSET Numbered
    /\ \A d \in net : d \in [packets : Seq(Numbered), size : Int] /\ d.packets # <<>>
    /\ \A d \in copies : d.packets \in Seq(Numbered)
    /\ unpacking \in Seq(Numbered)
    /\ repeated \in Seq(Numbered)
    /\ waiting \in SUBSET Numbered
    /\ handed \in Nat
    /\ m_holded_fragments \in [0 .. FragmentIds - 1 -> Incoming \cup {None}]
    /\ splits \in Seq([message : Message, total : Nat \ {0}])
    /\ submitted \in [Thread -> Seq(Message)]
    /\ delivered \in Seq(Message)

\* The places of a packet between its push and its being handed over; what was
\* lost counts as a part of the network that comes late.
Queued == UNION {ToSet(m_outgoing_queue[c]) : c \in Method}
Appending == {appending} \ {None}
Merging == ToSet(m_merge_data)
InNet == (UNION {ToSet(d.packets) : d \in net}) \cup lost
Unpacking == ToSet(unpacking)
Left == Appending \cup Merging \cup InNet \cup Unpacking \cup waiting
Flight == Queued \cup Left

Channel(p) == p.packet.message.method
Once(s) == \A i, j \in DOMAIN s : s[i] = s[j] => i = j

\* The MTU, and the sizes that were cut to it.
SizesFit ==
    /\ m_mtu \in ToSet(POSSIBLE_MTU) /\ largest \in ToSet(POSSIBLE_MTU) /\ m_mtu <= largest
    /\ \A t \in Thread : \A i \in DOMAIN splitting[t] : splitting[t][i].size <= largest
    /\ \A p \in Flight : SizeOf(p) <= largest
    /\ appending # None => MergedPacketSize(appending) <= largest
    /\ m_merge_pos + HEADER_SIZE <= largest
    /\ \A d \in net : d.size <= largest

NetDiffers ==
    /\ \A d, e \in net : d # e => ToSet(d.packets) \cap ToSet(e.packets) = {}
    /\ \A d \in net : ToSet(d.packets) \cap lost = {}

PlacesDiffer ==
    /\ Appending \cap (Merging \cup InNet \cup Unpacking \cup waiting) = {}
    /\ Merging \cap (InNet \cup Unpacking \cup waiting) = {}
    /\ InNet \cap (Unpacking \cup waiting) = {}
    /\ Unpacking \cap waiting = {}
    /\ NetDiffers

\* A queue has the packets that its channel was given last; every other packet
\* has left it, and is in one place.
PlacedOnce ==
    /\ \A c \in Method : Len(m_outgoing_queue[c]) <= pushed[c]
    /\ \A c \in Method : \A i \in DOMAIN m_outgoing_queue[c] :
          /\ Channel(m_outgoing_queue[c][i]) = c
          /\ m_outgoing_queue[c][i].number = pushed[c] - Len(m_outgoing_queue[c]) + (i - 1)
    /\ \A p \in Left : p.number < pushed[Channel(p)] - Len(m_outgoing_queue[Channel(p)])
    /\ Once(m_merge_data) /\ Once(unpacking) /\ \A d \in net : Once(d.packets)
    /\ PlacesDiffer
    /\ \A p \in waiting : Channel(p) = "RELIABLE_ORDERED"

OrderedMessages == {m \in Message : m.method = "RELIABLE_ORDERED"}
UnreliableMessages == {m \in Message : m.method = "UNRELIABLE"}

IsSent(m) == \E t \in Thread : \E i \in DOMAIN submitted[t] : submitted[t][i] = m
IsSplit(m) == \E i \in DOMAIN splits : splits[i].message = m
IsDelivered(m) == \E i \in DOMAIN delivered : delivered[i] = m

\* Messages are sent as the scripts say, each of them once, and only they are
\* delivered.
SentOnce ==
    /\ \A i \in DOMAIN delivered : IsSent(delivered[i])
    /\ \A t \in Thread : \A i \in DOMAIN submitted[t] :
          \E j \in DOMAIN script[t] : j < next[t] /\ script[t][j] = submitted[t][i]
    /\ \A t, u \in Thread : \A i \in DOMAIN submitted[t], j \in DOMAIN submitted[u] :
          submitted[t][i] = submitted[u][j] => t = u /\ i = j

\* A message is split once, and delivered before its id is used again.
SplitOnce ==
    /\ m_fragment_id = Len(splits) % FragmentIds
    /\ \A i \in DOMAIN splits : IsSent(splits[i].message) /\ splits[i].message.method \in Reliable
    /\ \A i, j \in DOMAIN splits : splits[i].message = splits[j].message => i = j
    /\ \A i \in DOMAIN splits : i <= Len(splits) - FragmentIds => IsDelivered(splits[i].message)

\* f is a part of a message that was split and is still on its way.
IsPart(f) ==
    /\ \E i \in DOMAIN splits :
          f.message = splits[i].message /\ f.total = splits[i].total /\ f.id = i % FragmentIds
    /\ f.part < f.total
    /\ ~ IsDelivered(f.message)

\* f is a message that was not split, and is still on its way.
IsWhole(f) ==
    /\ f.total = 0 /\ f.part = 0
    /\ IsSent(f.message) /\ ~ IsSplit(f.message) /\ ~ IsDelivered(f.message)

PartsAreTrue ==
    /\ \A p \in Flight : IsPart(p.packet) \/ IsWhole(p.packet)
    /\ \A t \in Thread : \A i \in DOMAIN splitting[t] :
          /\ IsPart(splitting[t][i])
          /\ submitted[t] # <<>> /\ splitting[t][i].message = submitted[t][Len(submitted[t])]
          /\ splitting[t][i].part = splitting[t][i].total - Len(splitting[t]) + (i - 1)

Ids == 0 .. FragmentIds - 1
Held(id) == IF m_holded_fragments[id] = None THEN {} ELSE m_holded_fragments[id].fragments

\* What has been collected are parts of one message, and not all of them.
HeldIsTrue ==
    \A id \in Ids : m_holded_fragments[id] # None =>
        /\ Held(id) # {} /\ IsFiniteSet(Held(id))
        /\ Cardinality(Held(id)) < m_holded_fragments[id].total
        /\ \A f \in Held(id) :
              /\ IsPart(f) /\ f.id = id
              /\ f.total = m_holded_fragments[id].total
              /\ f.message.method = m_holded_fragments[id].channel
        /\ \A f, g \in Held(id) : f.message = g.message /\ (f.part = g.part => f = g)

SamePart(f, g) == f.message = g.message /\ f.part = g.part

\* No part exists twice.
PartsDiffer ==
    /\ \A p, q \in Flight : SamePart(p.packet, q.packet) => p = q
    /\ \A p \in Flight : \A id \in Ids : \A g \in Held(id) : ~ SamePart(p.packet, g)
    /\ \A t \in Thread : \A i \in DOMAIN splitting[t] :
          /\ \A p \in Flight : ~ SamePart(splitting[t][i], p.packet)
          /\ \A id \in Ids : \A g \in Held(id) : ~ SamePart(splitting[t][i], g)

\* The part k of message m is on its way, still with its sender, or collected.
Exists(m, k) ==
    \/ \E p \in Flight : p.packet.message = m /\ p.packet.part = k
    \/ \E t \in Thread : \E i \in DOMAIN splitting[t] :
          splitting[t][i].message = m /\ splitting[t][i].part = k
    \/ \E id \in Ids : \E f \in Held(id) : f.message = m /\ f.part = k

\* The network keeps what it does to messages that have no channel to itself.
NothingIsMissing ==
    /\ \A i \in DOMAIN splits : ~ IsDelivered(splits[i].message) =>
          \A k \in 0 .. splits[i].total - 1 : Exists(splits[i].message, k)
    /\ \A t \in Thread : \A i \in DOMAIN submitted[t] :
          /\ submitted[t][i].method \in Reliable
          /\ ~ IsDelivered(submitted[t][i]) /\ ~ IsSplit(submitted[t][i])
          => \E p \in Flight : p.packet.message = submitted[t][i]

\* The numbers of a channel are those of its packets, the ordered channel has
\* handed over those below handed, and a message that a thread sent later has
\* higher ones.
NumbersFollow ==
    /\ handed <= pushed["RELIABLE_ORDERED"]
    /\ \A p \in Flight : p.number < pushed[Channel(p)]
    /\ \A p, q \in Flight : Channel(p) = Channel(q) /\ p.number = q.number => p = q
    /\ \A p \in Flight : Channel(p) = "RELIABLE_ORDERED" => p.number >= handed
    /\ \A t \in Thread : \A i, j \in DOMAIN submitted[t] : \A p, q \in Flight :
          /\ i < j
          /\ p.packet.message = submitted[t][i] /\ q.packet.message = submitted[t][j]
          /\ Channel(p) = Channel(q)
          => p.number < q.number

MessagesAreTrue ==
    SentOnce /\ SplitOnce /\ PartsAreTrue /\ HeldIsTrue /\ PartsDiffer /\ NothingIsMissing /\ NumbersFollow

\* What may come again has come: what is still to be taken from a datagram was
\* delivered, if it has no channel.
CopiesAreTrue ==
    /\ \A d \in copies : \A p \in ToSet(d.packets) :
          Channel(p) = "UNRELIABLE" => IsDelivered(p.packet.message) \/ p \in Unpacking
    /\ \A p \in ToSet(repeated) : Channel(p) = "UNRELIABLE" => IsDelivered(p.packet.message)

IInv == Types /\ SizesFit /\ PlacedOnce /\ MessagesAreTrue /\ CopiesAreTrue
-----------------------------------------------------------------------------
(* Sequences, remainders, messages and sizes. *)

\* What is left of a sequence without its head.
LEMMA TailFacts ==
    ASSUME NEW S, NEW s \in Seq(S), s # <<>>
    PROVE  /\ Head(s) = s[1] /\ Head(s) \in S /\ Tail(s) \in Seq(S) /\ 1 \in DOMAIN s
           /\ Len(s) \in Nat \ {0} /\ Len(Tail(s)) = Len(s) - 1
           /\ DOMAIN s = 1 .. Len(s) /\ DOMAIN Tail(s) = 1 .. Len(s) - 1
           /\ \A i \in DOMAIN Tail(s) : i + 1 \in DOMAIN s /\ Tail(s)[i] = s[i + 1]
           /\ ToSet(s) = {Head(s)} \cup ToSet(Tail(s))
           /\ Once(s) => Once(Tail(s)) /\ Head(s) \notin ToSet(Tail(s))
<1>1. /\ Head(s) = s[1] /\ Tail(s) \in Seq(S) /\ Len(s) \in Nat \ {0} /\ Len(Tail(s)) = Len(s) - 1
      /\ DOMAIN s = 1 .. Len(s) /\ DOMAIN Tail(s) = 1 .. Len(s) - 1
      /\ \A i \in DOMAIN Tail(s) : Tail(s)[i] = s[i + 1]
  BY EmptySeq, LenProperties, HeadTailProperties
<1>2. 1 \in DOMAIN s /\ Head(s) \in S
  BY <1>1, ElementOfSeq
<1>3. \A i \in DOMAIN Tail(s) : i + 1 \in DOMAIN s /\ Tail(s)[i] = s[i + 1]
  BY <1>1
<1>4. \A i \in DOMAIN s : i = 1 \/ (\E k \in DOMAIN Tail(s) : s[i] = Tail(s)[k])
  <2>1. \A i \in DOMAIN s : i = 1 \/ (i - 1 \in DOMAIN Tail(s) /\ s[i] = Tail(s)[i - 1])
    BY <1>1
  <2>. QED BY <2>1
<1>5. ToSet(s) = {Head(s)} \cup ToSet(Tail(s))
  <2>1. ToSet(s) \subseteq {Head(s)} \cup ToSet(Tail(s))
    BY <1>1, <1>4 DEF ToSet
  <2>2. {Head(s)} \cup ToSet(Tail(s)) \subseteq ToSet(s)
    BY <1>1, <1>2, <1>3 DEF ToSet
  <2>. QED BY <2>1, <2>2
<1>6. Once(s) => Once(Tail(s)) /\ Head(s) \notin ToSet(Tail(s))
  BY <1>1, <1>2, <1>3 DEF Once, ToSet
<1>. QED BY <1>1, <1>2, <1>3, <1>5, <1>6

\* What an element more makes of a sequence.
LEMMA AppendFacts ==
    ASSUME NEW S, NEW s \in Seq(S), NEW x \in S
    PROVE  /\ Append(s, x) \in Seq(S) /\ Append(s, x) # <<>>
           /\ Len(s) \in Nat /\ Len(Append(s, x)) = Len(s) + 1
           /\ DOMAIN s = 1 .. Len(s) /\ DOMAIN Append(s, x) = 1 .. Len(s) + 1
           /\ \A i \in DOMAIN s : i \in DOMAIN Append(s, x) /\ Append(s, x)[i] = s[i]
           /\ Append(s, x)[Len(s) + 1] = x
           /\ \A i \in DOMAIN Append(s, x) : i \in DOMAIN s \/ i = Len(s) + 1
           /\ ToSet(Append(s, x)) = ToSet(s) \cup {x}
           /\ Once(s) /\ x \notin ToSet(s) => Once(Append(s, x))
<1>1. /\ Append(s, x) \in Seq(S) /\ Append(s, x) # <<>>
      /\ Len(s) \in Nat /\ Len(Append(s, x)) = Len(s) + 1 /\ DOMAIN s = 1 .. Len(s)
      /\ DOMAIN Append(s, x) = 1 .. Len(s) + 1
      /\ \A i \in 1 .. Len(s) : Append(s, x)[i] = s[i]
      /\ Append(s, x)[Len(s) + 1] = x
  BY LenProperties, AppendProperties
<1>2. \A i \in DOMAIN s : i \in DOMAIN Append(s, x) /\ Append(s, x)[i] = s[i]
  BY <1>1
<1>3. \A i \in DOMAIN Append(s, x) : i \in DOMAIN s \/ i = Len(s) + 1
  BY <1>1
<1>4. Len(s) + 1 \in DOMAIN Append(s, x)
  BY <1>1
<1>5. ToSet(Append(s, x)) = ToSet(s) \cup {x}
  BY <1>1, <1>2, <1>3, <1>4 DEF ToSet
<1>6. Once(s) /\ x \notin ToSet(s) => Once(Append(s, x))
  BY <1>1, <1>2, <1>3 DEF Once, ToSet
<1>. QED BY <1>1, <1>2, <1>3, <1>5, <1>6

\* The empty and the singleton sequence.
LEMMA ShortSequences ==
    ASSUME NEW S, NEW x \in S
    PROVE  /\ <<>> \in Seq(S) /\ ToSet(<<>>) = {} /\ Once(<<>>) /\ DOMAIN <<>> = {} /\ Len(<<>>) = 0
           /\ <<x>> \in Seq(S) /\ <<x>> # <<>> /\ ToSet(<<x>>) = {x} /\ Once(<<x>>) /\ Len(<<x>>) = 1
<1>1. <<>> \in Seq(S) /\ Len(<<>>) = 0 /\ DOMAIN <<>> = {}
  BY EmptySeq, LenProperties
<1>2. <<x>> \in Seq(S) /\ Len(<<x>>) = 1 /\ DOMAIN <<x>> = {1} /\ <<x>>[1] = x /\ <<x>> # <<>>
  OBVIOUS
<1>. QED BY <1>1, <1>2 DEF ToSet, Once

\* The only multiple of n between -n and n is 0.
LEMMA SmallMultiple ==
    ASSUME NEW n \in Nat \ {0}, NEW k \in Int, n * k < n, 0 - n < n * k
    PROVE  k = 0
<1>1. CASE k >= 1
  <2>1. n * (k - 1) >= 0
    BY <1>1
  <2>. QED BY <2>1
<1>2. CASE k <= 0 - 1
  <2>1. n * ((0 - 1) - k) >= 0
    BY <1>2
  <2>. QED BY <2>1
<1>. QED BY <1>1, <1>2

\* Quotient and remainder.
LEMMA DivMod ==
    ASSUME NEW n \in Nat \ {0}, NEW a \in Int
    PROVE  /\ a \div n \in Int
           /\ a % n \in 0 .. n - 1
           /\ a = n * (a \div n) + (a % n)
OBVIOUS

\* Numbers less than n apart with the same remainder are equal.
LEMMA ModInjective ==
    ASSUME NEW n \in Nat \ {0}, NEW a \in Int, NEW b \in Int,
           a - b < n, b - a < n, a % n = b % n
    PROVE  a = b
<1>. DEFINE qa == a \div n
            qb == b \div n
            r  == a % n
<1>1. qa \in Int /\ qb \in Int /\ r \in Int /\ a = n * qa + r /\ b = n * qb + r
  BY DivMod
<1>. HIDE DEF qa, qb, r
<1>2. n * (qb - qa) = n * qb - n * qa /\ n * qa \in Int /\ n * qb \in Int
  BY <1>1
<1>3. n * (qb - qa) = b - a
  BY <1>1, <1>2
<1>4. qb - qa = 0
  BY <1>3, <1>1, SmallMultiple
<1>. QED BY <1>4, <1>1

\* The id after that of the last message.
LEMMA NextMod ==
    ASSUME NEW n \in Nat \ {0}, NEW a \in Nat
    PROVE  ((a % n) + 1) % n = (a + 1) % n
<1>. DEFINE b == (a % n) + 1
            c == a + 1
            qa == a \div n
            qb == b \div n
            qc == c \div n
            rb == b % n
            rc == c % n
<1>1. /\ qa \in Int /\ a % n \in Int /\ a = n * qa + (a % n)
  BY DivMod
<1>2. b \in Int /\ c \in Int /\ c = n * qa + b
  BY <1>1
<1>. HIDE DEF b, c
<1>3. /\ qb \in Int /\ rb \in 0 .. n - 1 /\ b = n * qb + rb
      /\ qc \in Int /\ rc \in 0 .. n - 1 /\ c = n * qc + rc
  BY <1>2, DivMod
<1>. HIDE DEF qa, qb, qc, rb, rc
<1>4. /\ n * (qc - (qa + qb)) = n * qc - (n * qa + n * qb)
      /\ n * qa \in Int /\ n * qb \in Int /\ n * qc \in Int
  BY <1>1, <1>3
<1>5. n * (qc - (qa + qb)) = rb - rc
  <2>1. PICK x \in Int, y \in Int, z \in Int : x = n * qa /\ y = n * qb /\ z = n * qc
    BY <1>4
  <2>2. c = x + b /\ b = y + rb /\ c = z + rc
    BY <1>2, <1>3, <2>1, Zenon
  <2>3. z - (x + y) = rb - rc
    BY <2>2, <1>2, <1>3
  <2>. QED BY <1>4, <2>1, <2>3, Zenon
<1>6. qc - (qa + qb) = 0
  <2>1. rb - rc < n /\ 0 - n < rb - rc
    BY <1>3
  <2>2. qc - (qa + qb) \in Int
    BY <1>1, <1>3
  <2>. QED BY <1>5, <2>1, <2>2, SmallMultiple
<1>7. n * (qc - (qa + qb)) = 0
  BY <1>6
<1>. QED BY <1>5, <1>7, <1>3 DEF rb, rc, b, c

\* The messages are those of the scripts.
LEMMA MessageFacts ==
    /\ \A m \in Message : m \in [id : Nat, size : Nat \ {0}, method : Method]
    /\ \A s \in Scripts : \A t \in Thread :
          DOMAIN s[t] = 1 .. Len(s[t]) /\ Len(s[t]) \in Nat /\ \A i \in DOMAIN s[t] : s[t][i] \in Message
<1>. DEFINE AnyMessage == [id : Nat, size : Nat \ {0}, method : Method]
<1>1. \A s \in Scripts : \A t \in Thread : s[t] \in Seq(AnyMessage)
  BY PathAssumption
<1>. HIDE DEF AnyMessage
<1>2. ASSUME NEW s \in Scripts, NEW t \in Thread
      PROVE  /\ DOMAIN s[t] = 1 .. Len(s[t]) /\ Len(s[t]) \in Nat
             /\ \A i \in DOMAIN s[t] : s[t][i] \in AnyMessage
  <2>1. s[t] \in Seq(AnyMessage)
    BY <1>1
  <2>2. DOMAIN s[t] = 1 .. Len(s[t]) /\ Len(s[t]) \in Nat
    BY <2>1, LenProperties
  <2>3. \A i \in DOMAIN s[t] : s[t][i] \in AnyMessage
    BY <2>1, <2>2, ElementOfSeq
  <2>. QED BY <2>2, <2>3
<1>3. \A m \in Message : m \in AnyMessage
  BY <1>2 DEF Message, ToSet
<1>4. \A s \in Scripts : \A t \in Thread : \A i \in DOMAIN s[t] : s[t][i] \in Message
  BY DEF Message, ToSet
<1>. QED BY <1>2, <1>3, <1>4 DEF AnyMessage

\* The values of the MTU.
LEMMA MtuFacts ==
    /\ \A x \in ToSet(POSSIBLE_MTU) :
          x \in Nat /\ x > FRAGMENTED_HEADER_TOTAL_SIZE /\ x <= POSSIBLE_MTU[Len(POSSIBLE_MTU)]
    /\ \A i \in 1 .. Len(POSSIBLE_MTU) : POSSIBLE_MTU[i] \in ToSet(POSSIBLE_MTU)
    /\ 1 \in 1 .. Len(POSSIBLE_MTU)
<1>. DEFINE n == Len(POSSIBLE_MTU)
<1>1. n \in Nat /\ n > 0 /\ DOMAIN POSSIBLE_MTU = 1 .. n
  BY PathAssumption, LenProperties
<1>2. \A i \in 1 .. n : POSSIBLE_MTU[i] \in Nat
  BY PathAssumption, ElementOfSeq
<1>3. \A i \in 1 .. n : POSSIBLE_MTU[i] > FRAGMENTED_HEADER_TOTAL_SIZE
  BY PathAssumption
<1>. HIDE DEF n
<1>4. n \in 1 .. n /\ 1 \in 1 .. n
  BY <1>1
<1>5. \A i \in 1 .. n : POSSIBLE_MTU[i] <= POSSIBLE_MTU[n]
  <2>1. \A i \in 1 .. n : i < n => POSSIBLE_MTU[i] < POSSIBLE_MTU[n]
    BY <1>4, PathAssumption DEF n
  <2>. QED BY <1>1, <1>2, <1>4, <2>1
<1>. QED BY <1>1, <1>2, <1>3, <1>4, <1>5 DEF ToSet, n

\* The constants of the model are numbers in their ranges.
LEMMA Constants ==
    /\ FragmentIds \in Nat \ {0} /\ MtuMoves \in Nat
    /\ HEADER_SIZE = 1 /\ CHANNELED_HEADER_SIZE = 4 /\ FRAGMENT_HEADER_SIZE = 6
    /\ FRAGMENTED_HEADER_TOTAL_SIZE = 10 /\ MERGE_HEADER_SIZE = 2 /\ sizeTreshold = 20
    /\ Method = {"RELIABLE_ORDERED", "RELIABLE_UNORDERED", "UNRELIABLE"}
    /\ Reliable = {"RELIABLE_ORDERED", "RELIABLE_UNORDERED"}
BY PathAssumption
   DEF HEADER_SIZE, CHANNELED_HEADER_SIZE, FRAGMENT_HEADER_SIZE, FRAGMENTED_HEADER_TOTAL_SIZE,
       MERGE_HEADER_SIZE, sizeTreshold, Method, Reliable

\* A record of a packet is not None, nor is an entry.
LEMMA NoneIsNothing ==
    /\ \A p \in Numbered : p # None
    /\ \A e \in Incoming : e # None
<1>1. DOMAIN None = {"total"}
  BY DEF None
<1>2. \A p \in Numbered : DOMAIN p = {"number", "packet"}
  BY DEF Numbered
<1>3. \A e \in Incoming : DOMAIN e = {"total", "channel", "fragments"}
  BY DEF Incoming
<1>4. "number" # "total" /\ "channel" # "total"
  OBVIOUS
<1>5. {"number", "packet"} # {"total"}
  BY <1>4
<1>6. {"total", "channel", "fragments"} # {"total"}
  BY <1>4
<1>. QED BY <1>1, <1>2, <1>3, <1>5, <1>6, Zenon

\* The bytes of a part: n bytes are cut into pieces of s.
LEMMA Pieces ==
    ASSUME NEW n \in Nat \ {0}, NEW s \in Nat \ {0},
           NEW k, k = (n \div s) + (IF n % s = 0 THEN 0 ELSE 1)
    PROVE  /\ k \in Nat \ {0}
           /\ \A i \in 1 .. k : n - (i - 1) * s \in Nat
<1>. DEFINE q == n \div s
            r == n % s
<1>1. q \in Int /\ r \in 0 .. s - 1 /\ n = s * q + r
  BY DivMod
<1>. HIDE DEF q, r
<1>2. k = q + (IF r = 0 THEN 0 ELSE 1)
  BY DEF q, r
<1>3. q >= 0
  <2>1. ASSUME q <= 0 - 1 PROVE FALSE
    <3>1. s * ((0 - 1) - q) >= 0
      BY <1>1, <2>1
    <3>2. s * ((0 - 1) - q) = (0 - s) - s * q /\ s * q \in Int
      BY <1>1
    <3>. QED BY <1>1, <3>1, <3>2
  <2>. QED BY <1>1, <2>1
<1>4. q = 0 => r # 0
  BY <1>1
<1>5. k \in Nat \ {0}
  BY <1>1, <1>2, <1>3, <1>4
<1>6. ASSUME NEW i \in 1 .. k PROVE n - (i - 1) * s \in Nat
  <2>1. i \in Nat /\ i - 1 <= q
    BY <1>1, <1>2, <1>5
  <2>2. s * (q - (i - 1)) >= 0
    BY <2>1, <1>1
  <2>3. s * (q - (i - 1)) = s * q - (i - 1) * s /\ s * q \in Int /\ (i - 1) * s \in Int
    BY <2>1, <1>1
  <2>. QED BY <1>1, <2>2, <2>3
<1>. QED BY <1>5, <1>6

\* The packets of a message that is split.
LEMMA FragmentFacts ==
    ASSUME NEW m \in Message, m_mtu \in ToSet(POSSIBLE_MTU), m_fragment_id \in Int
    PROVE  /\ TotalPackets(m) \in Nat \ {0} /\ NextFragmentId \in Ids
           /\ Fragments(m) \in Seq(Packet) /\ Fragments(m) # <<>>
           /\ Len(Fragments(m)) = TotalPackets(m) /\ DOMAIN Fragments(m) = 1 .. TotalPackets(m)
           /\ \A i \in 1 .. TotalPackets(m) :
                 /\ Fragments(m)[i].message = m /\ Fragments(m)[i].id = NextFragmentId
                 /\ Fragments(m)[i].part = i - 1 /\ Fragments(m)[i].total = TotalPackets(m)
                 /\ Fragments(m)[i].size <= m_mtu
<1>. DEFINE s == PacketDataSize
            k == TotalPackets(m)
            rest(i) == m.size - (i - 1) * s
            size(i) == FRAGMENTED_HEADER_TOTAL_SIZE + (IF rest(i) > s THEN s ELSE rest(i))
            part(i) == [message |-> m, id |-> NextFragmentId, part |-> i - 1, total |-> k, size |-> size(i)]
<1>1. m_mtu \in Nat /\ m_mtu > 10
  BY MtuFacts, Constants
<1>2. s \in Nat \ {0} /\ s = m_mtu - 10
  BY <1>1, Constants DEF PacketDataSize
<1>3. m.size \in Nat \ {0}
  BY MessageFacts
<1>4. k = (m.size \div s) + (IF m.size % s = 0 THEN 0 ELSE 1)
  BY DEF TotalPackets
<1>. HIDE DEF s, k
<1>5. k \in Nat \ {0} /\ \A i \in 1 .. k : rest(i) \in Nat
  BY <1>2, <1>3, <1>4, Pieces
<1>6. NextFragmentId \in Ids
  BY Constants, DivMod DEF NextFragmentId, Ids
<1>7. \A i \in 1 .. k : size(i) \in Nat /\ size(i) <= m_mtu
  <2>. HIDE DEF rest
  <2>. QED BY <1>1, <1>2, <1>5, Constants
<1>. HIDE DEF rest, size
<1>8. \A i \in 1 .. k : part(i) \in Packet
  BY <1>5, <1>6, <1>7 DEF Packet, Ids
<1>9. Fragments(m) = [i \in 1 .. k |-> part(i)]
  BY DEF Fragments, part, size, rest, s, k
<1>. HIDE DEF part
<1>10. Fragments(m) \in [1 .. k -> Packet] /\ \A i \in 1 .. k : Fragments(m)[i] = part(i)
  BY <1>8, <1>9
<1>11. Fragments(m) \in Seq(Packet) /\ Len(Fragments(m)) = k /\ DOMAIN Fragments(m) = 1 .. k
  <2>1. Fragments(m) \in Seq(Packet) /\ DOMAIN Fragments(m) = 1 .. k
    BY <1>5, <1>10, SeqDef
  <2>2. Len(Fragments(m)) \in Nat /\ 1 .. Len(Fragments(m)) = 1 .. k
    BY <2>1, LenProperties
  <2>. QED BY <2>1, <2>2, <1>5
<1>12. Fragments(m) # <<>>
  BY <1>5, <1>11, EmptySeq
<1>13. \A i \in 1 .. k : /\ part(i).message = m /\ part(i).id = NextFragmentId
                         /\ part(i).part = i - 1 /\ part(i).total = k /\ part(i).size = size(i)
  BY DEF part
<1>. QED BY <1>5, <1>6, <1>7, <1>10, <1>11, <1>12, <1>13 DEF k

\* The packet of a message that is not split.
LEMMA WholeFacts ==
    ASSUME NEW m \in Message
    PROVE  /\ Whole(m) \in Seq(Packet) /\ Whole(m) # <<>> /\ Len(Whole(m)) = 1
           /\ Head(Whole(m)).message = m /\ Head(Whole(m)).total = 0 /\ Head(Whole(m)).part = 0
           /\ Head(Whole(m)).size = m.size + HeaderSize(m)
           /\ Tail(Whole(m)) = <<>>
<1>. DEFINE packet == [message |-> m, id |-> 0, part |-> 0, total |-> 0, size |-> HeaderSize(m) + m.size]
<1>1. m.size \in Nat /\ HeaderSize(m) \in Nat
  BY MessageFacts, Constants DEF HeaderSize
<1>2. 0 \in 0 .. FragmentIds - 1 /\ HeaderSize(m) + m.size \in Nat /\ HeaderSize(m) + m.size = m.size + HeaderSize(m)
  BY <1>1, Constants
<1>3. packet \in Packet
  BY <1>2 DEF Packet
<1>4. /\ packet.message = m /\ packet.total = 0 /\ packet.part = 0
      /\ packet.size = m.size + HeaderSize(m)
  BY <1>2
<1>5. Whole(m) = <<packet>>
  BY DEF Whole
<1>. HIDE DEF packet
<1>. QED BY <1>3, <1>4, <1>5

-----------------------------------------------------------------------------
(* Where packets are. *)

\* What the places of packets hold are numbered packets.
LEMMA PlaceTypes ==
    ASSUME Types
    PROVE  /\ \A c \in Method : /\ m_outgoing_queue[c] \in Seq(Numbered)
                                /\ DOMAIN m_outgoing_queue[c] = 1 .. Len(m_outgoing_queue[c])
                                /\ Len(m_outgoing_queue[c]) \in Nat /\ pushed[c] \in Nat
                                /\ \A i \in DOMAIN m_outgoing_queue[c] : m_outgoing_queue[c][i] \in Numbered
           /\ \A d \in net : d.packets \in Seq(Numbered) /\ d.packets # <<>> /\ d.size \in Int
           /\ Flight \subseteq Numbered /\ Queued \subseteq Numbered /\ Left \subseteq Numbered
           /\ Merging \subseteq Numbered /\ InNet \subseteq Numbered /\ Unpacking \subseteq Numbered
<1>1. \A c \in Method : m_outgoing_queue[c] \in Seq(Numbered) /\ pushed[c] \in Nat
  BY DEF Types
<1>2. \A s \in Seq(Numbered) : /\ DOMAIN s = 1 .. Len(s) /\ Len(s) \in Nat
                               /\ \A i \in DOMAIN s : s[i] \in Numbered
  BY LenProperties, ElementOfSeq
<1>3. \A s \in Seq(Numbered) : ToSet(s) \subseteq Numbered
  BY <1>2 DEF ToSet
<1>4. \A d \in net : d.packets \in Seq(Numbered) /\ d.packets # <<>> /\ d.size \in Int
  BY DEF Types
<1>5. Queued \subseteq Numbered
  BY <1>1, <1>3 DEF Queued
<1>6. InNet \subseteq Numbered
  <2>1. lost \subseteq Numbered
    BY DEF Types
  <2>. QED BY <1>3, <1>4, <2>1 DEF InNet
<1>7. Merging \subseteq Numbered /\ Unpacking \subseteq Numbered /\ waiting \subseteq Numbered
  BY <1>3 DEF Types, Merging, Unpacking
<1>8. Appending \subseteq Numbered
  BY DEF Types, Appending
<1>9. Left \subseteq Numbered /\ Flight \subseteq Numbered
  BY <1>5, <1>6, <1>7, <1>8 DEF Left, Flight
<1>. QED BY <1>1, <1>2, <1>4, <1>5, <1>6, <1>7, <1>9

\* What the types say of a packet that is being pushed.
LEMMA PacketTypes ==
    ASSUME NEW p \in Numbered
    PROVE  /\ Channel(p) \in Method /\ p.number \in Nat /\ p.packet \in Packet
           /\ p.packet.message \in Message /\ p.packet.size \in Nat /\ p.packet.total \in Nat
           /\ p.packet.part \in Nat /\ p.packet.id \in Ids
BY MessageFacts DEF Numbered, Packet, Channel, Ids

\* A packet that leaves the head of a queue was in no other place, and the rest
\* of the queue is numbered as before.
LEMMA HeadFacts ==
    ASSUME Types, PlacedOnce, NEW c \in Method, m_outgoing_queue[c] # <<>>,
           m_outgoing_queue' = [m_outgoing_queue EXCEPT ![c] = Tail(@)], pushed' = pushed
    PROVE  LET p == Head(m_outgoing_queue[c]) IN
           /\ p \in Numbered /\ p \in Queued /\ p \notin Left /\ Channel(p) = c
           /\ Queued = Queued' \cup {p}
           /\ m_outgoing_queue' \in [Method -> Seq(Numbered)]
           /\ \A k \in Method : Len(m_outgoing_queue'[k]) <= pushed'[k]
           /\ \A k \in Method : \A i \in DOMAIN m_outgoing_queue'[k] :
                 /\ Channel(m_outgoing_queue'[k][i]) = k
                 /\ m_outgoing_queue'[k][i].number = pushed'[k] - Len(m_outgoing_queue'[k]) + (i - 1)
           /\ \A q \in Left \cup {p} : q.number < pushed'[Channel(q)] - Len(m_outgoing_queue'[Channel(q)])
<1>. DEFINE s == m_outgoing_queue[c]
            p == Head(s)
<1>1. s \in Seq(Numbered) /\ s # <<>>
  BY PlaceTypes
<1>2. /\ p = s[1] /\ p \in Numbered /\ Tail(s) \in Seq(Numbered) /\ 1 \in DOMAIN s
      /\ Len(s) \in Nat \ {0} /\ Len(Tail(s)) = Len(s) - 1
      /\ DOMAIN s = 1 .. Len(s) /\ DOMAIN Tail(s) = 1 .. Len(s) - 1
      /\ \A i \in DOMAIN Tail(s) : i + 1 \in DOMAIN s /\ Tail(s)[i] = s[i + 1]
      /\ ToSet(s) = {p} \cup ToSet(Tail(s))
  BY <1>1, TailFacts
<1>3. /\ m_outgoing_queue'[c] = Tail(s)
      /\ \A k \in Method : k # c => m_outgoing_queue'[k] = m_outgoing_queue[k]
      /\ m_outgoing_queue' \in [Method -> Seq(Numbered)]
  BY <1>2 DEF Types
<1>4. /\ \A k \in Method : Len(m_outgoing_queue[k]) <= pushed[k]
      /\ \A k \in Method : \A i \in DOMAIN m_outgoing_queue[k] :
            /\ Channel(m_outgoing_queue[k][i]) = k
            /\ m_outgoing_queue[k][i].number = pushed[k] - Len(m_outgoing_queue[k]) + (i - 1)
      /\ \A q \in Left : q.number < pushed[Channel(q)] - Len(m_outgoing_queue[Channel(q)])
  BY DEF PlacedOnce
<1>5. /\ \A k \in Method : Len(m_outgoing_queue[k]) \in Nat /\ pushed[k] \in Nat
      /\ Left \subseteq Numbered
      /\ \A q \in Numbered : Channel(q) \in Method /\ q.number \in Nat
  BY PlaceTypes, PacketTypes
<1>6. Channel(p) = c /\ p.number = pushed[c] - Len(s)
  <2>1. Channel(s[1]) = c /\ s[1].number = pushed[c] - Len(s) + (1 - 1)
    BY <1>2, <1>4
  <2>. QED BY <2>1, <1>2, <1>5
<1>7. p \notin Left
  <2>1. p \in Left => p.number < pushed[c] - Len(s)
    BY <1>4, <1>6
  <2>. QED BY <2>1, <1>2, <1>5, <1>6
<1>8. Queued = Queued' \cup {p}
  <2>1. \A x : x \in Queued <=> \E k \in Method : x \in ToSet(m_outgoing_queue[k])
    BY DEF Queued
  <2>2. \A x : x \in Queued' <=> \E k \in Method : x \in ToSet(m_outgoing_queue'[k])
    BY DEF Queued, ToSet
  <2>3. \A k \in Method : k # c => ToSet(m_outgoing_queue'[k]) = ToSet(m_outgoing_queue[k])
    BY <1>3
  <2>4. ToSet(m_outgoing_queue[c]) = {p} \cup ToSet(m_outgoing_queue'[c])
    BY <1>2, <1>3
  <2>. HIDE DEF p, s
  <2>5. \A x : x \in Queued <=> x \in Queued' \cup {p}
    BY <2>1, <2>2, <2>3, <2>4
  <2>. QED BY <2>5
<1>9. ASSUME NEW k \in Method
      PROVE  /\ Len(m_outgoing_queue'[k]) <= pushed'[k]
             /\ \A i \in DOMAIN m_outgoing_queue'[k] :
                   /\ Channel(m_outgoing_queue'[k][i]) = k
                   /\ m_outgoing_queue'[k][i].number = pushed'[k] - Len(m_outgoing_queue'[k]) + (i - 1)
  <2>1. CASE k # c
    BY <2>1, <1>3, <1>4
  <2>2. CASE k = c
    <3>1. Len(m_outgoing_queue'[k]) = Len(s) - 1 /\ pushed'[k] = pushed[k]
      BY <2>2, <1>2, <1>3
    <3>2. Len(m_outgoing_queue'[k]) <= pushed'[k]
      BY <3>1, <2>2, <1>4, <1>5
    <3>3. ASSUME NEW i \in DOMAIN m_outgoing_queue'[k]
          PROVE  /\ Channel(m_outgoing_queue'[k][i]) = k
                 /\ m_outgoing_queue'[k][i].number = pushed'[k] - Len(m_outgoing_queue'[k]) + (i - 1)
      <4>1. i \in Nat /\ i + 1 \in DOMAIN m_outgoing_queue[k] /\ m_outgoing_queue'[k][i] = m_outgoing_queue[k][i + 1]
        BY <2>2, <1>2, <1>3
      <4>2. /\ Channel(m_outgoing_queue[k][i + 1]) = k
            /\ m_outgoing_queue[k][i + 1].number = pushed[k] - Len(m_outgoing_queue[k]) + ((i + 1) - 1)
        BY <4>1, <1>4
      <4>3. pushed[k] - Len(m_outgoing_queue[k]) + ((i + 1) - 1) = pushed'[k] - (Len(s) - 1) + (i - 1)
        <5>1. pushed[k] \in Int /\ Len(s) \in Int /\ i \in Int /\ Len(m_outgoing_queue[k]) = Len(s)
          BY <2>2, <4>1, <1>2, <1>5
        <5>2. \A a, b, j \in Int : a - b + ((j + 1) - 1) = a - (b - 1) + (j - 1)
          OBVIOUS
        <5>3. pushed[k] - Len(s) + ((i + 1) - 1) = pushed[k] - (Len(s) - 1) + (i - 1)
          BY <5>1, <5>2
        <5>. QED BY <5>1, <5>3, <3>1
      <4>. QED BY <4>1, <4>2, <4>3, <3>1
    <3>. QED BY <3>2, <3>3
  <2>. QED BY <2>1, <2>2
<1>10. ASSUME NEW q \in Left \cup {p}
       PROVE  q.number < pushed'[Channel(q)] - Len(m_outgoing_queue'[Channel(q)])
  <2>1. q \in Numbered /\ Channel(q) \in Method /\ q.number \in Nat
    BY <1>2, <1>5
  <2>2. CASE Channel(q) # c
    <3>1. q \in Left
      BY <2>2, <1>6
    <3>. QED BY <3>1, <2>1, <2>2, <1>3, <1>4
  <2>3. CASE Channel(q) = c
    <3>1. q.number <= pushed[c] - Len(s)
      BY <2>3, <2>1, <1>4, <1>5, <1>6
    <3>2. Len(m_outgoing_queue'[c]) = Len(s) - 1 /\ pushed'[c] = pushed[c]
      BY <1>2, <1>3
    <3>. QED BY <2>1, <2>3, <3>1, <3>2, <1>2, <1>5
  <2>. QED BY <2>2, <2>3
<1>11. p \in Queued
  BY <1>8
<1>. QED BY <1>2, <1>3, <1>6, <1>7, <1>8, <1>9, <1>10, <1>11

\* The queues and what has left them, when neither changes.
LEMMA SameQueues ==
    ASSUME PlacedOnce, UNCHANGED <<m_outgoing_queue, pushed>>, Left' \subseteq Left
    PROVE  /\ \A c \in Method : Len(m_outgoing_queue'[c]) <= pushed'[c]
           /\ \A c \in Method : \A i \in DOMAIN m_outgoing_queue'[c] :
                 /\ Channel(m_outgoing_queue'[c][i]) = c
                 /\ m_outgoing_queue'[c][i].number = pushed'[c] - Len(m_outgoing_queue'[c]) + (i - 1)
           /\ \A p \in Left' : p.number < pushed'[Channel(p)] - Len(m_outgoing_queue'[Channel(p)])
           /\ Queued' = Queued
<1>1. Queued' = Queued
  BY DEF Queued, ToSet
<1>. QED BY <1>1 DEF PlacedOnce

\* A datagram more on the network.
LEMMA MoreNet ==
    ASSUME NEW d, net' = net \cup {d}, lost' = lost
    PROVE  InNet' = InNet \cup ToSet(d.packets)
<1>1. \A x : x \in InNet' <=> (\E e \in net' : x \in ToSet(e.packets)) \/ x \in lost
  BY DEF InNet, ToSet
<1>2. \A x : x \in InNet <=> (\E e \in net : x \in ToSet(e.packets)) \/ x \in lost
  BY DEF InNet
<1>3. \A x : x \in InNet' <=> x \in InNet \cup ToSet(d.packets)
  BY <1>1, <1>2
<1>. QED BY <1>3

\* send_user_data takes a packet that was in no place, or lost.
LEMMA PlacesUserData ==
    ASSUME PlacedOnce, NEW p \in Numbered, send_user_data(p),
           lost' \subseteq lost, lost \subseteq lost' \cup {p}, p \notin lost',
           p \notin Merging \cup Unpacking \cup waiting, \A e \in net : p \notin ToSet(e.packets)
    PROVE  /\ Left' = Left \cup {p} /\ PlacesDiffer'
           /\ Once(m_merge_data') /\ Once(unpacking') /\ \A e \in net' : Once(e.packets)
           /\ \A q \in waiting' : Channel(q) = "RELIABLE_ORDERED"
<1>. DEFINE d == Datagram(<<p>>, SizeOf(p))
<1>1. /\ appending = None
      /\ m_merge_data' = m_merge_data /\ unpacking' = unpacking /\ waiting' = waiting
      /\ \/ net' = net \cup {d} /\ appending' = appending
         \/ net' = net /\ appending' = p
  BY DEF send_user_data, receiving
<1>2. Merging' = Merging /\ Unpacking' = Unpacking /\ Appending = {}
  BY <1>1 DEF Merging, Unpacking, Appending
<1>3. /\ Once(m_merge_data) /\ Once(unpacking) /\ \A e \in net : Once(e.packets)
      /\ \A q \in waiting : Channel(q) = "RELIABLE_ORDERED"
      /\ Merging \cap (InNet \cup Unpacking \cup waiting) = {}
      /\ InNet \cap (Unpacking \cup waiting) = {}
      /\ Unpacking \cap waiting = {}
      /\ \A e, f \in net : e # f => ToSet(e.packets) \cap ToSet(f.packets) = {}
      /\ \A e \in net : ToSet(e.packets) \cap lost = {}
  BY DEF PlacedOnce, PlacesDiffer, NetDiffers
<1>4. p # None
  BY NoneIsNothing
<1>5. d.packets = <<p>> /\ ToSet(<<p>>) = {p} /\ Once(<<p>>)
  BY ShortSequences DEF Datagram
<1>6. \A x : x \in InNet <=> (\E e \in net : x \in ToSet(e.packets)) \/ x \in lost
  BY DEF InNet
<1>7. \A x : x \in InNet' <=> (\E e \in net' : x \in ToSet(e.packets)) \/ x \in lost'
  BY DEF InNet, ToSet
<1>8. \A x : x \in lost <=> x \in lost' \/ (x = p /\ p \in lost)
  OBVIOUS
<1>. HIDE DEF d
<1>9. CASE net' = net \cup {d} /\ appending' = appending
  <2>1. InNet' = InNet \cup {p} /\ Appending' = {}
    <3>1. \A x : x \in InNet' <=> x \in InNet \/ x = p
      BY <1>5, <1>6, <1>7, <1>8, <1>9
    <3>. QED BY <3>1, <1>1, <1>9 DEF Appending
  <2>2. Left' = Left \cup {p}
    BY <2>1, <1>1, <1>2 DEF Left
  <2>3. NetDiffers'
    <3>1. \A e, f \in net' : e # f => ToSet(e.packets) \cap ToSet(f.packets) = {}
      <4>1. \A e \in net : ToSet(e.packets) \cap ToSet(d.packets) = {}
        BY <1>5
      <4>. QED BY <4>1, <1>3, <1>9
    <3>2. \A e \in net' : ToSet(e.packets) \cap lost' = {}
      BY <1>3, <1>5, <1>8, <1>9
    <3>. QED BY <3>1, <3>2 DEF NetDiffers, ToSet
  <2>4. /\ Appending' \cap (Merging' \cup InNet' \cup Unpacking' \cup waiting') = {}
        /\ Merging' \cap (InNet' \cup Unpacking' \cup waiting') = {}
        /\ InNet' \cap (Unpacking' \cup waiting') = {}
        /\ Unpacking' \cap waiting' = {}
    BY <2>1, <1>1, <1>2, <1>3
  <2>5. \A e \in net' : Once(e.packets)
    BY <1>3, <1>5, <1>9
  <2>. QED BY <2>2, <2>3, <2>4, <2>5, <1>1, <1>3 DEF PlacesDiffer
<1>10. CASE net' = net /\ appending' = p
  <2>1. Appending' = {p}
    BY <1>4, <1>10 DEF Appending
  <2>2. InNet' \subseteq InNet /\ InNet \subseteq InNet' \cup {p} /\ p \notin InNet'
    BY <1>6, <1>7, <1>8, <1>10
  <2>3. Left' = Left \cup {p}
    BY <2>1, <2>2, <1>1, <1>2 DEF Left
  <2>4. NetDiffers'
    <3>1. \A e, f \in net' : e # f => ToSet(e.packets) \cap ToSet(f.packets) = {}
      BY <1>3, <1>10
    <3>2. \A e \in net' : ToSet(e.packets) \cap lost' = {}
      BY <1>3, <1>8, <1>10
    <3>. QED BY <3>1, <3>2 DEF NetDiffers, ToSet
  <2>5. /\ Appending' \cap (Merging' \cup InNet' \cup Unpacking' \cup waiting') = {}
        /\ Merging' \cap (InNet' \cup Unpacking' \cup waiting') = {}
        /\ InNet' \cap (Unpacking' \cup waiting') = {}
        /\ Unpacking' \cap waiting' = {}
    BY <2>1, <2>2, <1>1, <1>2, <1>3
  <2>6. \A e \in net' : Once(e.packets)
    BY <1>3, <1>10
  <2>. QED BY <2>3, <2>4, <2>5, <2>6, <1>1, <1>3 DEF PlacesDiffer
<1>. QED BY <1>1, <1>9, <1>10

\* send_next takes a packet out of a queue.
LEMMA PlacesSendNext ==
    ASSUME Types, PlacedOnce, NEW c \in Method, send_next(c)
    PROVE  PlacedOnce' /\ Flight' = Flight
<1>. DEFINE p == Head(m_outgoing_queue[c])
<1>1. /\ m_outgoing_queue[c] # <<>> /\ send_user_data(p) /\ lost' = lost
      /\ m_outgoing_queue' = [m_outgoing_queue EXCEPT ![c] = Tail(@)] /\ pushed' = pushed
  BY DEF send_next, send_user_data
<1>2. /\ p \in Numbered /\ p \in Queued /\ p \notin Left
      /\ Queued = Queued' \cup {p}
      /\ \A k \in Method : Len(m_outgoing_queue'[k]) <= pushed'[k]
      /\ \A k \in Method : \A i \in DOMAIN m_outgoing_queue'[k] :
            /\ Channel(m_outgoing_queue'[k][i]) = k
            /\ m_outgoing_queue'[k][i].number = pushed'[k] - Len(m_outgoing_queue'[k]) + (i - 1)
      /\ \A q \in Left \cup {p} : q.number < pushed'[Channel(q)] - Len(m_outgoing_queue'[Channel(q)])
  BY <1>1, HeadFacts
<1>. HIDE DEF p
<1>3. p \notin InNet /\ p \notin Merging \cup Unpacking \cup waiting
  BY <1>2 DEF Left
<1>4. p \notin lost' /\ \A e \in net : p \notin ToSet(e.packets)
  BY <1>1, <1>3 DEF InNet
<1>5. /\ Left' = Left \cup {p} /\ PlacesDiffer'
      /\ Once(m_merge_data') /\ Once(unpacking') /\ \A e \in net' : Once(e.packets)
      /\ \A q \in waiting' : Channel(q) = "RELIABLE_ORDERED"
  BY <1>1, <1>2, <1>3, <1>4, PlacesUserData
<1>6. PlacedOnce'
  BY <1>2, <1>5 DEF PlacedOnce, Once, Channel
<1>7. Flight' = Flight
  BY <1>2, <1>5 DEF Flight
<1>. QED BY <1>6, <1>7

\* resend takes a packet that was lost.
LEMMA PlacesResend ==
    ASSUME Types, PlacedOnce, NEW p \in lost, resend(p)
    PROVE  PlacedOnce' /\ Flight' = Flight
<1>1. /\ send_user_data(p) /\ lost' = lost \ {p} /\ UNCHANGED <<m_outgoing_queue, pushed>>
  BY DEF resend, send_user_data
<1>2. p \in Numbered /\ p \in InNet /\ p \in Left
  BY DEF Types, InNet, Left
<1>3. p \notin Merging \cup Unpacking \cup waiting /\ \A e \in net : p \notin ToSet(e.packets)
  BY <1>2 DEF PlacedOnce, PlacesDiffer, NetDiffers
<1>4. /\ Left' = Left \cup {p} /\ PlacesDiffer'
      /\ Once(m_merge_data') /\ Once(unpacking') /\ \A e \in net' : Once(e.packets)
      /\ \A q \in waiting' : Channel(q) = "RELIABLE_ORDERED"
  BY <1>1, <1>2, <1>3, PlacesUserData
<1>5. Left' = Left
  BY <1>2, <1>4
<1>6. /\ \A c \in Method : Len(m_outgoing_queue'[c]) <= pushed'[c]
      /\ \A c \in Method : \A i \in DOMAIN m_outgoing_queue'[c] :
            /\ Channel(m_outgoing_queue'[c][i]) = c
            /\ m_outgoing_queue'[c][i].number = pushed'[c] - Len(m_outgoing_queue'[c]) + (i - 1)
      /\ \A q \in Left' : q.number < pushed'[Channel(q)] - Len(m_outgoing_queue'[Channel(q)])
      /\ Queued' = Queued
  BY <1>1, <1>5, SameQueues
<1>7. PlacedOnce'
  BY <1>4, <1>6 DEF PlacedOnce, Once, Channel
<1>8. Flight' = Flight
  BY <1>5, <1>6 DEF Flight
<1>. QED BY <1>7, <1>8

\* The merge buffer as a datagram: it has the packets of the buffer, once.
LEMMA MergedFacts ==
    ASSUME Types, PlacedOnce, net' = net \cup {Merged}, lost' = lost
    PROVE  /\ InNet' = InNet \cup Merging
           /\ \A e \in net' : Once(e.packets)
           /\ NetDiffers'
<1>1. Merged.packets = m_merge_data
  BY DEF Merged, Datagram
<1>2. InNet' = InNet \cup Merging
  BY <1>1, MoreNet DEF Merging
<1>3. /\ \A e \in net : Once(e.packets)
      /\ Once(m_merge_data)
      /\ \A e, f \in net : e # f => ToSet(e.packets) \cap ToSet(f.packets) = {}
      /\ \A e \in net : ToSet(e.packets) \cap lost = {}
      /\ Merging \cap InNet = {}
  BY DEF PlacedOnce, PlacesDiffer, NetDiffers
<1>4. \A e \in net : ToSet(e.packets) \cap ToSet(Merged.packets) = {}
  BY <1>1, <1>3 DEF InNet, Merging
<1>5. ToSet(Merged.packets) \cap lost = {}
  BY <1>1, <1>3 DEF InNet, Merging
<1>6. NetDiffers'
  <2>1. \A e, f \in net' : e # f => ToSet(e.packets) \cap ToSet(f.packets) = {}
    BY <1>3, <1>4
  <2>2. \A e \in net' : ToSet(e.packets) \cap lost' = {}
    BY <1>3, <1>5
  <2>. QED BY <2>1, <2>2 DEF NetDiffers, ToSet
<1>. QED BY <1>1, <1>2, <1>3, <1>6

\* append: the packet goes into the merge buffer, which may be sent before.
LEMMA PlacesAppend ==
    ASSUME Types, PlacedOnce, append
    PROVE  PlacedOnce' /\ Flight' = Flight
<1>1. /\ appending \in Numbered
      /\ UNCHANGED <<m_outgoing_queue, pushed, lost, unpacking, waiting>>
      /\ appending' = None
  BY DEF append, receiving, Types
<1>2. Appending = {appending} /\ Appending' = {}
  BY <1>1, NoneIsNothing DEF Appending
<1>3. Unpacking' = Unpacking
  BY <1>1 DEF Unpacking
<1>4. /\ Once(m_merge_data) /\ Once(unpacking) /\ \A e \in net : Once(e.packets)
      /\ \A p \in waiting : Channel(p) = "RELIABLE_ORDERED"
      /\ NetDiffers
      /\ Appending \cap (Merging \cup InNet \cup Unpacking \cup waiting) = {}
      /\ Merging \cap (InNet \cup Unpacking \cup waiting) = {}
      /\ InNet \cap (Unpacking \cup waiting) = {}
      /\ Unpacking \cap waiting = {}
  BY DEF PlacedOnce, PlacesDiffer
<1>5. SUFFICES /\ Left' = Left /\ PlacesDiffer'
               /\ Once(m_merge_data') /\ \A e \in net' : Once(e.packets)
  <2>1. Once(unpacking') /\ \A q \in waiting' : Channel(q) = "RELIABLE_ORDERED"
    BY <1>1, <1>4
  <2>2. /\ \A c \in Method : Len(m_outgoing_queue'[c]) <= pushed'[c]
        /\ \A c \in Method : \A i \in DOMAIN m_outgoing_queue'[c] :
              /\ Channel(m_outgoing_queue'[c][i]) = c
              /\ m_outgoing_queue'[c][i].number = pushed'[c] - Len(m_outgoing_queue'[c]) + (i - 1)
        /\ \A p \in Left' : p.number < pushed'[Channel(p)] - Len(m_outgoing_queue'[Channel(p)])
        /\ Queued' = Queued
    BY <1>1, <1>5, SameQueues
  <2>3. PlacedOnce'
    BY <1>5, <2>1, <2>2 DEF PlacedOnce, Once, Channel
  <2>4. Flight' = Flight
    BY <1>5, <2>2 DEF Flight
  <2>. QED BY <2>3, <2>4
<1>6. CASE ~ IsFull(appending)
  <2>1. m_merge_data' = Append(m_merge_data, appending) /\ net' = net
    BY <1>6 DEF append
  <2>2. Merging' = Merging \cup {appending}
    <3>1. m_merge_data \in Seq(Numbered)
      BY DEF Types
    <3>2. ToSet(m_merge_data') = ToSet(m_merge_data) \cup {appending}
      BY <1>1, <2>1, <3>1, AppendFacts
    <3>. QED BY <3>2 DEF Merging, ToSet
  <2>3. Once(m_merge_data')
    <3>1. appending \notin ToSet(m_merge_data)
      BY <1>2, <1>4 DEF Merging
    <3>. QED BY <1>1, <1>4, <2>1, <3>1, AppendFacts DEF Types
  <2>4. InNet' = InNet /\ NetDiffers'
    BY <1>1, <1>4, <2>1 DEF InNet, NetDiffers, ToSet
  <2>5. Left' = Left
    BY <1>1, <1>2, <1>3, <2>2, <2>4 DEF Left
  <2>6. /\ Appending' \cap (Merging' \cup InNet' \cup Unpacking' \cup waiting') = {}
        /\ Merging' \cap (InNet' \cup Unpacking' \cup waiting') = {}
        /\ InNet' \cap (Unpacking' \cup waiting') = {}
        /\ Unpacking' \cap waiting' = {}
    BY <1>1, <1>2, <1>3, <1>4, <2>2, <2>4
  <2>. QED BY <1>4, <2>1, <2>3, <2>4, <2>5, <2>6 DEF PlacesDiffer
<1>7. CASE IsFull(appending)
  <2>1. m_merge_data' = <<appending>>
    BY <1>7 DEF append
  <2>2. Merging' = {appending} /\ Once(m_merge_data')
    <3>1. ToSet(<<appending>>) = {appending} /\ Once(<<appending>>)
      BY <1>1, ShortSequences
    <3>. QED BY <2>1, <3>1 DEF Merging, ToSet
  <2>3. /\ InNet' = InNet \cup Merging
        /\ \A e \in net' : Once(e.packets)
        /\ NetDiffers'
    <3>1. CASE m_merge_data = <<>>
      <4>1. net' = net
        BY <1>7, <3>1 DEF append
      <4>2. Merging = {}
        BY <3>1 DEF Merging, ToSet
      <4>3. InNet' = InNet /\ NetDiffers'
        BY <1>1, <1>4, <4>1 DEF InNet, NetDiffers, ToSet
      <4>. QED BY <1>4, <4>1, <4>2, <4>3
    <3>2. CASE m_merge_data # <<>>
      <4>1. net' = net \cup {Merged}
        BY <1>7, <3>2 DEF append
      <4>. QED BY <1>1, <4>1, MergedFacts
    <3>. QED BY <3>1, <3>2
  <2>5. Left' = Left
    BY <1>1, <1>2, <1>3, <2>2, <2>3 DEF Left
  <2>6. /\ Appending' \cap (Merging' \cup InNet' \cup Unpacking' \cup waiting') = {}
        /\ Merging' \cap (InNet' \cup Unpacking' \cup waiting') = {}
        /\ InNet' \cap (Unpacking' \cup waiting') = {}
        /\ Unpacking' \cap waiting' = {}
    BY <1>1, <1>2, <1>3, <1>4, <2>2, <2>3
  <2>. QED BY <2>2, <2>3, <2>5, <2>6 DEF PlacesDiffer
<1>. QED BY <1>6, <1>7

\* send_merged: the merge buffer becomes a datagram.
LEMMA PlacesMerged ==
    ASSUME Types, PlacedOnce, send_merged
    PROVE  PlacedOnce' /\ Flight' = Flight
<1>1. /\ UNCHANGED <<m_outgoing_queue, pushed, appending, lost, unpacking, waiting>>
      /\ net' = net \cup {Merged} /\ m_merge_data' = <<>>
  BY DEF send_merged, receiving
<1>2. /\ Unpacking' = Unpacking /\ Appending' = Appending /\ Merging' = {} /\ Once(m_merge_data')
  BY <1>1 DEF Unpacking, Appending, Merging, ToSet, Once
<1>3. /\ InNet' = InNet \cup Merging
      /\ \A e \in net' : Once(e.packets)
      /\ NetDiffers'
  BY <1>1, MergedFacts
<1>4. /\ Once(unpacking)
      /\ \A p \in waiting : Channel(p) = "RELIABLE_ORDERED"
      /\ Appending \cap (Merging \cup InNet \cup Unpacking \cup waiting) = {}
      /\ Merging \cap (InNet \cup Unpacking \cup waiting) = {}
      /\ InNet \cap (Unpacking \cup waiting) = {}
      /\ Unpacking \cap waiting = {}
  BY DEF PlacedOnce, PlacesDiffer
<1>5. Left' = Left
  BY <1>1, <1>2, <1>3 DEF Left
<1>6. PlacesDiffer'
  <2>1. /\ Appending' \cap (Merging' \cup InNet' \cup Unpacking' \cup waiting') = {}
        /\ Merging' \cap (InNet' \cup Unpacking' \cup waiting') = {}
        /\ InNet' \cap (Unpacking' \cup waiting') = {}
        /\ Unpacking' \cap waiting' = {}
    BY <1>1, <1>2, <1>3, <1>4
  <2>. QED BY <2>1, <1>3 DEF PlacesDiffer
<1>7. /\ \A c \in Method : Len(m_outgoing_queue'[c]) <= pushed'[c]
      /\ \A c \in Method : \A i \in DOMAIN m_outgoing_queue'[c] :
            /\ Channel(m_outgoing_queue'[c][i]) = c
            /\ m_outgoing_queue'[c][i].number = pushed'[c] - Len(m_outgoing_queue'[c]) + (i - 1)
      /\ \A p \in Left' : p.number < pushed'[Channel(p)] - Len(m_outgoing_queue'[Channel(p)])
      /\ Queued' = Queued
  BY <1>1, <1>5, SameQueues
<1>8. Once(unpacking') /\ \A q \in waiting' : Channel(q) = "RELIABLE_ORDERED"
  BY <1>1, <1>4
<1>9. PlacedOnce'
  BY <1>2, <1>3, <1>6, <1>7, <1>8 DEF PlacedOnce, Once, Channel
<1>10. Flight' = Flight
  BY <1>5, <1>7 DEF Flight
<1>. QED BY <1>9, <1>10

\* What has left a queue is in none.
LEMMA LeftIsNotQueued ==
    ASSUME Types, PlacedOnce, NEW p \in Left
    PROVE  p \notin Queued
<1>1. SUFFICES ASSUME NEW c \in Method, NEW i \in DOMAIN m_outgoing_queue[c], p = m_outgoing_queue[c][i]
               PROVE  FALSE
  BY DEF Queued, ToSet
<1>2. Channel(p) = c /\ p.number = pushed[c] - Len(m_outgoing_queue[c]) + (i - 1)
  BY <1>1 DEF PlacedOnce
<1>3. p.number < pushed[c] - Len(m_outgoing_queue[c])
  BY <1>2 DEF PlacedOnce
<1>4. i \in Nat /\ i >= 1 /\ Len(m_outgoing_queue[c]) \in Nat /\ pushed[c] \in Nat
  BY PlaceTypes
<1>. QED BY <1>2, <1>3, <1>4

\* Push gives its channel a packet more.
LEMMA PlacesPush ==
    ASSUME Types, PlacedOnce, NEW packet \in Packet, Push(packet.message.method, packet),
           UNCHANGED <<merging, lost, net, unpacking, waiting>>
    PROVE  LET p == [number |-> pushed[packet.message.method], packet |-> packet] IN
           /\ PlacedOnce' /\ p \in Numbered /\ Flight' = Flight \cup {p}
           /\ m_outgoing_queue' \in [Method -> Seq(Numbered)] /\ pushed' \in [Method -> Nat]
<1>. DEFINE c == packet.message.method
            p == [number |-> pushed[c], packet |-> packet]
            s == m_outgoing_queue[c]
<1>1. c \in Method /\ pushed[c] \in Nat /\ s \in Seq(Numbered)
  BY MessageFacts, PlaceTypes DEF Packet
<1>2. p \in Numbered /\ p.number = pushed[c] /\ Channel(p) = c
  BY <1>1 DEF Numbered, Channel
<1>3. /\ m_outgoing_queue' = [m_outgoing_queue EXCEPT ![c] = Append(@, p)]
      /\ pushed' = [pushed EXCEPT ![c] = @ + 1]
  BY DEF Push
<1>. HIDE DEF c, p
<1>4. /\ Append(s, p) \in Seq(Numbered)
      /\ Len(s) \in Nat /\ Len(Append(s, p)) = Len(s) + 1
      /\ DOMAIN s = 1 .. Len(s) /\ DOMAIN Append(s, p) = 1 .. Len(s) + 1
      /\ \A i \in DOMAIN s : i \in DOMAIN Append(s, p) /\ Append(s, p)[i] = s[i]
      /\ Append(s, p)[Len(s) + 1] = p
      /\ \A i \in DOMAIN Append(s, p) : i \in DOMAIN s \/ i = Len(s) + 1
      /\ ToSet(Append(s, p)) = ToSet(s) \cup {p}
  BY <1>1, <1>2, AppendFacts
<1>. HIDE DEF s
<1>5. /\ m_outgoing_queue'[c] = Append(s, p) /\ pushed'[c] = pushed[c] + 1
      /\ \A k \in Method : k # c => m_outgoing_queue'[k] = m_outgoing_queue[k] /\ pushed'[k] = pushed[k]
      /\ m_outgoing_queue' \in [Method -> Seq(Numbered)] /\ pushed' \in [Method -> Nat]
  BY <1>1, <1>3, <1>4 DEF Types, s
<1>6. /\ \A k \in Method : Len(m_outgoing_queue[k]) <= pushed[k]
      /\ \A k \in Method : \A i \in DOMAIN m_outgoing_queue[k] :
            /\ Channel(m_outgoing_queue[k][i]) = k
            /\ m_outgoing_queue[k][i].number = pushed[k] - Len(m_outgoing_queue[k]) + (i - 1)
      /\ \A q \in Left : q.number < pushed[Channel(q)] - Len(m_outgoing_queue[Channel(q)])
  BY DEF PlacedOnce
<1>7. /\ Left \subseteq Numbered
      /\ \A q \in Numbered : Channel(q) \in Method /\ q.number \in Nat
  BY PlaceTypes, PacketTypes
<1>8. Left' = Left /\ PlacesDiffer' /\ Once(m_merge_data') /\ Once(unpacking')
  <2>1. UNCHANGED <<appending, m_merge_data, lost, net, unpacking, waiting>>
    BY DEF merging
  <2>2. /\ Appending' = Appending /\ Merging' = Merging /\ InNet' = InNet /\ Unpacking' = Unpacking
        /\ waiting' = waiting
    BY <2>1 DEF Appending, Merging, InNet, Unpacking, ToSet
  <2>. QED BY <2>1, <2>2 DEF Left, PlacedOnce, PlacesDiffer, NetDiffers, ToSet
<1>9. Queued' = Queued \cup {p}
  <2>1. \A x : x \in Queued <=> \E k \in Method : x \in ToSet(m_outgoing_queue[k])
    BY DEF Queued
  <2>2. \A x : x \in Queued' <=> \E k \in Method : x \in ToSet(m_outgoing_queue'[k])
    BY DEF Queued, ToSet
  <2>3. \A k \in Method : k # c => ToSet(m_outgoing_queue'[k]) = ToSet(m_outgoing_queue[k])
    BY <1>5
  <2>4. ToSet(m_outgoing_queue'[c]) = ToSet(m_outgoing_queue[c]) \cup {p}
    BY <1>4, <1>5 DEF s
  <2>5. \A x : x \in Queued' <=> x \in Queued \cup {p}
    BY <1>1, <2>1, <2>2, <2>3, <2>4
  <2>. QED BY <2>5
<1>10. ASSUME NEW k \in Method
       PROVE  /\ Len(m_outgoing_queue'[k]) <= pushed'[k]
              /\ \A i \in DOMAIN m_outgoing_queue'[k] :
                    /\ Channel(m_outgoing_queue'[k][i]) = k
                    /\ m_outgoing_queue'[k][i].number = pushed'[k] - Len(m_outgoing_queue'[k]) + (i - 1)
  <2>1. CASE k # c
    BY <2>1, <1>5, <1>6
  <2>2. CASE k = c
    <3>1. /\ Len(m_outgoing_queue'[k]) = Len(s) + 1 /\ pushed'[k] = pushed[k] + 1
          /\ Len(m_outgoing_queue[k]) = Len(s) /\ pushed[k] \in Int /\ Len(s) \in Int
      BY <2>2, <1>1, <1>4, <1>5 DEF s
    <3>2. Len(m_outgoing_queue'[k]) <= pushed'[k]
      <4>1. Len(s) <= pushed[k]
        BY <3>1, <1>6
      <4>. QED BY <3>1, <4>1
    <3>3. pushed'[k] - Len(m_outgoing_queue'[k]) = pushed[k] - Len(s)
      <4>1. \A a, b \in Int : (a + 1) - (b + 1) = a - b
        OBVIOUS
      <4>. QED BY <3>1, <4>1
    <3>4. ASSUME NEW i \in DOMAIN m_outgoing_queue'[k]
          PROVE  /\ Channel(m_outgoing_queue'[k][i]) = k
                 /\ m_outgoing_queue'[k][i].number = pushed'[k] - Len(m_outgoing_queue'[k]) + (i - 1)
      <4>1. CASE i \in DOMAIN s
        <5>1. m_outgoing_queue'[k][i] = m_outgoing_queue[k][i] /\ i \in DOMAIN m_outgoing_queue[k]
          BY <2>2, <4>1, <1>4, <1>5 DEF s
        <5>2. /\ Channel(m_outgoing_queue[k][i]) = k
              /\ m_outgoing_queue[k][i].number = pushed[k] - Len(m_outgoing_queue[k]) + (i - 1)
          BY <5>1, <1>6
        <5>. QED BY <5>1, <5>2, <3>1, <3>3
      <4>2. CASE i = Len(s) + 1
        <5>1. m_outgoing_queue'[k][i] = p
          BY <2>2, <4>2, <1>4, <1>5
        <5>2. pushed[k] = pushed[k] - Len(s) + (i - 1)
          BY <3>1, <4>2
        <5>. QED BY <5>1, <5>2, <3>3, <2>2, <1>2
      <4>. QED BY <4>1, <4>2, <2>2, <1>4, <1>5
    <3>. QED BY <3>2, <3>4
  <2>. QED BY <2>1, <2>2
<1>11. ASSUME NEW q \in Left
       PROVE  q.number < pushed'[Channel(q)] - Len(m_outgoing_queue'[Channel(q)])
  <2>1. Channel(q) \in Method /\ q.number < pushed[Channel(q)] - Len(m_outgoing_queue[Channel(q)])
    BY <1>6, <1>7
  <2>2. CASE Channel(q) # c
    BY <2>1, <2>2, <1>5
  <2>3. CASE Channel(q) = c
    <3>1. /\ Len(m_outgoing_queue'[c]) = Len(s) + 1 /\ pushed'[c] = pushed[c] + 1
          /\ Len(m_outgoing_queue[c]) = Len(s) /\ pushed[c] \in Int /\ Len(s) \in Int
      BY <1>1, <1>4, <1>5 DEF s
    <3>2. \A a, b \in Int : (a + 1) - (b + 1) = a - b
      OBVIOUS
    <3>. QED BY <2>1, <2>3, <3>1, <3>2
  <2>. QED BY <2>2, <2>3
<1>12. PlacedOnce'
  <2>1. /\ \A q \in waiting' : Channel(q) = "RELIABLE_ORDERED"
        /\ \A d \in net' : Once(d.packets)
    BY DEF PlacedOnce
  <2>. QED BY <1>8, <1>10, <1>11, <2>1 DEF PlacedOnce, Once, Channel
<1>13. Flight' = Flight \cup {p}
  BY <1>8, <1>9 DEF Flight
<1>. QED BY <1>2, <1>5, <1>10, <1>12, <1>13 DEF p, c

\* The receive thread takes a packet from the network.
LEMMA PlacesTake ==
    ASSUME Types, PlacedOnce, NEW p \in Numbered,
           InNet' \cup Unpacking' \cup {p} = InNet \cup Unpacking, p \notin InNet' \cup Unpacking',
           InNet' \cap Unpacking' = {},
           \A d \in net' : Once(d.packets), Once(unpacking'),
           NetDiffers', UNCHANGED <<m_outgoing_queue, pushed, merging>>,
           IsEarly(p) => waiting' = waiting \cup {p}, ~ IsEarly(p) => waiting' = waiting
    PROVE  PlacedOnce' /\ p \in Flight /\ Flight' = IF IsEarly(p) THEN Flight ELSE Flight \ {p}
<1>1. /\ Appending' = Appending /\ Merging' = Merging /\ m_merge_data' = m_merge_data
  BY DEF merging, Appending, Merging, ToSet
<1>2. /\ Once(m_merge_data)
      /\ \A q \in waiting : Channel(q) = "RELIABLE_ORDERED"
      /\ Appending \cap (Merging \cup InNet \cup Unpacking \cup waiting) = {}
      /\ Merging \cap (InNet \cup Unpacking \cup waiting) = {}
      /\ InNet \cap (Unpacking \cup waiting) = {}
      /\ Unpacking \cap waiting = {}
  BY DEF PlacedOnce, PlacesDiffer
<1>3. p \in Left /\ p \notin Queued /\ p \in InNet \cup Unpacking
  <2>1. p \in InNet \cup Unpacking
    OBVIOUS
  <2>2. p \in Left
    BY <2>1 DEF Left
  <2>. QED BY <2>1, <2>2, LeftIsNotQueued
<1>4. p \notin Appending /\ p \notin Merging /\ p \notin waiting
  BY <1>2, <1>3
<1>5. waiting' = waiting \/ waiting' = waiting \cup {p}
  OBVIOUS
<1>6. InNet' \subseteq InNet \cup Unpacking /\ Unpacking' \subseteq InNet \cup Unpacking
  OBVIOUS
<1>7. /\ Appending' \cap (Merging' \cup InNet' \cup Unpacking' \cup waiting') = {}
      /\ Merging' \cap (InNet' \cup Unpacking' \cup waiting') = {}
      /\ InNet' \cap (Unpacking' \cup waiting') = {}
      /\ Unpacking' \cap waiting' = {}
  <2>1. Appending' \cap (Merging' \cup InNet' \cup Unpacking' \cup waiting') = {}
    BY <1>1, <1>2, <1>4, <1>5, <1>6
  <2>2. Merging' \cap (InNet' \cup Unpacking' \cup waiting') = {}
    BY <1>1, <1>2, <1>4, <1>5, <1>6
  <2>3. InNet' \cap waiting' = {} /\ Unpacking' \cap waiting' = {}
    BY <1>2, <1>5, <1>6
  <2>. QED BY <2>1, <2>2, <2>3
<1>8. Left' = IF IsEarly(p) THEN Left ELSE Left \ {p}
  <2>1. Left = Appending \cup Merging \cup (InNet \cup Unpacking) \cup waiting
    BY DEF Left
  <2>2. Left' = Appending \cup Merging \cup (InNet' \cup Unpacking') \cup waiting'
    BY <1>1 DEF Left
  <2>3. CASE IsEarly(p)
    BY <2>1, <2>2, <2>3
  <2>4. CASE ~ IsEarly(p)
    <3>1. waiting' = waiting
      BY <2>4
    <3>. QED BY <2>1, <2>2, <2>4, <3>1, <1>4
  <2>. QED BY <2>3, <2>4
<1>9. /\ \A c \in Method : Len(m_outgoing_queue'[c]) <= pushed'[c]
      /\ \A c \in Method : \A i \in DOMAIN m_outgoing_queue'[c] :
            /\ Channel(m_outgoing_queue'[c][i]) = c
            /\ m_outgoing_queue'[c][i].number = pushed'[c] - Len(m_outgoing_queue'[c]) + (i - 1)
      /\ \A q \in Left' : q.number < pushed'[Channel(q)] - Len(m_outgoing_queue'[Channel(q)])
      /\ Queued' = Queued
  <2>1. Left' \subseteq Left
    BY <1>8
  <2>. QED BY <2>1, SameQueues
<1>10. \A q \in waiting' : Channel(q) = "RELIABLE_ORDERED"
  <2>1. IsEarly(p) => Channel(p) = "RELIABLE_ORDERED"
    BY DEF IsEarly, Channel
  <2>. QED BY <2>1, <1>2
<1>11. PlacedOnce'
  BY <1>1, <1>2, <1>7, <1>9, <1>10 DEF PlacedOnce, PlacesDiffer, Once, Channel
<1>12. p \in Flight /\ Flight' = IF IsEarly(p) THEN Flight ELSE Flight \ {p}
  BY <1>3, <1>8, <1>9 DEF Flight
<1>. QED BY <1>11, <1>12

\* receive takes one packet out of Flight, or none if it is early; the rest are unpacking.
LEMMA PlacesReceive ==
    ASSUME Types, PlacedOnce, NEW d \in net, receive(d)
    PROVE  LET p == Head(d.packets) IN
           PlacedOnce' /\ p \in Flight /\ Flight' = IF IsEarly(p) THEN Flight ELSE Flight \ {p}
<1>. DEFINE p == Head(d.packets)
<1>1. /\ unpacking = <<>> /\ unpacking' = Tail(d.packets) /\ net' = net \ {d}
      /\ UNCHANGED <<m_outgoing_queue, pushed, merging, lost>>
      /\ process_packet(p)
  BY DEF receive, IsReady
<1>2. /\ p \in Numbered
      /\ ToSet(d.packets) = {p} \cup ToSet(unpacking')
      /\ Once(d.packets) => Once(unpacking') /\ p \notin ToSet(unpacking')
  BY <1>1, PlaceTypes, TailFacts
<1>3. /\ \A e \in net : Once(e.packets)
      /\ \A e, f \in net : e # f => ToSet(e.packets) \cap ToSet(f.packets) = {}
      /\ \A e \in net : ToSet(e.packets) \cap lost = {}
  BY DEF PlacedOnce, PlacesDiffer, NetDiffers
<1>4. (IsEarly(p) => waiting' = waiting \cup {p}) /\ (~ IsEarly(p) => waiting' = waiting)
  BY <1>1 DEF process_packet
<1>. HIDE DEF p
<1>5. Unpacking = {} /\ Unpacking' = ToSet(unpacking')
  BY <1>1 DEF Unpacking, ToSet
<1>6. \A x : x \in InNet' <=> (\E e \in net' : x \in ToSet(e.packets)) \/ x \in lost
  BY <1>1 DEF InNet, ToSet
<1>7. \A x : x \in InNet <=> (\E e \in net : x \in ToSet(e.packets)) \/ x \in lost
  BY DEF InNet
<1>8. \A x : x \in InNet' <=> x \in InNet /\ x \notin ToSet(d.packets)
  BY <1>1, <1>3, <1>6, <1>7
<1>9. ToSet(d.packets) \subseteq InNet
  BY <1>7
<1>10. InNet' \cup Unpacking' \cup {p} = InNet \cup Unpacking
  BY <1>2, <1>5, <1>8, <1>9
<1>11. p \notin InNet' \cup Unpacking' /\ InNet' \cap Unpacking' = {}
  BY <1>2, <1>3, <1>5, <1>8
<1>12. NetDiffers'
  BY <1>1, <1>3 DEF NetDiffers, ToSet
<1>. QED BY <1>1, <1>2, <1>3, <1>4, <1>10, <1>11, <1>12, PlacesTake DEF p

\* unpack takes one packet out of Flight, or none if it is early.
LEMMA PlacesUnpack ==
    ASSUME Types, PlacedOnce, unpack
    PROVE  LET p == Head(unpacking) IN
           PlacedOnce' /\ p \in Flight /\ Flight' = IF IsEarly(p) THEN Flight ELSE Flight \ {p}
<1>. DEFINE p == Head(unpacking)
<1>1. /\ unpacking # <<>> /\ unpacking' = Tail(unpacking) /\ net' = net /\ lost' = lost
      /\ UNCHANGED <<m_outgoing_queue, pushed, merging>>
      /\ process_packet(p)
  BY DEF unpack
<1>2. /\ p \in Numbered
      /\ ToSet(unpacking) = {p} \cup ToSet(unpacking')
      /\ Once(unpacking) => Once(unpacking') /\ p \notin ToSet(unpacking')
  BY <1>1, TailFacts DEF Types
<1>3. /\ \A e \in net : Once(e.packets)
      /\ NetDiffers
      /\ Once(unpacking) /\ InNet \cap Unpacking = {}
  BY DEF PlacedOnce, PlacesDiffer
<1>4. (IsEarly(p) => waiting' = waiting \cup {p}) /\ (~ IsEarly(p) => waiting' = waiting)
  BY <1>1 DEF process_packet
<1>. HIDE DEF p
<1>5. Unpacking = ToSet(unpacking) /\ Unpacking' = ToSet(unpacking')
  BY DEF Unpacking, ToSet
<1>6. InNet' = InNet /\ NetDiffers'
  BY <1>1, <1>3 DEF InNet, NetDiffers, ToSet
<1>7. InNet' \cup Unpacking' \cup {p} = InNet \cup Unpacking
  BY <1>2, <1>5, <1>6
<1>8. p \notin InNet' \cup Unpacking' /\ InNet' \cap Unpacking' = {}
  BY <1>2, <1>3, <1>5, <1>6
<1>. QED BY <1>1, <1>2, <1>3, <1>4, <1>6, <1>7, <1>8, PlacesTake DEF p

\* The ordered channel hands over a packet that waited.
LEMMA PlacesHandOver ==
    ASSUME Types, PlacedOnce, NEW p \in waiting, waiting' = waiting \ {p},
           UNCHANGED <<m_outgoing_queue, pushed, merging, lost, net, unpacking>>
    PROVE  PlacedOnce' /\ p \in Flight /\ Flight' = Flight \ {p}
<1>1. /\ Appending' = Appending /\ Merging' = Merging /\ InNet' = InNet /\ Unpacking' = Unpacking
      /\ m_merge_data' = m_merge_data
  BY DEF merging, Appending, Merging, InNet, Unpacking, ToSet
<1>2. /\ Once(m_merge_data) /\ Once(unpacking) /\ \A e \in net : Once(e.packets)
      /\ \A q \in waiting : Channel(q) = "RELIABLE_ORDERED"
      /\ Appending \cap (Merging \cup InNet \cup Unpacking \cup waiting) = {}
      /\ Merging \cap (InNet \cup Unpacking \cup waiting) = {}
      /\ InNet \cap (Unpacking \cup waiting) = {}
      /\ Unpacking \cap waiting = {}
      /\ NetDiffers'
  BY DEF PlacedOnce, PlacesDiffer, NetDiffers, ToSet
<1>3. p \in Left /\ p \notin Queued
  <2>1. p \in Left
    BY DEF Left
  <2>. QED BY <2>1, LeftIsNotQueued
<1>4. Left' = Left \ {p}
  BY <1>1, <1>2 DEF Left
<1>5. PlacesDiffer'
  <2>1. /\ Appending' \cap (Merging' \cup InNet' \cup Unpacking' \cup waiting') = {}
        /\ Merging' \cap (InNet' \cup Unpacking' \cup waiting') = {}
        /\ InNet' \cap (Unpacking' \cup waiting') = {}
        /\ Unpacking' \cap waiting' = {}
    BY <1>1, <1>2
  <2>. QED BY <2>1, <1>2 DEF PlacesDiffer
<1>6. /\ \A c \in Method : Len(m_outgoing_queue'[c]) <= pushed'[c]
      /\ \A c \in Method : \A i \in DOMAIN m_outgoing_queue'[c] :
            /\ Channel(m_outgoing_queue'[c][i]) = c
            /\ m_outgoing_queue'[c][i].number = pushed'[c] - Len(m_outgoing_queue'[c]) + (i - 1)
      /\ \A q \in Left' : q.number < pushed'[Channel(q)] - Len(m_outgoing_queue'[Channel(q)])
      /\ Queued' = Queued
  <2>1. Left' \subseteq Left
    BY <1>4
  <2>. QED BY <2>1, SameQueues
<1>7. PlacedOnce'
  <2>1. /\ Once(m_merge_data') /\ Once(unpacking') /\ \A e \in net' : Once(e.packets)
        /\ \A q \in waiting' : Channel(q) = "RELIABLE_ORDERED"
    BY <1>1, <1>2
  <2>. QED BY <1>5, <1>6, <2>1 DEF PlacedOnce, Once, Channel
<1>8. p \in Flight /\ Flight' = Flight \ {p}
  BY <1>3, <1>4, <1>6 DEF Flight
<1>. QED BY <1>7, <1>8

\* A datagram that is lost or discarded: what has no channel is gone.
LEMMA PlacesLose ==
    ASSUME Types, PlacedOnce, NEW d \in net, Lose(d),
           UNCHANGED <<m_outgoing_queue, pushed, merging, unpacking, waiting>>
    PROVE  PlacedOnce' /\ Flight' \subseteq Flight /\ \A p \in Flight : Channel(p) \in Reliable => p \in Flight'
<1>1. net' = net \ {d} /\ lost' = lost \cup {p \in ToSet(d.packets) : Channel(p) \in Reliable}
  BY DEF Lose, Channel
<1>2. /\ Appending' = Appending /\ Merging' = Merging /\ Unpacking' = Unpacking /\ m_merge_data' = m_merge_data
  BY DEF merging, Appending, Merging, Unpacking, ToSet
<1>3. /\ Once(m_merge_data) /\ Once(unpacking) /\ \A e \in net : Once(e.packets)
      /\ \A q \in waiting : Channel(q) = "RELIABLE_ORDERED"
      /\ Appending \cap (Merging \cup InNet \cup Unpacking \cup waiting) = {}
      /\ Merging \cap (InNet \cup Unpacking \cup waiting) = {}
      /\ InNet \cap (Unpacking \cup waiting) = {}
      /\ Unpacking \cap waiting = {}
      /\ \A e, f \in net : e # f => ToSet(e.packets) \cap ToSet(f.packets) = {}
      /\ \A e \in net : ToSet(e.packets) \cap lost = {}
  BY DEF PlacedOnce, PlacesDiffer, NetDiffers
<1>4. \A x : x \in InNet <=> (\E e \in net : x \in ToSet(e.packets)) \/ x \in lost
  BY DEF InNet
<1>5. \A x : x \in InNet' <=> (\E e \in net' : x \in ToSet(e.packets)) \/ x \in lost'
  BY DEF InNet, ToSet
<1>6. InNet' \subseteq InNet /\ \A p \in InNet : Channel(p) \in Reliable => p \in InNet'
  BY <1>1, <1>4, <1>5
<1>7. Left' \subseteq Left /\ \A p \in Left : Channel(p) \in Reliable => p \in Left'
  BY <1>2, <1>6 DEF Left
<1>8. /\ \A c \in Method : Len(m_outgoing_queue'[c]) <= pushed'[c]
      /\ \A c \in Method : \A i \in DOMAIN m_outgoing_queue'[c] :
            /\ Channel(m_outgoing_queue'[c][i]) = c
            /\ m_outgoing_queue'[c][i].number = pushed'[c] - Len(m_outgoing_queue'[c]) + (i - 1)
      /\ \A p \in Left' : p.number < pushed'[Channel(p)] - Len(m_outgoing_queue'[Channel(p)])
      /\ Queued' = Queued
  BY <1>7, SameQueues
<1>9. NetDiffers'
  <2>1. \A e, f \in net' : e # f => ToSet(e.packets) \cap ToSet(f.packets) = {}
    BY <1>1, <1>3
  <2>2. \A e \in net' : ToSet(e.packets) \cap lost' = {}
    BY <1>1, <1>3
  <2>. QED BY <2>1, <2>2 DEF NetDiffers, ToSet
<1>10. PlacesDiffer'
  <2>1. /\ Appending' \cap (Merging' \cup InNet' \cup Unpacking' \cup waiting') = {}
        /\ Merging' \cap (InNet' \cup Unpacking' \cup waiting') = {}
        /\ InNet' \cap (Unpacking' \cup waiting') = {}
        /\ Unpacking' \cap waiting' = {}
    BY <1>2, <1>3, <1>6
  <2>. QED BY <2>1, <1>9 DEF PlacesDiffer
<1>11. PlacedOnce'
  <2>1. /\ Once(m_merge_data') /\ Once(unpacking') /\ \A e \in net' : Once(e.packets)
        /\ \A q \in waiting' : Channel(q) = "RELIABLE_ORDERED"
    BY <1>1, <1>2, <1>3
  <2>. QED BY <1>8, <1>10, <2>1 DEF PlacedOnce, Once, Channel
<1>12. Flight' \subseteq Flight /\ \A p \in Flight : Channel(p) \in Reliable => p \in Flight'
  BY <1>7, <1>8 DEF Flight
<1>. QED BY <1>11, <1>12

\* The places of packets, when none moves.
LEMMA PlacesStay ==
    ASSUME PlacedOnce, UNCHANGED <<m_outgoing_queue, pushed, merging, lost, net, unpacking, waiting>>
    PROVE  PlacedOnce' /\ Flight' = Flight
<1>1. UNCHANGED <<appending, m_merge_data>>
  BY DEF merging
<1>2. /\ Appending' = Appending /\ Merging' = Merging /\ InNet' = InNet /\ Unpacking' = Unpacking /\ Queued' = Queued
  BY <1>1 DEF Appending, Merging, InNet, Unpacking, Queued, ToSet
<1>3. Left' = Left /\ Flight' = Flight
  BY <1>2 DEF Left, Flight
<1>4. PlacesDiffer'
  BY <1>2 DEF PlacedOnce, PlacesDiffer, NetDiffers, ToSet
<1>5. /\ \A c \in Method : Len(m_outgoing_queue'[c]) <= pushed'[c]
      /\ \A c \in Method : \A i \in DOMAIN m_outgoing_queue'[c] :
            /\ Channel(m_outgoing_queue'[c][i]) = c
            /\ m_outgoing_queue'[c][i].number = pushed'[c] - Len(m_outgoing_queue'[c]) + (i - 1)
      /\ \A p \in Left' : p.number < pushed'[Channel(p)] - Len(m_outgoing_queue'[Channel(p)])
  BY <1>3, SameQueues
<1>6. /\ Once(m_merge_data') /\ Once(unpacking') /\ \A d \in net' : Once(d.packets)
      /\ \A p \in waiting' : Channel(p) = "RELIABLE_ORDERED"
  BY <1>1 DEF PlacedOnce
<1>. QED BY <1>3, <1>4, <1>5, <1>6 DEF PlacedOnce, Once, Channel

-----------------------------------------------------------------------------
(* Messages: what the actions of the sender do to them. *)

\* What is said of messages depends on Flight, not on the places of packets, and
\* not on what is lost of messages without a channel, or delivered again.
LEMMA MessagesKept ==
    ASSUME MessagesAreTrue, SentOnce',
           Flight' \subseteq Flight, \A p \in Flight : Channel(p) \in Reliable => p \in Flight',
           \A m : IsDelivered(m)' <=> IsDelivered(m),
           UNCHANGED <<m_fragment_id, splitting, splits, submitted, pushed, handed, m_holded_fragments>>
    PROVE  MessagesAreTrue'
<1>1. UNCHANGED <<m_fragment_id, splitting, splits, submitted>>
  OBVIOUS
<1>2. \A m : (IsSent(m)' <=> IsSent(m)) /\ (IsSplit(m)' <=> IsSplit(m)) /\ (IsDelivered(m)' <=> IsDelivered(m))
  BY <1>1 DEF IsSent, IsSplit
<1>3. \A f : (IsPart(f)' <=> IsPart(f)) /\ (IsWhole(f)' <=> IsWhole(f))
  BY <1>1, <1>2 DEF IsPart, IsWhole
<1>4. \A id : Held(id)' = Held(id)
  BY DEF Held
<1>5. SplitOnce'
  BY <1>1, <1>2 DEF MessagesAreTrue, SplitOnce
<1>6. PartsAreTrue'
  BY <1>1, <1>3 DEF MessagesAreTrue, PartsAreTrue
<1>7. HeldIsTrue'
  BY <1>3, <1>4 DEF MessagesAreTrue, HeldIsTrue
<1>8. PartsDiffer'
  BY <1>1, <1>4 DEF MessagesAreTrue, PartsDiffer, SamePart
<1>9. NothingIsMissing'
  <2>1. ASSUME NEW m, m.method \in Reliable
        PROVE  \A p \in Flight : p.packet.message = m => p \in Flight'
    BY <2>1 DEF Channel
  <2>2. \A m, k : m.method \in Reliable /\ Exists(m, k) => Exists(m, k)'
    BY <2>1, <1>1, <1>4 DEF Exists
  <2>3. \A i \in DOMAIN splits : splits[i].message.method \in Reliable
    BY DEF MessagesAreTrue, SplitOnce
  <2>4. \A i \in DOMAIN splits : ~ IsDelivered(splits[i].message) =>
            \A k \in 0 .. splits[i].total - 1 : Exists(splits[i].message, k)'
    BY <2>2, <2>3 DEF MessagesAreTrue, NothingIsMissing
  <2>5. \A t \in Thread : \A i \in DOMAIN submitted[t] :
            /\ submitted[t][i].method \in Reliable
            /\ ~ IsDelivered(submitted[t][i]) /\ ~ IsSplit(submitted[t][i])
            => \E p \in Flight' : p.packet.message = submitted[t][i]
    BY <2>1 DEF MessagesAreTrue, NothingIsMissing
  <2>. QED BY <2>4, <2>5, <1>1, <1>2 DEF NothingIsMissing
<1>10. NumbersFollow'
  BY <1>1 DEF MessagesAreTrue, NumbersFollow, Channel
<1>. QED BY <1>5, <1>6, <1>7, <1>8, <1>9, <1>10 DEF MessagesAreTrue

\* A step that leaves the histories and what is in flight alone, but for messages
\* without a channel, keeps what is said of messages.
LEMMA MessagesStay ==
    ASSUME MessagesAreTrue, Flight' \subseteq Flight, \A p \in Flight : Channel(p) \in Reliable => p \in Flight',
           UNCHANGED <<sending, pushed, handed, m_holded_fragments, delivered>>
    PROVE  MessagesAreTrue'
<1>1. UNCHANGED <<script, m_fragment_id, next, splitting, splits, submitted>>
  BY DEF sending
<1>2. SentOnce'
  BY <1>1 DEF MessagesAreTrue, SentOnce, IsSent
<1>3. \A m : IsDelivered(m)' <=> IsDelivered(m)
  BY DEF IsDelivered
<1>. QED BY <1>1, <1>2, <1>3, MessagesKept

\* Two parts of a message have the same total.
LEMMA SameTotal ==
    ASSUME SplitOnce, NEW f, NEW g, IsPart(f), IsPart(g), f.message = g.message
    PROVE  f.total = g.total /\ f.id = g.id
BY DEF IsPart, SplitOnce

\* A packet with the next number of its channel.
LEMMA NextNumber ==
    ASSUME Types, NumbersFollow, NEW p \in Numbered,
           p.number = pushed[Channel(p)], pushed' = [pushed EXCEPT ![Channel(p)] = @ + 1],
           Flight \subseteq Numbered, Flight' = Flight \cup {p}, UNCHANGED handed,
           \A t \in Thread : \A i, j \in DOMAIN submitted'[t] : i < j =>
               /\ i \in DOMAIN submitted[t] /\ submitted'[t][i] = submitted[t][i]
               /\ submitted'[t][i] # p.packet.message,
           \A t \in Thread : \A j \in DOMAIN submitted'[t] :
               \/ j \in DOMAIN submitted[t] /\ submitted'[t][j] = submitted[t][j]
               \/ \A q \in Flight : q.packet.message # submitted'[t][j]
    PROVE  NumbersFollow'
<1>. DEFINE c == Channel(p)
<1>1. c \in Method /\ pushed[c] \in Nat /\ \A k \in Method : pushed[k] \in Nat
  BY PacketTypes DEF Types
<1>. HIDE DEF c
<1>2. /\ pushed'[c] = pushed[c] + 1
      /\ \A k \in Method : k # c => pushed'[k] = pushed[k]
  BY <1>1 DEF Types, c
<1>3. \A k \in Method : pushed[k] <= pushed'[k] /\ pushed'[k] \in Nat
  BY <1>1, <1>2
<1>4. /\ handed <= pushed["RELIABLE_ORDERED"]
      /\ \A q \in Flight : q.number < pushed[Channel(q)]
      /\ \A q, r \in Flight : Channel(q) = Channel(r) /\ q.number = r.number => q = r
      /\ \A q \in Flight : Channel(q) = "RELIABLE_ORDERED" => q.number >= handed
      /\ \A t \in Thread : \A i, j \in DOMAIN submitted[t] : \A q, r \in Flight :
            /\ i < j
            /\ q.packet.message = submitted[t][i] /\ r.packet.message = submitted[t][j]
            /\ Channel(q) = Channel(r)
            => q.number < r.number
  BY DEF NumbersFollow
<1>5. /\ \A q \in Numbered : Channel(q) \in Method /\ q.number \in Nat
      /\ handed \in Nat /\ "RELIABLE_ORDERED" \in Method
  BY PacketTypes, Constants DEF Types
<1>6. handed' <= pushed'["RELIABLE_ORDERED"]
  BY <1>1, <1>3, <1>4, <1>5
<1>7. \A q \in Flight' : q.number < pushed'[Channel(q)]
  <2>1. p.number < pushed'[Channel(p)]
    BY <1>1, <1>2 DEF c
  <2>2. \A q \in Flight : q.number < pushed'[Channel(q)]
    BY <1>1, <1>3, <1>4, <1>5
  <2>. QED BY <2>1, <2>2
<1>8. \A q \in Flight : Channel(q) = c => q.number < p.number
  BY <1>4 DEF c
<1>9. \A q, r \in Flight' : Channel(q) = Channel(r) /\ q.number = r.number => q = r
  BY <1>4, <1>5, <1>8 DEF c
<1>10. \A q \in Flight' : Channel(q) = "RELIABLE_ORDERED" => q.number >= handed'
  <2>1. Channel(p) = "RELIABLE_ORDERED" => p.number >= handed
    BY <1>1, <1>4, <1>5
  <2>. QED BY <2>1, <1>4
<1>11. ASSUME NEW t \in Thread, NEW i \in DOMAIN submitted'[t], NEW j \in DOMAIN submitted'[t],
              NEW q \in Flight', NEW r \in Flight',
              i < j, q.packet.message = submitted'[t][i], r.packet.message = submitted'[t][j],
              Channel(q) = Channel(r)
       PROVE  q.number < r.number
  <2>1. /\ i \in DOMAIN submitted[t] /\ submitted'[t][i] = submitted[t][i]
        /\ submitted'[t][i] # p.packet.message
    BY <1>11
  <2>2. q # p /\ q \in Flight
    BY <1>11, <2>1
  <2>3. CASE r = p
    BY <2>2, <2>3, <1>8, <1>11 DEF c
  <2>4. CASE r # p
    <3>1. r \in Flight
      BY <2>4
    <3>2. j \in DOMAIN submitted[t] /\ submitted'[t][j] = submitted[t][j]
      BY <3>1, <1>11
    <3>. QED BY <3>1, <3>2, <2>1, <2>2, <1>4, <1>11
  <2>. QED BY <2>3, <2>4
<1>. QED BY <1>6, <1>7, <1>9, <1>10, <1>11 DEF NumbersFollow, Channel


\* push: a part moves from its sender to the end of a queue.
LEMMA MessagesPush ==
    ASSUME Types, MessagesAreTrue, Flight \subseteq Numbered, NEW t \in Thread, splitting[t] # <<>>,
           NEW p \in Numbered, p.packet = Head(splitting[t]), p.number = pushed[Channel(p)],
           pushed' = [pushed EXCEPT ![Channel(p)] = @ + 1], Flight' = Flight \cup {p},
           splitting' = [splitting EXCEPT ![t] = Tail(@)],
           UNCHANGED <<script, m_fragment_id, next, splits, submitted, handed, m_holded_fragments, delivered>>
    PROVE  MessagesAreTrue'
<1>. DEFINE s == splitting[t]
            f == p.packet
<1>1. s \in Seq(Packet) /\ s # <<>>
  BY DEF Types
<1>2. /\ f = s[1] /\ f \in Packet /\ Tail(s) \in Seq(Packet) /\ 1 \in DOMAIN s
      /\ Len(s) \in Nat \ {0} /\ Len(Tail(s)) = Len(s) - 1
      /\ DOMAIN s = 1 .. Len(s) /\ DOMAIN Tail(s) = 1 .. Len(s) - 1
      /\ \A i \in DOMAIN Tail(s) : i + 1 \in DOMAIN s /\ Tail(s)[i] = s[i + 1]
  BY <1>1, TailFacts
<1>3. splitting'[t] = Tail(s) /\ \A u \in Thread : u # t => splitting'[u] = splitting[u]
  BY DEF Types
<1>4. SentOnce /\ SplitOnce /\ PartsAreTrue /\ HeldIsTrue /\ PartsDiffer /\ NothingIsMissing /\ NumbersFollow
  BY DEF MessagesAreTrue
<1>5. \A m : (IsSent(m)' <=> IsSent(m)) /\ (IsSplit(m)' <=> IsSplit(m)) /\ (IsDelivered(m)' <=> IsDelivered(m))
  BY DEF IsSent, IsSplit, IsDelivered
<1>6. \A g : (IsPart(g)' <=> IsPart(g)) /\ (IsWhole(g)' <=> IsWhole(g))
  BY <1>5 DEF IsPart, IsWhole
<1>7. \A id : Held(id)' = Held(id)
  BY DEF Held
<1>8. /\ \A u \in Thread : \A i \in DOMAIN splitting[u] :
            /\ IsPart(splitting[u][i])
            /\ submitted[u] # <<>> /\ splitting[u][i].message = submitted[u][Len(submitted[u])]
            /\ splitting[u][i].part = splitting[u][i].total - Len(splitting[u]) + (i - 1)
      /\ \A q \in Flight : IsPart(q.packet) \/ IsWhole(q.packet)
  BY <1>4 DEF PartsAreTrue
<1>9. /\ IsPart(f) /\ submitted[t] # <<>> /\ f.message = submitted[t][Len(submitted[t])]
  BY <1>2, <1>8
<1>. HIDE DEF s, f
<1>10. SentOnce' /\ SplitOnce'
  BY <1>4, <1>5 DEF SentOnce, SplitOnce
<1>11. ASSUME NEW i \in DOMAIN splitting'[t]
       PROVE  /\ i + 1 \in DOMAIN splitting[t] /\ splitting'[t][i] = splitting[t][i + 1] /\ i \in Nat
              /\ splitting'[t][i] \in Packet
              /\ splitting'[t][i].part = splitting'[t][i].total - Len(splitting'[t]) + (i - 1)
              /\ ~ SamePart(splitting'[t][i], f)
  <2>1. i + 1 \in DOMAIN splitting[t] /\ splitting'[t][i] = splitting[t][i + 1] /\ i \in Nat \ {0}
    <3>1. DOMAIN splitting'[t] = 1 .. Len(s) - 1 /\ splitting'[t] = Tail(s) /\ Len(s) \in Nat
      BY <1>2, <1>3
    <3>2. i + 1 \in DOMAIN s /\ Tail(s)[i] = s[i + 1]
      BY <3>1, <1>2, <1>11
    <3>3. i \in Nat \ {0}
      BY <3>1, <1>11
    <3>. QED BY <3>1, <3>2, <3>3 DEF s
  <2>2. splitting'[t][i] \in Packet
    BY <1>2, <1>3, <1>11, ElementOfSeq
  <2>3. splitting'[t][i].part = splitting'[t][i].total - Len(s) + ((i + 1) - 1)
    BY <1>8, <2>1 DEF s
  <2>4. Len(splitting'[t]) = Len(s) - 1
    BY <1>2, <1>3
  <2>5. \A a, b, j \in Int : a - b + ((j + 1) - 1) = a - (b - 1) + (j - 1)
    OBVIOUS
  <2>6. splitting'[t][i].total \in Nat /\ Len(s) \in Nat /\ f.total \in Nat
    BY <2>2, <1>2 DEF Packet
  <2>7. splitting'[t][i].part = splitting'[t][i].total - Len(splitting'[t]) + (i - 1)
    <3>1. splitting'[t][i].total - Len(s) + ((i + 1) - 1) = splitting'[t][i].total - (Len(s) - 1) + (i - 1)
      <4>1. splitting'[t][i].total \in Int /\ Len(s) \in Int /\ i \in Int
        BY <2>1, <2>6
      <4>. QED BY <4>1, <2>5, Zenon
    <3>. QED BY <2>3, <2>4, <3>1
  <2>8. splitting'[t][i].total = f.total
    <3>1. IsPart(splitting'[t][i]) /\ splitting'[t][i].message = f.message
      BY <2>1, <1>8, <1>9
    <3>. QED BY <3>1, <1>4, <1>9, SameTotal
  <2>9. f.part = f.total - Len(s) + (1 - 1)
    BY <1>2, <1>8 DEF s
  <2>10. splitting'[t][i].part # f.part
    BY <2>1, <2>3, <2>6, <2>8, <2>9
  <2>. QED BY <2>1, <2>2, <2>7, <2>10 DEF SamePart
<1>12. PartsAreTrue'
  <2>1. \A q \in Flight' : IsPart(q.packet)' \/ IsWhole(q.packet)'
    BY <1>6, <1>8, <1>9 DEF f
  <2>2. ASSUME NEW u \in Thread, NEW i \in DOMAIN splitting'[u]
        PROVE  /\ IsPart(splitting'[u][i])
               /\ submitted[u] # <<>> /\ splitting'[u][i].message = submitted[u][Len(submitted[u])]
               /\ splitting'[u][i].part = splitting'[u][i].total - Len(splitting'[u]) + (i - 1)
    <3>1. CASE u = t
      BY <3>1, <2>2, <1>8, <1>11
    <3>2. CASE u # t
      BY <3>2, <2>2, <1>3, <1>8
    <3>. QED BY <3>1, <3>2
  <2>3. \A u \in Thread : \A i \in DOMAIN splitting'[u] : IsPart(splitting'[u][i]) <=> IsPart(splitting[u][i])'
    BY <1>5 DEF IsPart
  <2>. QED BY <2>1, <2>2, <2>3 DEF PartsAreTrue
<1>13. HeldIsTrue'
  BY <1>4, <1>6, <1>7 DEF HeldIsTrue
<1>14. PartsDiffer'
  <2>1. /\ \A q, r \in Flight : SamePart(q.packet, r.packet) => q = r
        /\ \A q \in Flight : \A id \in Ids : \A g \in Held(id) : ~ SamePart(q.packet, g)
        /\ \A u \in Thread : \A i \in DOMAIN splitting[u] :
              /\ \A q \in Flight : ~ SamePart(splitting[u][i], q.packet)
              /\ \A id \in Ids : \A g \in Held(id) : ~ SamePart(splitting[u][i], g)
    BY <1>4 DEF PartsDiffer
  <2>2. \A q \in Flight : ~ SamePart(f, q.packet) /\ ~ SamePart(q.packet, f)
    BY <1>2, <2>1 DEF SamePart, s
  <2>3. \A id \in Ids : \A g \in Held(id) : ~ SamePart(f, g)
    BY <1>2, <2>1 DEF s
  <2>4. \A q, r \in Flight' : SamePart(q.packet, r.packet) => q = r
    BY <2>1, <2>2 DEF f
  <2>5. \A q \in Flight' : \A id \in Ids : \A g \in Held(id)' : ~ SamePart(q.packet, g)
    BY <1>7, <2>1, <2>3 DEF f
  <2>6. ASSUME NEW u \in Thread, NEW i \in DOMAIN splitting'[u]
        PROVE  /\ \A q \in Flight' : ~ SamePart(splitting'[u][i], q.packet)
               /\ \A id \in Ids : \A g \in Held(id)' : ~ SamePart(splitting'[u][i], g)
    <3>1. ~ SamePart(splitting'[u][i], f)
      <4>1. CASE u = t
        BY <4>1, <2>6, <1>11
      <4>2. CASE u # t
        <5>1. i \in DOMAIN splitting[u] /\ splitting'[u][i] = splitting[u][i]
          BY <4>2, <1>3, <2>6
        <5>2. submitted[u] # <<>> /\ splitting[u][i].message = submitted[u][Len(submitted[u])]
          BY <5>1, <1>8
        <5>3. Len(submitted[u]) \in DOMAIN submitted[u] /\ Len(submitted[t]) \in DOMAIN submitted[t]
          <6>1. \A v \in Thread : submitted[v] \in Seq(Message)
            BY DEF Types
          <6>. QED BY <6>1, <5>2, <1>9, LenProperties, EmptySeq
        <5>4. splitting[u][i].message # f.message
          BY <4>2, <5>2, <5>3, <1>4, <1>9 DEF SentOnce
        <5>. QED BY <5>1, <5>4 DEF SamePart
      <4>. QED BY <4>1, <4>2
    <3>2. \E j \in DOMAIN splitting[u] : splitting'[u][i] = splitting[u][j]
      <4>1. CASE u = t
        BY <4>1, <2>6, <1>11
      <4>2. CASE u # t
        BY <4>2, <1>3, <2>6
      <4>. QED BY <4>1, <4>2
    <3>. QED BY <3>1, <3>2, <2>1, <1>7 DEF f
  <2>. QED BY <2>4, <2>5, <2>6 DEF PartsDiffer, SamePart
<1>15. NothingIsMissing'
  <2>1. ASSUME NEW m, NEW k, Exists(m, k) PROVE Exists(m, k)'
    <3>1. CASE \E q \in Flight : q.packet.message = m /\ q.packet.part = k
      BY <3>1 DEF Exists
    <3>2. CASE \E id \in Ids : \E g \in Held(id) : g.message = m /\ g.part = k
      BY <3>2, <1>7 DEF Exists
    <3>3. ASSUME NEW u \in Thread, NEW i \in DOMAIN splitting[u],
                 splitting[u][i].message = m, splitting[u][i].part = k
          PROVE  Exists(m, k)'
      <4>1. CASE u # t
        BY <4>1, <3>3, <1>3 DEF Exists
      <4>2. CASE u = t /\ i = 1
        <5>1. p \in Flight' /\ p.packet.message = m /\ p.packet.part = k
          BY <4>2, <3>3, <1>2 DEF s, f
        <5>. QED BY <5>1 DEF Exists
      <4>3. CASE u = t /\ i # 1
        <5>1. i - 1 \in DOMAIN splitting'[t] /\ splitting'[t][i - 1] = splitting[t][(i - 1) + 1] /\ (i - 1) + 1 = i
          <6>1. DOMAIN s = 1 .. Len(s) /\ Len(s) \in Nat /\ i \in DOMAIN s
            BY <4>3, <3>3, <1>2 DEF s
          <6>2. i - 1 \in 1 .. Len(s) - 1 /\ (i - 1) + 1 = i
            BY <6>1, <4>3
          <6>3. i - 1 \in DOMAIN Tail(s) /\ Tail(s)[i - 1] = s[(i - 1) + 1]
            BY <6>2, <1>2
          <6>. QED BY <6>2, <6>3, <1>3 DEF s
        <5>2. \E j \in DOMAIN splitting'[t] : splitting'[t][j].message = m /\ splitting'[t][j].part = k
          BY <5>1, <4>3, <3>3
        <5>. QED BY <5>2 DEF Exists
      <4>. QED BY <4>1, <4>2, <4>3
    <3>. QED BY <2>1, <3>1, <3>2, <3>3 DEF Exists
  <2>2. \A i \in DOMAIN splits : ~ IsDelivered(splits[i].message) =>
            \A k \in 0 .. splits[i].total - 1 : Exists(splits[i].message, k)
    BY <1>4 DEF NothingIsMissing
  <2>3. \A u \in Thread : \A i \in DOMAIN submitted[u] :
            /\ submitted[u][i].method \in Reliable
            /\ ~ IsDelivered(submitted[u][i]) /\ ~ IsSplit(submitted[u][i])
            => \E q \in Flight : q.packet.message = submitted[u][i]
    BY <1>4 DEF NothingIsMissing
  <2>4. \A u \in Thread : \A i \in DOMAIN submitted[u] :
            /\ submitted[u][i].method \in Reliable
            /\ ~ IsDelivered(submitted[u][i]) /\ ~ IsSplit(submitted[u][i])
            => \E q \in Flight' : q.packet.message = submitted[u][i]
    BY <2>3
  <2>. QED BY <1>5, <2>1, <2>2, <2>4 DEF NothingIsMissing
<1>16. NumbersFollow'
  <2>1. submitted[t] \in Seq(Message) /\ \A u \in Thread : submitted[u] \in Seq(Message)
    BY DEF Types
  <2>2. \A u \in Thread : DOMAIN submitted[u] = 1 .. Len(submitted[u]) /\ Len(submitted[u]) \in Nat
    BY <2>1, LenProperties
  <2>3. Len(submitted[t]) \in DOMAIN submitted[t]
    BY <2>1, <2>2, <1>9, EmptySeq
  <2>4. ASSUME NEW u \in Thread, NEW i \in DOMAIN submitted[u], NEW j \in DOMAIN submitted[u], i < j
        PROVE  submitted[u][i] # p.packet.message
    <3>1. i # Len(submitted[u])
      BY <2>2, <2>4
    <3>. QED BY <3>1, <2>3, <1>4, <1>9 DEF SentOnce, f
  <2>. QED BY <2>4, <1>4, NextNumber
<1>. QED BY <1>10, <1>12, <1>13, <1>14, <1>15, <1>16 DEF MessagesAreTrue

\* Every part that is somewhere is one of a message that was sent.
LEMMA PartsWereSent ==
    ASSUME MessagesAreTrue
    PROVE  /\ \A q \in Flight : IsSent(q.packet.message)
           /\ \A u \in Thread : \A i \in DOMAIN splitting[u] : IsSent(splitting[u][i].message)
           /\ \A id \in Ids : \A g \in Held(id) : IsSent(g.message)
<1>1. \A f : IsPart(f) \/ IsWhole(f) => IsSent(f.message)
  BY DEF MessagesAreTrue, SplitOnce, IsPart, IsWhole
<1>2. /\ \A q \in Flight : IsPart(q.packet) \/ IsWhole(q.packet)
      /\ \A u \in Thread : \A i \in DOMAIN splitting[u] : IsPart(splitting[u][i])
  BY DEF MessagesAreTrue, PartsAreTrue
<1>3. \A id \in Ids : \A g \in Held(id) : IsPart(g)
  BY DEF MessagesAreTrue, HeldIsTrue, Held
<1>. QED BY <1>1, <1>2, <1>3

\* The message that a thread sends next has not been sent before.
LEMMA NewMessage ==
    ASSUME Types, SentOnce, NEW t \in Thread, next[t] <= Len(script[t]),
           NEW m, m = script[t][next[t]]
    PROVE  /\ m \in Message /\ ~ IsSent(m) /\ ~ IsDelivered(m)
           /\ next[t] \in DOMAIN script[t]
<1>1. next[t] \in DOMAIN script[t] /\ m \in Message
  <2>1. next[t] \in Nat \ {0} /\ DOMAIN script[t] = 1 .. Len(script[t]) /\ Len(script[t]) \in Nat
    BY MessageFacts DEF Types
  <2>2. next[t] \in DOMAIN script[t]
    BY <2>1
  <2>. QED BY <2>2, MessageFacts DEF Types
<1>2. ASSUME NEW u \in Thread, NEW i \in DOMAIN submitted[u], submitted[u][i] = m
      PROVE  FALSE
  <2>1. PICK j \in DOMAIN script[u] : j < next[u] /\ script[u][j] = m
    BY <1>2 DEF SentOnce
  <2>2. u = t /\ j = next[t]
    <3>1. \A i2 \in DOMAIN script[u], j2 \in DOMAIN script[t] :
              script[u][i2] = script[t][j2] => u = t /\ i2 = j2
      BY PathAssumption DEF Types
    <3>. QED BY <3>1, <2>1, <1>1
  <2>3. next[t] \in Nat
    BY DEF Types
  <2>. QED BY <2>1, <2>2, <2>3
<1>3. ~ IsSent(m)
  BY <1>2 DEF IsSent
<1>. QED BY <1>1, <1>3 DEF SentOnce, IsDelivered

\* What it is to have sent a message more.
LEMMA SentGrows ==
    ASSUME Types, SentOnce, NEW t \in Thread, next[t] <= Len(script[t]),
           NEW m, m = script[t][next[t]],
           submitted' = [submitted EXCEPT ![t] = Append(@, m)],
           next' = [next EXCEPT ![t] = @ + 1], UNCHANGED <<script, delivered>>
    PROVE  /\ SentOnce'
           /\ submitted' \in [Thread -> Seq(Message)] /\ next' \in [Thread -> Nat \ {0}]
           /\ \A u \in Thread : u # t => submitted'[u] = submitted[u]
           /\ Len(submitted[t]) \in Nat /\ Len(submitted'[t]) = Len(submitted[t]) + 1
           /\ submitted'[t] # <<>> /\ submitted'[t][Len(submitted[t]) + 1] = m
           /\ \A i \in DOMAIN submitted[t] : i \in DOMAIN submitted'[t] /\ submitted'[t][i] = submitted[t][i]
           /\ \A i \in DOMAIN submitted'[t] : i \in DOMAIN submitted[t] \/ i = Len(submitted[t]) + 1
           /\ \A x : IsSent(x)' <=> IsSent(x) \/ x = m
<1>1. m \in Message /\ ~ IsSent(m) /\ ~ IsDelivered(m) /\ next[t] \in DOMAIN script[t]
  BY NewMessage
<1>2. submitted[t] \in Seq(Message) /\ submitted'[t] = Append(submitted[t], m)
  BY DEF Types
<1>3. \A u \in Thread : u # t => submitted'[u] = submitted[u] /\ next'[u] = next[u]
  BY DEF Types
<1>4. /\ submitted'[t] \in Seq(Message) /\ submitted'[t] # <<>>
      /\ Len(submitted[t]) \in Nat /\ Len(submitted'[t]) = Len(submitted[t]) + 1
      /\ DOMAIN submitted[t] = 1 .. Len(submitted[t]) /\ DOMAIN submitted'[t] = 1 .. Len(submitted[t]) + 1
      /\ \A i \in DOMAIN submitted[t] : i \in DOMAIN submitted'[t] /\ submitted'[t][i] = submitted[t][i]
      /\ submitted'[t][Len(submitted[t]) + 1] = m
      /\ \A i \in DOMAIN submitted'[t] : i \in DOMAIN submitted[t] \/ i = Len(submitted[t]) + 1
  BY <1>1, <1>2, AppendFacts
<1>5. next[t] \in Nat \ {0} /\ next'[t] = next[t] + 1
  BY DEF Types
<1>6. submitted' \in [Thread -> Seq(Message)] /\ next' \in [Thread -> Nat \ {0}]
  BY <1>2, <1>4, <1>5 DEF Types
<1>7. \A u \in Thread : \A i \in DOMAIN submitted'[u] :
         \/ i \in DOMAIN submitted[u] /\ submitted'[u][i] = submitted[u][i]
         \/ u = t /\ i = Len(submitted[t]) + 1 /\ submitted'[u][i] = m
  BY <1>3, <1>4
<1>8. \A x : IsSent(x)' <=> IsSent(x) \/ x = m
  <2>1. \A u \in Thread : \A i \in DOMAIN submitted[u] :
            i \in DOMAIN submitted'[u] /\ submitted'[u][i] = submitted[u][i]
    BY <1>3, <1>4
  <2>2. Len(submitted[t]) + 1 \in DOMAIN submitted'[t]
    BY <1>4
  <2>3. ASSUME NEW x PROVE IsSent(x)' <=> IsSent(x) \/ x = m
    <3>1. IsSent(x)' <=> \E u \in Thread : \E i \in DOMAIN submitted'[u] : submitted'[u][i] = x
      BY DEF IsSent
    <3>. QED BY <3>1, <2>1, <2>2, <1>4, <1>7 DEF IsSent
  <2>. QED BY <2>3
<1>9. \A u \in Thread : \A i \in DOMAIN submitted'[u] :
          \E j \in DOMAIN script[u] : j < next'[u] /\ script[u][j] = submitted'[u][i]
  <2>1. ASSUME NEW u \in Thread, NEW i \in DOMAIN submitted'[u]
        PROVE  \E j \in DOMAIN script[u] : j < next'[u] /\ script[u][j] = submitted'[u][i]
    <3>1. CASE i \in DOMAIN submitted[u] /\ submitted'[u][i] = submitted[u][i]
      <4>1. PICK j \in DOMAIN script[u] : j < next[u] /\ script[u][j] = submitted[u][i]
        BY <3>1 DEF SentOnce
      <4>2. next[u] <= next'[u] /\ next[u] \in Nat /\ next'[u] \in Nat
        <5>1. next \in [Thread -> Nat \ {0}]
          BY DEF Types
        <5>2. next[u] \in Nat /\ (next'[u] = next[u] \/ next'[u] = next[u] + 1)
          BY <5>1, <1>3, <1>5
        <5>. QED BY <5>2
      <4>3. j \in Nat
        <5>1. DOMAIN script[u] = 1 .. Len(script[u])
          BY MessageFacts DEF Types
        <5>. QED BY <4>1, <5>1
      <4>. QED BY <3>1, <4>1, <4>2, <4>3
    <3>2. CASE u = t /\ submitted'[u][i] = m
      BY <3>2, <1>1, <1>5
    <3>. QED BY <2>1, <3>1, <3>2, <1>7
  <2>. QED BY <2>1
<1>10. \A u, v \in Thread : \A i \in DOMAIN submitted'[u], j \in DOMAIN submitted'[v] :
          submitted'[u][i] = submitted'[v][j] => u = v /\ i = j
  <2>1. \A u \in Thread : \A i \in DOMAIN submitted[u] : submitted[u][i] # m
    BY <1>1 DEF IsSent
  <2>2. \A u, v \in Thread : \A i \in DOMAIN submitted[u], j \in DOMAIN submitted[v] :
            submitted[u][i] = submitted[v][j] => u = v /\ i = j
    BY DEF SentOnce
  <2>. QED BY <1>7, <2>1, <2>2
<1>11. \A i \in DOMAIN delivered : IsSent(delivered[i])'
  BY <1>8 DEF SentOnce
<1>12. SentOnce'
  BY <1>9, <1>10, <1>11 DEF SentOnce
<1>. QED BY <1>3, <1>4, <1>6, <1>8, <1>12

\* What the first packet and the rest of a message are: the message itself and
\* nothing, or its parts.
IsSubmitted(m, first, rest) ==
    \/ /\ first.total = 0 /\ first.part = 0 /\ rest = <<>>
       /\ UNCHANGED <<m_fragment_id, splits>>
    \/ /\ m.method \in Reliable
       /\ first.total \in Nat \ {0} /\ first.part = 0 /\ first.id = NextFragmentId
       /\ Len(rest) = first.total - 1
       /\ \A i \in DOMAIN rest : /\ rest[i].message = m /\ rest[i].total = first.total
                                 /\ rest[i].part = i /\ rest[i].id = NextFragmentId
       /\ IdIsFree
       /\ m_fragment_id' = NextFragmentId
       /\ splits' = Append(splits, [message |-> m, total |-> first.total])

\* The splits after a message was submitted.
LEMMA SplitGrows ==
    ASSUME Types, MessagesAreTrue, NEW m \in Message, ~ IsSent(m), ~ IsDelivered(m), IsSent(m)',
           \A x : IsSent(x) => IsSent(x)', UNCHANGED delivered,
           NEW first, first.message = m, NEW rest \in Seq(Packet), IsSubmitted(m, first, rest)
    PROVE  /\ SplitOnce' /\ splits' \in Seq([message : Message, total : Nat \ {0}])
           /\ \A x : IsSplit(x) => IsSplit(x)'
           /\ \A f : IsPart(f) => IsPart(f)'
           /\ \A f : IsWhole(f) /\ f.message # m => IsWhole(f)'
           /\ IsPart(first)' \/ IsWhole(first)'
           /\ \A i \in DOMAIN rest : /\ IsPart(rest[i])' /\ rest[i].message = m /\ rest[i].part # first.part
                                     /\ rest[i].part = rest[i].total - Len(rest) + (i - 1)
           /\ \A i \in DOMAIN splits' :
                 \/ i \in DOMAIN splits /\ splits'[i] = splits[i]
                 \/ /\ splits'[i].message = m
                    /\ \A k \in 0 .. splits'[i].total - 1 : k = 0 \/ (k \in DOMAIN rest /\ rest[k].part = k)
           /\ IsSplit(m)' \/ first.total = 0
           /\ first.part = 0
<1>. DEFINE Splits == [message : Message, total : Nat \ {0}]
<1>1. splits \in Seq(Splits) /\ DOMAIN splits = 1 .. Len(splits) /\ Len(splits) \in Nat
  BY LenProperties DEF Types
<1>2. SplitOnce
  BY DEF MessagesAreTrue
<1>3. \A x : IsDelivered(x)' <=> IsDelivered(x)
  BY DEF IsDelivered
<1>4. ~ IsSplit(m)
  BY <1>2 DEF IsSplit, SplitOnce
<1>5. DOMAIN rest = 1 .. Len(rest) /\ Len(rest) \in Nat
  BY LenProperties
<1>6. CASE /\ first.total = 0 /\ first.part = 0 /\ rest = <<>>
           /\ UNCHANGED <<m_fragment_id, splits>>
  <2>1. \A x : IsSplit(x)' <=> IsSplit(x)
    BY <1>6 DEF IsSplit
  <2>2. SplitOnce'
    BY <1>2, <1>3, <1>6 DEF SplitOnce
  <2>3. \A f : IsPart(f) => IsPart(f)'
    BY <1>3, <1>6 DEF IsPart
  <2>4. \A f : IsWhole(f) => IsWhole(f)'
    BY <2>1, <1>3 DEF IsWhole
  <2>5. IsWhole(first)'
    BY <2>1, <1>3, <1>4, <1>6 DEF IsWhole
  <2>6. DOMAIN rest = {}
    BY <1>6
  <2>. QED BY <1>1, <1>6, <2>1, <2>2, <2>3, <2>4, <2>5, <2>6
<1>7. CASE /\ m.method \in Reliable
           /\ first.total \in Nat \ {0} /\ first.part = 0 /\ first.id = NextFragmentId
           /\ Len(rest) = first.total - 1
           /\ \A i \in DOMAIN rest : /\ rest[i].message = m /\ rest[i].total = first.total
                                     /\ rest[i].part = i /\ rest[i].id = NextFragmentId
           /\ IdIsFree
           /\ m_fragment_id' = NextFragmentId
           /\ splits' = Append(splits, [message |-> m, total |-> first.total])
  <2>. DEFINE x0 == [message |-> m, total |-> first.total]
              n == Len(splits)
  <2>1. x0 \in Splits /\ x0.message = m /\ x0.total = first.total
    BY <1>7
  <2>. HIDE DEF x0, Splits
  <2>2. /\ splits' \in Seq(Splits) /\ Len(splits') = n + 1
        /\ DOMAIN splits = 1 .. n /\ DOMAIN splits' = 1 .. n + 1
        /\ \A i \in DOMAIN splits : i \in DOMAIN splits' /\ splits'[i] = splits[i]
        /\ splits'[n + 1] = x0
        /\ \A i \in DOMAIN splits' : i \in DOMAIN splits \/ i = n + 1
    <3>1. splits' = Append(splits, x0)
      BY <1>7 DEF x0
    <3>. QED BY <1>1, <2>1, <3>1, AppendFacts
  <2>3. NextFragmentId = (n + 1) % FragmentIds
    BY <1>1, <1>2, Constants, NextMod DEF NextFragmentId, SplitOnce
  <2>. HIDE DEF n
  <2>4. n \in Nat /\ n + 1 \in DOMAIN splits'
    BY <1>1, <2>2 DEF n
  <2>5. \A x : IsSplit(x)' <=> IsSplit(x) \/ x = m
    <3>1. \A x : IsSplit(x)' <=> \E i \in DOMAIN splits' : splits'[i].message = x
      BY DEF IsSplit
    <3>. QED BY <3>1, <2>1, <2>2, <2>4 DEF IsSplit
  <2>6. ASSUME NEW f, NEW i \in DOMAIN splits',
               f.message = splits'[i].message, f.total = splits'[i].total, f.id = i % FragmentIds,
               f.part < f.total, ~ IsDelivered(f.message)
        PROVE  IsPart(f)'
    BY <2>6, <1>3 DEF IsPart
  <2>7. \A f : IsPart(f) => IsPart(f)'
    <3>1. ASSUME NEW f, IsPart(f) PROVE IsPart(f)'
      <4>1. PICK i \in DOMAIN splits :
                f.message = splits[i].message /\ f.total = splits[i].total /\ f.id = i % FragmentIds
        BY <3>1 DEF IsPart
      <4>2. f.part < f.total /\ ~ IsDelivered(f.message)
        BY <3>1 DEF IsPart
      <4>3. i \in DOMAIN splits' /\ splits'[i] = splits[i]
        BY <4>1, <2>2
      <4>. QED BY <4>1, <4>2, <4>3, <2>6
    <3>. QED BY <3>1
  <2>8. \A f : IsWhole(f) /\ f.message # m => IsWhole(f)'
    BY <2>5, <1>3 DEF IsWhole
  <2>9. IsPart(first)'
    <3>1. /\ first.message = splits'[n + 1].message /\ first.total = splits'[n + 1].total
          /\ first.id = (n + 1) % FragmentIds /\ first.part < first.total
      BY <1>7, <2>1, <2>2, <2>3
    <3>. QED BY <3>1, <2>4, <2>6
  <2>10. ASSUME NEW i \in DOMAIN rest
         PROVE  /\ IsPart(rest[i])' /\ rest[i].message = m /\ rest[i].part # first.part
                /\ rest[i].part = rest[i].total - Len(rest) + (i - 1)
    <3>1. /\ rest[i].message = m /\ rest[i].total = first.total
          /\ rest[i].part = i /\ rest[i].id = NextFragmentId
      BY <1>7
    <3>2. i \in Nat /\ i >= 1 /\ i < first.total
      BY <1>5, <1>7
    <3>3. first.total - Len(rest) + (i - 1) = i
      BY <1>5, <1>7, <3>2
    <3>4. IsPart(rest[i])'
      BY <3>1, <3>2, <2>1, <2>2, <2>3, <2>4, <2>6
    <3>. QED BY <3>1, <3>2, <3>3, <3>4, <1>7
  <2>11. SplitOnce'
    <3>1. m_fragment_id' = Len(splits') % FragmentIds
      BY <1>7, <2>2, <2>3
    <3>2. \A i \in DOMAIN splits' : IsSent(splits[i].message)' /\ splits'[i].message.method \in Reliable
      <4>1. \A i \in DOMAIN splits' :
                /\ IsSent(splits'[i].message) \/ splits'[i].message = m
                /\ splits'[i].message.method \in Reliable
        BY <1>2, <1>7, <2>1, <2>2 DEF SplitOnce
      <4>2. ASSUME NEW i \in DOMAIN splits'
            PROVE  IsSent(splits[i].message)' /\ splits'[i].message.method \in Reliable
        <5>1. PICK x : x = splits'[i].message
          OBVIOUS
        <5>2. IsSent(x)'
          BY <4>1, <5>1
        <5>. QED BY <4>1, <5>1, <5>2 DEF IsSent
      <4>. QED BY <4>2
    <3>3. \A i, j \in DOMAIN splits' : splits'[i].message = splits'[j].message => i = j
      <4>1. \A i \in DOMAIN splits : splits[i].message # m
        BY <1>4 DEF IsSplit
      <4>. QED BY <4>1, <1>2, <2>1, <2>2 DEF SplitOnce
    <3>4. ASSUME NEW i \in DOMAIN splits', i <= Len(splits') - FragmentIds
          PROVE  IsDelivered(splits'[i].message)
      <4>1. FragmentIds \in Nat \ {0}
        BY Constants
      <4>2. i \in 1 .. Len(splits) + 1 - FragmentIds /\ i \in DOMAIN splits
        BY <4>1, <3>4, <2>2, <2>4 DEF n
      <4>3. splits[i].message \in ToSet(delivered)
        BY <4>2, <1>7 DEF IdIsFree
      <4>. QED BY <4>2, <4>3, <2>2 DEF IsDelivered, ToSet
    <3>5. \A i \in DOMAIN splits' : i <= Len(splits') - FragmentIds => IsDelivered(splits[i].message)'
      BY <3>4 DEF IsDelivered
    <3>. QED BY <3>1, <3>2, <3>3, <3>5 DEF SplitOnce
  <2>12. \A i \in DOMAIN splits' :
            \/ i \in DOMAIN splits /\ splits'[i] = splits[i]
            \/ /\ splits'[i].message = m
               /\ \A k \in 0 .. splits'[i].total - 1 : k = 0 \/ (k \in DOMAIN rest /\ rest[k].part = k)
    <3>1. \A k \in 0 .. first.total - 1 : k = 0 \/ k \in DOMAIN rest
      BY <1>5, <1>7
    <3>. QED BY <3>1, <1>7, <2>1, <2>2
  <2>. QED BY <1>7, <2>2, <2>5, <2>7, <2>8, <2>9, <2>10, <2>11, <2>12 DEF Splits
<1>. QED BY <1>6, <1>7 DEF IsSubmitted

\* send_internal: a message is given to its channel, or its first part is.
LEMMA MessagesSubmit ==
    ASSUME Types, MessagesAreTrue, Flight \subseteq Numbered, NEW t \in Thread,
           splitting[t] = <<>>, next[t] <= Len(script[t]), NEW m, m = script[t][next[t]],
           NEW p \in Numbered, p.packet.message = m, p.number = pushed[Channel(p)],
           pushed' = [pushed EXCEPT ![Channel(p)] = @ + 1], Flight' = Flight \cup {p},
           NEW rest \in Seq(Packet), IsSubmitted(m, p.packet, rest),
           splitting' = [splitting EXCEPT ![t] = rest],
           submitted' = [submitted EXCEPT ![t] = Append(@, m)], next' = [next EXCEPT ![t] = @ + 1],
           UNCHANGED <<script, handed, m_holded_fragments, delivered>>
    PROVE  MessagesAreTrue' /\ splits' \in Seq([message : Message, total : Nat \ {0}])
<1>. DEFINE f == p.packet
<1>1. SentOnce /\ SplitOnce /\ PartsAreTrue /\ HeldIsTrue /\ PartsDiffer /\ NothingIsMissing /\ NumbersFollow
  BY DEF MessagesAreTrue
<1>2. m \in Message /\ ~ IsSent(m) /\ ~ IsDelivered(m)
  BY <1>1, NewMessage
<1>3. /\ SentOnce'
      /\ \A u \in Thread : u # t => submitted'[u] = submitted[u]
      /\ Len(submitted[t]) \in Nat /\ Len(submitted'[t]) = Len(submitted[t]) + 1
      /\ submitted'[t] # <<>> /\ submitted'[t][Len(submitted[t]) + 1] = m
      /\ \A i \in DOMAIN submitted[t] : i \in DOMAIN submitted'[t] /\ submitted'[t][i] = submitted[t][i]
      /\ \A i \in DOMAIN submitted'[t] : i \in DOMAIN submitted[t] \/ i = Len(submitted[t]) + 1
      /\ \A x : IsSent(x)' <=> IsSent(x) \/ x = m
  BY <1>1, SentGrows
<1>4. /\ SplitOnce' /\ splits' \in Seq([message : Message, total : Nat \ {0}])
      /\ \A x : IsSplit(x) => IsSplit(x)'
      /\ \A g : IsPart(g) => IsPart(g)'
      /\ \A g : IsWhole(g) /\ g.message # m => IsWhole(g)'
      /\ IsPart(f)' \/ IsWhole(f)'
      /\ \A i \in DOMAIN rest : /\ IsPart(rest[i])' /\ rest[i].message = m /\ rest[i].part # f.part
                                /\ rest[i].part = rest[i].total - Len(rest) + (i - 1)
      /\ \A i \in DOMAIN splits' :
            \/ i \in DOMAIN splits /\ splits'[i] = splits[i]
            \/ /\ splits'[i].message = m
               /\ \A k \in 0 .. splits'[i].total - 1 : k = 0 \/ (k \in DOMAIN rest /\ rest[k].part = k)
      /\ IsSplit(m)' \/ f.total = 0
      /\ f.part = 0
  BY <1>2, <1>3, SplitGrows
<1>5. f.message = m /\ p \in Flight'
  OBVIOUS
<1>. HIDE DEF f
<1>6. splitting'[t] = rest /\ \A u \in Thread : u # t => splitting'[u] = splitting[u]
  BY DEF Types
<1>7. /\ \A q \in Flight : q.packet.message # m
      /\ \A u \in Thread : \A i \in DOMAIN splitting[u] : splitting[u][i].message # m
      /\ \A id \in Ids : \A g \in Held(id) : g.message # m
  BY <1>2, PartsWereSent
<1>8. \A id : Held(id)' = Held(id)
  BY DEF Held
<1>9. \A x : IsDelivered(x)' <=> IsDelivered(x)
  BY DEF IsDelivered
<1>10. PartsAreTrue'
  <2>1. \A q \in Flight' : IsPart(q.packet)' \/ IsWhole(q.packet)'
    BY <1>1, <1>4, <1>7 DEF PartsAreTrue, f
  <2>2. ASSUME NEW u \in Thread, NEW i \in DOMAIN splitting'[u]
        PROVE  /\ IsPart(splitting[u][i])'
               /\ submitted'[u] # <<>> /\ splitting'[u][i].message = submitted'[u][Len(submitted'[u])]
               /\ splitting'[u][i].part = splitting'[u][i].total - Len(splitting'[u]) + (i - 1)
    <3>1. CASE u = t
      <4>1. i \in DOMAIN rest /\ splitting'[u][i] = rest[i]
        BY <3>1, <2>2, <1>6
      <4>2. IsPart(splitting[u][i])'
        <5>1. IsPart(rest[i])'
          BY <4>1, <1>4
        <5>. QED BY <4>1, <5>1 DEF IsPart
      <4>. QED BY <4>1, <4>2, <3>1, <1>3, <1>4, <1>6
    <3>2. CASE u # t
      <4>1. i \in DOMAIN splitting[u] /\ splitting'[u] = splitting[u] /\ submitted'[u] = submitted[u]
        BY <3>2, <2>2, <1>3, <1>6
      <4>2. /\ IsPart(splitting[u][i])
            /\ submitted[u] # <<>> /\ splitting[u][i].message = submitted[u][Len(submitted[u])]
            /\ splitting[u][i].part = splitting[u][i].total - Len(splitting[u]) + (i - 1)
        BY <4>1, <1>1 DEF PartsAreTrue
      <4>3. IsPart(splitting[u][i])'
        <5>. DEFINE g == splitting[u][i]
        <5>1. PICK h : h = g
          OBVIOUS
        <5>2. IsPart(h)'
          BY <5>1, <4>2, <1>4
        <5>3. h = splitting'[u][i]
          BY <5>1, <4>1
        <5>. QED BY <5>2, <5>3 DEF IsPart
      <4>. QED BY <4>1, <4>2, <4>3
    <3>. QED BY <3>1, <3>2
  <2>. QED BY <2>1, <2>2 DEF PartsAreTrue
<1>11. HeldIsTrue'
  BY <1>1, <1>4, <1>8 DEF HeldIsTrue
<1>12. PartsDiffer'
  <2>1. /\ \A q, r \in Flight : SamePart(q.packet, r.packet) => q = r
        /\ \A q \in Flight : \A id \in Ids : \A g \in Held(id) : ~ SamePart(q.packet, g)
        /\ \A u \in Thread : \A i \in DOMAIN splitting[u] :
              /\ \A q \in Flight : ~ SamePart(splitting[u][i], q.packet)
              /\ \A id \in Ids : \A g \in Held(id) : ~ SamePart(splitting[u][i], g)
    BY <1>1 DEF PartsDiffer
  <2>2. \A q \in Flight : ~ SamePart(f, q.packet) /\ ~ SamePart(q.packet, f)
    BY <1>5, <1>7 DEF SamePart
  <2>3. \A q, r \in Flight' : SamePart(q.packet, r.packet) => q = r
    BY <2>1, <2>2 DEF f
  <2>4. \A q \in Flight' : \A id \in Ids : \A g \in Held(id)' : ~ SamePart(q.packet, g)
    <3>1. \A id \in Ids : \A g \in Held(id) : ~ SamePart(f, g)
      BY <1>5, <1>7 DEF SamePart
    <3>. QED BY <3>1, <2>1, <1>8 DEF f
  <2>5. ASSUME NEW u \in Thread, NEW i \in DOMAIN splitting'[u]
        PROVE  /\ \A q \in Flight' : ~ SamePart(splitting'[u][i], q.packet)
               /\ \A id \in Ids : \A g \in Held(id)' : ~ SamePart(splitting'[u][i], g)
    <3>1. CASE u = t
      <4>1. splitting'[u][i].message = m /\ splitting'[u][i].part # f.part
        BY <3>1, <2>5, <1>4, <1>6
      <4>. QED BY <4>1, <1>7, <1>8 DEF SamePart, f
    <3>2. CASE u # t
      <4>1. i \in DOMAIN splitting[u] /\ splitting'[u][i] = splitting[u][i]
        BY <3>2, <2>5, <1>6
      <4>2. ~ SamePart(splitting[u][i], f)
        BY <4>1, <1>5, <1>7 DEF SamePart
      <4>. QED BY <4>1, <4>2, <2>1, <1>8 DEF f
    <3>. QED BY <3>1, <3>2
  <2>. QED BY <2>3, <2>4, <2>5 DEF PartsDiffer, SamePart
<1>13. NothingIsMissing'
  <2>1. ASSUME NEW x, NEW k, Exists(x, k) PROVE Exists(x, k)'
    <3>1. CASE \E q \in Flight : q.packet.message = x /\ q.packet.part = k
      BY <3>1 DEF Exists
    <3>2. CASE \E id \in Ids : \E g \in Held(id) : g.message = x /\ g.part = k
      BY <3>2, <1>8 DEF Exists
    <3>3. ASSUME NEW u \in Thread, NEW i \in DOMAIN splitting[u],
                 splitting[u][i].message = x, splitting[u][i].part = k
          PROVE  Exists(x, k)'
      <4>1. u # t
        BY <3>3
      <4>. QED BY <4>1, <3>3, <1>6 DEF Exists
    <3>. QED BY <2>1, <3>1, <3>2, <3>3 DEF Exists
  <2>2. ASSUME NEW i \in DOMAIN splits', ~ IsDelivered(splits'[i].message),
               NEW k \in 0 .. splits'[i].total - 1
        PROVE  Exists(splits[i].message, k)'
    <3>. DEFINE x == splits'[i].message
    <3>1. PICK y : y = x
      OBVIOUS
    <3>2. Exists(y, k)'
      <4>1. CASE i \in DOMAIN splits /\ splits'[i] = splits[i]
        <5>1. Exists(y, k)
          BY <4>1, <3>1, <2>2, <1>1 DEF NothingIsMissing
        <5>. QED BY <5>1, <2>1
      <4>2. CASE y = m /\ k = 0
        BY <4>2, <1>4, <1>5 DEF Exists, f
      <4>3. CASE y = m /\ k \in DOMAIN rest /\ rest[k].part = k
        <5>1. k \in DOMAIN splitting'[t] /\ splitting'[t][k].message = y /\ splitting'[t][k].part = k
          BY <4>3, <1>4, <1>6
        <5>. QED BY <5>1 DEF Exists
      <4>. QED BY <3>1, <2>2, <4>1, <4>2, <4>3, <1>4
    <3>. QED BY <3>1, <3>2 DEF Exists
  <2>3. ASSUME NEW u \in Thread, NEW i \in DOMAIN submitted'[u], submitted'[u][i].method \in Reliable,
               ~ IsDelivered(submitted'[u][i]), ~ IsSplit(submitted[u][i])'
        PROVE  \E q \in Flight' : q.packet.message = submitted'[u][i]
    <3>1. CASE submitted'[u][i] = m
      BY <3>1, <1>5 DEF f
    <3>2. CASE i \in DOMAIN submitted[u] /\ submitted'[u][i] = submitted[u][i]
      <4>1. PICK y : y = submitted[u][i]
        OBVIOUS
      <4>2. ~ IsSplit(y)'
        BY <4>1, <3>2, <2>3 DEF IsSplit
      <4>3. ~ IsSplit(y) /\ ~ IsDelivered(y)
        BY <4>1, <4>2, <3>2, <2>3, <1>4
      <4>4. \E q \in Flight : q.packet.message = y
        BY <4>1, <4>3, <3>2, <2>3, <1>1 DEF NothingIsMissing
      <4>. QED BY <4>1, <4>4, <3>2
    <3>. QED BY <3>1, <3>2, <2>3, <1>3
  <2>4. \A i \in DOMAIN splits' : ~ IsDelivered(splits[i].message)' =>
            \A k \in 0 .. splits'[i].total - 1 : Exists(splits[i].message, k)'
    BY <2>2 DEF IsDelivered
  <2>5. \A u \in Thread : \A i \in DOMAIN submitted'[u] :
            /\ submitted'[u][i].method \in Reliable
            /\ ~ IsDelivered(submitted[u][i])' /\ ~ IsSplit(submitted[u][i])'
            => \E q \in Flight' : q.packet.message = submitted'[u][i]
    BY <2>3 DEF IsDelivered
  <2>. QED BY <2>4, <2>5 DEF NothingIsMissing
<1>14. NumbersFollow'
  <2>1. \A u \in Thread : \A i, j \in DOMAIN submitted'[u] : i < j =>
            /\ i \in DOMAIN submitted[u] /\ submitted'[u][i] = submitted[u][i]
            /\ submitted'[u][i] # p.packet.message
    <3>1. ASSUME NEW u \in Thread, NEW i \in DOMAIN submitted'[u], NEW j \in DOMAIN submitted'[u], i < j
          PROVE  i \in DOMAIN submitted[u] /\ submitted'[u][i] = submitted[u][i]
      <4>1. CASE u # t
        BY <4>1, <3>1, <1>3
      <4>2. CASE u = t
        <5>1. DOMAIN submitted[t] = 1 .. Len(submitted[t])
          BY LenProperties DEF Types
        <5>2. i # Len(submitted[t]) + 1
          BY <5>1, <4>2, <3>1, <1>3
        <5>. QED BY <5>2, <4>2, <3>1, <1>3
      <4>. QED BY <4>1, <4>2
    <3>2. \A u \in Thread : \A i \in DOMAIN submitted[u] : submitted[u][i] # m
      BY <1>2 DEF IsSent
    <3>. QED BY <3>1, <3>2
  <2>2. \A u \in Thread : \A j \in DOMAIN submitted'[u] :
            \/ j \in DOMAIN submitted[u] /\ submitted'[u][j] = submitted[u][j]
            \/ \A q \in Flight : q.packet.message # submitted'[u][j]
    BY <1>3, <1>7
  <2>. QED BY <2>1, <2>2, <1>1, NextNumber
<1>. QED BY <1>3, <1>4, <1>10, <1>11, <1>12, <1>13, <1>14 DEF MessagesAreTrue

-----------------------------------------------------------------------------
(* Messages: what the receive thread does to them. *)

\* As many different parts as there are: each is among them.
LEMMA AllParts ==
    ASSUME NEW n \in Nat, NEW S \in SUBSET Packet, IsFiniteSet(S), Cardinality(S) = n,
           \A g \in S : g.part < n,
           \A g, h \in S : g.part = h.part => g = h
    PROVE  \A k \in 0 .. n - 1 : \E g \in S : g.part = k
<1>. DEFINE F == [g \in S |-> g.part]
            T == 0 .. n - 1
<1>1. \A g \in S : g.part \in T
  BY DEF Packet
<1>2. F \in Injection(S, T)
  BY <1>1 DEF Injection, IsInjective
<1>3. IsFiniteSet(T) /\ Cardinality(T) = n
  BY FS_Interval
<1>. HIDE DEF F, T
<1>4. F \in Surjection(S, T)
  BY <1>2, <1>3, FS_Injection
<1>5. \A k \in T : \E g \in S : F[g] = k
  BY <1>4 DEF Surjection
<1>. QED BY <1>5 DEF F, T

\* A set in which each part is has as many elements at least.
LEMMA EnoughParts ==
    ASSUME NEW n \in Nat, NEW S, IsFiniteSet(S),
           \A k \in 0 .. n - 1 : \E g \in S : g.part = k
    PROVE  n <= Cardinality(S)
<1>. DEFINE T == 0 .. n - 1
            Of(k) == CHOOSE g \in S : g.part = k
            F == [k \in T |-> Of(k)]
<1>1. \A k \in T : Of(k) \in S /\ Of(k).part = k
  OBVIOUS
<1>. HIDE DEF Of
<1>2. F \in Injection(T, S)
  BY <1>1 DEF Injection, IsInjective
<1>3. IsFiniteSet(T) /\ Cardinality(T) = n
  BY FS_Interval
<1>. HIDE DEF F, T
<1>. QED BY <1>2, <1>3, FS_Injection

\* Of the messages that are on their way, no two have the same fragment id.
LEMMA IdsDiffer ==
    ASSUME Types, SplitOnce, NEW f, NEW g, IsPart(f), IsPart(g), f.id = g.id
    PROVE  f.message = g.message
<1>1. PICK i \in DOMAIN splits : f.message = splits[i].message /\ f.id = i % FragmentIds
  BY DEF IsPart
<1>2. PICK j \in DOMAIN splits : g.message = splits[j].message /\ g.id = j % FragmentIds
  BY DEF IsPart
<1>3. DOMAIN splits = 1 .. Len(splits) /\ Len(splits) \in Nat
  BY LenProperties DEF Types
<1>4. ~ (i <= Len(splits) - FragmentIds) /\ ~ (j <= Len(splits) - FragmentIds)
  BY <1>1, <1>2 DEF SplitOnce, IsPart
<1>5. i \in Int /\ j \in Int /\ i - j < FragmentIds /\ j - i < FragmentIds /\ FragmentIds \in Nat \ {0}
  BY <1>3, <1>4, Constants
<1>6. i % FragmentIds = j % FragmentIds
  BY <1>1, <1>2
<1>7. i = j
  BY <1>5, <1>6, ModInjective
<1>. QED BY <1>1, <1>2, <1>7

\* The entry that a part finds has the other parts of its message.
LEMMA EntryFacts ==
    ASSUME Types, MessagesAreTrue, Flight \subseteq Numbered, NEW p \in Flight, p.packet.total # 0
    PROVE  LET f == p.packet IN
           /\ f \in Packet /\ f.id \in Ids /\ IsPart(f) /\ ~ IsRefused(f)
           /\ Entry(f).fragments = Held(f.id) /\ Entry(f).total = f.total
           /\ Entry(f).channel = f.message.method /\ Entry(f) \in Incoming
           /\ \A g \in Held(f.id) : /\ IsPart(g) /\ g \in Packet /\ g.id = f.id /\ g.total = f.total
                                    /\ g.message = f.message /\ g.part # f.part
           /\ \A g, h \in Held(f.id) : g.part = h.part => g = h
           /\ Collected(f) = Held(f.id) \cup {f} /\ f \notin Held(f.id)
           /\ IsFiniteSet(Collected(f)) /\ Cardinality(Collected(f)) \in Nat
           /\ Cardinality(Collected(f)) <= f.total
           /\ IsComplete(f) => Assembled(f) = f.message
<1>. DEFINE f == p.packet
            id == f.id
            e == m_holded_fragments[id]
<1>1. f \in Packet /\ f.message \in Message /\ f.total \in Nat /\ f.part \in Nat /\ id \in Ids
  BY PacketTypes
<1>2. IsPart(f)
  <2>1. IsPart(f) \/ IsWhole(f)
    BY DEF MessagesAreTrue, PartsAreTrue
  <2>. QED BY <2>1 DEF IsWhole
<1>. HIDE DEF f
<1>3. f.part < f.total /\ f.total \in Nat \ {0}
  BY <1>1, <1>2 DEF IsPart
<1>. HIDE DEF id
<1>4. e \in Incoming \cup {None}
  BY <1>1 DEF Types, Ids
<1>5. e # None =>
        /\ Held(id) # {} /\ IsFiniteSet(Held(id))
        /\ Cardinality(Held(id)) < e.total
        /\ \A g \in Held(id) : IsPart(g) /\ g.id = id /\ g.total = e.total /\ g.message.method = e.channel
        /\ \A g, h \in Held(id) : g.message = h.message /\ (g.part = h.part => g = h)
  BY <1>1 DEF MessagesAreTrue, HeldIsTrue
<1>6. e = None => Held(id) = {}
  BY DEF Held
<1>7. \A g \in Held(id) : IsPart(g) /\ g \in Packet /\ g.id = id /\ g.message = f.message /\ g.total = f.total
  <2>1. ASSUME NEW g \in Held(id)
        PROVE  IsPart(g) /\ g \in Packet /\ g.id = id /\ g.message = f.message /\ g.total = f.total
    <3>1. IsPart(g) /\ g.id = id /\ e # None
      BY <1>5, <1>6
    <3>2. g \in Packet
      BY <1>4, <3>1 DEF Held, Incoming
    <3>3. g.id = f.id
      BY <3>1 DEF id
    <3>4. SplitOnce
      BY DEF MessagesAreTrue
    <3>5. g.message = f.message
      BY <3>1, <3>3, <3>4, <1>2, IdsDiffer
    <3>6. g.total = f.total
      BY <3>1, <3>4, <3>5, <1>2, SameTotal
    <3>. QED BY <3>1, <3>2, <3>5, <3>6
  <2>. QED BY <2>1
<1>8. \A g \in Held(id) : g.part # f.part
  <2>1. \A g \in Held(id) : ~ SamePart(f, g)
    BY <1>1 DEF MessagesAreTrue, PartsDiffer, f
  <2>. QED BY <2>1, <1>7 DEF SamePart
<1>9. /\ Entry(f).fragments = Held(id) /\ Entry(f).total = f.total
      /\ Entry(f).channel = f.message.method /\ Entry(f) \in Incoming
      /\ IsFiniteSet(Held(id)) /\ Cardinality(Held(id)) \in Nat /\ Cardinality(Held(id)) < f.total
  <2>1. CASE e = None
    <3>. DEFINE n == [total |-> f.total, channel |-> f.message.method, fragments |-> {}]
    <3>1. Entry(f) = n
      BY <2>1 DEF Entry, id
    <3>2. n \in Incoming /\ n.total = f.total /\ n.channel = f.message.method /\ n.fragments = {}
      BY <1>1, MessageFacts DEF Incoming
    <3>. HIDE DEF n
    <3>3. Held(id) = {} /\ IsFiniteSet(Held(id)) /\ Cardinality(Held(id)) = 0
      BY <2>1, <1>6, FS_EmptySet
    <3>. QED BY <3>1, <3>2, <3>3, <1>3
  <2>2. CASE e # None
    <3>1. Entry(f) = e /\ e.fragments = Held(id) /\ e \in Incoming
      BY <2>2, <1>4 DEF Entry, Held, id
    <3>2. PICK g \in Held(id) : TRUE
      BY <2>2, <1>5
    <3>3. g.total = e.total /\ g.message.method = e.channel /\ g.total = f.total /\ g.message = f.message
      BY <2>2, <3>2, <1>5, <1>7
    <3>4. IsFiniteSet(Held(id)) /\ Cardinality(Held(id)) < e.total /\ Cardinality(Held(id)) \in Nat
      BY <2>2, <1>5, FS_CardinalityType
    <3>. QED BY <3>1, <3>3, <3>4
  <2>. QED BY <2>1, <2>2
<1>10. \A g, h \in Held(id) : g.part = h.part => g = h
  BY <1>5, <1>6
<1>11. Collected(f) = Held(id) \cup {f} /\ f \notin Held(id)
  BY <1>8, <1>9 DEF Collected
<1>12. /\ IsFiniteSet(Collected(f)) /\ Cardinality(Collected(f)) = Cardinality(Held(id)) + 1
  BY <1>9, <1>11, FS_AddElement
<1>13. ~ IsRefused(f)
  <2>1. ~ (f.part >= Entry(f).total)
    BY <1>1, <1>3, <1>9
  <2>. QED BY <2>1, <1>8, <1>9 DEF IsRefused
<1>14. IsComplete(f) => Assembled(f) = f.message
  <2>1. IsComplete(f) => Cardinality(Collected(f)) = f.total
    BY <1>9 DEF IsComplete
  <2>2. \A g \in Collected(f) : g.message = f.message /\ g.total = f.total
    BY <1>7, <1>11
  <2>. QED BY <2>1, <2>2 DEF Assembled
<1>15. Cardinality(Collected(f)) \in Nat /\ Cardinality(Collected(f)) <= f.total
  BY <1>9, <1>12, <1>3
<1>. QED BY <1>1, <1>2, <1>7, <1>8, <1>9, <1>10, <1>11, <1>12, <1>13, <1>14, <1>15 DEF id, f

\* Before a part of a message is handed over, what its thread sent before it on
\* the ordered channel has been delivered.
LEMMA EarlierIsDelivered ==
    ASSUME Types, MessagesAreTrue, Flight \subseteq Numbered, NEW p \in Flight,
           Channel(p) = "RELIABLE_ORDERED", p.number = handed,
           NEW t \in Thread, NEW i \in DOMAIN submitted[t], p.packet.message = submitted[t][i],
           NEW j \in DOMAIN submitted[t], j < i, submitted[t][j].method = "RELIABLE_ORDERED"
    PROVE  IsDelivered(submitted[t][j])
<1>. DEFINE x == submitted[t][j]
<1>. SUFFICES ASSUME ~ IsDelivered(x) PROVE FALSE
  OBVIOUS
<1>1. SentOnce /\ SplitOnce /\ PartsAreTrue /\ HeldIsTrue /\ NothingIsMissing /\ NumbersFollow
  BY DEF MessagesAreTrue
<1>2. \A q \in Flight : q.packet.message # x
  <2>1. ASSUME NEW q \in Flight, q.packet.message = x PROVE FALSE
    <3>1. Channel(q) = "RELIABLE_ORDERED"
      BY <2>1 DEF Channel
    <3>2. q.number < p.number /\ q.number >= handed
      BY <3>1, <2>1, <1>1 DEF NumbersFollow
    <3>3. q.number \in Nat /\ handed \in Nat
      BY PacketTypes DEF Types
    <3>. QED BY <3>2, <3>3
  <2>. QED BY <2>1
<1>3. PICK a \in DOMAIN splits : splits[a].message = x
  <2>1. submitted[t][j].method \in Reliable
    BY Constants
  <2>. QED BY <2>1, <1>1, <1>2 DEF NothingIsMissing, IsSplit
<1>4. splits[a].total \in Nat \ {0}
  <2>1. splits[a] \in [message : Message, total : Nat \ {0}]
    <3>1. splits \in Seq([message : Message, total : Nat \ {0}])
      BY DEF Types
    <3>2. DOMAIN splits = 1 .. Len(splits)
      BY <3>1, LenProperties
    <3>. QED BY <3>1, <3>2, <1>3, ElementOfSeq
  <2>. QED BY <2>1
<1>5. \A u \in Thread : \A k \in DOMAIN splitting[u] : splitting[u][k].message # x
  <2>1. ASSUME NEW u \in Thread, NEW k \in DOMAIN splitting[u], splitting[u][k].message = x PROVE FALSE
    <3>1. submitted[u] # <<>> /\ submitted[u][Len(submitted[u])] = x
      BY <2>1, <1>1 DEF PartsAreTrue
    <3>2. \A v \in Thread : DOMAIN submitted[v] = 1 .. Len(submitted[v]) /\ Len(submitted[v]) \in Nat
      BY LenProperties DEF Types
    <3>3. Len(submitted[u]) \in DOMAIN submitted[u]
      BY <3>1, <3>2, EmptySeq DEF Types
    <3>4. u = t /\ j = Len(submitted[u])
      BY <3>1, <3>3, <1>1 DEF SentOnce
    <3>. QED BY <3>2, <3>4
  <2>. QED BY <2>1
<1>6. \A k \in 0 .. splits[a].total - 1 : \E id \in Ids : \E g \in Held(id) : g.message = x /\ g.part = k
  BY <1>1, <1>2, <1>3, <1>5 DEF NothingIsMissing, Exists
<1>. PICK id0 \in Ids : \E g \in Held(id0) : g.message = x
  <2>1. 0 \in 0 .. splits[a].total - 1
    BY <1>4
  <2>. QED BY <2>1, <1>6
<1>7. PICK g0 \in Held(id0) : g0.message = x
  OBVIOUS
<1>8. \A id \in Ids : \A g \in Held(id) : IsPart(g) /\ g.id = id
  BY <1>1 DEF HeldIsTrue, Held
<1>9. \A k \in 0 .. splits[a].total - 1 : \E g \in Held(id0) : g.part = k
  <2>1. ASSUME NEW k \in 0 .. splits[a].total - 1 PROVE \E g \in Held(id0) : g.part = k
    <3>. PICK id \in Ids : \E g \in Held(id) : g.message = x /\ g.part = k
      BY <1>6
    <3>1. PICK g \in Held(id) : g.message = x /\ g.part = k
      OBVIOUS
    <3>2. g.id = g0.id
      BY <3>1, <1>1, <1>7, <1>8, SameTotal
    <3>. QED BY <3>1, <3>2, <1>7, <1>8
  <2>. QED BY <2>1
<1>10. m_holded_fragments[id0] # None
  BY <1>7 DEF Held
<1>11. /\ IsFiniteSet(Held(id0)) /\ g0.total = m_holded_fragments[id0].total
       /\ Cardinality(Held(id0)) < m_holded_fragments[id0].total
  BY <1>1, <1>7, <1>10 DEF HeldIsTrue
<1>12. g0.total = splits[a].total
  <2>1. IsPart(g0) /\ g0.message = splits[a].message
    BY <1>3, <1>7, <1>8
  <2>. QED BY <2>1, <1>1 DEF IsPart, SplitOnce
<1>13. splits[a].total <= Cardinality(Held(id0))
  BY <1>4, <1>9, <1>11, EnoughParts
<1>14. Cardinality(Held(id0)) \in Nat
  BY <1>11, FS_CardinalityType
<1>. QED BY <1>4, <1>11, <1>12, <1>13, <1>14

\* To deliver the message of a packet is a step of MessageDelivery.
LEMMA DeliverStep ==
    ASSUME Types, MessagesAreTrue, Flight \subseteq Numbered, NEW p \in Flight,
           Channel(p) = "RELIABLE_ORDERED" => p.number = handed,
           delivered' = Append(delivered, p.packet.message), UNCHANGED submitted
    PROVE  \E t \in Thread : Delivery!Deliver(t)
<1>. DEFINE m == p.packet.message
            Ordered == {x \in Message : x.method = "RELIABLE_ORDERED"}
<1>1. IsSent(m) /\ ~ IsDelivered(m)
  <2>1. IsPart(p.packet) \/ IsWhole(p.packet)
    BY DEF MessagesAreTrue, PartsAreTrue
  <2>. QED BY <2>1, PartsWereSent DEF IsPart, IsWhole
<1>2. PICK t \in Thread : \E i \in DOMAIN submitted[t] : submitted[t][i] = m
  BY <1>1 DEF IsSent
<1>3. PICK i \in DOMAIN submitted[t] : submitted[t][i] = m
  BY <1>2
<1>4. \A x : x \in Delivery!Delivered <=> IsDelivered(x)
  BY DEF Delivery!Delivered, IsDelivered
<1>5. DOMAIN submitted[t] = 1 .. Len(submitted[t]) /\ Len(submitted[t]) \in Nat
  BY LenProperties DEF Types
<1>6. ASSUME submitted[t][i] \in Ordered, NEW j \in 1 .. i - 1, submitted[t][j] \in Ordered
      PROVE  submitted[t][j] \in Delivery!Delivered
  <2>1. j \in DOMAIN submitted[t] /\ j < i
    BY <1>3, <1>5
  <2>2. Channel(p) = "RELIABLE_ORDERED" /\ submitted[t][j].method = "RELIABLE_ORDERED"
    BY <1>3, <1>6 DEF Channel
  <2>. QED BY <2>1, <2>2, <1>3, <1>4, EarlierIsDelivered
<1>7. Delivery!Deliver(t)
  <2>1. submitted[t][i] \notin Delivery!Delivered
    BY <1>1, <1>3, <1>4
  <2>2. delivered' = Append(delivered, submitted[t][i])
    BY <1>3
  <2>. QED BY <1>3, <1>6, <2>1, <2>2 DEF Delivery!Deliver
<1>. QED BY <1>7

\* The numbers after a packet was handed over.
LEMMA NumbersConsume ==
    ASSUME Types, NumbersFollow, Flight \subseteq Numbered, NEW p \in Flight,
           Channel(p) = "RELIABLE_ORDERED" => p.number = handed,
           Flight' = Flight \ {p}, handed' = Handed(p), UNCHANGED <<submitted, pushed>>
    PROVE  NumbersFollow' /\ handed' \in Nat
<1>1. /\ \A q \in Flight : Channel(q) \in Method /\ q.number \in Nat
      /\ handed \in Nat /\ pushed["RELIABLE_ORDERED"] \in Nat
  BY PacketTypes, Constants DEF Types
<1>2. handed' = handed + (IF Channel(p) = "RELIABLE_ORDERED" THEN 1 ELSE 0)
  BY DEF Handed, Channel
<1>3. /\ handed <= pushed["RELIABLE_ORDERED"]
      /\ \A q \in Flight : q.number < pushed[Channel(q)]
      /\ \A q, r \in Flight : Channel(q) = Channel(r) /\ q.number = r.number => q = r
      /\ \A q \in Flight : Channel(q) = "RELIABLE_ORDERED" => q.number >= handed
  BY DEF NumbersFollow
<1>4. handed' \in Nat /\ handed' <= pushed["RELIABLE_ORDERED"]
  <2>1. CASE Channel(p) = "RELIABLE_ORDERED"
    <3>1. handed < pushed["RELIABLE_ORDERED"]
      BY <2>1, <1>3
    <3>. QED BY <3>1, <2>1, <1>1, <1>2
  <2>2. CASE Channel(p) # "RELIABLE_ORDERED"
    <3>1. handed' = handed
      BY <2>2, <1>1, <1>2
    <3>. QED BY <3>1, <1>1, <1>3
  <2>. QED BY <2>1, <2>2
<1>5. ASSUME NEW q \in Flight', Channel(q) = "RELIABLE_ORDERED" PROVE q.number >= handed'
  <2>1. q.number >= handed /\ q \in Flight /\ q # p
    BY <1>3, <1>5
  <2>2. CASE Channel(p) = "RELIABLE_ORDERED"
    <3>1. q.number # handed
      BY <2>1, <2>2, <1>3, <1>5
    <3>. QED BY <3>1, <2>1, <2>2, <1>1, <1>2
  <2>3. CASE Channel(p) # "RELIABLE_ORDERED"
    <3>1. handed' = handed
      BY <2>3, <1>1, <1>2
    <3>. QED BY <3>1, <2>1
  <2>. QED BY <2>2, <2>3
<1>6. \A t \in Thread : \A i, j \in DOMAIN submitted'[t] : \A q, r \in Flight' :
          /\ i < j
          /\ q.packet.message = submitted'[t][i] /\ r.packet.message = submitted'[t][j]
          /\ Channel(q) = Channel(r)
          => q.number < r.number
  BY DEF NumbersFollow
<1>. QED BY <1>3, <1>4, <1>5, <1>6 DEF NumbersFollow, Channel

\* A message is delivered: nothing of it is left anywhere.
LEMMA MessagesDeliver ==
    ASSUME Types, MessagesAreTrue, Flight \subseteq Numbered, NEW p \in Flight,
           Channel(p) = "RELIABLE_ORDERED" => p.number = handed,
           Flight' = Flight \ {p}, handed' = Handed(p), UNCHANGED <<sending, pushed>>,
           NEW m, m = p.packet.message, delivered' = Append(delivered, m),
           \A q \in Flight' : q.packet.message # m,
           \A t \in Thread : \A i \in DOMAIN splitting[t] : splitting[t][i].message # m,
           \A id \in Ids : \/ m_holded_fragments'[id] = m_holded_fragments[id]
                           \/ m_holded_fragments'[id] = None /\ \A g \in Held(id) : g.message = m,
           \A id \in Ids : \A g \in Held(id)' : g.message # m
    PROVE  MessagesAreTrue' /\ delivered' \in Seq(Message)
<1>1. UNCHANGED <<script, m_fragment_id, next, splitting, splits, submitted>>
  BY DEF sending
<1>2. SentOnce /\ SplitOnce /\ PartsAreTrue /\ HeldIsTrue /\ PartsDiffer /\ NothingIsMissing /\ NumbersFollow
  BY DEF MessagesAreTrue
<1>3. m \in Message /\ IsSent(m)
  BY PacketTypes, PartsWereSent
<1>4. /\ delivered' \in Seq(Message)
      /\ Len(delivered) \in Nat
      /\ \A i \in DOMAIN delivered : i \in DOMAIN delivered' /\ delivered'[i] = delivered[i]
      /\ delivered'[Len(delivered) + 1] = m
      /\ \A i \in DOMAIN delivered' : i \in DOMAIN delivered \/ i = Len(delivered) + 1
      /\ DOMAIN delivered' = 1 .. Len(delivered) + 1
  BY <1>3, AppendFacts DEF Types
<1>5. \A x : IsDelivered(x)' <=> IsDelivered(x) \/ x = m
  <2>1. Len(delivered) + 1 \in DOMAIN delivered'
    BY <1>4
  <2>. QED BY <2>1, <1>4 DEF IsDelivered
<1>6. \A x : (IsSent(x)' <=> IsSent(x)) /\ (IsSplit(x)' <=> IsSplit(x))
  BY <1>1 DEF IsSent, IsSplit
<1>7. \A g : g.message # m => (IsPart(g) => IsPart(g)') /\ (IsWhole(g) => IsWhole(g)')
  BY <1>1, <1>5, <1>6 DEF IsPart, IsWhole
<1>8. \A id \in Ids : Held(id)' \subseteq Held(id) /\ \A g \in Held(id) : g \in Held(id)' \/ g.message = m
  <2>1. ASSUME NEW id \in Ids
        PROVE  Held(id)' \subseteq Held(id) /\ \A g \in Held(id) : g \in Held(id)' \/ g.message = m
    <3>1. CASE m_holded_fragments'[id] = m_holded_fragments[id]
      BY <3>1 DEF Held
    <3>2. CASE m_holded_fragments'[id] = None /\ \A g \in Held(id) : g.message = m
      <4>1. Held(id)' = {}
        BY <3>2 DEF Held
      <4>. QED BY <4>1, <3>2
    <3>. QED BY <3>1, <3>2
  <2>. QED BY <2>1
<1>9. SentOnce' /\ SplitOnce'
  <2>1. \A i \in DOMAIN delivered' : IsSent(delivered[i])'
    <3>1. ASSUME NEW i \in DOMAIN delivered' PROVE IsSent(delivered[i])'
      <4>1. PICK y : y = delivered'[i]
        OBVIOUS
      <4>2. IsSent(y)'
        BY <4>1, <1>2, <1>3, <1>4, <1>6 DEF SentOnce
      <4>. QED BY <4>1, <4>2 DEF IsSent
    <3>. QED BY <3>1
  <2>2. SentOnce'
    BY <2>1, <1>1, <1>2 DEF SentOnce
  <2>3. SplitOnce'
    BY <1>1, <1>2, <1>5, <1>6 DEF SplitOnce
  <2>. QED BY <2>2, <2>3
<1>10. PartsAreTrue'
  <2>1. \A q \in Flight' : IsPart(q.packet)' \/ IsWhole(q.packet)'
    BY <1>2, <1>7 DEF PartsAreTrue
  <2>2. \A t \in Thread : \A i \in DOMAIN splitting[t] :
            /\ IsPart(splitting[t][i])'
            /\ submitted[t] # <<>> /\ splitting[t][i].message = submitted[t][Len(submitted[t])]
            /\ splitting[t][i].part = splitting[t][i].total - Len(splitting[t]) + (i - 1)
    <3>1. ASSUME NEW t \in Thread, NEW i \in DOMAIN splitting[t] PROVE IsPart(splitting[t][i])'
      <4>1. PICK g : g = splitting[t][i]
        OBVIOUS
      <4>2. IsPart(g)'
        BY <4>1, <1>2, <1>7 DEF PartsAreTrue
      <4>. QED BY <4>1, <4>2, <1>1 DEF IsPart
    <3>. QED BY <3>1, <1>2 DEF PartsAreTrue
  <2>. QED BY <1>1, <2>1, <2>2 DEF PartsAreTrue
<1>11. HeldIsTrue'
  <2>1. ASSUME NEW id \in Ids, m_holded_fragments'[id] # None
        PROVE  /\ m_holded_fragments'[id] = m_holded_fragments[id] /\ Held(id)' = Held(id)
               /\ \A f \in Held(id) : IsPart(f)'
    <3>1. m_holded_fragments'[id] = m_holded_fragments[id]
      BY <2>1
    <3>2. Held(id)' = Held(id)
      BY <3>1 DEF Held
    <3>3. \A f \in Held(id) : IsPart(f) /\ f.message # m
      BY <2>1, <3>1, <3>2, <1>2 DEF HeldIsTrue
    <3>. QED BY <3>1, <3>2, <3>3, <1>7
  <2>. QED BY <2>1, <1>2 DEF HeldIsTrue
<1>12. PartsDiffer'
  BY <1>1, <1>2, <1>8 DEF PartsDiffer, SamePart
<1>13. NothingIsMissing'
  <2>1. ASSUME NEW x, x # m, NEW k, Exists(x, k) PROVE Exists(x, k)'
    <3>1. CASE \E q \in Flight : q.packet.message = x /\ q.packet.part = k
      BY <3>1, <2>1 DEF Exists
    <3>2. CASE \E t \in Thread : \E i \in DOMAIN splitting[t] :
                  splitting[t][i].message = x /\ splitting[t][i].part = k
      BY <3>2, <1>1 DEF Exists
    <3>3. CASE \E id \in Ids : \E g \in Held(id) : g.message = x /\ g.part = k
      BY <3>3, <2>1, <1>8 DEF Exists
    <3>. QED BY <2>1, <3>1, <3>2, <3>3 DEF Exists
  <2>2. ASSUME NEW i \in DOMAIN splits, ~ IsDelivered(splits[i].message)',
               NEW k \in 0 .. splits[i].total - 1
        PROVE  Exists(splits[i].message, k)'
    <3>1. PICK y : y = splits[i].message
      OBVIOUS
    <3>2. ~ IsDelivered(y)'
      BY <3>1, <2>2, <1>1 DEF IsDelivered
    <3>3. ~ IsDelivered(y) /\ y # m
      BY <3>2, <1>5
    <3>4. Exists(y, k)
      BY <3>1, <3>3, <2>2, <1>2 DEF NothingIsMissing
    <3>5. Exists(y, k)'
      BY <3>3, <3>4, <2>1
    <3>. QED BY <3>1, <3>5, <1>1 DEF Exists
  <2>3. ASSUME NEW t \in Thread, NEW i \in DOMAIN submitted[t], submitted[t][i].method \in Reliable,
               ~ IsDelivered(submitted[t][i])', ~ IsSplit(submitted[t][i])'
        PROVE  \E q \in Flight' : q.packet.message = submitted[t][i]
    <3>1. PICK y : y = submitted[t][i]
      OBVIOUS
    <3>2. ~ IsDelivered(y)' /\ ~ IsSplit(y)'
      BY <3>1, <2>3, <1>1 DEF IsDelivered, IsSplit
    <3>3. ~ IsDelivered(y) /\ y # m /\ ~ IsSplit(y)
      BY <3>2, <1>5, <1>6
    <3>4. PICK q \in Flight : q.packet.message = y
      BY <3>1, <3>3, <2>3, <1>2 DEF NothingIsMissing
    <3>. QED BY <3>1, <3>3, <3>4
  <2>. QED BY <1>1, <2>2, <2>3 DEF NothingIsMissing
<1>14. NumbersFollow'
  BY <1>1, <1>2, NumbersConsume
<1>. QED BY <1>4, <1>9, <1>10, <1>11, <1>12, <1>13, <1>14 DEF MessagesAreTrue

\* A part is added to those of its message.
LEMMA MessagesCollect ==
    ASSUME Types, MessagesAreTrue, Flight \subseteq Numbered, NEW p \in Flight,
           Channel(p) = "RELIABLE_ORDERED" => p.number = handed,
           Flight' = Flight \ {p}, handed' = Handed(p), UNCHANGED <<sending, pushed, delivered>>,
           NEW f, f = p.packet, f.total # 0, ~ IsComplete(f),
           m_holded_fragments' = [m_holded_fragments EXCEPT ![f.id] = [Entry(f) EXCEPT !.fragments = Collected(f)]]
    PROVE  MessagesAreTrue' /\ m_holded_fragments' \in [Ids -> Incoming \cup {None}]
<1>1. UNCHANGED <<script, m_fragment_id, next, splitting, splits, submitted>>
  BY DEF sending
<1>2. SentOnce /\ SplitOnce /\ PartsAreTrue /\ HeldIsTrue /\ PartsDiffer /\ NothingIsMissing /\ NumbersFollow
  BY DEF MessagesAreTrue
<1>3. /\ f \in Packet /\ f.id \in Ids /\ IsPart(f) /\ ~ IsRefused(f)
      /\ Entry(f).fragments = Held(f.id) /\ Entry(f).total = f.total
      /\ Entry(f).channel = f.message.method /\ Entry(f) \in Incoming
      /\ \A g \in Held(f.id) : /\ IsPart(g) /\ g \in Packet /\ g.id = f.id /\ g.total = f.total
                               /\ g.message = f.message /\ g.part # f.part
      /\ \A g, h \in Held(f.id) : g.part = h.part => g = h
      /\ Collected(f) = Held(f.id) \cup {f} /\ f \notin Held(f.id)
      /\ IsFiniteSet(Collected(f)) /\ Cardinality(Collected(f)) \in Nat
      /\ Cardinality(Collected(f)) <= f.total
  BY EntryFacts
<1>. PICK d : d = f.id
  OBVIOUS
<1>. DEFINE e == [Entry(f) EXCEPT !.fragments = Collected(f)]
<1>4. e \in Incoming /\ e.total = f.total /\ e.channel = f.message.method /\ e.fragments = Collected(f)
  <2>1. Collected(f) \in SUBSET Packet
    BY <1>3
  <2>. QED BY <2>1, <1>3 DEF Incoming
<1>. HIDE DEF e
<1>5. e # None
  BY <1>4, NoneIsNothing
<1>6. /\ m_holded_fragments'[d] = e
      /\ \A id \in Ids : id # d => m_holded_fragments'[id] = m_holded_fragments[id]
      /\ m_holded_fragments' \in [Ids -> Incoming \cup {None}]
  BY <1>3, <1>4 DEF Types, Ids, e
<1>7. Held(d)' = Held(d) \cup {f} /\ \A id \in Ids : id # d => Held(id)' = Held(id)
  <2>1. Held(d)' = Collected(f)
    BY <1>4, <1>5, <1>6 DEF Held
  <2>. QED BY <2>1, <1>3, <1>6 DEF Held
<1>8. \A x : (IsSent(x)' <=> IsSent(x)) /\ (IsSplit(x)' <=> IsSplit(x)) /\ (IsDelivered(x)' <=> IsDelivered(x))
  BY <1>1 DEF IsSent, IsSplit, IsDelivered
<1>9. \A g : (IsPart(g)' <=> IsPart(g)) /\ (IsWhole(g)' <=> IsWhole(g))
  BY <1>1, <1>8 DEF IsPart, IsWhole
<1>10. SentOnce' /\ SplitOnce'
  BY <1>1, <1>2, <1>8 DEF SentOnce, SplitOnce
<1>11. PartsAreTrue'
  BY <1>1, <1>2, <1>9 DEF PartsAreTrue
<1>12. HeldIsTrue'
  <2>1. ASSUME NEW id \in Ids, m_holded_fragments'[id] # None
        PROVE  /\ Held(id)' # {} /\ IsFiniteSet(Held(id)')
               /\ Cardinality(Held(id)') < m_holded_fragments'[id].total
               /\ \A g \in Held(id)' :
                     /\ IsPart(g)' /\ g.id = id
                     /\ g.total = m_holded_fragments'[id].total
                     /\ g.message.method = m_holded_fragments'[id].channel
               /\ \A g, h \in Held(id)' : g.message = h.message /\ (g.part = h.part => g = h)
    <3>1. CASE id # d
      <4>1. m_holded_fragments'[id] = m_holded_fragments[id] /\ Held(id)' = Held(id)
        BY <3>1, <1>6, <1>7
      <4>2. /\ Held(id) # {} /\ IsFiniteSet(Held(id))
            /\ Cardinality(Held(id)) < m_holded_fragments[id].total
            /\ \A g \in Held(id) : /\ IsPart(g) /\ g.id = id
                                   /\ g.total = m_holded_fragments[id].total
                                   /\ g.message.method = m_holded_fragments[id].channel
            /\ \A g, h \in Held(id) : g.message = h.message /\ (g.part = h.part => g = h)
        BY <4>1, <2>1, <1>2 DEF HeldIsTrue
      <4>3. \A g \in Held(id) : IsPart(g)'
        BY <4>2, <1>9
      <4>. QED BY <4>1, <4>2, <4>3
    <3>2. CASE id = d
      <4>1. Held(id)' = Held(f.id) \cup {f} /\ m_holded_fragments'[id] = e
        BY <3>2, <1>6, <1>7
      <4>2. IsFiniteSet(Held(id)') /\ Cardinality(Held(id)') < e.total
        <5>1. Held(id)' = Collected(f)
          BY <4>1, <1>3
        <5>2. Cardinality(Collected(f)) # f.total
          BY <1>3 DEF IsComplete
        <5>3. f.total \in Nat
          BY <1>3 DEF Packet
        <5>. QED BY <5>1, <5>2, <5>3, <1>3, <1>4
      <4>3. \A g \in Held(id)' : /\ IsPart(g)' /\ g.id = id /\ g.total = e.total
                                 /\ g.message.method = e.channel /\ g.message = f.message
        BY <4>1, <3>2, <1>3, <1>4, <1>9
      <4>4. \A g, h \in Held(id)' : g.part = h.part => g = h
        BY <4>1, <1>3
      <4>. QED BY <4>1, <4>2, <4>3, <4>4
    <3>. QED BY <3>1, <3>2
  <2>. QED BY <2>1 DEF HeldIsTrue
<1>13. PartsDiffer'
  <2>1. /\ \A q, r \in Flight : SamePart(q.packet, r.packet) => q = r
        /\ \A q \in Flight : \A id \in Ids : \A g \in Held(id) : ~ SamePart(q.packet, g)
        /\ \A t \in Thread : \A i \in DOMAIN splitting[t] :
              /\ \A q \in Flight : ~ SamePart(splitting[t][i], q.packet)
              /\ \A id \in Ids : \A g \in Held(id) : ~ SamePart(splitting[t][i], g)
    BY <1>2 DEF PartsDiffer
  <2>2. \A q \in Flight' : ~ SamePart(q.packet, f)
    BY <2>1
  <2>3. \A q \in Flight' : \A id \in Ids : \A g \in Held(id)' : ~ SamePart(q.packet, g)
    BY <2>1, <2>2, <1>7
  <2>4. \A t \in Thread : \A i \in DOMAIN splitting[t] :
              /\ \A q \in Flight' : ~ SamePart(splitting[t][i], q.packet)
              /\ \A id \in Ids : \A g \in Held(id)' : ~ SamePart(splitting[t][i], g)
    BY <2>1, <1>7
  <2>. QED BY <2>1, <2>3, <2>4, <1>1 DEF PartsDiffer, SamePart
<1>14. NothingIsMissing'
  <2>1. ASSUME NEW x, NEW k, Exists(x, k) PROVE Exists(x, k)'
    <3>1. CASE \E q \in Flight : q.packet.message = x /\ q.packet.part = k
      <4>1. PICK q \in Flight : q.packet.message = x /\ q.packet.part = k
        BY <3>1
      <4>2. CASE q # p
        BY <4>1, <4>2 DEF Exists
      <4>3. CASE q = p
        <5>1. f \in Held(d)' /\ f.message = x /\ f.part = k /\ d \in Ids
          BY <4>1, <4>3, <1>3, <1>7
        <5>. QED BY <5>1 DEF Exists
      <4>. QED BY <4>2, <4>3
    <3>2. CASE \E t \in Thread : \E i \in DOMAIN splitting[t] :
                  splitting[t][i].message = x /\ splitting[t][i].part = k
      BY <3>2, <1>1 DEF Exists
    <3>3. CASE \E id \in Ids : \E g \in Held(id) : g.message = x /\ g.part = k
      BY <3>3, <1>7 DEF Exists
    <3>. QED BY <2>1, <3>1, <3>2, <3>3 DEF Exists
  <2>2. IsSplit(f.message)
    BY <1>3 DEF IsPart, IsSplit
  <2>3. \A t \in Thread : \A i \in DOMAIN submitted[t] :
            /\ submitted[t][i].method \in Reliable
            /\ ~ IsDelivered(submitted[t][i]) /\ ~ IsSplit(submitted[t][i])
            => \E q \in Flight' : q.packet.message = submitted[t][i]
    BY <2>2, <1>2 DEF NothingIsMissing
  <2>. QED BY <1>1, <1>2, <1>8, <2>1, <2>3 DEF NothingIsMissing
<1>15. NumbersFollow'
  BY <1>1, <1>2, NumbersConsume
<1>. QED BY <1>6, <1>10, <1>11, <1>12, <1>13, <1>14, <1>15 DEF MessagesAreTrue


\* The message was not split: nothing else of it exists.
LEMMA ConsumeWhole ==
    ASSUME Types, MessagesAreTrue, Flight \subseteq Numbered, NEW p \in Flight,
           Channel(p) = "RELIABLE_ORDERED" => p.number = handed,
           Flight' = Flight \ {p}, handed' = Handed(p), UNCHANGED <<sending, pushed>>,
           p.packet.total = 0, delivered' = Append(delivered, p.packet.message), UNCHANGED m_holded_fragments
    PROVE  MessagesAreTrue' /\ delivered' \in Seq(Message)
<1>. PICK m : m = p.packet.message
  OBVIOUS
<1>1. PartsAreTrue /\ HeldIsTrue /\ PartsDiffer
  BY DEF MessagesAreTrue
<1>2. p \in Numbered /\ p.packet.part \in Nat
  BY PacketTypes
<1>3. IsWhole(p.packet)
  <2>1. ~ IsPart(p.packet)
    BY <1>2 DEF IsPart
  <2>. QED BY <2>1, <1>1 DEF PartsAreTrue
<1>4. \A g : IsPart(g) => g.message # m
  BY <1>3 DEF IsPart, IsWhole, IsSplit
<1>5. \A q \in Flight' : q.packet.message # m
  <2>1. ASSUME NEW q \in Flight', q.packet.message = m PROVE FALSE
    <3>1. IsWhole(q.packet)
      BY <2>1, <1>1, <1>4 DEF PartsAreTrue
    <3>2. SamePart(q.packet, p.packet)
      BY <2>1, <3>1, <1>3 DEF SamePart, IsWhole
    <3>3. q = p
      BY <3>2, <1>1 DEF PartsDiffer
    <3>. QED BY <3>3
  <2>. QED BY <2>1
<1>6. \A t \in Thread : \A i \in DOMAIN splitting[t] : splitting[t][i].message # m
  BY <1>1, <1>4 DEF PartsAreTrue
<1>7. \A id \in Ids : Held(id)' = Held(id) /\ \A g \in Held(id) : g.message # m
  <2>1. ASSUME NEW id \in Ids, NEW g \in Held(id) PROVE g.message # m
    <3>1. m_holded_fragments[id] # None
      BY DEF Held
    <3>2. IsPart(g)
      BY <3>1, <1>1 DEF HeldIsTrue
    <3>. QED BY <3>2, <1>4
  <2>. QED BY <2>1 DEF Held
<1>8. \A id \in Ids : \A g \in Held(id)' : g.message # m
  BY <1>7
<1>. QED BY <1>5, <1>6, <1>8, MessagesDeliver

\* The last part came: the parts of the message are all here.
LEMMA ConsumeLast ==
    ASSUME Types, MessagesAreTrue, Flight \subseteq Numbered, NEW p \in Flight,
           Channel(p) = "RELIABLE_ORDERED" => p.number = handed,
           Flight' = Flight \ {p}, handed' = Handed(p), UNCHANGED <<sending, pushed>>,
           NEW f, f = p.packet, f.total # 0, IsComplete(f), delivered' = Append(delivered, f.message),
           m_holded_fragments' = [m_holded_fragments EXCEPT ![f.id] = None]
    PROVE  /\ MessagesAreTrue' /\ delivered' \in Seq(Message)
           /\ m_holded_fragments' \in [Ids -> Incoming \cup {None}]
<1>. PICK m : m = f.message
  OBVIOUS
<1>1. SplitOnce /\ PartsAreTrue /\ HeldIsTrue /\ PartsDiffer
  BY DEF MessagesAreTrue
<1>2. /\ f \in Packet /\ f.id \in Ids /\ IsPart(f) /\ Entry(f).total = f.total
      /\ \A g \in Held(f.id) : IsPart(g) /\ g \in Packet /\ g.total = f.total /\ g.message = m /\ g.part # f.part
      /\ \A g, h \in Held(f.id) : g.part = h.part => g = h
      /\ Collected(f) = Held(f.id) \cup {f} /\ IsFiniteSet(Collected(f))
  BY EntryFacts
<1>3. \A k \in 0 .. f.total - 1 : \E g \in Collected(f) : g.part = k
  <2>1. f.total \in Nat /\ Cardinality(Collected(f)) = f.total
    BY <1>2 DEF IsComplete, Packet
  <2>2. Collected(f) \in SUBSET Packet /\ \A g \in Collected(f) : g.part < f.total
    BY <1>2 DEF IsPart
  <2>3. \A g, h \in Collected(f) : g.part = h.part => g = h
    BY <1>2
  <2>. QED BY <2>1, <2>2, <2>3, <1>2, AllParts
<1>4. ASSUME NEW g \in Packet, IsPart(g), g.message = m PROVE \E h \in Collected(f) : SamePart(g, h)
  <2>1. g.total = f.total
    BY <1>1, <1>2, <1>4, SameTotal
  <2>2. g.part \in 0 .. f.total - 1
    BY <2>1, <1>2, <1>4 DEF IsPart, Packet
  <2>3. PICK h \in Collected(f) : h.part = g.part
    BY <2>2, <1>3
  <2>. QED BY <2>3, <1>2, <1>4 DEF SamePart
<1>5. \A q \in Flight' : q.packet.message # m
  <2>1. ASSUME NEW q \in Flight', q.packet.message = m PROVE FALSE
    <3>1. q.packet \in Packet /\ q \in Flight /\ q # p
      BY PacketTypes
    <3>2. IsPart(q.packet)
      BY <2>1, <3>1, <1>1, <1>2 DEF PartsAreTrue, IsWhole, IsPart, IsSplit
    <3>3. PICK h \in Collected(f) : SamePart(q.packet, h)
      BY <2>1, <3>1, <3>2, <1>4
    <3>4. CASE h = f
      BY <3>1, <3>3, <3>4, <1>1 DEF PartsDiffer
    <3>5. CASE h \in Held(f.id)
      BY <3>1, <3>3, <3>5, <1>1, <1>2 DEF PartsDiffer
    <3>. QED BY <3>4, <3>5, <1>2
  <2>. QED BY <2>1
<1>6. \A t \in Thread : \A i \in DOMAIN splitting[t] : splitting[t][i].message # m
  <2>1. ASSUME NEW t \in Thread, NEW i \in DOMAIN splitting[t], splitting[t][i].message = m PROVE FALSE
    <3>1. splitting[t][i] \in Packet
      BY DEF Types
    <3>2. IsPart(splitting[t][i])
      BY <1>1 DEF PartsAreTrue
    <3>3. PICK h \in Collected(f) : SamePart(splitting[t][i], h)
      BY <2>1, <3>1, <3>2, <1>4
    <3>4. CASE h = f
      BY <3>3, <3>4, <1>1 DEF PartsDiffer
    <3>5. CASE h \in Held(f.id)
      BY <3>3, <3>5, <1>1, <1>2 DEF PartsDiffer
    <3>. QED BY <3>4, <3>5, <1>2
  <2>. QED BY <2>1
<1>. PICK d : d = f.id
  OBVIOUS
<1>7. /\ m_holded_fragments'[d] = None
      /\ \A id \in Ids : id # d => m_holded_fragments'[id] = m_holded_fragments[id]
      /\ m_holded_fragments' \in [Ids -> Incoming \cup {None}]
  BY <1>2 DEF Types, Ids
<1>8. Held(d)' = {} /\ \A id \in Ids : id # d => Held(id)' = Held(id)
  BY <1>7 DEF Held
<1>9. \A id \in Ids : \A g \in Held(id)' : g.message # m
  <2>1. ASSUME NEW id \in Ids, NEW g \in Held(id)', g.message = m PROVE FALSE
    <3>1. id # d /\ g \in Held(id)
      BY <1>8
    <3>2. IsPart(g) /\ g.id = id
      BY <3>1, <1>1 DEF HeldIsTrue, Held
    <3>3. g.id = f.id
      BY <2>1, <3>2, <1>1, <1>2, SameTotal
    <3>. QED BY <3>1, <3>2, <3>3
  <2>. QED BY <2>1
<1>10. \A id \in Ids : \/ m_holded_fragments'[id] = m_holded_fragments[id]
                       \/ m_holded_fragments'[id] = None /\ \A g \in Held(id) : g.message = m
  BY <1>2, <1>7
<1>. QED BY <1>5, <1>6, <1>7, <1>9, <1>10, MessagesDeliver

\* add_reliable_packet, whatever the packet.
LEMMA MessagesConsume ==
    ASSUME Types, MessagesAreTrue, Flight \subseteq Numbered, NEW p \in Flight,
           Channel(p) = "RELIABLE_ORDERED" => p.number = handed,
           Flight' = Flight \ {p}, handed' = Handed(p), UNCHANGED <<sending, pushed>>,
           add_reliable_packet(p.packet)
    PROVE  /\ MessagesAreTrue' /\ handed' \in Nat /\ delivered' \in Seq(Message)
           /\ m_holded_fragments' \in [Ids -> Incoming \cup {None}]
           /\ UNCHANGED delivered \/ \E t \in Thread : Delivery!Deliver(t)
<1>1. submitted' = submitted
  BY DEF sending
<1>2. handed' \in Nat
  <2>1. NumbersFollow
    BY DEF MessagesAreTrue
  <2>. QED BY <1>1, <2>1, NumbersConsume
<1>3. CASE p.packet.total = 0
  <2>1. delivered' = Append(delivered, p.packet.message) /\ UNCHANGED m_holded_fragments
    BY <1>3 DEF add_reliable_packet
  <2>2. MessagesAreTrue' /\ delivered' \in Seq(Message)
    BY <2>1, <1>3, ConsumeWhole
  <2>3. \E t \in Thread : Delivery!Deliver(t)
    BY <2>1, <1>1, DeliverStep
  <2>4. m_holded_fragments' \in [Ids -> Incoming \cup {None}]
    BY <2>1 DEF Types, Ids
  <2>. QED BY <1>2, <2>2, <2>3, <2>4
<1>4. CASE p.packet.total # 0
  <2>. PICK f : f = p.packet
    OBVIOUS
  <2>1. ~ IsRefused(f) /\ (IsComplete(f) => Assembled(f) = f.message)
    BY <1>4, EntryFacts
  <2>2. /\ m_holded_fragments' = [m_holded_fragments EXCEPT ![f.id] = After(f)]
        /\ delivered' = IF IsComplete(f) THEN Append(delivered, Assembled(f)) ELSE delivered
    BY <1>4, <2>1 DEF add_reliable_packet
  <2>3. CASE IsComplete(f)
    <3>1. /\ m_holded_fragments' = [m_holded_fragments EXCEPT ![f.id] = None]
          /\ delivered' = Append(delivered, f.message)
      BY <2>1, <2>2, <2>3 DEF After
    <3>2. /\ MessagesAreTrue' /\ delivered' \in Seq(Message)
          /\ m_holded_fragments' \in [Ids -> Incoming \cup {None}]
      BY <3>1, <2>3, <1>4, ConsumeLast
    <3>3. \E t \in Thread : Delivery!Deliver(t)
      BY <3>1, <1>1, DeliverStep
    <3>. QED BY <1>2, <3>2, <3>3
  <2>4. CASE ~ IsComplete(f)
    <3>1. /\ m_holded_fragments' = [m_holded_fragments EXCEPT ![f.id] =
                                      [Entry(f) EXCEPT !.fragments = Collected(f)]]
          /\ delivered' = delivered
      BY <2>2, <2>4 DEF After
    <3>2. MessagesAreTrue' /\ m_holded_fragments' \in [Ids -> Incoming \cup {None}]
      BY <3>1, <2>4, <1>4, MessagesCollect
    <3>3. delivered' \in Seq(Message)
      BY <3>1 DEF Types
    <3>. QED BY <1>2, <3>1, <3>2, <3>3
  <2>. QED BY <2>3, <2>4
<1>. QED BY <1>3, <1>4

-----------------------------------------------------------------------------
(* The steps: each preserves the invariant, and is one of MessageDelivery or *)
(* leaves its variables alone.                                               *)

\* A refused message is not sent later either.
LEMMA NextGrows ==
    ASSUME Types, SentOnce, NEW t \in Thread, next' = [next EXCEPT ![t] = @ + 1],
           UNCHANGED <<script, submitted, delivered>>
    PROVE  SentOnce' /\ next' \in [Thread -> Nat \ {0}]
<1>1. next' \in [Thread -> Nat \ {0}] /\ \A u \in Thread : next[u] \in Nat /\ next'[u] \in Nat /\ next[u] <= next'[u]
  BY DEF Types
<1>2. ASSUME NEW u \in Thread, NEW i \in DOMAIN submitted[u]
      PROVE  \E j \in DOMAIN script[u] : j < next'[u] /\ script[u][j] = submitted[u][i]
  <2>1. PICK j \in DOMAIN script[u] : j < next[u] /\ script[u][j] = submitted[u][i]
    BY DEF SentOnce
  <2>2. script \in Scripts
    BY DEF Types
  <2>3. j \in Nat
    BY <2>1, <2>2, MessageFacts
  <2>. QED BY <2>1, <2>3, <1>1
<1>3. \A x : IsSent(x)' <=> IsSent(x)
  BY DEF IsSent
<1>. QED BY <1>1, <1>2, <1>3 DEF SentOnce

\* A step that adds no packet and no datagram keeps the sizes within the MTU.
LEMMA SizesStay ==
    ASSUME SizesFit, UNCHANGED <<m_mtu, splitting, appending, m_merge_pos, largest>>,
           Flight' \subseteq Flight, net' \subseteq net
    PROVE  SizesFit'
BY DEF SizesFit, SizeOf, MergedPacketSize

\* What was delivered stays so.
LEMMA DeliveredGrows ==
    ASSUME Types, UNCHANGED delivered \/ \E t \in Thread : Delivery!Deliver(t)
    PROVE  \A m : IsDelivered(m) => IsDelivered(m)'
<1>1. CASE UNCHANGED delivered
  BY <1>1 DEF IsDelivered
<1>2. ASSUME NEW t \in Thread, Delivery!Deliver(t) PROVE \A m : IsDelivered(m) => IsDelivered(m)'
  <2>1. PICK i \in DOMAIN submitted[t] : delivered' = Append(delivered, submitted[t][i])
    BY <1>2 DEF Delivery!Deliver
  <2>2. submitted[t] \in Seq(Message) /\ delivered \in Seq(Message)
    BY DEF Types
  <2>3. submitted[t][i] \in Message
    BY <2>2, ElementOfSeq, LenProperties
  <2>4. \A k \in DOMAIN delivered : k \in DOMAIN delivered' /\ delivered'[k] = delivered[k]
    BY <2>1, <2>2, <2>3, AppendFacts
  <2>. QED BY <2>4 DEF IsDelivered
<1>. QED BY <1>1, <1>2

\* Copies stay as true as they were, when what is taken from a datagram is delivered.
LEMMA CopiesKept ==
    ASSUME CopiesAreTrue, UNCHANGED <<copies, repeated>>, \A m : IsDelivered(m) => IsDelivered(m)',
           \A p \in Unpacking : Channel(p) = "UNRELIABLE" => p \in Unpacking' \/ IsDelivered(p.packet.message)'
    PROVE  CopiesAreTrue'
<1>1. \A d \in copies' : \A p \in ToSet(d.packets) :
          Channel(p) = "UNRELIABLE" => IsDelivered(p.packet.message)' \/ p \in Unpacking'
  BY DEF CopiesAreTrue
<1>2. \A p \in ToSet(repeated) : Channel(p) = "UNRELIABLE" => IsDelivered(p.packet.message)'
  BY DEF CopiesAreTrue
<1>3. ToSet(repeated)' = ToSet(repeated)
  BY DEF ToSet
<1>. QED BY <1>1, <1>2, <1>3 DEF CopiesAreTrue, Channel, ToSet

\* A step of another thread leaves them as they are.
LEMMA CopiesStay ==
    ASSUME CopiesAreTrue, UNCHANGED <<copies, repeated, unpacking, delivered>>
    PROVE  CopiesAreTrue'
<1>1. \A m : IsDelivered(m) => IsDelivered(m)'
  BY DEF IsDelivered
<1>2. Unpacking' = Unpacking
  BY DEF Unpacking, ToSet
<1>. QED BY <1>1, <1>2, CopiesKept

\* process_packet hands the packet over, or lets it wait.
LEMMA Processed ==
    ASSUME Types, MessagesAreTrue, Flight \subseteq Numbered, NEW p \in Flight, process_packet(p),
           Flight' = (IF IsEarly(p) THEN Flight ELSE Flight \ {p}), UNCHANGED <<sending, pushed>>
    PROVE  /\ MessagesAreTrue' /\ handed' \in Nat /\ delivered' \in Seq(Message)
           /\ m_holded_fragments' \in [Ids -> Incoming \cup {None}] /\ waiting' \in SUBSET Numbered
           /\ UNCHANGED delivered \/ \E t \in Thread : Delivery!Deliver(t)
           /\ \A m : IsDelivered(m) => IsDelivered(m)'
           /\ Channel(p) = "UNRELIABLE" => IsDelivered(p.packet.message)'
<1>1. CASE IsEarly(p)
  <2>1. waiting' = waiting \cup {p} /\ UNCHANGED <<handed, m_holded_fragments, delivered>> /\ Flight' = Flight
    BY <1>1 DEF process_packet
  <2>2. MessagesAreTrue'
    BY <2>1, MessagesStay
  <2>3. Channel(p) # "UNRELIABLE"
    BY <1>1 DEF IsEarly, Channel
  <2>4. \A m : IsDelivered(m) => IsDelivered(m)'
    BY <2>1, DeliveredGrows
  <2>. QED BY <2>1, <2>2, <2>3, <2>4 DEF Types, Ids
<1>2. CASE ~ IsEarly(p)
  <2>1. waiting' = waiting /\ handed' = Handed(p) /\ add_reliable_packet(p.packet) /\ Flight' = Flight \ {p}
    BY <1>2 DEF process_packet
  <2>2. Channel(p) = "RELIABLE_ORDERED" => p.number = handed
    BY <1>2 DEF IsEarly, Channel
  <2>3. waiting' \in SUBSET Numbered
    BY <2>1 DEF Types
  <2>4. /\ MessagesAreTrue' /\ handed' \in Nat /\ delivered' \in Seq(Message)
        /\ m_holded_fragments' \in [Ids -> Incoming \cup {None}]
        /\ UNCHANGED delivered \/ \E t \in Thread : Delivery!Deliver(t)
    BY <2>1, <2>2, MessagesConsume
  <2>5. \A m : IsDelivered(m) => IsDelivered(m)'
    BY <2>4, DeliveredGrows
  <2>6. ASSUME Channel(p) = "UNRELIABLE" PROVE IsDelivered(p.packet.message)'
    <3>1. ~ IsPart(p.packet)
      <4>1. p.packet.message.method \notin Reliable
        BY <2>6, Constants DEF Channel
      <4>. QED BY <4>1 DEF IsPart, MessagesAreTrue, SplitOnce
    <3>2. p.packet.total = 0
      BY <3>1 DEF MessagesAreTrue, PartsAreTrue, IsWhole
    <3>3. delivered' = Append(delivered, p.packet.message)
      BY <3>2, <2>1 DEF add_reliable_packet
    <3>4. delivered \in Seq(Message) /\ p.packet.message \in Message
      BY PacketTypes DEF Types
    <3>5. Len(delivered) + 1 \in DOMAIN delivered' /\ delivered'[Len(delivered) + 1] = p.packet.message
      BY <3>3, <3>4, AppendFacts
    <3>. QED BY <3>5 DEF IsDelivered
  <2>. QED BY <2>3, <2>4, <2>5, <2>6
<1>. QED BY <1>1, <1>2

\* What the receive thread and the network leave alone.
LEMMA SenderTypes ==
    ASSUME Types, UNCHANGED <<sending, m_outgoing_queue, pushed, merging>>,
           net' \subseteq net, lost' \in SUBSET Numbered, \A d \in copies' : d.packets \in Seq(Numbered),
           unpacking' \in Seq(Numbered), repeated' \in Seq(Numbered), waiting' \in SUBSET Numbered, handed' \in Nat,
           m_holded_fragments' \in [Ids -> Incoming \cup {None}], delivered' \in Seq(Message)
    PROVE  Types'
<1>1. UNCHANGED <<script, next, splitting, splits, submitted, appending, m_merge_data, m_merge_pos>>
  BY DEF sending, merging
<1>. QED BY <1>1 DEF Types, Ids

\* receive keeps the invariant, and delivers a message or is a stutter.
LEMMA ReceiveStep ==
    ASSUME IInv, NEW d \in net, receive(d)
    PROVE  IInv' /\ [Delivery!Next]_(Delivery!vars)
<1>. PICK p : p = Head(d.packets)
  OBVIOUS
<1>1. Types /\ SizesFit /\ PlacedOnce /\ MessagesAreTrue /\ CopiesAreTrue
  BY DEF IInv
<1>2. /\ unpacking = <<>> /\ process_packet(p) /\ unpacking' = Tail(d.packets) /\ net' = net \ {d}
      /\ copies' \subseteq copies \cup {d}
      /\ UNCHANGED <<m_mtu, sending, m_outgoing_queue, pushed, merging, lost, repeated, largest>>
  BY DEF receive, IsReady, world
<1>3. PlacedOnce' /\ p \in Flight /\ Flight' = (IF IsEarly(p) THEN Flight ELSE Flight \ {p})
  BY <1>1, PlacesReceive
<1>4. Flight \subseteq Numbered /\ d.packets \in Seq(Numbered) /\ d.packets # <<>>
  BY <1>1, PlaceTypes
<1>5. /\ MessagesAreTrue' /\ handed' \in Nat /\ delivered' \in Seq(Message)
      /\ m_holded_fragments' \in [Ids -> Incoming \cup {None}] /\ waiting' \in SUBSET Numbered
      /\ UNCHANGED delivered \/ \E t \in Thread : Delivery!Deliver(t)
      /\ \A m : IsDelivered(m) => IsDelivered(m)'
      /\ Channel(p) = "UNRELIABLE" => IsDelivered(p.packet.message)'
  BY <1>1, <1>2, <1>3, <1>4, Processed
<1>6. Types'
  <2>1. /\ unpacking' \in Seq(Numbered) /\ net' \subseteq net
        /\ lost' \in SUBSET Numbered /\ repeated' \in Seq(Numbered)
    BY <1>1, <1>2, <1>4, TailFacts DEF Types
  <2>2. \A e \in copies' : e.packets \in Seq(Numbered)
    BY <1>1, <1>2, <1>4 DEF Types
  <2>. QED BY <2>1, <2>2, <1>1, <1>2, <1>5, SenderTypes
<1>7. SizesFit'
  <2>1. UNCHANGED <<splitting, appending, m_merge_pos>> /\ Flight' \subseteq Flight /\ net' \subseteq net
    BY <1>2, <1>3 DEF sending, merging
  <2>. QED BY <2>1, <1>1, <1>2, SizesStay
<1>8. CopiesAreTrue'
  <2>1. Unpacking = {} /\ Unpacking' = ToSet(unpacking')
    BY <1>2 DEF Unpacking, ToSet
  <2>2. ToSet(d.packets) = {p} \cup Unpacking'
    BY <2>1, <1>2, <1>4, TailFacts
  <2>3. \A e \in copies : \A q \in ToSet(e.packets) : Channel(q) = "UNRELIABLE" => IsDelivered(q.packet.message)'
    BY <2>1, <1>1, <1>5 DEF CopiesAreTrue
  <2>4. \A q \in ToSet(d.packets) : Channel(q) = "UNRELIABLE" => IsDelivered(q.packet.message)' \/ q \in Unpacking'
    BY <2>2, <1>5
  <2>5. \A e \in copies' : \A q \in ToSet(e.packets) :
            Channel(q) = "UNRELIABLE" => IsDelivered(q.packet.message)' \/ q \in Unpacking'
    BY <2>3, <2>4, <1>2
  <2>6. \A q \in ToSet(repeated') : Channel(q) = "UNRELIABLE" => IsDelivered(q.packet.message)'
    BY <1>1, <1>2, <1>5 DEF CopiesAreTrue
  <2>. QED BY <2>5, <2>6 DEF CopiesAreTrue, Channel, ToSet
<1>9. submitted' = submitted
  BY <1>2 DEF sending
<1>. QED BY <1>3, <1>5, <1>6, <1>7, <1>8, <1>9 DEF IInv, Delivery!Next, Delivery!vars

\* unpack keeps the invariant, and delivers a message or is a stutter.
LEMMA UnpackStep ==
    ASSUME IInv, unpack
    PROVE  IInv' /\ [Delivery!Next]_(Delivery!vars)
<1>. PICK p : p = Head(unpacking)
  OBVIOUS
<1>1. Types /\ SizesFit /\ PlacedOnce /\ MessagesAreTrue /\ CopiesAreTrue
  BY DEF IInv
<1>2. /\ process_packet(p) /\ unpacking # <<>> /\ unpacking' = Tail(unpacking) /\ net' = net
      /\ UNCHANGED <<m_mtu, sending, m_outgoing_queue, pushed, merging, lost, copies, repeated, largest>>
  BY DEF unpack, world
<1>3. PlacedOnce' /\ p \in Flight /\ Flight' = (IF IsEarly(p) THEN Flight ELSE Flight \ {p})
  BY <1>1, PlacesUnpack
<1>4. Flight \subseteq Numbered /\ unpacking \in Seq(Numbered)
  BY <1>1, PlaceTypes DEF Types
<1>5. /\ MessagesAreTrue' /\ handed' \in Nat /\ delivered' \in Seq(Message)
      /\ m_holded_fragments' \in [Ids -> Incoming \cup {None}] /\ waiting' \in SUBSET Numbered
      /\ UNCHANGED delivered \/ \E t \in Thread : Delivery!Deliver(t)
      /\ \A m : IsDelivered(m) => IsDelivered(m)'
      /\ Channel(p) = "UNRELIABLE" => IsDelivered(p.packet.message)'
  BY <1>1, <1>2, <1>3, <1>4, Processed
<1>6. Types'
  <2>1. unpacking' \in Seq(Numbered) /\ net' \subseteq net
    BY <1>2, <1>4, TailFacts
  <2>2. /\ lost' \in SUBSET Numbered /\ repeated' \in Seq(Numbered)
        /\ \A e \in copies' : e.packets \in Seq(Numbered)
    BY <1>1, <1>2 DEF Types
  <2>. QED BY <2>1, <2>2, <1>1, <1>2, <1>5, SenderTypes
<1>7. SizesFit'
  <2>1. UNCHANGED <<splitting, appending, m_merge_pos>> /\ Flight' \subseteq Flight /\ net' \subseteq net
    BY <1>2, <1>3 DEF sending, merging
  <2>. QED BY <2>1, <1>1, <1>2, SizesStay
<1>8. CopiesAreTrue'
  <2>1. Unpacking' = ToSet(unpacking')
    BY DEF Unpacking, ToSet
  <2>2. Unpacking = {p} \cup Unpacking'
    BY <2>1, <1>2, <1>4, TailFacts DEF Unpacking
  <2>. QED BY <2>2, <1>1, <1>2, <1>5, CopiesKept
<1>9. submitted' = submitted
  BY <1>2 DEF sending
<1>. QED BY <1>3, <1>5, <1>6, <1>7, <1>8, <1>9 DEF IInv, Delivery!Next, Delivery!vars

\* hand_over keeps the invariant, and delivers a message or is a stutter.
LEMMA HandOverStep ==
    ASSUME IInv, hand_over
    PROVE  IInv' /\ [Delivery!Next]_(Delivery!vars)
<1>1. Types /\ SizesFit /\ PlacedOnce /\ MessagesAreTrue /\ CopiesAreTrue
  BY DEF IInv
<1>2. /\ handed' = handed + 1
      /\ UNCHANGED <<m_mtu, sending, m_outgoing_queue, pushed, merging, lost, net, copies, unpacking, repeated, largest>>
  BY DEF hand_over, world
<1>3. PICK p \in Releasable : waiting' = waiting \ {p} /\ add_reliable_packet(p.packet)
  BY DEF hand_over
<1>4. p \in waiting /\ p.number = handed /\ Channel(p) = "RELIABLE_ORDERED"
  BY <1>1, <1>3 DEF Releasable, PlacedOnce
<1>5. handed' = Handed(p)
  BY <1>2, <1>4 DEF Handed, Channel
<1>6. PlacedOnce' /\ p \in Flight /\ Flight' = Flight \ {p}
  BY <1>1, <1>2, <1>3, <1>4, PlacesHandOver
<1>7. Flight \subseteq Numbered
  BY <1>1, PlaceTypes
<1>8. /\ MessagesAreTrue' /\ handed' \in Nat /\ delivered' \in Seq(Message)
      /\ m_holded_fragments' \in [Ids -> Incoming \cup {None}]
      /\ UNCHANGED delivered \/ \E t \in Thread : Delivery!Deliver(t)
  BY <1>1, <1>2, <1>3, <1>4, <1>5, <1>6, <1>7, MessagesConsume
<1>9. Types'
  <2>1. /\ waiting' \in SUBSET Numbered /\ unpacking' \in Seq(Numbered) /\ net' \subseteq net
        /\ lost' \in SUBSET Numbered /\ repeated' \in Seq(Numbered)
        /\ \A e \in copies' : e.packets \in Seq(Numbered)
    BY <1>1, <1>2, <1>3 DEF Types
  <2>. QED BY <2>1, <1>1, <1>2, <1>8, SenderTypes
<1>10. SizesFit'
  <2>1. UNCHANGED <<splitting, appending, m_merge_pos>> /\ Flight' \subseteq Flight /\ net' \subseteq net
    BY <1>2, <1>6 DEF sending, merging
  <2>. QED BY <2>1, <1>1, <1>2, SizesStay
<1>11. CopiesAreTrue'
  <2>1. \A m : IsDelivered(m) => IsDelivered(m)'
    BY <1>1, <1>8, DeliveredGrows
  <2>2. Unpacking' = Unpacking
    BY <1>2 DEF Unpacking, ToSet
  <2>. QED BY <2>1, <2>2, <1>1, <1>2, CopiesKept
<1>12. submitted' = submitted
  BY <1>2 DEF sending
<1>. QED BY <1>6, <1>8, <1>9, <1>10, <1>11, <1>12 DEF IInv, Delivery!Next, Delivery!vars

\* A message without a channel that comes again is delivered once more, and no
\* other is.
LEMMA UnpackAgainStep ==
    ASSUME IInv, unpack_again
    PROVE  IInv' /\ [Delivery!Next]_(Delivery!vars)
<1>. PICK p : p = Head(repeated)
  OBVIOUS
<1>. PICK m : m = p.packet.message
  OBVIOUS
<1>1. Types /\ SizesFit /\ PlacedOnce /\ MessagesAreTrue /\ CopiesAreTrue
  BY DEF IInv
<1>2. /\ repeated # <<>> /\ repeated' = Tail(repeated)
      /\ delivered' = IF m.method = "UNRELIABLE" THEN Append(delivered, m) ELSE delivered
      /\ UNCHANGED <<m_mtu, sending, m_outgoing_queue, pushed, merging, lost, net, copies, unpacking, waiting,
                     handed, m_holded_fragments, largest>>
  BY DEF unpack_again, world
<1>3. /\ p \in Numbered /\ repeated' \in Seq(Numbered) /\ ToSet(repeated) = {p} \cup ToSet(repeated')
  BY <1>1, <1>2, TailFacts DEF Types
<1>4. m \in Message /\ delivered \in Seq(Message)
  BY <1>1, <1>3, PacketTypes DEF Types
<1>5. m.method = "UNRELIABLE" => IsDelivered(m)
  BY <1>1, <1>3 DEF CopiesAreTrue, Channel
<1>6. /\ delivered' \in Seq(Message) /\ \A x : IsDelivered(x)' <=> IsDelivered(x)
  <2>1. CASE m.method = "UNRELIABLE"
    <3>1. /\ delivered' \in Seq(Message)
          /\ \A i \in DOMAIN delivered : i \in DOMAIN delivered' /\ delivered'[i] = delivered[i]
          /\ delivered'[Len(delivered) + 1] = m
          /\ \A i \in DOMAIN delivered' : i \in DOMAIN delivered \/ i = Len(delivered) + 1
      BY <2>1, <1>2, <1>4, AppendFacts
    <3>. QED BY <3>1, <2>1, <1>5 DEF IsDelivered
  <2>2. CASE m.method # "UNRELIABLE"
    BY <2>2, <1>2, <1>4 DEF IsDelivered
  <2>. QED BY <2>1, <2>2
<1>7. PlacedOnce' /\ Flight' = Flight
  BY <1>1, <1>2, PlacesStay
<1>8. UNCHANGED <<script, m_fragment_id, next, splitting, splits, submitted, appending, m_merge_pos>>
  BY <1>2 DEF sending, merging
<1>9. SentOnce'
  <2>1. \A i \in DOMAIN delivered' : IsSent(delivered'[i])
    <3>1. ASSUME NEW i \in DOMAIN delivered' PROVE IsSent(delivered'[i])
      <4>1. PICK y : y = delivered'[i]
        OBVIOUS
      <4>2. IsDelivered(y)'
        BY <4>1 DEF IsDelivered
      <4>3. IsDelivered(y)
        BY <4>2, <1>6
      <4>4. IsSent(y)
        BY <4>3, <1>1 DEF IsDelivered, MessagesAreTrue, SentOnce
      <4>. QED BY <4>1, <4>4
    <3>. QED BY <3>1
  <2>. QED BY <2>1, <1>1, <1>8 DEF MessagesAreTrue, SentOnce, IsSent
<1>10. MessagesAreTrue'
  BY <1>1, <1>2, <1>6, <1>7, <1>8, <1>9, MessagesKept
<1>11. Types'
  <2>1. /\ unpacking' \in Seq(Numbered) /\ net' \subseteq net /\ lost' \in SUBSET Numbered
        /\ waiting' \in SUBSET Numbered /\ handed' \in Nat /\ \A e \in copies' : e.packets \in Seq(Numbered)
        /\ m_holded_fragments' \in [Ids -> Incoming \cup {None}]
    BY <1>1, <1>2 DEF Types, Ids
  <2>. QED BY <2>1, <1>1, <1>2, <1>3, <1>6, SenderTypes
<1>12. SizesFit'
  BY <1>1, <1>2, <1>7, <1>8, SizesStay
<1>13. CopiesAreTrue'
  <2>1. Unpacking' = Unpacking
    BY <1>2 DEF Unpacking, ToSet
  <2>2. \A d \in copies' : \A q \in ToSet(d.packets) :
            Channel(q) = "UNRELIABLE" => IsDelivered(q.packet.message)' \/ q \in Unpacking'
    BY <2>1, <1>1, <1>2, <1>6 DEF CopiesAreTrue
  <2>3. \A q \in ToSet(repeated') : Channel(q) = "UNRELIABLE" => IsDelivered(q.packet.message)'
    BY <1>1, <1>3, <1>6 DEF CopiesAreTrue
  <2>. QED BY <2>2, <2>3 DEF CopiesAreTrue, Channel, ToSet
<1>14. UNCHANGED delivered \/ \E t \in Thread : Delivery!Deliver(t)
  <2>1. CASE m.method = "UNRELIABLE"
    <3>1. IsDelivered(m) /\ IsSent(m)
      BY <2>1, <1>1, <1>5 DEF IsDelivered, MessagesAreTrue, SentOnce
    <3>2. PICK t \in Thread : \E i \in DOMAIN submitted[t] : submitted[t][i] = m
      BY <3>1 DEF IsSent
    <3>3. PICK i \in DOMAIN submitted[t] : submitted[t][i] = m
      BY <3>2
    <3>4. submitted[t][i] \in UnreliableMessages /\ submitted[t][i] \notin OrderedMessages
      BY <3>3, <2>1, <1>4 DEF UnreliableMessages, OrderedMessages
    <3>5. delivered' = Append(delivered, submitted[t][i])
      BY <3>3, <2>1, <1>2
    <3>6. Delivery!Deliver(t)
      BY <3>4, <3>5, <1>8 DEF Delivery!Deliver, UnreliableMessages, OrderedMessages
    <3>. QED BY <3>6
  <2>2. CASE m.method # "UNRELIABLE"
    BY <2>2, <1>2
  <2>. QED BY <2>1, <2>2
<1>. QED BY <1>7, <1>8, <1>10, <1>11, <1>12, <1>13, <1>14 DEF IInv, Delivery!Next, Delivery!vars

\* A datagram is lost or discarded: the invariant holds, and it is a stutter.
LEMMA LoseStep ==
    ASSUME IInv, NEW d \in net, Lose(d),
           UNCHANGED <<m_mtu, sending, m_outgoing_queue, pushed, merging, receiving, largest>>
    PROVE  IInv' /\ UNCHANGED Delivery!vars
<1>1. Types /\ SizesFit /\ PlacedOnce /\ MessagesAreTrue /\ CopiesAreTrue
  BY DEF IInv
<1>2. UNCHANGED <<splitting, submitted, appending, m_merge_pos, copies, unpacking, repeated, waiting, handed,
                  m_holded_fragments, delivered>>
  BY DEF sending, merging, receiving
<1>3. PlacedOnce' /\ Flight' \subseteq Flight /\ \A p \in Flight : Channel(p) \in Reliable => p \in Flight'
  BY <1>1, <1>2, PlacesLose
<1>4. net' \subseteq net /\ lost' \in SUBSET Numbered
  <2>1. ToSet(d.packets) \subseteq Numbered /\ lost \subseteq Numbered
    BY <1>1, PlaceTypes DEF InNet
  <2>. QED BY <2>1 DEF Lose
<1>5. MessagesAreTrue'
  BY <1>1, <1>2, <1>3, MessagesStay
<1>6. Types'
  <2>1. /\ unpacking' \in Seq(Numbered) /\ repeated' \in Seq(Numbered)
        /\ waiting' \in SUBSET Numbered /\ handed' \in Nat /\ \A e \in copies' : e.packets \in Seq(Numbered)
        /\ m_holded_fragments' \in [Ids -> Incoming \cup {None}] /\ delivered' \in Seq(Message)
    BY <1>1, <1>2 DEF Types, Ids
  <2>. QED BY <2>1, <1>1, <1>4, SenderTypes
<1>7. SizesFit'
  BY <1>1, <1>2, <1>3, <1>4, SizesStay
<1>8. CopiesAreTrue'
  BY <1>1, <1>2, CopiesStay
<1>. QED BY <1>2, <1>3, <1>5, <1>6, <1>7, <1>8 DEF IInv, Delivery!vars

\* A datagram comes again: all of it that has no channel was delivered before.
LEMMA RepeatStep ==
    ASSUME IInv, NEW d \in copies, repeat(d)
    PROVE  IInv' /\ UNCHANGED Delivery!vars
<1>1. Types /\ SizesFit /\ PlacedOnce /\ MessagesAreTrue /\ CopiesAreTrue
  BY DEF IInv
<1>2. /\ unpacking = <<>> /\ repeated' = d.packets
      /\ UNCHANGED <<m_mtu, sending, m_outgoing_queue, pushed, merging, lost, net, copies, unpacking, waiting,
                     handed, m_holded_fragments, delivered, largest>>
  BY DEF repeat, IsReady
<1>3. PlacedOnce' /\ Flight' = Flight
  BY <1>1, <1>2, PlacesStay
<1>4. UNCHANGED <<splitting, submitted, appending, m_merge_pos>>
  BY <1>2 DEF sending, merging
<1>5. MessagesAreTrue'
  BY <1>1, <1>2, <1>3, MessagesStay
<1>6. Types'
  <2>1. /\ unpacking' \in Seq(Numbered) /\ repeated' \in Seq(Numbered) /\ net' \subseteq net
        /\ lost' \in SUBSET Numbered /\ waiting' \in SUBSET Numbered /\ handed' \in Nat
        /\ \A e \in copies' : e.packets \in Seq(Numbered)
        /\ m_holded_fragments' \in [Ids -> Incoming \cup {None}] /\ delivered' \in Seq(Message)
    BY <1>1, <1>2 DEF Types, Ids
  <2>. QED BY <2>1, <1>1, <1>2, SenderTypes
<1>7. SizesFit'
  BY <1>1, <1>2, <1>3, <1>4, SizesStay
<1>8. CopiesAreTrue'
  <2>1. Unpacking = {} /\ Unpacking' = {}
    BY <1>2 DEF Unpacking, ToSet
  <2>2. \A m : IsDelivered(m)' <=> IsDelivered(m)
    BY <1>2 DEF IsDelivered
  <2>3. \A e \in copies' : \A q \in ToSet(e.packets) : Channel(q) = "UNRELIABLE" => IsDelivered(q.packet.message)'
    BY <2>1, <2>2, <1>1, <1>2 DEF CopiesAreTrue
  <2>4. \A q \in ToSet(repeated') : Channel(q) = "UNRELIABLE" => IsDelivered(q.packet.message)'
    BY <2>3, <1>2
  <2>. QED BY <2>3, <2>4 DEF CopiesAreTrue, Channel, ToSet
<1>. QED BY <1>2, <1>3, <1>4, <1>5, <1>6, <1>7, <1>8 DEF IInv, Delivery!vars

\* The sizes are numbers.
LEMMA SizeTypes ==
    ASSUME Types, SizesFit
    PROVE  /\ m_mtu \in Nat /\ largest \in Nat /\ m_merge_pos \in Nat
           /\ \A p \in Numbered : SizeOf(p) \in Nat /\ MergedPacketSize(p) = 1 + SizeOf(p) + 2
           /\ Merged.packets = m_merge_data /\ Merged.size \in Int /\ Merged.size <= largest
           /\ m_merge_data # <<>> => Merged \in [packets : Seq(Numbered), size : Int] /\ Merged.packets # <<>>
<1>1. m_mtu \in Nat /\ largest \in Nat /\ m_merge_pos \in Nat
  BY MtuFacts DEF Types, SizesFit
<1>2. \A p \in Numbered : SizeOf(p) \in Nat /\ MergedPacketSize(p) = 1 + SizeOf(p) + 2
  BY PacketTypes, Constants DEF SizeOf, MergedPacketSize
<1>3. m_merge_pos + 1 <= largest
  BY Constants DEF SizesFit
<1>4. MergedSize \in Int /\ MergedSize <= largest
  <2>1. MergedSize = IF Len(m_merge_data) > 1 THEN 1 + m_merge_pos ELSE m_merge_pos - 2
    BY Constants DEF MergedSize
  <2>. QED BY <2>1, <1>1, <1>3
<1>5. Merged.packets = m_merge_data /\ Merged.size = MergedSize
  BY DEF Merged, Datagram
<1>6. Merged \in [packets : Seq(Numbered), size : Int]
  BY <1>4 DEF Merged, Datagram, Types
<1>. QED BY <1>1, <1>2, <1>4, <1>5, <1>6

\* What the logic thread leaves alone.
LEMMA LogicTypes ==
    ASSUME Types, UNCHANGED <<sending, pushed, receiving>>, lost' \in SUBSET Numbered,
           m_outgoing_queue' \in [Method -> Seq(Numbered)], appending' \in Numbered \cup {None},
           m_merge_data' \in Seq(Numbered), m_merge_pos' \in Nat,
           \A d \in net' : d \in [packets : Seq(Numbered), size : Int] /\ d.packets # <<>>
    PROVE  Types'
<1>1. UNCHANGED <<script, next, splitting, splits, submitted, copies, unpacking, repeated, waiting, handed,
                  m_holded_fragments, delivered>>
  BY DEF sending, receiving
<1>. QED BY <1>1 DEF Types

\* The messages, while packets only move.
LEMMA LogicMessages ==
    ASSUME MessagesAreTrue, CopiesAreTrue, Flight' = Flight, UNCHANGED <<sending, pushed, receiving>>
    PROVE  MessagesAreTrue' /\ CopiesAreTrue' /\ UNCHANGED Delivery!vars
<1>1. UNCHANGED <<copies, unpacking, repeated, handed, m_holded_fragments, delivered, submitted>>
  BY DEF receiving, sending
<1>2. CopiesAreTrue'
  BY <1>1, CopiesStay
<1>. QED BY <1>1, <1>2, MessagesStay DEF Delivery!vars

\* send_user_data keeps the invariant and is a stutter.
LEMMA UserDataStep ==
    ASSUME IInv, NEW p \in Flight, send_user_data(p), PlacedOnce', Flight' = Flight,
           lost' \in SUBSET Numbered, m_outgoing_queue' \in [Method -> Seq(Numbered)]
    PROVE  IInv' /\ UNCHANGED Delivery!vars
<1>1. Types /\ SizesFit /\ PlacedOnce /\ MessagesAreTrue /\ CopiesAreTrue
  BY DEF IInv
<1>2. /\ \/ /\ net' = net \cup {Datagram(<<p>>, SizeOf(p))}
            /\ UNCHANGED appending
         \/ /\ ~ (MergedPacketSize(p) + sizeTreshold >= m_mtu)
            /\ appending' = p
            /\ UNCHANGED net
      /\ UNCHANGED <<m_mtu, sending, pushed, m_merge_data, m_merge_pos, receiving, largest>>
  BY DEF send_user_data, world
<1>3. p \in Numbered
  BY <1>1, PlaceTypes
<1>4. /\ m_mtu \in Nat /\ largest \in Nat /\ m_mtu <= largest
      /\ SizeOf(p) \in Nat /\ MergedPacketSize(p) \in Nat /\ SizeOf(p) <= largest
  <2>1. m_mtu <= largest /\ SizeOf(p) <= largest
    BY <1>1 DEF SizesFit
  <2>. QED BY <2>1, <1>1, <1>3, SizeTypes
<1>5. Datagram(<<p>>, SizeOf(p)) \in [packets : Seq(Numbered), size : Int]
      /\ Datagram(<<p>>, SizeOf(p)).packets # <<>> /\ Datagram(<<p>>, SizeOf(p)).size = SizeOf(p)
  BY <1>3, <1>4, ShortSequences DEF Datagram
<1>6. Types'
  <2>1. appending' \in Numbered \cup {None} /\ m_merge_data' \in Seq(Numbered) /\ m_merge_pos' \in Nat
    BY <1>1, <1>2, <1>3 DEF Types
  <2>2. \A d \in net' : d \in [packets : Seq(Numbered), size : Int] /\ d.packets # <<>>
    BY <1>1, <1>2, <1>5 DEF Types
  <2>. QED BY <2>1, <2>2, <1>1, <1>2, LogicTypes
<1>7. SizesFit'
  <2>1. \A q \in Flight' : SizeOf(q) <= largest
    BY <1>1 DEF SizesFit
  <2>2. \A d \in net' : d.size <= largest
    BY <1>1, <1>2, <1>4, <1>5 DEF SizesFit
  <2>3. appending' # None => MergedPacketSize(appending') <= largest
    <3>1. CASE UNCHANGED appending
      BY <3>1, <1>1 DEF SizesFit
    <3>2. CASE ~ (MergedPacketSize(p) + sizeTreshold >= m_mtu) /\ appending' = p
      <4>1. MergedPacketSize(p) <= largest
        BY <3>2, <1>4, Constants
      <4>. QED BY <3>2, <4>1
    <3>. QED BY <3>1, <3>2, <1>2
  <2>4. UNCHANGED <<m_mtu, splitting, m_merge_pos, largest>>
    BY <1>2 DEF sending
  <2>. QED BY <2>1, <2>2, <2>3, <2>4, <1>1 DEF SizesFit, SizeOf, MergedPacketSize
<1>. QED BY <1>1, <1>2, <1>6, <1>7, LogicMessages DEF IInv

\* send_next keeps the invariant and is a stutter.
LEMMA SendNextStep ==
    ASSUME IInv, NEW c \in Method, send_next(c)
    PROVE  IInv' /\ UNCHANGED Delivery!vars
<1>. PICK p : p = Head(m_outgoing_queue[c])
  OBVIOUS
<1>1. Types /\ PlacedOnce
  BY DEF IInv
<1>2. /\ m_outgoing_queue[c] # <<>> /\ send_user_data(p) /\ lost' = lost
      /\ m_outgoing_queue' = [m_outgoing_queue EXCEPT ![c] = Tail(@)] /\ pushed' = pushed
  BY DEF send_next, send_user_data
<1>3. p \in Queued /\ m_outgoing_queue' \in [Method -> Seq(Numbered)]
  BY <1>1, <1>2, HeadFacts
<1>4. p \in Flight /\ lost' \in SUBSET Numbered
  BY <1>1, <1>2, <1>3 DEF Flight, Types
<1>5. PlacedOnce' /\ Flight' = Flight
  BY <1>1, PlacesSendNext
<1>. QED BY <1>2, <1>3, <1>4, <1>5, UserDataStep

\* resend keeps the invariant and is a stutter.
LEMMA ResendStep ==
    ASSUME IInv, NEW p \in lost, resend(p)
    PROVE  IInv' /\ UNCHANGED Delivery!vars
<1>1. Types /\ PlacedOnce
  BY DEF IInv
<1>2. send_user_data(p) /\ lost' = lost \ {p} /\ UNCHANGED m_outgoing_queue
  BY DEF resend
<1>3. p \in Flight /\ lost' \in SUBSET Numbered /\ m_outgoing_queue' \in [Method -> Seq(Numbered)]
  BY <1>1, <1>2 DEF Types, Flight, Left, InNet
<1>4. PlacedOnce' /\ Flight' = Flight
  BY <1>1, PlacesResend
<1>. QED BY <1>2, <1>3, <1>4, UserDataStep

\* append keeps the invariant and is a stutter.
LEMMA AppendStep ==
    ASSUME IInv, append
    PROVE  IInv' /\ UNCHANGED Delivery!vars
<1>1. Types /\ SizesFit /\ PlacedOnce /\ MessagesAreTrue /\ CopiesAreTrue
  BY DEF IInv
<1>2. /\ appending # None
      /\ \/ /\ net' = IF m_merge_data = <<>> THEN net ELSE net \cup {Merged}
            /\ m_merge_data' = <<appending>>
            /\ m_merge_pos' = SizeOf(appending) + MERGE_HEADER_SIZE
         \/ /\ ~ IsFull(appending)
            /\ m_merge_data' = Append(m_merge_data, appending)
            /\ m_merge_pos' = m_merge_pos + SizeOf(appending) + MERGE_HEADER_SIZE
            /\ UNCHANGED net
      /\ appending' = None
      /\ UNCHANGED <<m_mtu, sending, m_outgoing_queue, pushed, lost, receiving, largest>>
  BY DEF append, world
<1>3. PlacedOnce' /\ Flight' = Flight
  BY <1>1, PlacesAppend
<1>4. /\ appending \in Numbered /\ SizeOf(appending) \in Nat
      /\ MergedPacketSize(appending) = 1 + SizeOf(appending) + 2 /\ MergedPacketSize(appending) <= largest
      /\ m_mtu \in Nat /\ largest \in Nat /\ m_merge_pos \in Nat /\ m_mtu <= largest
  <2>1. appending \in Numbered
    BY <1>1, <1>2 DEF Types
  <2>2. MergedPacketSize(appending) <= largest /\ m_mtu <= largest
    BY <1>1, <1>2 DEF SizesFit
  <2>. QED BY <2>1, <2>2, <1>1, SizeTypes
<1>5. m_merge_data' \in Seq(Numbered)
  <2>1. m_merge_data \in Seq(Numbered)
    BY <1>1 DEF Types
  <2>2. <<appending>> \in Seq(Numbered)
    BY <1>4, ShortSequences
  <2>3. Append(m_merge_data, appending) \in Seq(Numbered)
    BY <2>1, <1>4, AppendFacts
  <2>. QED BY <2>2, <2>3, <1>2
<1>6. m_merge_pos' \in Nat /\ m_merge_pos' + 1 <= largest
  <2>1. CASE m_merge_pos' = SizeOf(appending) + MERGE_HEADER_SIZE
    BY <2>1, <1>4, Constants
  <2>2. CASE ~ IsFull(appending) /\ m_merge_pos' = m_merge_pos + SizeOf(appending) + MERGE_HEADER_SIZE
    <3>1. ~ (m_merge_pos + MergedPacketSize(appending) > m_mtu)
      BY <2>2 DEF IsFull
    <3>. QED BY <2>2, <3>1, <1>4, Constants
  <2>. QED BY <2>1, <2>2, <1>2
<1>7. \A d \in net' : d \in net \/ (d = Merged /\ m_merge_data # <<>>)
  BY <1>2
<1>8. \A d \in net' : d \in [packets : Seq(Numbered), size : Int] /\ d.packets # <<>> /\ d.size <= largest
  <2>1. \A d \in net : d \in [packets : Seq(Numbered), size : Int] /\ d.packets # <<>> /\ d.size <= largest
    BY <1>1 DEF Types, SizesFit
  <2>. QED BY <2>1, <1>1, <1>7, SizeTypes
<1>9. Types'
  <2>1. /\ m_outgoing_queue' \in [Method -> Seq(Numbered)] /\ appending' \in Numbered \cup {None}
        /\ lost' \in SUBSET Numbered
    BY <1>1, <1>2 DEF Types
  <2>. QED BY <2>1, <1>1, <1>2, <1>5, <1>6, <1>8, LogicTypes
<1>10. SizesFit'
  <2>1. UNCHANGED <<m_mtu, splitting, largest>> /\ appending' = None
    BY <1>2 DEF sending
  <2>. QED BY <2>1, <1>1, <1>3, <1>6, <1>8, Constants DEF SizesFit, SizeOf
<1>. QED BY <1>1, <1>2, <1>3, <1>9, <1>10, LogicMessages DEF IInv

\* send_merged keeps the invariant and is a stutter.
LEMMA SendMergedStep ==
    ASSUME IInv, send_merged
    PROVE  IInv' /\ UNCHANGED Delivery!vars
<1>1. Types /\ SizesFit /\ PlacedOnce /\ MessagesAreTrue /\ CopiesAreTrue
  BY DEF IInv
<1>2. /\ m_merge_data # <<>> /\ net' = net \cup {Merged} /\ m_merge_data' = <<>> /\ m_merge_pos' = 0
      /\ UNCHANGED <<m_mtu, sending, m_outgoing_queue, pushed, appending, lost, receiving, largest>>
  BY DEF send_merged, world
<1>3. PlacedOnce' /\ Flight' = Flight
  BY <1>1, PlacesMerged
<1>4. \A d \in net' : d \in [packets : Seq(Numbered), size : Int] /\ d.packets # <<>> /\ d.size <= largest
  <2>1. \A d \in net : d \in [packets : Seq(Numbered), size : Int] /\ d.packets # <<>> /\ d.size <= largest
    BY <1>1 DEF Types, SizesFit
  <2>. QED BY <2>1, <1>1, <1>2, SizeTypes
<1>5. Types'
  <2>1. /\ m_outgoing_queue' \in [Method -> Seq(Numbered)] /\ appending' \in Numbered \cup {None}
        /\ m_merge_data' \in Seq(Numbered) /\ lost' \in SUBSET Numbered
    BY <1>1, <1>2, ShortSequences DEF Types
  <2>. QED BY <2>1, <1>1, <1>2, <1>4, LogicTypes
<1>6. SizesFit'
  <2>1. UNCHANGED <<m_mtu, splitting, appending, largest>>
    BY <1>2 DEF sending
  <2>2. m_merge_pos' + HEADER_SIZE <= largest
    <3>1. m_merge_pos + 1 <= largest /\ m_merge_pos \in Nat /\ largest \in Nat
      BY <1>1, SizeTypes, Constants DEF SizesFit
    <3>. QED BY <3>1, <1>2, Constants
  <2>. QED BY <2>1, <2>2, <1>1, <1>3, <1>4 DEF SizesFit, SizeOf, MergedPacketSize
<1>. QED BY <1>1, <1>2, <1>3, <1>5, <1>6, LogicMessages DEF IInv

\* m_mtu moves: what was cut before fits the largest one.
LEMMA MoveStep ==
    ASSUME IInv, move_mtu
    PROVE  IInv' /\ UNCHANGED Delivery!vars
<1>1. Types /\ SizesFit /\ PlacedOnce /\ MessagesAreTrue /\ CopiesAreTrue
  BY DEF IInv
<1>2. /\ m_mtu' \in ToSet(POSSIBLE_MTU)
      /\ largest' = IF m_mtu' > largest THEN m_mtu' ELSE largest
      /\ UNCHANGED <<sending, m_outgoing_queue, pushed, merging, lost, net, receiving>>
  BY MtuFacts DEF move_mtu
<1>3. UNCHANGED <<script, next, splitting, splits, submitted, m_outgoing_queue, pushed, appending, m_merge_data,
                  m_merge_pos, lost, net, copies, unpacking, repeated, waiting, handed, m_holded_fragments, delivered>>
  BY <1>2 DEF sending, merging, receiving
<1>4. PlacedOnce' /\ Flight' = Flight
  BY <1>1, <1>2, <1>3, PlacesStay
<1>5. Types'
  BY <1>1, <1>3 DEF Types
<1>6. SizesFit'
  <2>1. m_mtu' \in Nat /\ largest \in Nat /\ m_mtu \in Nat
    BY <1>1, <1>2, MtuFacts, SizeTypes
  <2>2. largest' \in Nat /\ largest' \in ToSet(POSSIBLE_MTU) /\ m_mtu' <= largest' /\ largest <= largest'
    BY <2>1, <1>1, <1>2 DEF SizesFit
  <2>3. \A x \in Int : x <= largest => x <= largest'
    BY <2>1, <2>2
  <2>4. \A t \in Thread : \A i \in DOMAIN splitting[t] : splitting[t][i].size \in Int
    <3>1. ASSUME NEW t \in Thread, NEW i \in DOMAIN splitting[t] PROVE splitting[t][i] \in Packet
      <4>1. splitting[t] \in Seq(Packet)
        BY <1>1 DEF Types
      <4>. QED BY <4>1
    <3>2. \A f \in Packet : f.size \in Int
      BY DEF Packet
    <3>. QED BY <3>1, <3>2
  <2>5. \A p \in Flight : SizeOf(p) \in Int
    BY <1>1, PlaceTypes, PacketTypes DEF SizeOf
  <2>6. appending # None => MergedPacketSize(appending) \in Int
    BY <1>1, SizeTypes DEF Types
  <2>7. m_merge_pos + HEADER_SIZE \in Int /\ \A d \in net : d.size \in Int
    BY <1>1, Constants DEF Types
  <2>8. \A t \in Thread : \A i \in DOMAIN splitting'[t] : splitting'[t][i].size <= largest'
    BY <2>3, <2>4, <1>1, <1>3 DEF SizesFit
  <2>9. \A p \in Flight' : SizeOf(p) <= largest'
    BY <2>3, <2>5, <1>1, <1>4 DEF SizesFit
  <2>10. appending' # None => MergedPacketSize(appending') <= largest'
    BY <2>3, <2>6, <1>1, <1>3 DEF SizesFit
  <2>11. m_merge_pos' + HEADER_SIZE <= largest' /\ \A d \in net' : d.size <= largest'
    BY <2>3, <2>7, <1>1, <1>3 DEF SizesFit
  <2>. QED BY <2>2, <2>8, <2>9, <2>10, <2>11, <1>2 DEF SizesFit, SizeOf, MergedPacketSize
<1>. QED BY <1>1, <1>2, <1>4, <1>5, <1>6, LogicMessages, <1>3 DEF IInv

\* What the threads that send leave alone.
LEMMA ReceiverTypes ==
    ASSUME Types, UNCHANGED <<script, merging, lost, net, receiving>>,
           next' \in [Thread -> Nat \ {0}], splitting' \in [Thread -> Seq(Packet)],
           m_outgoing_queue' \in [Method -> Seq(Numbered)], pushed' \in [Method -> Nat],
           splits' \in Seq([message : Message, total : Nat \ {0}]), submitted' \in [Thread -> Seq(Message)]
    PROVE  Types'
<1>1. UNCHANGED <<appending, m_merge_data, m_merge_pos, copies, unpacking, repeated, waiting, handed,
                  m_holded_fragments, delivered>>
  BY DEF merging, receiving
<1>. QED BY <1>1 DEF Types

\* A packet that is pushed was cut to an MTU that was in force.
LEMMA PushedSizes ==
    ASSUME SizesFit, UNCHANGED <<m_mtu, merging, net, largest>>,
           NEW p, Flight' = Flight \cup {p}, SizeOf(p) <= largest,
           \A t \in Thread : \A i \in DOMAIN splitting'[t] : splitting'[t][i].size <= largest
    PROVE  SizesFit'
<1>1. UNCHANGED <<appending, m_merge_pos>>
  BY DEF merging
<1>. QED BY <1>1 DEF SizesFit, SizeOf, MergedPacketSize

\* send_internal, for a message that is sent whole or cut.
LEMMA SubmitStep ==
    ASSUME IInv, NEW t \in Thread, splitting[t] = <<>>, next[t] <= Len(script[t]),
           NEW m, m = script[t][next[t]],
           NEW packets \in Seq(Packet), packets # <<>>, Head(packets).message = m,
           \A i \in DOMAIN packets : packets[i].size <= largest,
           Submit(t, m, packets), IsSubmitted(m, Head(packets), Tail(packets)),
           next' = [next EXCEPT ![t] = @ + 1],
           UNCHANGED <<script, m_mtu, merging, lost, net, receiving, largest>>
    PROVE  IInv' /\ Delivery!Submit(t)
<1>. PICK f : f = Head(packets)
  OBVIOUS
<1>. PICK p : p = [number |-> pushed[m.method], packet |-> f]
  OBVIOUS
<1>1. Types /\ SizesFit /\ PlacedOnce /\ MessagesAreTrue /\ CopiesAreTrue /\ SentOnce
  BY DEF IInv, MessagesAreTrue
<1>2. /\ Push(m.method, f)
      /\ splitting' = [splitting EXCEPT ![t] = Tail(packets)]
      /\ submitted' = [submitted EXCEPT ![t] = Append(@, m)]
  BY DEF Submit
<1>3. /\ f \in Packet /\ Tail(packets) \in Seq(Packet) /\ f.message = m /\ f = packets[1] /\ 1 \in DOMAIN packets
      /\ \A i \in DOMAIN Tail(packets) : i + 1 \in DOMAIN packets /\ Tail(packets)[i] = packets[i + 1]
  BY TailFacts
<1>4. UNCHANGED <<copies, unpacking, repeated, waiting, handed, m_holded_fragments, delivered>>
  BY DEF receiving
<1>5. /\ PlacedOnce' /\ p \in Numbered /\ Flight' = Flight \cup {p}
      /\ m_outgoing_queue' \in [Method -> Seq(Numbered)] /\ pushed' \in [Method -> Nat]
  BY <1>1, <1>2, <1>3, <1>4, PlacesPush
<1>6. /\ p.packet = f /\ p.number = pushed[Channel(p)]
      /\ pushed' = [pushed EXCEPT ![Channel(p)] = @ + 1]
  BY <1>2, <1>3 DEF Push, Channel
<1>7. Flight \subseteq Numbered
  BY <1>1, PlaceTypes
<1>8. MessagesAreTrue' /\ splits' \in Seq([message : Message, total : Nat \ {0}])
  <2>. PICK rest : rest = Tail(packets)
    OBVIOUS
  <2>1. /\ rest \in Seq(Packet) /\ IsSubmitted(m, p.packet, rest) /\ p.packet.message = m
        /\ splitting' = [splitting EXCEPT ![t] = rest]
    BY <1>2, <1>3, <1>6
  <2>2. UNCHANGED <<script, handed, m_holded_fragments, delivered>>
    BY <1>4
  <2>3. /\ Types /\ MessagesAreTrue /\ Flight \subseteq Numbered /\ p \in Numbered
        /\ p.number = pushed[Channel(p)] /\ pushed' = [pushed EXCEPT ![Channel(p)] = @ + 1]
        /\ Flight' = Flight \cup {p} /\ submitted' = [submitted EXCEPT ![t] = Append(@, m)]
    BY <1>1, <1>2, <1>5, <1>6, <1>7
  <2>. QED BY <2>1, <2>2, <2>3, MessagesSubmit, ZenonT(60)
<1>9. submitted' \in [Thread -> Seq(Message)] /\ next' \in [Thread -> Nat \ {0}]
  BY <1>1, <1>2, <1>4, SentGrows
<1>10. splitting' \in [Thread -> Seq(Packet)]
  BY <1>1, <1>2, <1>3 DEF Types
<1>11. Types'
  BY <1>1, <1>5, <1>8, <1>9, <1>10, ReceiverTypes
<1>12. SizesFit'
  <2>1. SizeOf(p) <= largest
    BY <1>3, <1>6 DEF SizeOf
  <2>2. \A i \in DOMAIN Tail(packets) : Tail(packets)[i].size <= largest
    BY <1>3
  <2>3. \A u \in Thread : \A i \in DOMAIN splitting'[u] : splitting'[u][i].size <= largest
    <3>1. splitting'[t] = Tail(packets) /\ \A u \in Thread : u # t => splitting'[u] = splitting[u]
      BY <1>1, <1>2 DEF Types
    <3>. QED BY <3>1, <2>2, <1>1 DEF SizesFit
  <2>4. UNCHANGED <<m_mtu, merging, net, largest>>
    OBVIOUS
  <2>. QED BY <2>1, <2>3, <2>4, <1>1, <1>5, PushedSizes
<1>13. m \in Message /\ \A u \in Thread : m \notin Delivery!Sent(u)
  <2>1. m \in Message /\ ~ IsSent(m)
    BY <1>1, NewMessage
  <2>. QED BY <2>1 DEF IsSent, Delivery!Sent
<1>14. Delivery!Submit(t)
  BY <1>2, <1>4, <1>13 DEF Delivery!Submit
<1>15. CopiesAreTrue'
  BY <1>1, <1>4, CopiesStay
<1>. QED BY <1>5, <1>8, <1>11, <1>12, <1>14, <1>15 DEF IInv

\* What a fragmented message is made of is what MessagesSubmit speaks of.
LEMMA FragmentsAreSubmitted ==
    ASSUME Types, SizesFit, MessagesAreTrue, NEW m \in Message, m.method \in Reliable, IdIsFree, m_fragment_id' = NextFragmentId,
           splits' = Append(splits, [message |-> m, total |-> TotalPackets(m)])
    PROVE  /\ Fragments(m) \in Seq(Packet) /\ Fragments(m) # <<>> /\ Head(Fragments(m)).message = m
           /\ \A i \in DOMAIN Fragments(m) : Fragments(m)[i].size <= largest
           /\ IsSubmitted(m, Head(Fragments(m)), Tail(Fragments(m)))
<1>. PICK n : n = TotalPackets(m)
  OBVIOUS
<1>. PICK s : s = Fragments(m)
  OBVIOUS
<1>1. m_mtu \in ToSet(POSSIBLE_MTU) /\ m_fragment_id \in Int /\ m_mtu \in Nat /\ largest \in Nat /\ m_mtu <= largest
  <2>1. m_fragment_id = Len(splits) % FragmentIds /\ Len(splits) \in Int
    BY DEF MessagesAreTrue, SplitOnce, Types
  <2>2. m_fragment_id \in Int
    BY <2>1, Constants, DivMod
  <2>. QED BY <2>2, SizeTypes DEF SizesFit
<1>2. /\ n \in Nat \ {0} /\ s \in Seq(Packet) /\ s # <<>> /\ Len(s) = n /\ DOMAIN s = 1 .. n
      /\ \A i \in 1 .. n : /\ s[i].message = m /\ s[i].id = NextFragmentId
                           /\ s[i].part = i - 1 /\ s[i].total = n /\ s[i].size <= m_mtu
  BY <1>1, FragmentFacts
<1>3. /\ Head(s) = s[1] /\ Len(Tail(s)) = n - 1 /\ DOMAIN Tail(s) = 1 .. n - 1
      /\ \A i \in DOMAIN Tail(s) : i + 1 \in DOMAIN s /\ Tail(s)[i] = s[i + 1]
  BY <1>2, TailFacts
<1>4. \A i \in DOMAIN s : s[i].size <= largest
  <2>1. ASSUME NEW i \in DOMAIN s PROVE s[i].size <= largest
    <3>1. s[i] \in Packet /\ s[i].size <= m_mtu
      BY <1>2
    <3>2. s[i].size \in Nat
      BY <3>1 DEF Packet
    <3>. QED BY <3>1, <3>2, <1>1
  <2>. QED BY <2>1
<1>5. \A i \in DOMAIN Tail(s) : /\ Tail(s)[i].message = m /\ Tail(s)[i].total = n
                                /\ Tail(s)[i].part = i /\ Tail(s)[i].id = NextFragmentId
  <2>1. ASSUME NEW i \in DOMAIN Tail(s)
        PROVE  /\ Tail(s)[i].message = m /\ Tail(s)[i].total = n
               /\ Tail(s)[i].part = i /\ Tail(s)[i].id = NextFragmentId
    <3>1. i \in Nat /\ i + 1 \in 1 .. n /\ Tail(s)[i] = s[i + 1]
      BY <2>1, <1>2, <1>3
    <3>2. s[i + 1].part = (i + 1) - 1
      BY <3>1, <1>2
    <3>. QED BY <3>1, <3>2, <1>2
  <2>. QED BY <2>1
<1>6. /\ Head(s).message = m /\ Head(s).total = n /\ Head(s).part = 0 /\ Head(s).id = NextFragmentId
  <2>1. 1 \in 1 .. n
    BY <1>2
  <2>. QED BY <2>1, <1>2, <1>3
<1>7. IsSubmitted(m, Head(s), Tail(s))
  BY <1>2, <1>3, <1>5, <1>6 DEF IsSubmitted
<1>. QED BY <1>2, <1>4, <1>6, <1>7

\* send_internal keeps the invariant, and is a Submit or refuses.
LEMMA SendStep ==
    ASSUME IInv, NEW t \in Thread, send_internal(t)
    PROVE  IInv' /\ [Delivery!Next]_(Delivery!vars)
<1>. PICK m : m = script[t][next[t]]
  OBVIOUS
<1>1. Types /\ SizesFit /\ PlacedOnce /\ MessagesAreTrue /\ CopiesAreTrue /\ SentOnce
  BY DEF IInv, MessagesAreTrue
<1>2. /\ splitting[t] = <<>> /\ next[t] <= Len(script[t])
      /\ send_whole(t, m) \/ send_fragmented(t, m) \/ refuse(t, m)
      /\ next' = [next EXCEPT ![t] = @ + 1]
      /\ UNCHANGED <<m_mtu, merging, lost, net, receiving, largest>>
  BY DEF send_internal, world
<1>3. m \in Message
  BY <1>1, <1>2, NewMessage
<1>4. m_mtu \in Nat /\ largest \in Nat /\ m_mtu <= largest
  BY <1>1, SizeTypes DEF SizesFit
<1>5. CASE send_whole(t, m)
  <2>1. /\ m.size + HeaderSize(m) <= m_mtu /\ Submit(t, m, Whole(m))
        /\ UNCHANGED <<script, m_fragment_id, splits>>
    BY <1>5 DEF send_whole
  <2>. PICK s : s = Whole(m)
    OBVIOUS
  <2>2. /\ s \in Seq(Packet) /\ s # <<>> /\ Len(s) = 1 /\ Head(s).message = m /\ Head(s).total = 0
        /\ Head(s).part = 0 /\ Head(s).size = m.size + HeaderSize(m) /\ Tail(s) = <<>>
    BY <1>3, WholeFacts
  <2>3. \A i \in DOMAIN s : s[i].size <= largest
    <3>1. DOMAIN s = {1} /\ s[1] = Head(s) /\ Head(s) \in Packet
      <4>1. DOMAIN s = 1 .. 1
        BY <2>2, TailFacts
      <4>. QED BY <4>1, <2>2, TailFacts
    <3>2. Head(s).size \in Nat /\ Head(s).size <= m_mtu
      BY <2>1, <2>2, <3>1 DEF Packet
    <3>. QED BY <3>1, <3>2, <1>4
  <2>4. IsSubmitted(m, Head(s), Tail(s))
    BY <2>1, <2>2 DEF IsSubmitted
  <2>5. IInv' /\ Delivery!Submit(t)
    BY <1>2, <2>1, <2>2, <2>3, <2>4, SubmitStep
  <2>. QED BY <2>5 DEF Delivery!Next
<1>6. CASE send_fragmented(t, m)
  <2>1. /\ m.method \in Reliable /\ IdIsFree /\ m_fragment_id' = NextFragmentId
        /\ splits' = Append(splits, [message |-> m, total |-> TotalPackets(m)])
        /\ Submit(t, m, Fragments(m)) /\ UNCHANGED script
    BY <1>6 DEF send_fragmented
  <2>2. /\ Fragments(m) \in Seq(Packet) /\ Fragments(m) # <<>> /\ Head(Fragments(m)).message = m
        /\ \A i \in DOMAIN Fragments(m) : Fragments(m)[i].size <= largest
        /\ IsSubmitted(m, Head(Fragments(m)), Tail(Fragments(m)))
    BY <2>1, <1>1, <1>3, FragmentsAreSubmitted
  <2>3. IInv' /\ Delivery!Submit(t)
    BY <1>2, <2>1, <2>2, SubmitStep
  <2>. QED BY <2>3 DEF Delivery!Next
<1>7. CASE refuse(t, m)
  <2>1. UNCHANGED <<script, m_fragment_id, splits, splitting, submitted, m_outgoing_queue, pushed>>
    BY <1>7 DEF refuse
  <2>2. UNCHANGED <<appending, m_merge_pos, copies, unpacking, repeated, waiting, handed, m_holded_fragments, delivered>>
    BY <1>2 DEF merging, receiving
  <2>3. PlacedOnce' /\ Flight' = Flight
    BY <2>1, <2>2, <1>1, <1>2, PlacesStay
  <2>4. \A x : IsDelivered(x)' <=> IsDelivered(x)
    BY <2>2 DEF IsDelivered
  <2>5. CopiesAreTrue'
    BY <2>2, <1>1, CopiesStay
  <2>6. SentOnce' /\ next' \in [Thread -> Nat \ {0}]
    BY <2>1, <2>2, <1>1, <1>2, NextGrows
  <2>7. MessagesAreTrue'
    BY <2>1, <2>2, <2>3, <2>4, <2>6, <1>1, MessagesKept
  <2>8. Types'
    BY <2>1, <2>6, <1>1, <1>2, ReceiverTypes DEF Types
  <2>9. SizesFit'
    BY <2>1, <2>2, <2>3, <1>1, <1>2, SizesStay
  <2>. QED BY <2>1, <2>2, <2>3, <2>5, <2>7, <2>8, <2>9 DEF IInv, Delivery!vars
<1>. QED BY <1>2, <1>5, <1>6, <1>7

\* push keeps the invariant and is a stutter.
LEMMA PushStep ==
    ASSUME IInv, NEW t \in Thread, push(t)
    PROVE  IInv' /\ UNCHANGED Delivery!vars
<1>. PICK s : s = splitting[t]
  OBVIOUS
<1>. PICK f : f = Head(s)
  OBVIOUS
<1>. PICK p : p = [number |-> pushed[f.message.method], packet |-> f]
  OBVIOUS
<1>1. Types /\ SizesFit /\ PlacedOnce /\ MessagesAreTrue /\ CopiesAreTrue
  BY DEF IInv
<1>2. /\ s # <<>> /\ Push(f.message.method, f)
      /\ splitting' = [splitting EXCEPT ![t] = Tail(@)]
      /\ UNCHANGED <<script, m_mtu, m_fragment_id, next, splits, refused, submitted, merging, lost, net, receiving,
                     largest>>
  BY DEF push, world
<1>3. UNCHANGED <<copies, unpacking, repeated, waiting, handed, m_holded_fragments, delivered>>
  BY <1>2 DEF receiving
<1>4. /\ s \in Seq(Packet) /\ f \in Packet /\ Tail(s) \in Seq(Packet) /\ f = s[1] /\ 1 \in DOMAIN s
      /\ \A i \in DOMAIN Tail(s) : i + 1 \in DOMAIN s /\ Tail(s)[i] = s[i + 1]
  <2>1. s \in Seq(Packet)
    BY <1>1 DEF Types
  <2>. QED BY <2>1, <1>2, TailFacts
<1>5. /\ PlacedOnce' /\ p \in Numbered /\ Flight' = Flight \cup {p}
      /\ m_outgoing_queue' \in [Method -> Seq(Numbered)] /\ pushed' \in [Method -> Nat]
  BY <1>1, <1>2, <1>3, <1>4, PlacesPush
<1>6. /\ p.packet = f /\ p.number = pushed[Channel(p)]
      /\ pushed' = [pushed EXCEPT ![Channel(p)] = @ + 1]
  BY <1>2 DEF Push, Channel
<1>7. Flight \subseteq Numbered
  BY <1>1, PlaceTypes
<1>8. MessagesAreTrue'
  BY <1>1, <1>2, <1>3, <1>5, <1>6, <1>7, MessagesPush
<1>9. /\ splitting' \in [Thread -> Seq(Packet)]
      /\ splitting'[t] = Tail(s) /\ \A u \in Thread : u # t => splitting'[u] = splitting[u]
  BY <1>1, <1>2, <1>4 DEF Types
<1>10. Types'
  <2>1. /\ next' \in [Thread -> Nat \ {0}] /\ submitted' \in [Thread -> Seq(Message)]
        /\ splits' \in Seq([message : Message, total : Nat \ {0}])
    BY <1>1, <1>2 DEF Types
  <2>. QED BY <2>1, <1>1, <1>2, <1>5, <1>9, ReceiverTypes
<1>11. SizesFit'
  <2>1. \A i \in DOMAIN s : s[i].size <= largest
    BY <1>1 DEF SizesFit
  <2>2. SizeOf(p) <= largest
    BY <2>1, <1>4, <1>6 DEF SizeOf
  <2>3. \A u \in Thread : \A i \in DOMAIN splitting'[u] : splitting'[u][i].size <= largest
    <3>1. \A i \in DOMAIN Tail(s) : Tail(s)[i].size <= largest
      BY <2>1, <1>4
    <3>. QED BY <3>1, <1>1, <1>9 DEF SizesFit
  <2>4. UNCHANGED <<m_mtu, merging, net, largest>>
    BY <1>2
  <2>. QED BY <2>2, <2>3, <2>4, <1>1, <1>5, PushedSizes
<1>12. CopiesAreTrue'
  BY <1>1, <1>3, CopiesStay
<1>. QED BY <1>2, <1>3, <1>5, <1>8, <1>10, <1>11, <1>12 DEF IInv, Delivery!vars

-----------------------------------------------------------------------------
(* The theorems. *)

\* The invariant holds before the first message is sent.
LEMMA InitIInv == Init => IInv
<1>. SUFFICES ASSUME Init PROVE IInv
  OBVIOUS
<1>1. /\ \A S : <<>> \in Seq(S) /\ DOMAIN <<>> = {} /\ Len(<<>>) = 0 /\ ToSet(<<>>) = {} /\ Once(<<>>)
      /\ FragmentIds \in Nat \ {0}
  BY Constants DEF ToSet, Once
<1>2. /\ script \in Scripts /\ m_mtu \in ToSet(POSSIBLE_MTU) /\ largest = m_mtu /\ m_fragment_id = 0
      /\ next = [t \in Thread |-> 1] /\ splitting = [t \in Thread |-> <<>>]
      /\ m_outgoing_queue = [c \in Method |-> <<>>] /\ pushed = [c \in Method |-> 0]
      /\ appending = None /\ m_merge_data = <<>> /\ m_merge_pos = 0 /\ lost = {} /\ net = {}
      /\ copies = {} /\ unpacking = <<>> /\ repeated = <<>>
      /\ waiting = {} /\ handed = 0 /\ m_holded_fragments = [id \in 0 .. FragmentIds - 1 |-> None]
      /\ splits = <<>> /\ submitted = [t \in Thread |-> <<>>] /\ delivered = <<>>
  BY DEF Init
<1>3. Types
  <2>1. next \in [Thread -> Nat \ {0}] /\ pushed \in [Method -> Nat]
    BY <1>2
  <2>2. splitting \in [Thread -> Seq(Packet)] /\ submitted \in [Thread -> Seq(Message)]
        /\ m_outgoing_queue \in [Method -> Seq(Numbered)]
    BY <1>1, <1>2
  <2>3. m_holded_fragments \in [0 .. FragmentIds - 1 -> Incoming \cup {None}]
    BY <1>2
  <2>4. m_merge_data \in Seq(Numbered) /\ unpacking \in Seq(Numbered) /\ repeated \in Seq(Numbered) /\ delivered \in Seq(Message)
        /\ splits \in Seq([message : Message, total : Nat \ {0}])
    BY <1>1, <1>2
  <2>. QED BY <2>1, <2>2, <2>3, <2>4, <1>2 DEF Types
<1>4. /\ \A t \in Thread : splitting[t] = <<>> /\ submitted[t] = <<>>
      /\ \A c \in Method : m_outgoing_queue[c] = <<>> /\ pushed[c] = 0
      /\ \A id \in Ids : m_holded_fragments[id] = None /\ Held(id) = {}
  BY <1>2 DEF Ids, Held
<1>5. /\ \A t \in Thread : DOMAIN splitting[t] = {} /\ DOMAIN submitted[t] = {}
      /\ \A c \in Method : DOMAIN m_outgoing_queue[c] = {} /\ Len(m_outgoing_queue[c]) = 0
      /\ DOMAIN splits = {} /\ DOMAIN delivered = {} /\ Len(splits) = 0
  BY <1>1, <1>2, <1>4
<1>6. Queued = {} /\ Appending = {} /\ Merging = {} /\ InNet = {} /\ Unpacking = {} /\ Left = {} /\ Flight = {}
  <2>1. Queued = {}
    BY <1>1, <1>4 DEF Queued
  <2>2. Appending = {} /\ Merging = {} /\ InNet = {} /\ Unpacking = {}
    BY <1>1, <1>2 DEF Appending, Merging, InNet, Unpacking
  <2>. QED BY <2>1, <2>2, <1>2 DEF Left, Flight
<1>7. SizesFit
  <2>1. m_mtu \in Nat /\ m_mtu > 10 /\ m_mtu <= largest
    BY <1>2, MtuFacts, Constants
  <2>. QED BY <2>1, <1>2, <1>5, <1>6, Constants DEF SizesFit
<1>8. PlacedOnce
  <2>1. PlacesDiffer
    BY <1>2, <1>6 DEF PlacesDiffer, NetDiffers
  <2>. QED BY <2>1, <1>1, <1>2, <1>4, <1>5, <1>6 DEF PlacedOnce
<1>9. SentOnce /\ PartsAreTrue /\ HeldIsTrue /\ PartsDiffer /\ NothingIsMissing
  BY <1>4, <1>5, <1>6 DEF SentOnce, PartsAreTrue, HeldIsTrue, PartsDiffer, NothingIsMissing
<1>10. SplitOnce
  <2>1. 0 % FragmentIds = 0
    <3>1. 0 % FragmentIds \in 0 .. FragmentIds - 1
      BY <1>1, DivMod
    <3>. QED BY <3>1, <1>1, ModInjective
  <2>. QED BY <2>1, <1>2, <1>5 DEF SplitOnce
<1>11. NumbersFollow
  <2>1. handed <= pushed["RELIABLE_ORDERED"]
    BY <1>2, <1>4, Constants
  <2>. QED BY <2>1, <1>5, <1>6 DEF NumbersFollow
<1>12. CopiesAreTrue
  BY <1>1, <1>2 DEF CopiesAreTrue
<1>. QED BY <1>3, <1>7, <1>8, <1>9, <1>10, <1>11, <1>12 DEF IInv, MessagesAreTrue

\* A step that changes nothing.
LEMMA StutterStep ==
    ASSUME IInv, UNCHANGED vars
    PROVE  IInv' /\ UNCHANGED Delivery!vars
<1>1. Types /\ SizesFit /\ PlacedOnce /\ MessagesAreTrue /\ CopiesAreTrue
  BY DEF IInv
<1>2. UNCHANGED <<m_mtu, sending, m_outgoing_queue, pushed, merging, lost, net, receiving, largest>>
  BY DEF vars, world
<1>3. UNCHANGED <<script, next, splitting, splits, submitted, appending, m_merge_data, m_merge_pos, copies, unpacking,
                  repeated, waiting, handed, m_holded_fragments, delivered>>
  BY <1>2 DEF sending, merging, receiving
<1>4. PlacedOnce' /\ Flight' = Flight
  BY <1>1, <1>2, <1>3, PlacesStay
<1>5. Types'
  BY <1>1, <1>2, <1>3 DEF Types
<1>6. SizesFit'
  BY <1>1, <1>2, <1>3, <1>4, SizesStay
<1>. QED BY <1>1, <1>2, <1>4, <1>5, <1>6, LogicMessages DEF IInv

\* Each step of the path, at once.
LEMMA NextStep ==
    ASSUME IInv, [Next]_vars
    PROVE  IInv' /\ [Delivery!Next]_(Delivery!vars)
<1>1. ASSUME NEW t \in Thread, send_internal(t) PROVE IInv' /\ [Delivery!Next]_(Delivery!vars)
  BY <1>1, SendStep
<1>2. ASSUME NEW t \in Thread, push(t) PROVE IInv' /\ [Delivery!Next]_(Delivery!vars)
  BY <1>2, PushStep
<1>3. ASSUME update PROVE IInv' /\ [Delivery!Next]_(Delivery!vars)
  BY <1>3, SendNextStep, AppendStep, SendMergedStep DEF update
<1>4. ASSUME NEW p \in lost, resend(p) PROVE IInv' /\ [Delivery!Next]_(Delivery!vars)
  BY <1>4, ResendStep
<1>5. ASSUME NEW d \in net, discard(d) \/ lose(d) PROVE IInv' /\ [Delivery!Next]_(Delivery!vars)
  <2>1. Lose(d) /\ UNCHANGED <<m_mtu, sending, m_outgoing_queue, pushed, merging, receiving, largest>>
    BY <1>5 DEF discard, lose, world
  <2>. QED BY <2>1, LoseStep
<1>6. ASSUME receive_thread PROVE IInv' /\ [Delivery!Next]_(Delivery!vars)
  BY <1>5, <1>6, ReceiveStep, UnpackStep, UnpackAgainStep, HandOverStep DEF receive_thread
<1>7. ASSUME move_mtu PROVE IInv' /\ [Delivery!Next]_(Delivery!vars)
  BY <1>7, MoveStep
<1>8. ASSUME network PROVE IInv' /\ [Delivery!Next]_(Delivery!vars)
  BY <1>5, <1>8, RepeatStep DEF network
<1>9. ASSUME UNCHANGED vars PROVE IInv' /\ [Delivery!Next]_(Delivery!vars)
  BY <1>9, StutterStep
<1>. QED BY <1>1, <1>2, <1>3, <1>4, <1>6, <1>7, <1>8, <1>9 DEF Next

\* The inductive invariant: where packets are, and what they are parts of.
THEOREM Invariance == Spec => []IInv
<1>1. IInv /\ [Next]_vars => IInv'
  BY NextStep
<1>. QED BY InitIInv, <1>1, PTL DEF Spec

\* m_mtu, the fragment id and the merge position are in their ranges, and what
\* is handed to the application is a message of the scripts, never GARBLED.
THEOREM TypeCorrect == Spec => []TypeOK
<1>1. IInv => TypeOK
  <2>. SUFFICES ASSUME IInv PROVE TypeOK
    OBVIOUS
  <2>1. Types /\ SizesFit /\ SplitOnce
    BY DEF IInv, MessagesAreTrue
  <2>2. m_fragment_id \in 0 .. FragmentIds - 1
    <3>1. m_fragment_id = Len(splits) % FragmentIds /\ Len(splits) \in Int
      BY <2>1 DEF SplitOnce, Types
    <3>. QED BY <3>1, Constants, DivMod
  <2>3. m_merge_pos \in 0 .. POSSIBLE_MTU[Len(POSSIBLE_MTU)] - HEADER_SIZE
    <3>1. /\ m_merge_pos \in Nat /\ largest \in Nat /\ m_merge_pos + 1 <= largest
          /\ largest <= POSSIBLE_MTU[Len(POSSIBLE_MTU)]
      BY <2>1, SizeTypes, MtuFacts, Constants DEF SizesFit
    <3>2. POSSIBLE_MTU[Len(POSSIBLE_MTU)] \in Nat
      BY PathAssumption
    <3>. QED BY <3>1, <3>2, Constants
  <2>. QED BY <2>1, <2>2, <2>3 DEF TypeOK, Types, SizesFit
<1>. QED BY Invariance, <1>1, PTL

\* No datagram is longer than the largest MTU that was ever in force, although
\* send_user_data reads m_mtu twice and m_mtu moves after a packet was cut.
THEOREM DatagramsAreFit == Spec => []DatagramsFit
<1>1. IInv => DatagramsFit
  BY DEF IInv, SizesFit, DatagramsFit
<1>. QED BY Invariance, <1>1, PTL

\* The path through the two peers implements MessageDelivery, over a network that
\* loses and repeats datagrams: messages come out whole and only if they were
\* sent, those of a reliable channel at most once, and those of the ordered one in
\* the order of the sender.  A message without a channel may come out again.
THEOREM PathDeliversWhole == Spec => DeliversWhole
<1>1. Init => Delivery!Init
  BY DEF Init, Delivery!Init
<1>2. IInv /\ [Next]_vars => [Delivery!Next]_(Delivery!vars)
  BY NextStep
<1>. QED BY Invariance, <1>1, <1>2, PTL DEF Spec, DeliversWhole, Delivery!Spec

-----------------------------------------------------------------------------
(* The sizes of datagrams.  MergedLength is computed by a recursive function; *)
(* Lengths(s, n, f) says that f is one for the first n packets of s.  There   *)
(* is exactly one: a smallest n or i without cannot be.                       *)

\* A set of natural numbers has a smallest element.
LEMMA Smallest ==
    ASSUME NEW T \in SUBSET Nat, T # {}
    PROVE  \E n \in T : \A m \in T : n <= m
<1>. DEFINE Less == {s \in Nat \X Nat : s[1] < s[2]}
<1>1. Less = OpToRel(<, Nat)
  BY Zenon DEF OpToRel
<1>2. IsWellFoundedOn(Less, Nat)
  BY NatLessThanWellFounded, <1>1
<1>3. \A i, j \in Nat : i < j => <<i, j>> \in Less
  OBVIOUS
<1>. HIDE DEF Less
<1>4. PICK n \in T : \A m \in T : <<m, n>> \notin Less
  BY <1>2, WFMin
<1>5. ASSUME NEW m \in T PROVE n <= m
  <2>1. n \in Nat /\ m \in Nat
    OBVIOUS
  <2>2. ~(m < n)
    BY <1>3, <1>4, <2>1
  <2>. QED BY <2>1, <2>2
<1>. QED BY <1>4, <1>5

\* f is the recursive function for the first n packets of s.
Lengths(s, n, f) ==
    f = [i \in 0 .. n |-> IF i = 0 THEN 0 ELSE f[i - 1] + MERGE_HEADER_SIZE + SizeOf(s[i])]

\* Every sequence of packets has a Lengths: were one the shortest without, that of all
\* but its last packet could be extended.
LEMMA LengthsExist ==
    ASSUME NEW s, NEW n \in Nat
    PROVE  \E f : Lengths(s, n, f)
<1>. DEFINE T == {k \in Nat : ~ \E f : Lengths(s, k, f)}
<1>1. SUFFICES ASSUME T # {} PROVE FALSE
  OBVIOUS
<1>2. PICK k \in T : \A m \in T : k <= m
  <2>1. T \in SUBSET Nat
    OBVIOUS
  <2>. QED BY <2>1, <1>1, Smallest
<1>3. CASE k = 0
  <2>. DEFINE f == [i \in 0 .. 0 |-> 0]
  <2>1. Lengths(s, 0, f)
    BY DEF Lengths
  <2>. QED BY <2>1, <1>2, <1>3
<1>4. CASE k # 0
  <2>1. k - 1 \in Nat /\ k - 1 \notin T
    BY <1>2, <1>4
  <2>2. PICK g : Lengths(s, k - 1, g)
    BY <2>1
  <2>. DEFINE f == [i \in 0 .. k |-> IF i = k THEN g[k - 1] + MERGE_HEADER_SIZE + SizeOf(s[k]) ELSE g[i]]
  <2>3. \A i \in 0 .. k : f[i] = IF i = 0 THEN 0 ELSE f[i - 1] + MERGE_HEADER_SIZE + SizeOf(s[i])
    <3>1. ASSUME NEW i \in 0 .. k
          PROVE  f[i] = IF i = 0 THEN 0 ELSE f[i - 1] + MERGE_HEADER_SIZE + SizeOf(s[i])
      <4>1. CASE i = k
        <5>1. k - 1 \in 0 .. k /\ k - 1 # k /\ f[k - 1] = g[k - 1]
          BY <2>1, <1>4
        <5>. QED BY <5>1, <4>1, <1>4
      <4>2. CASE i # k
        <5>1. i \in 0 .. k - 1 /\ f[i] = g[i]
          BY <4>2, <2>1
        <5>2. g[i] = IF i = 0 THEN 0 ELSE g[i - 1] + MERGE_HEADER_SIZE + SizeOf(s[i])
          BY <5>1, <2>2 DEF Lengths
        <5>3. i # 0 => i - 1 \in 0 .. k /\ i - 1 # k /\ f[i - 1] = g[i - 1]
          BY <4>2, <2>1
        <5>. HIDE DEF f
        <5>. QED BY <5>1, <5>2, <5>3
      <4>. QED BY <4>1, <4>2
    <3>. QED BY <3>1
  <2>4. f = [i \in 0 .. k |-> f[i]]
    OBVIOUS
  <2>. HIDE DEF f
  <2>5. Lengths(s, k, f)
    BY <2>3, <2>4 DEF Lengths
  <2>. QED BY <2>5, <1>2
<1>. QED BY <1>3, <1>4

\* Two Lengths of a sequence agree up to where the shorter one ends.
LEMMA LengthsAgree ==
    ASSUME NEW s, NEW n \in Nat, NEW f, Lengths(s, n, f), NEW g, Lengths(s, n, g)
    PROVE  \A i \in 0 .. n : f[i] = g[i]
<1>. DEFINE T == {i \in 0 .. n : f[i] # g[i]}
<1>1. SUFFICES ASSUME T # {} PROVE FALSE
  OBVIOUS
<1>2. PICK k \in T : \A m \in T : k <= m
  <2>1. T \in SUBSET Nat
    OBVIOUS
  <2>. QED BY <2>1, <1>1, Smallest
<1>3. /\ f[k] = IF k = 0 THEN 0 ELSE f[k - 1] + MERGE_HEADER_SIZE + SizeOf(s[k])
      /\ g[k] = IF k = 0 THEN 0 ELSE g[k - 1] + MERGE_HEADER_SIZE + SizeOf(s[k])
  BY <1>2 DEF Lengths
<1>4. k # 0 => f[k - 1] = g[k - 1]
  <2>1. k # 0 => k - 1 \in 0 .. n /\ k - 1 \notin T
    BY <1>2
  <2>. QED BY <2>1
<1>. QED BY <1>2, <1>3, <1>4

\* The merge buffer is empty at 0, and a packet makes it longer by its own size
\* and the two bytes before it.
LEMMA MergedLengthFacts ==
    /\ MergedLength(<<>>) = 0
    /\ \A s \in Seq(Numbered) : \A x \in Numbered :
          MergedLength(Append(s, x)) = MergedLength(s) + MERGE_HEADER_SIZE + SizeOf(x)
<1>1. ASSUME NEW s, Len(s) \in Nat, NEW f, Lengths(s, Len(s), f) PROVE MergedLength(s) = f[Len(s)]
  <2>. DEFINE g == CHOOSE g : Lengths(s, Len(s), g)
  <2>1. Lengths(s, Len(s), g)
    BY <1>1
  <2>2. MergedLength(s) = g[Len(s)]
    BY Zenon DEF MergedLength, Lengths
  <2>. HIDE DEF g
  <2>3. Len(s) \in 0 .. Len(s)
    BY <1>1
  <2>. QED BY <1>1, <2>1, <2>2, <2>3, LengthsAgree
<1>2. MergedLength(<<>>) = 0
  <2>1. Len(<<>>) = 0
    OBVIOUS
  <2>2. PICK f : Lengths(<<>>, 0, f)
    BY LengthsExist
  <2>3. f[0] = 0
    BY <2>2 DEF Lengths
  <2>. QED BY <2>1, <2>2, <2>3, <1>1
<1>3. ASSUME NEW s \in Seq(Numbered), NEW x \in Numbered
      PROVE  MergedLength(Append(s, x)) = MergedLength(s) + MERGE_HEADER_SIZE + SizeOf(x)
  <2>. DEFINE u == Append(s, x)
              n == Len(s)
  <2>1. /\ n \in Nat /\ Len(u) = n + 1 /\ u[n + 1] = x /\ \A i \in 1 .. n : u[i] = s[i]
    BY AppendFacts
  <2>. HIDE DEF u, n
  <2>2. PICK f : Lengths(u, n + 1, f)
    <3>1. n + 1 \in Nat
      BY <2>1
    <3>. QED BY <3>1, LengthsExist
  <2>. DEFINE g == [i \in 0 .. n |-> f[i]]
  <2>3. f[n + 1] = f[n] + MERGE_HEADER_SIZE + SizeOf(x)
    <3>1. n + 1 \in 0 .. n + 1 /\ n + 1 # 0 /\ (n + 1) - 1 = n
      BY <2>1
    <3>. QED BY <3>1, <2>1, <2>2 DEF Lengths
  <2>4. \A i \in 0 .. n : g[i] = IF i = 0 THEN 0 ELSE g[i - 1] + MERGE_HEADER_SIZE + SizeOf(s[i])
    <3>1. ASSUME NEW i \in 0 .. n
          PROVE  g[i] = IF i = 0 THEN 0 ELSE g[i - 1] + MERGE_HEADER_SIZE + SizeOf(s[i])
      <4>1. g[i] = f[i] /\ i \in 0 .. n + 1
        BY <2>1
      <4>2. f[i] = IF i = 0 THEN 0 ELSE f[i - 1] + MERGE_HEADER_SIZE + SizeOf(u[i])
        BY <4>1, <2>2 DEF Lengths
      <4>3. i # 0 => i - 1 \in 0 .. n /\ g[i - 1] = f[i - 1] /\ u[i] = s[i]
        BY <2>1
      <4>. HIDE DEF g
      <4>. QED BY <4>1, <4>2, <4>3
    <3>. QED BY <3>1
  <2>5. g = [i \in 0 .. n |-> g[i]]
    OBVIOUS
  <2>6. g[n] = f[n]
    BY <2>1
  <2>. HIDE DEF g
  <2>7. Lengths(s, n, g)
    BY <2>4, <2>5 DEF Lengths
  <2>8. MergedLength(s) = f[n]
    BY <2>1, <2>6, <2>7, <1>1 DEF n
  <2>9. MergedLength(u) = f[n + 1]
    BY <2>1, <2>2, <1>1
  <2>. QED BY <2>3, <2>8, <2>9 DEF u
<1>. QED BY <1>2, <1>3

\* A packet alone in the merge buffer.
LEMMA LoneLength ==
    ASSUME NEW x \in Numbered
    PROVE  /\ SizeOf(x) \in Nat
           /\ MergedLength(<<x>>) = SizeOf(x) + MERGE_HEADER_SIZE
           /\ DatagramSize(<<x>>) = SizeOf(x)
<1>1. SizeOf(x) \in Nat
  BY PacketTypes DEF SizeOf
<1>2. <<>> \in Seq(Numbered) /\ Append(<<>>, x) = <<x>>
  OBVIOUS
<1>3. MergedLength(<<x>>) = 0 + MERGE_HEADER_SIZE + SizeOf(x)
  <2>1. MergedLength(Append(<<>>, x)) = MergedLength(<<>>) + MERGE_HEADER_SIZE + SizeOf(x)
    BY <1>2, MergedLengthFacts
  <2>. QED BY <2>1, <1>2, MergedLengthFacts
<1>4. Len(<<x>>) = 1 /\ <<x>>[1] = x
  OBVIOUS
<1>. QED BY <1>1, <1>3, <1>4, Constants DEF DatagramSize

\* send_merged takes off the headers of the buffer from a lone packet.
LEMMA MergedIsTrue ==
    ASSUME Types, SizesFit, SizesAreTrue, m_merge_data # <<>>
    PROVE  Merged.size = DatagramSize(Merged.packets)
<1>1. m_merge_data \in Seq(Numbered) /\ m_merge_pos = MergedLength(m_merge_data)
  BY DEF Types, SizesAreTrue
<1>2. Len(m_merge_data) \in Nat \ {0}
  BY <1>1, TailFacts
<1>3. /\ Merged.packets = m_merge_data
      /\ Merged.size = IF Len(m_merge_data) > 1 THEN HEADER_SIZE + m_merge_pos
                       ELSE m_merge_pos - MERGE_HEADER_SIZE
  BY DEF Merged, Datagram, MergedSize
<1>4. CASE Len(m_merge_data) = 1
  <2>. DEFINE x == m_merge_data[1]
  <2>1. x \in Numbered /\ m_merge_data = <<x>>
    BY <1>1, <1>4
  <2>. HIDE DEF x
  <2>2. SizeOf(x) \in Nat /\ m_merge_pos = SizeOf(x) + MERGE_HEADER_SIZE /\ DatagramSize(m_merge_data) = SizeOf(x)
    BY <2>1, <1>1, LoneLength
  <2>. QED BY <2>2, <1>3, <1>4, Constants
<1>5. CASE Len(m_merge_data) # 1
  <2>1. Len(m_merge_data) > 1
    <3>1. \A n \in Nat \ {0} : n # 1 => n > 1
      OBVIOUS
    <3>. QED BY <3>1, <1>2, <1>5
  <2>2. Merged.size = HEADER_SIZE + MergedLength(m_merge_data)
    BY <2>1, <1>1, <1>3
  <2>3. DatagramSize(m_merge_data) = HEADER_SIZE + MergedLength(m_merge_data)
    BY <1>5 DEF DatagramSize
  <2>. QED BY <2>2, <2>3, <1>3
<1>. QED BY <1>4, <1>5

\* Every action keeps m_merge_pos and the sizes of datagrams true.
LEMMA SizesStep ==
    ASSUME Types, SizesFit, SizesAreTrue, [Next]_vars
    PROVE  SizesAreTrue'
<1>1. SUFFICES /\ m_merge_pos' = MergedLength(m_merge_data')
               /\ \A d \in net' : d.size = DatagramSize(d.packets)
  BY DEF SizesAreTrue, DatagramSize, MergedLength, SizeOf
<1>2. m_merge_pos = MergedLength(m_merge_data) /\ \A d \in net : d.size = DatagramSize(d.packets)
  BY DEF SizesAreTrue
<1>3. m_merge_data \in Seq(Numbered) /\ m_merge_pos \in Nat
  BY DEF Types
<1>4. CASE UNCHANGED <<merging, net>>
  BY <1>2, <1>4 DEF merging
<1>5. ASSUME NEW t \in Thread, send_internal(t) \/ push(t) PROVE UNCHANGED <<merging, net>>
  BY <1>5 DEF send_internal, push
<1>6. ASSUME NEW p \in Numbered, send_user_data(p)
      PROVE  /\ m_merge_pos' = MergedLength(m_merge_data')
             /\ \A d \in net' : d.size = DatagramSize(d.packets)
  <2>1. UNCHANGED <<m_merge_data, m_merge_pos>> /\ (net' = net \/ net' = net \cup {Datagram(<<p>>, SizeOf(p))})
    BY <1>6 DEF send_user_data
  <2>2. Datagram(<<p>>, SizeOf(p)).size = DatagramSize(Datagram(<<p>>, SizeOf(p)).packets)
    BY LoneLength DEF Datagram
  <2>. QED BY <2>1, <2>2, <1>2
<1>7. ASSUME append
      PROVE  /\ m_merge_pos' = MergedLength(m_merge_data')
             /\ \A d \in net' : d.size = DatagramSize(d.packets)
  <2>1. appending \in Numbered
    BY <1>7 DEF append, Types
  <2>2. SizeOf(appending) \in Nat
    BY <2>1, LoneLength
  <2>3. CASE IsFull(appending)
    <3>1. /\ m_merge_data' = <<appending>> /\ m_merge_pos' = SizeOf(appending) + MERGE_HEADER_SIZE
          /\ net' = IF m_merge_data = <<>> THEN net ELSE net \cup {Merged}
      BY <1>7, <2>3 DEF append
    <3>2. m_merge_pos' = MergedLength(m_merge_data')
      BY <3>1, <2>1, LoneLength
    <3>3. m_merge_data # <<>> => Merged.size = DatagramSize(Merged.packets)
      BY MergedIsTrue
    <3>. QED BY <3>1, <3>2, <3>3, <1>2
  <2>4. CASE ~ IsFull(appending)
    <3>1. /\ m_merge_data' = Append(m_merge_data, appending) /\ UNCHANGED net
          /\ m_merge_pos' = m_merge_pos + SizeOf(appending) + MERGE_HEADER_SIZE
      BY <1>7, <2>4 DEF append
    <3>2. MergedLength(m_merge_data') = m_merge_pos + MERGE_HEADER_SIZE + SizeOf(appending)
      BY <3>1, <2>1, <1>2, <1>3, MergedLengthFacts
    <3>3. m_merge_pos' = MergedLength(m_merge_data')
      BY <3>1, <3>2, <2>2, <1>3, Constants
    <3>. QED BY <3>1, <3>3, <1>2
  <2>. QED BY <2>3, <2>4
<1>8. ASSUME send_merged
      PROVE  /\ m_merge_pos' = MergedLength(m_merge_data')
             /\ \A d \in net' : d.size = DatagramSize(d.packets)
  <2>1. m_merge_data # <<>> /\ net' = net \cup {Merged} /\ m_merge_data' = <<>> /\ m_merge_pos' = 0
    BY <1>8 DEF send_merged
  <2>2. Merged.size = DatagramSize(Merged.packets)
    BY <2>1, MergedIsTrue
  <2>. QED BY <2>1, <2>2, <1>2, MergedLengthFacts
<1>9. ASSUME receive_thread \/ network PROVE UNCHANGED merging /\ \A d \in net' : d \in net
  BY <1>9 DEF receive_thread, receive, discard, Lose, unpack, unpack_again, hand_over, network, lose, repeat
<1>10. ASSUME move_mtu PROVE UNCHANGED <<merging, net>>
  BY <1>10 DEF move_mtu
<1>11. ASSUME UNCHANGED vars PROVE UNCHANGED <<merging, net>>
  BY <1>11 DEF vars
<1>12. CASE receive_thread \/ network
  BY <1>9, <1>12, <1>2 DEF merging
<1>13. ASSUME NEW c \in Method, send_next(c)
       PROVE  /\ m_merge_pos' = MergedLength(m_merge_data')
              /\ \A d \in net' : d.size = DatagramSize(d.packets)
  <2>. PICK p : p = Head(m_outgoing_queue[c])
    OBVIOUS
  <2>1. p \in Numbered
    BY <1>13, TailFacts DEF send_next, Types
  <2>2. send_user_data(p)
    BY <1>13 DEF send_next
  <2>. QED BY <2>1, <2>2, <1>6
<1>14. CASE update
  BY <1>7, <1>8, <1>13, <1>14 DEF update
<1>15. ASSUME NEW p \in lost, resend(p)
       PROVE  /\ m_merge_pos' = MergedLength(m_merge_data')
              /\ \A d \in net' : d.size = DatagramSize(d.packets)
  <2>1. p \in Numbered
    BY DEF Types
  <2>. QED BY <2>1, <1>6, <1>15 DEF resend
<1>. QED BY <1>4, <1>5, <1>10, <1>11, <1>12, <1>14, <1>15 DEF Next

\* m_merge_pos is where the next packet goes, and every datagram is as long as
\* its packets and the headers of their form: send_merged takes off those of the
\* merge buffer when there is one packet, and send_user_data sends a long one
\* without them.
THEOREM DatagramSizes == Spec => []SizesAreTrue
<1>1. Init => SizesAreTrue
  BY MergedLengthFacts DEF Init, SizesAreTrue
<1>2. IInv /\ SizesAreTrue /\ [Next]_vars => SizesAreTrue'
  BY SizesStep DEF IInv
<1>. QED BY <1>1, <1>2, Invariance, PTL DEF Spec
-----------------------------------------------------------------------------
(* What the receiving end drops, and what it has not lost. *)

\* add_reliable_packet never refuses a part that the channel hands to it: the
\* parts it holds under the same fragment id are other parts of the same message.
THEOREM PartsAreTaken == Spec => []NoPartIsRefused
<1>1. IInv => NoPartIsRefused
  <2>. SUFFICES ASSUME IInv,
                       NEW p \in waiting \cup ToSet(unpacking) \cup UNION {ToSet(d.packets) : d \in net},
                       p.packet.total # 0
                PROVE  ~ IsRefused(p.packet)
    BY DEF NoPartIsRefused
  <2>1. p \in Flight
    BY DEF Flight, Left, InNet, Unpacking
  <2>2. Types /\ MessagesAreTrue /\ Flight \subseteq Numbered
    BY PlaceTypes DEF IInv
  <2>. QED BY <2>1, <2>2, EntryFacts
<1>. QED BY Invariance, <1>1, PTL

\* The safety half of EveryMessageArrives, and over any network: a message that was
\* sent on a reliable channel and has not come out has each of its packets with the
\* thread that splits it, on its way, lost and kept by its channel, or in the
\* entry of its fragment id.
THEOREM NothingIsLost == Spec => []NothingIsMissing
<1>1. IInv => NothingIsMissing
  BY DEF IInv, MessagesAreTrue
<1>. QED BY Invariance, <1>1, PTL
-----------------------------------------------------------------------------
(* What MessageDelivery means to the application at the other end. *)

\* A message that is submitted is the last of its thread: it comes before none.
LEMMA SubmitKeepsOrder ==
    ASSUME IInv, IInv', Delivery!ComesInOrder, NEW t \in Thread, Delivery!Submit(t)
    PROVE  Delivery!ComesInOrder'
<1>1. delivered' = delivered
  BY DEF Delivery!Submit
<1>2. PICK m \in Message : submitted' = [submitted EXCEPT ![t] = Append(@, m)]
  BY DEF Delivery!Submit
<1>3. submitted \in [Thread -> Seq(Message)] /\ submitted' \in [Thread -> Seq(Message)]
  BY DEF IInv, Types
<1>4. ASSUME NEW u \in Thread, NEW k \in DOMAIN submitted[u]
      PROVE  k \in DOMAIN submitted'[u] /\ submitted'[u][k] = submitted[u][k]
  <2>1. submitted[u] \in Seq(Message) /\ submitted'[u] = IF u = t THEN Append(submitted[u], m) ELSE submitted[u]
    BY <1>2, <1>3
  <2>. QED BY <2>1, AppendFacts
<1>5. ASSUME NEW u \in Thread, NEW j \in DOMAIN submitted'[u], NEW b \in DOMAIN delivered,
             delivered[b] = submitted'[u][j]
      PROVE  j \in DOMAIN submitted[u]
  <2>1. IsSent(delivered[b])
    BY DEF IInv, MessagesAreTrue, SentOnce
  <2>2. PICK v \in Thread : \E k \in DOMAIN submitted[v] : submitted[v][k] = delivered[b]
    BY <2>1 DEF IsSent
  <2>3. PICK k \in DOMAIN submitted[v] : submitted[v][k] = delivered[b]
    BY <2>2
  <2>4. k \in DOMAIN submitted'[v] /\ submitted'[v][k] = submitted'[u][j]
    BY <2>3, <1>4, <1>5
  <2>5. v = u /\ k = j
    BY <2>4 DEF IInv, MessagesAreTrue, SentOnce
  <2>. QED BY <2>5
<1>6. ASSUME NEW u \in Thread, NEW i \in DOMAIN submitted'[u], NEW j \in DOMAIN submitted'[u],
             NEW b \in DOMAIN delivered', i < j,
             {submitted'[u][i], submitted'[u][j]} \subseteq OrderedMessages, delivered'[b] = submitted'[u][j]
      PROVE  \E a \in 1 .. b - 1 : delivered'[a] = submitted'[u][i]
  <2>1. b \in DOMAIN delivered /\ delivered[b] = submitted'[u][j]
    BY <1>1, <1>6
  <2>2. j \in DOMAIN submitted[u]
    BY <2>1, <1>5
  <2>3. i \in DOMAIN submitted[u]
    <3>1. /\ DOMAIN submitted[u] = 1 .. Len(submitted[u]) /\ Len(submitted[u]) \in Nat
          /\ DOMAIN submitted'[u] = 1 .. Len(submitted'[u]) /\ Len(submitted'[u]) \in Nat
      BY <1>3, LenProperties
    <3>. QED BY <3>1, <2>2, <1>6
  <2>4. submitted'[u][i] = submitted[u][i] /\ submitted'[u][j] = submitted[u][j]
    BY <1>4, <2>2, <2>3
  <2>5. \E a \in 1 .. b - 1 : delivered[a] = submitted[u][i]
    BY <1>6, <2>1, <2>2, <2>3, <2>4 DEF Delivery!ComesInOrder, OrderedMessages
  <2>. QED BY <2>4, <2>5, <1>1
<1>. QED BY <1>6 DEF Delivery!ComesInOrder, OrderedMessages

\* A delivery is of a message that was not delivered or has no channel, and comes
\* after those it must follow.
LEMMA DeliverKeepsOrder ==
    ASSUME IInv, Delivery!ComesOnce, Delivery!ComesInOrder, NEW t \in Thread, Delivery!Deliver(t)
    PROVE  Delivery!ComesOnce' /\ Delivery!ComesInOrder'
<1>1. submitted' = submitted
  BY DEF Delivery!Deliver
<1>2. PICK k \in DOMAIN submitted[t] :
          /\ submitted[t][k] \in Delivery!Delivered => submitted[t][k] \in UnreliableMessages
          /\ submitted[t][k] \in OrderedMessages =>
                \A j \in 1 .. k - 1 : submitted[t][j] \in OrderedMessages => submitted[t][j] \in Delivery!Delivered
          /\ delivered' = Append(delivered, submitted[t][k])
  BY DEF Delivery!Deliver, OrderedMessages, UnreliableMessages
<1>. DEFINE m == submitted[t][k]
            n == Len(delivered)
<1>3. submitted[t] \in Seq(Message) /\ delivered \in Seq(Message)
  BY DEF IInv, Types
<1>4. m \in Message
  BY <1>2, <1>3, ElementOfSeq
<1>5. /\ n \in Nat /\ DOMAIN delivered = 1 .. n /\ DOMAIN delivered' = 1 .. n + 1
      /\ \A a \in 1 .. n : delivered'[a] = delivered[a]
      /\ delivered'[n + 1] = m
  BY <1>2, <1>3, <1>4, AppendFacts
<1>6. m \notin UnreliableMessages => \A a \in 1 .. n : delivered[a] # m
  BY <1>2, <1>5 DEF Delivery!Delivered
<1>7. \A x : x \in Delivery!Delivered => \E a \in 1 .. n : delivered[a] = x
  BY <1>5 DEF Delivery!Delivered
<1>. HIDE DEF m, n
<1>8. Delivery!ComesOnce'
  <2>1. ASSUME NEW a \in 1 .. n + 1, NEW b \in 1 .. n + 1, delivered'[a] = delivered'[b],
               delivered'[a] \notin UnreliableMessages
        PROVE  a = b
    <3>1. CASE a \in 1 .. n /\ b \in 1 .. n
      BY <3>1, <2>1, <1>5 DEF Delivery!ComesOnce, UnreliableMessages
    <3>2. CASE a = n + 1 /\ b \in 1 .. n
      BY <3>2, <2>1, <1>5, <1>6
    <3>3. CASE a \in 1 .. n /\ b = n + 1
      BY <3>3, <2>1, <1>5, <1>6
    <3>. QED BY <3>1, <3>2, <3>3, <1>5
  <2>. QED BY <2>1, <1>5 DEF Delivery!ComesOnce, UnreliableMessages
<1>9. ASSUME NEW u \in Thread, NEW i \in DOMAIN submitted[u], NEW j \in DOMAIN submitted[u],
             NEW b \in 1 .. n + 1, i < j,
             {submitted[u][i], submitted[u][j]} \subseteq OrderedMessages, delivered'[b] = submitted[u][j]
      PROVE  \E a \in 1 .. b - 1 : delivered'[a] = submitted[u][i]
  <2>1. CASE b \in 1 .. n
    <3>1. PICK a \in 1 .. b - 1 : delivered[a] = submitted[u][i]
      BY <2>1, <1>5, <1>9 DEF Delivery!ComesInOrder, OrderedMessages
    <3>2. a \in 1 .. n
      BY <2>1, <1>5
    <3>. QED BY <3>1, <3>2, <1>5
  <2>2. CASE b = n + 1
    <3>1. submitted[u][j] = submitted[t][k]
      BY <2>2, <1>5, <1>9 DEF m
    <3>2. u = t /\ j = k
      BY <3>1, <1>2 DEF IInv, MessagesAreTrue, SentOnce
    <3>3. i \in 1 .. k - 1
      <4>1. DOMAIN submitted[u] = 1 .. Len(submitted[u]) /\ Len(submitted[u]) \in Nat
        BY <1>3, <3>2, LenProperties
      <4>. QED BY <4>1, <3>2, <1>9
    <3>4. submitted[t][i] \in Delivery!Delivered
      BY <3>2, <3>3, <1>2, <1>9
    <3>5. PICK a \in 1 .. n : delivered[a] = submitted[u][i]
      BY <3>2, <3>4, <1>7
    <3>6. a \in 1 .. b - 1
      BY <2>2, <1>5
    <3>. QED BY <3>5, <3>6, <1>5
  <2>. QED BY <2>1, <2>2, <1>5
<1>10. Delivery!ComesInOrder'
  BY <1>1, <1>5, <1>9 DEF Delivery!ComesInOrder, OrderedMessages
<1>. QED BY <1>8, <1>10

\* No message of a reliable channel comes out twice, and before a message of the
\* ordered channel come all that its thread sent on that channel before it,
\* although threads push fragments between each other's, long packets overtake
\* merged ones, and datagrams are lost, discarded and repeated.
THEOREM ComesOnceInOrder == Spec => [](Delivery!ComesOnce /\ Delivery!ComesInOrder)
<1>1. Init => Delivery!ComesOnce /\ Delivery!ComesInOrder
  BY DEF Init, Delivery!ComesOnce, Delivery!ComesInOrder
<1>2. IInv /\ IInv' /\ Delivery!ComesOnce /\ Delivery!ComesInOrder /\ [Next]_vars
        => Delivery!ComesOnce' /\ Delivery!ComesInOrder'
  <2>1. SUFFICES ASSUME IInv, IInv', Delivery!ComesOnce, Delivery!ComesInOrder, [Next]_vars
                 PROVE  Delivery!ComesOnce' /\ Delivery!ComesInOrder'
    OBVIOUS
  <2>2. [Delivery!Next]_(Delivery!vars)
    BY <2>1, NextStep
  <2>3. ASSUME NEW t \in Thread, Delivery!Submit(t)
        PROVE  Delivery!ComesOnce' /\ Delivery!ComesInOrder'
    <3>1. delivered' = delivered
      BY <2>3 DEF Delivery!Submit
    <3>. QED BY <3>1, <2>1, <2>3, SubmitKeepsOrder DEF Delivery!ComesOnce
  <2>4. ASSUME NEW t \in Thread, Delivery!Deliver(t)
        PROVE  Delivery!ComesOnce' /\ Delivery!ComesInOrder'
    BY <2>1, <2>4, DeliverKeepsOrder
  <2>5. CASE UNCHANGED Delivery!vars
    BY <2>1, <2>5 DEF Delivery!vars, Delivery!ComesOnce, Delivery!ComesInOrder
  <2>. QED BY <2>2, <2>3, <2>4, <2>5 DEF Delivery!Next
<1>. QED BY <1>1, <1>2, Invariance, PTL DEF Spec
=============================================================================
