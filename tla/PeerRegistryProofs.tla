------------------------ MODULE PeerRegistryProofs ------------------------
(***************************************************************************)
(* That the peers of a manager are kept in order under three threads, for  *)
(* any number of addresses and peers: map, list, ids and array agree, and  *)
(* the scan, which takes no lock, misses nobody.                           *)
(*                                                                         *)
(* Peers are numbered in the order of their creation, so that "newer" is   *)
(* "greater" and NULL, which is 0, is older than every peer.               *)
(***************************************************************************)
EXTENDS PeerRegistry, FiniteSetTheorems, TLAPS

(* The list, as a fact about values: R are the registered peers, n peers   *)
(* have been created.                                                      *)

\* The link of a peer, registered or removed, leads to an older peer and past
\* no registered one; the links of the registered ones go both ways.
Chain(R, n, head, next, prev) ==
    /\ head \in R \cup {NULL}
    /\ \A r \in R : r <= head
    /\ \A p \in 1 .. n : next[p] < p /\ \A r \in R : r < p => r <= next[p]
    /\ \A p \in R : next[p] \in R \cup {NULL} /\ prev[p] \in R \cup {NULL}
    /\ \A p, q \in R : next[p] = q <=> prev[q] = p
    /\ \A p \in Peer \ R : prev[p] = NULL

\* The ids of the registered peers, those that wait in queue to be used again
\* and those from counter on are different ones; the array leads to the peers.
Numbered(R, id, queue, counter, array, size) ==
    /\ \A p \in R : id[p] < counter /\ array[id[p]] = p
    /\ \A i \in 0 .. size - 1 : array[i] # NULL => array[i] \in R /\ id[array[i]] = i
    /\ \A i \in 1 .. Len(queue) : queue[i] < counter
    /\ \A i, j \in 1 .. Len(queue) : queue[i] = queue[j] => i = j
    /\ \A i \in 1 .. Len(queue) : \A p \in R : queue[i] # id[p]
    /\ counter <= size


\* A peer is put in front of the list.
LEMMA ChainAdd ==
    ASSUME NEW R \in SUBSET Peer, NEW n \in Nat, n + 1 \in Peer, \A r \in R : r <= n,
           NEW head, NEW next \in [Peer -> Nat], NEW prev \in [Peer -> Nat],
           Chain(R, n, head, next, prev)
    PROVE  Chain(R \cup {n + 1}, n + 1, n + 1, [next EXCEPT ![n + 1] = head],
                 IF head = NULL THEN prev ELSE [prev EXCEPT ![head] = n + 1])
<1>. DEFINE x == n + 1
            next2 == [next EXCEPT ![x] = head]
            prev2 == IF head = NULL THEN prev ELSE [prev EXCEPT ![head] = x]
<1>1. x \in Peer /\ x \notin R /\ NULL \notin R /\ NULL \notin Peer /\ x # NULL /\ R \subseteq Nat
  BY DEF Peer, NULL
<1>2. /\ head \in R \cup {NULL} /\ head \in Nat /\ head < x
      /\ \A r \in R : r <= head
  BY <1>1 DEF Chain, NULL
<1>3. next2[x] = head /\ \A p \in Peer : p # x => next2[p] = next[p]
  BY <1>1
<1>4. prev2[x] = NULL
  BY <1>1, <1>2 DEF Chain
<1>5. \A p \in Peer : prev2[p] = IF p = head THEN x ELSE prev[p]
  BY <1>1, <1>2
<1>. HIDE DEF next2, prev2
<1>6. \A r \in R \cup {x} : r <= x
  BY <1>1
<1>7. \A p \in 1 .. x : next2[p] < p /\ \A r \in R \cup {x} : r < p => r <= next2[p]
  <2>. SUFFICES ASSUME NEW p \in 1 .. x PROVE next2[p] < p /\ \A r \in R \cup {x} : r < p => r <= next2[p]
    OBVIOUS
  <2>1. CASE p = x
    BY <1>1, <1>2, <1>3, <2>1
  <2>2. CASE p # x
    <3>1. p \in 1 .. n /\ p \in Peer
      <4>1. n + 1 \in 1 .. MaxPeers /\ MaxPeers \in Nat
        BY RegistryAssumption DEF Peer
      <4>2. p \in Nat /\ 1 <= p /\ p <= n
        BY <2>2
      <4>. QED BY <4>1, <4>2 DEF Peer
    <3>2. next2[p] = next[p]
      BY <1>3, <2>2, <3>1
    <3>. QED BY <1>1, <3>1, <3>2 DEF Chain
  <2>. QED BY <2>1, <2>2
<1>8. \A p \in R \cup {x} : next2[p] \in R \cup {x, NULL} /\ prev2[p] \in R \cup {x, NULL}
  BY <1>1, <1>2, <1>3, <1>4, <1>5 DEF Chain
<1>9. \A p, q \in R \cup {x} : next2[p] = q <=> prev2[q] = p
  <2>. SUFFICES ASSUME NEW p \in R \cup {x}, NEW q \in R \cup {x} PROVE next2[p] = q <=> prev2[q] = p
    OBVIOUS
  <2>1. CASE p = x
    <3>1. \A s \in R : prev[s] # x
      BY <1>1 DEF Chain
    <3>. QED BY <1>1, <1>2, <1>3, <1>4, <1>5, <2>1, <3>1
  <2>2. CASE p # x /\ q = x
    <3>1. next[p] # x
      BY <1>1, <2>2 DEF Chain
    <3>. QED BY <1>1, <1>3, <1>4, <2>2, <3>1
  <2>3. CASE p # x /\ q # x
    <3>1. p \in R /\ q \in R /\ p \in 1 .. n
      BY <1>1, <2>3 DEF Peer
    <3>2. next[p] = q <=> prev[q] = p
      BY <3>1 DEF Chain
    <3>3. next[p] # head
      <4>1. next[p] < p /\ p <= head /\ next[p] \in Nat /\ p \in Nat
        BY <1>1, <1>2, <3>1 DEF Chain
      <4>. QED BY <1>2, <4>1
    <3>. QED BY <1>1, <1>3, <1>5, <2>3, <3>1, <3>2, <3>3
  <2>. QED BY <2>1, <2>2, <2>3
<1>10. \A p \in Peer \ (R \cup {x}) : prev2[p] = NULL
  BY <1>1, <1>2, <1>5 DEF Chain
<1>11. x \in (R \cup {x}) \cup {NULL}
  OBVIOUS
<1>12. Chain(R \cup {x}, x, x, next2, prev2)
  BY <1>6, <1>7, <1>8, <1>9, <1>10, <1>11 DEF Chain
<1>. QED BY <1>12 DEF next2, prev2

\* The list without x; its own m_next_peer stays.
Without(x, head, next, prev, head2, next2, prev2) ==
    /\ head2 = IF head = x THEN next[x] ELSE head
    /\ \A p \in Peer : next2[p] = IF p = prev[x] THEN next[x] ELSE next[p]
    /\ \A p \in Peer : prev2[p] = IF p = x THEN NULL
                                 ELSE IF p = next[x] THEN prev[x] ELSE prev[p]

\* A peer is taken out of the list.
LEMMA ChainRemove ==
    ASSUME NEW n \in 0 .. MaxPeers, NEW R \in SUBSET (1 .. n),
           NEW head, NEW next \in [Peer -> Nat], NEW prev \in [Peer -> Nat],
           Chain(R, n, head, next, prev), NEW x \in R,
           NEW head2, NEW next2, NEW prev2, Without(x, head, next, prev, head2, next2, prev2)
    PROVE  Chain(R \ {x}, n, head2, next2, prev2)
<1>. DEFINE S == R \ {x}
<1>1. /\ NULL \notin R /\ R \subseteq Nat /\ R \subseteq Peer
      /\ \A r \in R : r \in 1 .. n
  <2>1. MaxPeers \in Nat
    BY RegistryAssumption
  <2>. QED BY <2>1 DEF Peer, NULL
<1>2. /\ next[x] \in S \cup {NULL} /\ next[x] < x /\ next[x] \in Nat
      /\ \A r \in S : r < x => r <= next[x]
  BY <1>1 DEF Chain, NULL
<1>3. /\ prev[x] \in R \cup {NULL}
      /\ prev[x] # NULL => next[prev[x]] = x
      /\ \A p \in R : next[p] = x => p = prev[x]
      /\ \A p \in R : prev[p] = x => p = next[x]
      /\ next[x] # NULL => prev[next[x]] = x
  BY <1>1, <1>2 DEF Chain
<1>4. prev[x] # NULL => x < prev[x]
  BY <1>1, <1>3 DEF Chain
<1>5. prev[x] \in S \cup {NULL}
  BY <1>1, <1>3, <1>4
<1>6. /\ \A p \in Peer : next2[p] = IF p = prev[x] THEN next[x] ELSE next[p]
      /\ \A p \in Peer : prev2[p] = IF p = x THEN NULL
                                    ELSE IF p = next[x] THEN prev[x] ELSE prev[p]
      /\ head2 = IF head = x THEN next[x] ELSE head
  BY DEF Without
<1>7. head2 \in S \cup {NULL} /\ \A r \in S : r <= head2
  <2>1. head \in R \cup {NULL} /\ \A r \in R : r <= head
    BY DEF Chain
  <2>2. CASE head = x
    BY <1>1, <1>2, <1>6, <2>1, <2>2
  <2>3. CASE head # x
    BY <1>1, <1>6, <2>1, <2>3
  <2>. QED BY <2>2, <2>3
<1>8. \A p \in 1 .. n : next2[p] < p /\ \A r \in S : r < p => r <= next2[p]
  <2>. SUFFICES ASSUME NEW p \in 1 .. n
                PROVE  next2[p] < p /\ \A r \in S : r < p => r <= next2[p]
    OBVIOUS
  <2>1. next[p] < p /\ \A r \in R : r < p => r <= next[p]
    BY DEF Chain
  <2>0. p \in Peer
    BY RegistryAssumption DEF Peer
  <2>2. CASE p = prev[x]
    <3>1. next2[p] = next[x]
      BY <1>6, <2>0, <2>2
    <3>2. p # NULL
      BY DEF NULL
    <3>3. next[p] = x
      BY <1>3, <2>2, <3>2
    <3>4. next[x] < p
      BY <1>1, <1>2, <2>1, <3>3
    <3>5. ASSUME NEW r \in S, r < p PROVE r <= next[x]
      <4>1. r <= x /\ r # x /\ r \in Nat /\ x \in Nat
        BY <1>1, <2>1, <3>3, <3>5
      <4>. QED BY <1>2, <4>1
    <3>. QED BY <3>1, <3>4, <3>5
  <2>3. CASE p # prev[x]
    BY <1>6, <2>0, <2>1, <2>3
  <2>. QED BY <2>2, <2>3
<1>9. \A p \in S : next2[p] \in S \cup {NULL} /\ prev2[p] \in S \cup {NULL}
  <2>1. \A p \in R : next[p] \in R \cup {NULL} /\ prev[p] \in R \cup {NULL}
    BY DEF Chain
  <2>. QED BY <1>1, <1>2, <1>3, <1>5, <1>6, <2>1
<1>10. \A p, q \in S : next2[p] = q <=> prev2[q] = p
  <2>. SUFFICES ASSUME NEW p \in S, NEW q \in S PROVE next2[p] = q <=> prev2[q] = p
    OBVIOUS
  <2>1. p \in R /\ q \in R /\ p # x /\ q # x /\ p \in Peer /\ q \in Peer /\ p # NULL /\ q # NULL
    BY <1>1
  <2>2. next[p] = q <=> prev[q] = p
    BY <2>1 DEF Chain
  <2>3. next2[p] = (IF p = prev[x] THEN next[x] ELSE next[p])
        /\ prev2[q] = (IF q = next[x] THEN prev[x] ELSE prev[q])
    BY <1>6, <2>1
  <2>. QED BY <1>3, <2>1, <2>2, <2>3
<1>11. \A p \in Peer \ S : prev2[p] = NULL
  <2>1. \A p \in Peer \ R : prev[p] = NULL
    BY DEF Chain
  <2>2. \A p \in Peer \ S : p = x \/ (p \in Peer \ R /\ p # next[x])
    BY <1>1, <1>2 DEF Peer, NULL
  <2>. QED BY <1>6, <2>1, <2>2
<1>. QED
  BY <1>7, <1>8, <1>9, <1>10, <1>11 DEF Chain, S

\* A peer gets a new id, or one that waits to be used again.
LEMMA NumberedAdd ==
    ASSUME NEW R \in SUBSET Peer, NEW p \in Peer, p \notin R, NEW id \in [Peer -> Nat],
           NEW queue \in Seq(Nat), NEW counter \in Nat, NEW size \in Nat, NEW array,
           Numbered(R, id, queue, counter, array, size),
           NEW k \in Nat, NEW queue2, NEW counter2, NEW size2 \in Nat, size <= size2, k < size2,
           NEW array2 \in [0 .. size2 - 1 -> {NULL} \cup Peer],
           \A i \in 0 .. size2 - 1 : array2[i] = IF i < size THEN array[i] ELSE NULL,
           \/ queue # <<>> /\ k = Head(queue) /\ queue2 = Tail(queue) /\ counter2 = counter
           \/ queue = <<>> /\ k = counter /\ queue2 = queue /\ counter2 = counter + 1
    PROVE  Numbered(R \cup {p}, [id EXCEPT ![p] = k], queue2, counter2,
                    [array2 EXCEPT ![k] = p], size2)
<1>. DEFINE id3 == [id EXCEPT ![p] = k]
            array3 == [array2 EXCEPT ![k] = p]
<1>1. /\ \A q \in R : id[q] \in Nat /\ id[q] < counter /\ array[id[q]] = q
      /\ \A i \in 0 .. size - 1 : array[i] # NULL => array[i] \in R /\ id[array[i]] = i
      /\ \A i \in 1 .. Len(queue) : queue[i] \in Nat /\ queue[i] < counter
      /\ \A i, j \in 1 .. Len(queue) : queue[i] = queue[j] => i = j
      /\ \A i \in 1 .. Len(queue) : \A q \in R : queue[i] # id[q]
      /\ counter <= size
  BY DEF Numbered
<1>2. /\ k < counter2 /\ counter <= counter2 /\ counter2 <= size2 /\ counter2 \in Nat
      /\ \A q \in R : id[q] # k
      /\ \A i \in 1 .. Len(queue2) : queue2[i] # k
      /\ \A i \in 1 .. Len(queue2) : \E j \in 1 .. Len(queue) : queue2[i] = queue[j]
      /\ \A i, j \in 1 .. Len(queue2) : queue2[i] = queue2[j] => i = j
  <2>1. CASE queue # <<>> /\ k = Head(queue) /\ queue2 = Tail(queue) /\ counter2 = counter
    <3>1. Len(queue) \in Nat \ {0} /\ k = queue[1] /\ 1 \in 1 .. Len(queue)
      BY <2>1
    <3>2. /\ Len(queue2) = Len(queue) - 1
          /\ \A i \in 1 .. Len(queue2) : i + 1 \in 1 .. Len(queue) /\ queue2[i] = queue[i + 1]
      BY <2>1, <3>1
    <3>3. k < counter2 /\ counter2 <= size2 /\ counter <= counter2 /\ counter2 \in Nat
      BY <1>1, <2>1, <3>1
    <3>4. \A q \in R : id[q] # k
      BY <1>1, <3>1
    <3>5. ASSUME NEW i \in 1 .. Len(queue2) PROVE queue2[i] # k
      <4>1. i + 1 \in 1 .. Len(queue) /\ i + 1 # 1 /\ queue2[i] = queue[i + 1]
        BY <3>2
      <4>2. queue[i + 1] # queue[1]
        BY <1>1, <3>1, <4>1
      <4>. QED BY <3>1, <4>1, <4>2
    <3>6. \A i \in 1 .. Len(queue2) : \E j \in 1 .. Len(queue) : queue2[i] = queue[j]
      BY <3>2
    <3>7. ASSUME NEW i \in 1 .. Len(queue2), NEW j \in 1 .. Len(queue2), queue2[i] = queue2[j]
          PROVE  i = j
      <4>1. /\ i + 1 \in 1 .. Len(queue) /\ queue2[i] = queue[i + 1]
            /\ j + 1 \in 1 .. Len(queue) /\ queue2[j] = queue[j + 1]
        BY <3>2
      <4>2. i + 1 = j + 1
        BY <1>1, <3>7, <4>1
      <4>. QED BY <4>2
    <3>. QED BY <3>3, <3>4, <3>5, <3>6, <3>7
  <2>2. CASE queue = <<>> /\ k = counter /\ queue2 = queue /\ counter2 = counter + 1
    BY <1>1, <2>2
  <2>. QED BY <2>1, <2>2
<1>3. /\ id3[p] = k /\ \A q \in R : q # p /\ id3[q] = id[q]
      /\ array3[k] = p /\ \A i \in 0 .. size2 - 1 : i # k => array3[i] = array2[i]
  <2>1. k \in 0 .. size2 - 1
    OBVIOUS
  <2>. QED BY <2>1
<1>4. \A i \in 0 .. size2 - 1 : array2[i] # NULL => array2[i] \in R /\ id[array2[i]] = i
  BY <1>1
<1>5. \A q \in R : id[q] \in 0 .. size2 - 1 /\ array2[id[q]] = q
  BY <1>1
<1>. HIDE DEF id3, array3
<1>6. \A q \in R \cup {p} : id3[q] < counter2 /\ array3[id3[q]] = q
  BY <1>1, <1>2, <1>3, <1>5
<1>7. \A i \in 0 .. size2 - 1 : array3[i] # NULL => array3[i] \in R \cup {p} /\ id3[array3[i]] = i
  BY <1>2, <1>3, <1>4
<1>8. \A i \in 1 .. Len(queue2) : queue2[i] < counter2
  BY <1>1, <1>2
<1>9. \A i \in 1 .. Len(queue2) : \A q \in R \cup {p} : queue2[i] # id3[q]
  BY <1>1, <1>2, <1>3
<1>10. Numbered(R \cup {p}, id3, queue2, counter2, array3, size2)
  BY <1>2, <1>6, <1>7, <1>8, <1>9 DEF Numbered
<1>. QED BY <1>10 DEF id3, array3

\* The id of a peer that is removed waits to be used again.
LEMMA NumberedRemove ==
    ASSUME NEW R \in SUBSET Peer, NEW x \in R, NEW id \in [Peer -> Nat],
           NEW queue \in Seq(Nat), NEW counter \in Nat, NEW size \in Nat,
           NEW array \in [0 .. size - 1 -> {NULL} \cup Peer],
           Numbered(R, id, queue, counter, array, size)
    PROVE  Numbered(R \ {x}, id, Append(queue, id[x]), counter,
                    [array EXCEPT ![id[x]] = NULL], size)
<1>. DEFINE queue2 == Append(queue, id[x])
            array2 == [array EXCEPT ![id[x]] = NULL]
<1>1. /\ \A q \in R : id[q] \in Nat /\ id[q] < counter /\ array[id[q]] = q
      /\ \A i \in 0 .. size - 1 : array[i] # NULL => array[i] \in R /\ id[array[i]] = i
      /\ \A i \in 1 .. Len(queue) : queue[i] \in Nat /\ queue[i] < counter
      /\ \A i, j \in 1 .. Len(queue) : queue[i] = queue[j] => i = j
      /\ \A i \in 1 .. Len(queue) : \A q \in R : queue[i] # id[q]
      /\ counter <= size
  BY DEF Numbered
<1>2. /\ Len(queue) \in Nat /\ Len(queue2) = Len(queue) + 1
      /\ \A i \in 1 .. Len(queue) : queue2[i] = queue[i]
      /\ queue2[Len(queue) + 1] = id[x]
      /\ \A i \in 1 .. Len(queue2) : i \in 1 .. Len(queue) \/ i = Len(queue) + 1
  BY <1>1
<1>3. id[x] \in 0 .. size - 1
  BY <1>1
<1>4. array2[id[x]] = NULL /\ \A i \in 0 .. size - 1 : i # id[x] => array2[i] = array[i]
  BY <1>3
<1>5. \A q \in R : q # x => id[q] # id[x] /\ id[q] \in 0 .. size - 1
  BY <1>1
<1>. HIDE DEF queue2, array2
<1>6. \A q \in R \ {x} : id[q] < counter /\ array2[id[q]] = q
  BY <1>1, <1>4, <1>5
<1>7. \A i \in 0 .. size - 1 : array2[i] # NULL => array2[i] \in R \ {x} /\ id[array2[i]] = i
  BY <1>1, <1>4
<1>8. \A i \in 1 .. Len(queue2) : queue2[i] < counter
  BY <1>1, <1>2
<1>9. \A i, j \in 1 .. Len(queue2) : queue2[i] = queue2[j] => i = j
  BY <1>1, <1>2
<1>10. \A i \in 1 .. Len(queue2) : \A q \in R \ {x} : queue2[i] # id[q]
  BY <1>1, <1>2, <1>5
<1>. QED BY <1>1, <1>6, <1>7, <1>8, <1>9, <1>10 DEF Numbered, queue2, array2

(* The invariant. *)

Size == Cardinality(DOMAIN m_peers_array)

\* The peer at an address was created for it.
MapIsSound ==
    /\ \A a \in Address : m_peers[a] # NULL => m_peers[a] <= created /\ m_endpoint[m_peers[a]] = a
    /\ \A p \in 1 .. created : m_endpoint[p] \in Address

ListIsSound == Chain(Registered, created, m_head_peer, m_next_peer, m_prev_peer)

IdsAreSound ==
    /\ Numbered(Registered, m_id, m_peer_ids, m_peer_id_counter, m_peers_array, Size)
    /\ m_peer_id_counter <= created

\* Between the two steps of connect the mutex is held and the address is free.
ConnectHolds == app.at = "add" => owner = "app" /\ m_peers[app.address] = NULL

\* What the scan still has to visit is not newer than where it stands.
ScanIsSound ==
    /\ \A p \in logic.owed : p <= created
    /\ logic.netPeer <= created
    /\ logic.at = "scan" => \A p \in logic.owed \cap Registered : p <= logic.netPeer
    /\ logic.at \in {"timeout", "next"} =>
          /\ logic.netPeer # NULL
          /\ \A p \in logic.owed \cap Registered : p < logic.netPeer

IInv == TypeOK /\ MapIsSound /\ ListIsSound /\ IdsAreSound /\ ConnectHolds /\ ScanIsSound

\* What the types say of the lists and the ids.
LEMMA Bounds ==
    ASSUME TypeOK, MapIsSound
    PROVE  /\ NULL = 0 /\ NULL \notin Peer /\ Peer \subseteq Nat /\ created \in Nat
           /\ MaxPeers \in Nat /\ 1 .. created \subseteq Peer
           /\ Registered \subseteq Peer /\ \A p \in Registered : p <= created
           /\ m_next_peer \in [Peer -> Nat] /\ m_prev_peer \in [Peer -> Nat]
<1>1. NULL = 0 /\ NULL \notin Peer /\ Peer \subseteq Nat /\ MaxPeers \in Nat
  BY RegistryAssumption DEF NULL, Peer
<1>2. created \in 0 .. MaxPeers
  BY DEF TypeOK
<1>3. 1 .. created \subseteq Peer
  BY <1>1, <1>2 DEF Peer
<1>4. Registered \subseteq Peer /\ \A p \in Registered : p <= created
  BY DEF TypeOK, MapIsSound, Registered
<1>5. m_next_peer \in [Peer -> Nat] /\ m_prev_peer \in [Peer -> Nat]
  <2>1. {NULL} \cup Peer \subseteq Nat
    BY <1>1
  <2>. QED BY <2>1 DEF TypeOK
<1>. QED BY <1>1, <1>2, <1>3, <1>4, <1>5

\* The number of places of an array.
LEMMA PlacesOf ==
    ASSUME NEW n \in Nat, NEW S, NEW array \in [0 .. n - 1 -> S]
    PROVE  Cardinality(DOMAIN array) = n
<1>1. DOMAIN array = 0 .. n - 1
  OBVIOUS
<1>2. Cardinality(0 .. n - 1) = IF 0 > n - 1 THEN 0 ELSE n - 1 - 0 + 1
  BY FS_Interval
<1>. QED BY <1>1, <1>2

\* The array has Size places.
LEMMA ArrayHasSize ==
    ASSUME TypeOK
    PROVE  /\ Size \in Nat /\ Size >= ArraySize /\ Size <= ArraySize + 2 * MaxPeers
           /\ m_peers_array \in [0 .. Size - 1 -> {NULL} \cup Peer]
<1>1. PICK n \in ArraySize .. ArraySize + 2 * MaxPeers :
         m_peers_array \in [0 .. n - 1 -> {NULL} \cup Peer]
  BY DEF TypeOK
<1>2. n \in Nat /\ ArraySize \in Nat /\ MaxPeers \in Nat
  BY RegistryAssumption
<1>3. Size = n
  BY <1>1, <1>2, PlacesOf DEF Size
<1>. QED BY <1>1, <1>2, <1>3

\* One doubling is enough, because ids are given out one by one.
LEMMA GrownFits ==
    ASSUME TypeOK, NEW k \in 0 .. Size, k < MaxPeers
    PROVE  \E m \in ArraySize .. ArraySize + 2 * MaxPeers :
              /\ Size <= m /\ k < m
              /\ Grown(k) \in [0 .. m - 1 -> {NULL} \cup Peer]
              /\ \A i \in 0 .. m - 1 : Grown(k)[i] = IF i < Size THEN m_peers_array[i] ELSE NULL
<1>1. /\ Size \in Nat \ {0} /\ Size >= ArraySize /\ Size <= ArraySize + 2 * MaxPeers
      /\ m_peers_array \in [0 .. Size - 1 -> {NULL} \cup Peer]
      /\ ArraySize \in Nat \ {0} /\ MaxPeers \in Nat /\ k \in Nat
  BY ArrayHasSize, RegistryAssumption
<1>2. CASE k < Size
  <2>1. Grown(k) = m_peers_array
    BY <1>2 DEF Grown, Size
  <2>. QED BY <1>1, <1>2, <2>1
<1>3. CASE ~(k < Size)
  <2>1. k = Size
    BY <1>1, <1>3
  <2>. DEFINE IsDoubled(n) == \E j \in 1 .. k : n = Size * 2^j
              m == CHOOSE n \in k + 1 .. 2 * k : IsDoubled(n)
  <2>2. 2 * k \in k + 1 .. 2 * k /\ IsDoubled(2 * k)
    <3>1. 1 \in 1 .. k /\ 2 * k \in k + 1 .. 2 * k
      BY <1>1, <2>1
    <3>2. 2 * k = Size * 2^1
      BY <1>1, <2>1
    <3>. QED BY <3>1, <3>2
  <2>3. m \in k + 1 .. 2 * k
    <3>. HIDE DEF IsDoubled
    <3>. QED BY <2>2
  <2>4. Grown(k) = [i \in 0 .. m - 1 |-> IF i < Size THEN m_peers_array[i] ELSE NULL]
    BY <1>3 DEF Grown, Size
  <2>. HIDE DEF m
  <2>5. m \in Nat /\ Size <= m /\ k < m /\ m \in ArraySize .. ArraySize + 2 * MaxPeers
    BY <1>1, <2>1, <2>3
  <2>6. Grown(k) \in [0 .. m - 1 -> {NULL} \cup Peer]
    <3>1. ASSUME NEW i \in 0 .. m - 1
          PROVE  (IF i < Size THEN m_peers_array[i] ELSE NULL) \in {NULL} \cup Peer
      BY <1>1, <2>5
    <3>. QED BY <2>4, <3>1
  <2>. QED BY <2>4, <2>5, <2>6
<1>. QED BY <1>2, <1>3

\* The types of what the mutex protects, and of the rest.
RegistryTypes ==
    /\ m_peers \in [Address -> {NULL} \cup Peer]
    /\ m_head_peer \in {NULL} \cup Peer
    /\ m_next_peer \in [Peer -> {NULL} \cup Peer]
    /\ m_prev_peer \in [Peer -> {NULL} \cup Peer]
    /\ created \in 0 .. MaxPeers
    /\ m_endpoint \in [Peer -> Address \cup {NoAddress}]
    /\ m_id \in [Peer -> Nat]
    /\ m_peer_ids \in Seq(Nat)
    /\ m_peer_id_counter \in Nat
    /\ \E n \in ArraySize .. ArraySize + 2 * MaxPeers :
          m_peers_array \in [0 .. n - 1 -> {NULL} \cup Peer]

ThreadTypes ==
    /\ m_connection_requests \in SUBSET Address
    /\ owner \in {"none", "app", "logic"}
    /\ app \in {Idle} \cup [at : {"connect", "add", "erase"}, address : Address]
    /\ receiver \in {Idle} \cup [at : {"disconnect", "replace", "remove", "request"}, address : Address]
    /\ logic \in [at : {"sleep", "scan", "timeout", "next"}, netPeer : {NULL} \cup Peer,
                  peersToRemove : Seq(Address), owed : SUBSET Peer]

StateType == m_connection_state \in [Peer -> State]

\* Together they are TypeOK.
LEMMA TypesSplit == TypeOK <=> RegistryTypes /\ StateType /\ ThreadTypes
BY DEF TypeOK, RegistryTypes, StateType, ThreadTypes

RegistryIsSound == RegistryTypes /\ MapIsSound /\ ListIsSound /\ IdsAreSound

\* The id of the next peer has a place in the array, or is the first that has none.
LEMMA NextIdFits ==
    ASSUME TypeOK, MapIsSound, IdsAreSound, created < MaxPeers
    PROVE  NextId \in 0 .. Size /\ NextId < MaxPeers
<1>1. /\ created \in Nat /\ MaxPeers \in Nat /\ m_peer_id_counter \in Nat /\ Size \in Nat
      /\ m_peer_ids \in Seq(Nat)
  BY Bounds, ArrayHasSize DEF TypeOK
<1>2. /\ m_peer_id_counter <= created /\ m_peer_id_counter <= Size
      /\ \A i \in 1 .. Len(m_peer_ids) : m_peer_ids[i] < m_peer_id_counter
  BY DEF IdsAreSound, Numbered
<1>3. CASE m_peer_ids # <<>>
  <2>1. 1 \in 1 .. Len(m_peer_ids) /\ Head(m_peer_ids) = m_peer_ids[1] /\ m_peer_ids[1] \in Nat
    BY <1>1, <1>3
  <2>. QED BY <1>1, <1>2, <1>3, <2>1 DEF NextId
<1>4. CASE m_peer_ids = <<>>
  BY <1>1, <1>2, <1>4 DEF NextId
<1>. QED BY <1>3, <1>4

\* add_peer keeps map, list, ids and array sound, at an address without a peer.
LEMMA AddKeeps ==
    ASSUME TypeOK, MapIsSound, ListIsSound, IdsAreSound,
           NEW address \in Address, NEW state \in State, m_peers[address] = NULL,
           add_peer(address, state)
    PROVE  /\ RegistryIsSound' /\ StateType'
           /\ created' = created + 1
           /\ Registered' = Registered \cup {created + 1}
<1>. DEFINE peer == created + 1
            k == NextId
<1>1. /\ NULL = 0 /\ NULL \notin Peer /\ Peer \subseteq Nat /\ created \in Nat
      /\ MaxPeers \in Nat /\ 1 .. created \subseteq Peer
      /\ Registered \subseteq Peer /\ \A p \in Registered : p <= created
      /\ m_next_peer \in [Peer -> Nat] /\ m_prev_peer \in [Peer -> Nat]
  BY Bounds
<1>2. created < MaxPeers /\ created' = peer /\ peer \in 0 .. MaxPeers
  BY <1>1 DEF add_peer
<1>3. peer \in Peer /\ peer \notin Registered /\ peer # NULL /\ peer \in Nat
  BY <1>1, <1>2 DEF Peer
<1>4. /\ k \in 0 .. Size /\ k < MaxPeers /\ k \in Nat /\ Size \in Nat
      /\ m_peers_array \in [0 .. Size - 1 -> {NULL} \cup Peer]
  BY <1>2, NextIdFits, ArrayHasSize
<1>5. PICK m \in ArraySize .. ArraySize + 2 * MaxPeers :
         /\ Size <= m /\ k < m
         /\ Grown(k) \in [0 .. m - 1 -> {NULL} \cup Peer]
         /\ \A i \in 0 .. m - 1 : Grown(k)[i] = IF i < Size THEN m_peers_array[i] ELSE NULL
  BY <1>4, GrownFits
<1>6. m \in Nat
  BY <1>1, RegistryAssumption
<1>7. /\ m_endpoint' = [m_endpoint EXCEPT ![peer] = address]
      /\ m_id' = [m_id EXCEPT ![peer] = k]
      /\ m_connection_state' = [m_connection_state EXCEPT ![peer] = state]
      /\ m_next_peer' = [m_next_peer EXCEPT ![peer] = m_head_peer]
      /\ m_prev_peer' = IF m_head_peer = NULL THEN m_prev_peer
                        ELSE [m_prev_peer EXCEPT ![m_head_peer] = peer]
      /\ m_head_peer' = peer
      /\ m_peers' = [m_peers EXCEPT ![address] = peer]
      /\ m_peers_array' = [Grown(k) EXCEPT ![k] = peer]
      /\ m_peer_ids' = IF m_peer_ids # <<>> THEN Tail(m_peer_ids) ELSE m_peer_ids
      /\ m_peer_id_counter' = IF m_peer_ids # <<>> THEN m_peer_id_counter
                              ELSE m_peer_id_counter + 1
  BY DEF add_peer, NextOfNew, IdsLeft
<1>. HIDE DEF k
<1>8. m_peers_array' \in [0 .. m - 1 -> {NULL} \cup Peer]
  BY <1>3, <1>5, <1>7
<1>9. Size' = m
  BY <1>6, <1>8, PlacesOf DEF Size
<1>10. RegistryTypes'
  <2>1. m_peers' \in [Address -> {NULL} \cup Peer] /\ m_head_peer' \in {NULL} \cup Peer
    BY <1>3, <1>7 DEF TypeOK
  <2>2. /\ m_next_peer' \in [Peer -> {NULL} \cup Peer]
        /\ m_prev_peer' \in [Peer -> {NULL} \cup Peer]
    BY <1>3, <1>7 DEF TypeOK
  <2>3. m_endpoint' \in [Peer -> Address \cup {NoAddress}] /\ m_id' \in [Peer -> Nat]
    BY <1>3, <1>4, <1>7 DEF TypeOK
  <2>4. m_peer_ids' \in Seq(Nat) /\ m_peer_id_counter' \in Nat
    BY <1>7 DEF TypeOK
  <2>. QED BY <1>2, <1>5, <1>8, <2>1, <2>2, <2>3, <2>4 DEF RegistryTypes
<1>11. StateType'
  BY <1>3, <1>7 DEF StateType, TypeOK
<1>12. Registered' = Registered \cup {peer}
  <2>1. /\ m_peers'[address] = peer
        /\ \A a \in Address : a # address => m_peers'[a] = m_peers[a]
    BY <1>7 DEF TypeOK
  <2>2. Registered' = {m_peers'[a] : a \in Address} \ {NULL}
    BY DEF Registered
  <2>. QED BY <1>3, <2>1, <2>2 DEF Registered
<1>13. MapIsSound'
  <2>1. ASSUME NEW a \in Address, m_peers'[a] # NULL
        PROVE  m_peers'[a] <= peer /\ m_endpoint'[m_peers'[a]] = a
    <3>1. CASE a = address
      BY <1>3, <1>7, <3>1 DEF TypeOK
    <3>2. CASE a # address
      <4>1. m_peers'[a] = m_peers[a]
        BY <1>7, <3>2 DEF TypeOK
      <4>2. m_peers[a] \in Registered
        BY <2>1, <4>1 DEF Registered
      <4>3. m_peers[a] <= created /\ m_endpoint[m_peers[a]] = a
        BY <2>1, <4>1 DEF MapIsSound
      <4>4. m_peers[a] \in Peer /\ m_peers[a] # peer
        BY <1>1, <1>3, <4>2
      <4>5. m_endpoint'[m_peers[a]] = m_endpoint[m_peers[a]]
        BY <1>3, <1>7, <4>4 DEF TypeOK
      <4>6. m_peers[a] <= peer
        <5>1. m_peers[a] \in Nat /\ created \in Nat
          BY <1>1, <4>4
        <5>. QED BY <4>3, <5>1
      <4>. QED BY <4>1, <4>3, <4>5, <4>6
    <3>. QED BY <3>1, <3>2
  <2>2. ASSUME NEW p \in 1 .. peer PROVE m_endpoint'[p] \in Address
    <3>1. CASE p = peer
      BY <1>3, <1>7, <3>1 DEF TypeOK
    <3>2. CASE p # peer
      <4>1. p \in 1 .. created
        BY <1>1, <3>2
      <4>. QED BY <1>1, <1>3, <1>7, <3>2, <4>1 DEF TypeOK, MapIsSound
    <3>. QED BY <3>1, <3>2
  <2>. QED BY <1>2, <2>1, <2>2 DEF MapIsSound
<1>14. ListIsSound'
  <2>1. Chain(Registered, created, m_head_peer, m_next_peer, m_prev_peer)
    BY DEF ListIsSound
  <2>2. Chain(Registered \cup {created + 1}, created + 1, created + 1,
              [m_next_peer EXCEPT ![created + 1] = m_head_peer],
              IF m_head_peer = NULL THEN m_prev_peer
              ELSE [m_prev_peer EXCEPT ![m_head_peer] = created + 1])
    BY <1>1, <1>3, <2>1, ChainAdd
  <2>. QED BY <1>2, <1>7, <1>12, <2>2 DEF ListIsSound
<1>15. IdsAreSound'
  <2>1. Numbered(Registered, m_id, m_peer_ids, m_peer_id_counter, m_peers_array, Size)
    BY DEF IdsAreSound
  <2>2. /\ m_id \in [Peer -> Nat] /\ m_peer_ids \in Seq(Nat) /\ m_peer_id_counter \in Nat
    BY DEF TypeOK
  <2>3. \/ /\ m_peer_ids # <<>> /\ k = Head(m_peer_ids) /\ m_peer_ids' = Tail(m_peer_ids)
           /\ m_peer_id_counter' = m_peer_id_counter
        \/ /\ m_peer_ids = <<>> /\ k = m_peer_id_counter /\ m_peer_ids' = m_peer_ids
           /\ m_peer_id_counter' = m_peer_id_counter + 1
    BY <1>7 DEF k, NextId
  <2>4. Numbered(Registered \cup {peer}, [m_id EXCEPT ![peer] = k], m_peer_ids',
                 m_peer_id_counter', [Grown(k) EXCEPT ![k] = peer], m)
    BY <1>1, <1>3, <1>4, <1>5, <1>6, <2>1, <2>2, <2>3, NumberedAdd
  <2>5. Numbered(Registered, m_id, m_peer_ids, m_peer_id_counter, m_peers_array, Size)'
    BY <1>7, <1>9, <1>12, <2>4
  <2>6. m_peer_id_counter' <= created'
    BY <1>1, <1>2, <2>2, <2>3 DEF IdsAreSound
  <2>. QED BY <2>5, <2>6 DEF IdsAreSound
<1>. QED BY <1>2, <1>10, <1>11, <1>12, <1>13, <1>14, <1>15 DEF RegistryIsSound

\* remove_peer_internal keeps them sound, at an address with a peer or without.
LEMMA RemoveKeeps ==
    ASSUME TypeOK, MapIsSound, ListIsSound, IdsAreSound,
           NEW address \in Address, remove_peer_internal(address), UNCHANGED fields
    PROVE  /\ RegistryIsSound'
           /\ Registered' \subseteq Registered
           /\ m_peers'[address] = NULL
<1>. DEFINE peer == m_peers[address]
<1>1. /\ NULL = 0 /\ NULL \notin Peer /\ Peer \subseteq Nat /\ created \in Nat
      /\ MaxPeers \in Nat /\ 1 .. created \subseteq Peer
      /\ Registered \subseteq Peer /\ \A p \in Registered : p <= created
      /\ m_next_peer \in [Peer -> Nat] /\ m_prev_peer \in [Peer -> Nat]
  BY Bounds
<1>2. UNCHANGED <<created, m_endpoint, m_id>>
  BY DEF fields
<1>3. CASE peer = NULL
  <2>1. UNCHANGED <<m_peers, m_head_peer, m_next_peer, m_prev_peer, m_peer_ids,
                    m_peer_id_counter, m_peers_array>>
    BY <1>3 DEF remove_peer_internal, links, ids
  <2>2. Registered' = Registered /\ Size' = Size
    BY <2>1 DEF Registered, Size
  <2>3. RegistryTypes'
    BY <1>2, <2>1 DEF TypeOK, RegistryTypes
  <2>4. MapIsSound' /\ ListIsSound' /\ IdsAreSound'
    BY <1>2, <2>1, <2>2 DEF MapIsSound, ListIsSound, IdsAreSound
  <2>. QED BY <1>3, <2>1, <2>2, <2>3, <2>4 DEF RegistryIsSound
<1>4. CASE peer # NULL
  <2>1. peer \in Registered /\ peer \in Peer
    BY <1>1, <1>4 DEF Registered
  <2>2. /\ m_peers' = [m_peers EXCEPT ![address] = NULL]
        /\ m_head_peer' = IF m_head_peer = peer THEN m_next_peer[peer] ELSE m_head_peer
        /\ m_next_peer' = [p \in Peer |-> IF p = m_prev_peer[peer] THEN m_next_peer[peer]
                                          ELSE m_next_peer[p]]
        /\ m_prev_peer' = [p \in Peer |-> IF p = peer THEN NULL
                                          ELSE IF p = m_next_peer[peer] THEN m_prev_peer[peer]
                                          ELSE m_prev_peer[p]]
        /\ m_peers_array' = [m_peers_array EXCEPT ![m_id[peer]] = NULL]
        /\ m_peer_ids' = Append(m_peer_ids, m_id[peer])
        /\ m_peer_id_counter' = m_peer_id_counter
    BY <1>4 DEF remove_peer_internal, NextLinks, PrevLinks
  <2>3. /\ m_peers'[address] = NULL
        /\ \A a \in Address : a # address => m_peers'[a] = m_peers[a] /\ m_peers[a] # peer
    <3>1. \A a \in Address : m_peers[a] = peer => a = address
      BY <1>4 DEF MapIsSound
    <3>. QED BY <2>2, <3>1 DEF TypeOK
  <2>4. Registered' = Registered \ {peer}
    <3>1. Registered' = {m_peers'[a] : a \in Address} \ {NULL}
      BY DEF Registered
    <3>. QED BY <2>3, <3>1 DEF Registered
  <2>5. /\ Size \in Nat /\ m_peers_array \in [0 .. Size - 1 -> {NULL} \cup Peer]
        /\ Size \in ArraySize .. ArraySize + 2 * MaxPeers
    BY ArrayHasSize, RegistryAssumption
  <2>6. m_peers_array' \in [0 .. Size - 1 -> {NULL} \cup Peer]
    BY <2>2, <2>5
  <2>7. Size' = Size
    BY <2>5, <2>6, PlacesOf DEF Size
  <2>8. /\ m_next_peer[peer] \in {NULL} \cup Peer /\ m_prev_peer[peer] \in {NULL} \cup Peer
        /\ m_id[peer] \in Nat
    BY <2>1 DEF TypeOK
  <2>9. RegistryTypes'
    <3>1. m_peers' \in [Address -> {NULL} \cup Peer] /\ m_head_peer' \in {NULL} \cup Peer
      BY <2>2, <2>8 DEF TypeOK
    <3>2. /\ m_next_peer' \in [Peer -> {NULL} \cup Peer]
          /\ m_prev_peer' \in [Peer -> {NULL} \cup Peer]
      BY <2>2, <2>8 DEF TypeOK
    <3>3. m_peer_ids' \in Seq(Nat) /\ m_peer_id_counter' \in Nat
      BY <2>2, <2>8 DEF TypeOK
    <3>4. /\ created' \in 0 .. MaxPeers
          /\ m_endpoint' \in [Peer -> Address \cup {NoAddress}] /\ m_id' \in [Peer -> Nat]
      BY <1>2 DEF TypeOK
    <3>. QED BY <2>5, <2>6, <3>1, <3>2, <3>3, <3>4 DEF RegistryTypes
  <2>10. MapIsSound'
    BY <1>2, <2>3 DEF MapIsSound
  <2>11. ListIsSound'
    <3>1. Chain(Registered, created, m_head_peer, m_next_peer, m_prev_peer) /\ created \in 0 .. MaxPeers
      BY DEF ListIsSound, TypeOK
    <3>2. Registered \in SUBSET (1 .. created)
      BY <1>1 DEF Peer
    <3>3. Chain(Registered \ {peer}, created, m_head_peer', m_next_peer', m_prev_peer')
      <4>1. Without(peer, m_head_peer, m_next_peer, m_prev_peer,
                    m_head_peer', m_next_peer', m_prev_peer')
        BY <2>2 DEF Without
      <4>. HIDE DEF peer
      <4>. QED BY <1>1, <2>1, <3>1, <3>2, <4>1, ChainRemove
    <3>. QED BY <1>2, <2>4, <3>3 DEF ListIsSound
  <2>12. IdsAreSound'
    <3>1. Numbered(Registered, m_id, m_peer_ids, m_peer_id_counter, m_peers_array, Size)
      BY DEF IdsAreSound
    <3>2. m_id \in [Peer -> Nat] /\ m_peer_ids \in Seq(Nat) /\ m_peer_id_counter \in Nat
      BY DEF TypeOK
    <3>3. Numbered(Registered \ {peer}, m_id, Append(m_peer_ids, m_id[peer]), m_peer_id_counter,
                   [m_peers_array EXCEPT ![m_id[peer]] = NULL], Size)
      BY <1>1, <2>1, <2>5, <3>1, <3>2, NumberedRemove
    <3>4. m_peer_id_counter' <= created'
      BY <1>2, <2>2 DEF IdsAreSound
    <3>. QED BY <1>2, <2>2, <2>4, <2>7, <3>3, <3>4 DEF IdsAreSound
  <2>. QED BY <2>3, <2>4, <2>9, <2>10, <2>11, <2>12 DEF RegistryIsSound
<1>. QED BY <1>3, <1>4

\* Steps that touch neither list nor ids keep them sound.
LEMMA OthersKeep ==
    ASSUME TypeOK, MapIsSound, ListIsSound, IdsAreSound, UNCHANGED <<links, ids, fields>>
    PROVE  RegistryIsSound' /\ Registered' = Registered /\ m_peers' = m_peers /\ created' = created
<1>1. UNCHANGED <<m_peers, m_head_peer, m_next_peer, m_prev_peer, m_peer_ids, m_peer_id_counter,
                  m_peers_array, created, m_endpoint, m_id>>
  BY DEF links, ids, fields
<1>2. Registered' = Registered /\ Size' = Size
  BY <1>1 DEF Registered, Size
<1>3. RegistryTypes'
  BY <1>1 DEF TypeOK, RegistryTypes
<1>4. MapIsSound' /\ ListIsSound' /\ IdsAreSound'
  BY <1>1, <1>2 DEF MapIsSound, ListIsSound, IdsAreSound
<1>. QED BY <1>1, <1>2, <1>3, <1>4 DEF RegistryIsSound

\* A step at whose end the threads are where they may be, and that looks at
\* the registry through the operations above, keeps the invariant.
LEMMA Rejoin ==
    ASSUME RegistryIsSound', StateType', ThreadTypes', ConnectHolds', ScanIsSound'
    PROVE  IInv'
<1>1. TypeOK'
  BY DEF RegistryIsSound, RegistryTypes, StateType, ThreadTypes, TypeOK
<1>. QED BY <1>1 DEF RegistryIsSound, IInv

\* A scan that stays where it is remains sound while peers come and go: those
\* that come are not owed a visit.
LEMMA ScanStays ==
    ASSUME IInv, logic'.at = logic.at, logic'.netPeer = logic.netPeer, logic'.owed = logic.owed,
           created' \in Nat, created <= created',
           \A p \in Registered' : p \in Registered \/ p = created + 1
    PROVE  ScanIsSound'
<1>1. /\ created \in Nat /\ Peer \subseteq Nat /\ NULL = 0
  BY Bounds DEF IInv
<1>2. logic.owed \subseteq Peer /\ logic.netPeer \in {NULL} \cup Peer
  BY DEF IInv, TypeOK
<1>3. \A p \in logic.owed : p <= created /\ p \in Nat
  BY <1>1, <1>2 DEF IInv, ScanIsSound
<1>4. \A p \in logic.owed \cap Registered' : p \in logic.owed \cap Registered
  BY <1>1, <1>3
<1>5. /\ \A p \in logic.owed : p <= created'
      /\ logic.netPeer <= created'
  <2>1. logic.netPeer \in Nat /\ logic.netPeer <= created
    <3>1. logic.netPeer <= created
      BY DEF IInv, ScanIsSound
    <3>2. CASE logic.netPeer = NULL
      BY <1>1, <3>1, <3>2
    <3>3. CASE logic.netPeer \in Peer
      BY <1>1, <3>1, <3>3
    <3>. QED BY <1>2, <3>2, <3>3
  <2>2. \A p \in Nat : p <= created => p <= created'
    BY <1>1
  <2>. QED BY <1>3, <2>1, <2>2
<1>. QED BY <1>4, <1>5 DEF IInv, ScanIsSound

\* A call that shuts a peer down changes states only.
LEMMA DisconnectTypes ==
    ASSUME TypeOK, NEW address, NEW state \in State, disconnect_peer(address, state)
    PROVE  StateType'
BY DEF disconnect_peer, TypeOK, StateType

\* Steps that leave the registry and the scan as they are.
LEMMA QuietKeeps ==
    ASSUME IInv, UNCHANGED <<links, ids, fields, logic>>, StateType', ThreadTypes',
           app'.at = "add" => app' = app /\ owner' = owner
    PROVE  IInv'
<1>1. RegistryIsSound' /\ Registered' = Registered /\ m_peers' = m_peers /\ created' = created
  BY OthersKeep DEF IInv
<1>2. ConnectHolds'
  BY <1>1 DEF IInv, ConnectHolds
<1>3. ScanIsSound'
  <2>1. created \in Nat
    BY Bounds DEF IInv
  <2>. QED BY <1>1, <2>1, ScanStays
<1>. QED BY <1>1, <1>2, <1>3, Rejoin

\* Steps of the scan.
LEMMA ScanKeeps ==
    ASSUME IInv, UNCHANGED <<links, ids, fields, app, owner>>, StateType', ThreadTypes',
           ScanIsSound'
    PROVE  IInv'
<1>1. RegistryIsSound' /\ m_peers' = m_peers
  BY OthersKeep DEF IInv
<1>2. ConnectHolds'
  BY <1>1 DEF IInv, ConnectHolds
<1>. QED BY <1>1, <1>2, Rejoin

\* Steps that remove the peer at an address, if there is one.
LEMMA RemovingKeeps ==
    ASSUME IInv, NEW address \in Address, remove_peer_internal(address), UNCHANGED fields,
           StateType', ThreadTypes', ConnectHolds',
           logic'.at = logic.at, logic'.netPeer = logic.netPeer, logic'.owed = logic.owed
    PROVE  IInv'
<1>1. RegistryIsSound' /\ Registered' \subseteq Registered
  BY RemoveKeeps DEF IInv
<1>2. created' = created /\ created \in Nat
  BY Bounds DEF IInv, fields
<1>3. ScanIsSound'
  BY <1>1, <1>2, ScanStays
<1>. QED BY <1>1, <1>3, Rejoin

\* Steps that add a peer.
LEMMA AddingKeeps ==
    ASSUME IInv, NEW address \in Address, NEW state \in State, m_peers[address] = NULL,
           add_peer(address, state), ThreadTypes', ConnectHolds', logic' = logic
    PROVE  IInv'
<1>1. /\ RegistryIsSound' /\ StateType' /\ created' = created + 1
      /\ Registered' = Registered \cup {created + 1}
  BY AddKeeps DEF IInv
<1>2. created \in Nat
  BY Bounds DEF IInv
<1>3. ScanIsSound'
  BY <1>1, <1>2, ScanStays
<1>. QED BY <1>1, <1>3, Rejoin

\* The application's threads.
LEMMA ApplicationInv ==
    ASSUME IInv,
           \/ \E address \in Address :
                 begin_connect(address) \/ solve_request(address) \/ disconnect(address)
           \/ connect_returns \/ erase_request
    PROVE  IInv'
<1>1. StateType /\ ThreadTypes
  BY TypesSplit DEF IInv
<1>2. ASSUME NEW address \in Address, begin_connect(address) PROVE IInv'
  <2>1. /\ app' = [at |-> "connect", address |-> address]
        /\ UNCHANGED <<links, ids, fields, m_connection_state, m_connection_requests, owner,
                       receiver, logic>>
    BY <1>2 DEF begin_connect
  <2>2. StateType' /\ ThreadTypes'
    BY <1>1, <2>1 DEF StateType, ThreadTypes
  <2>. QED BY <2>1, <2>2, QuietKeeps
<1>3. CASE connect_existing
  <2>1. /\ app' = Idle
        /\ UNCHANGED <<links, ids, fields, m_connection_state, m_connection_requests, owner,
                       receiver, logic>>
    BY <1>3 DEF connect_existing
  <2>2. StateType' /\ ThreadTypes'
    BY <1>1, <2>1 DEF StateType, ThreadTypes
  <2>. QED BY <2>1, <2>2, QuietKeeps DEF Idle
<1>4. CASE connect_remove
  <2>1. /\ app.at = "connect" /\ app' = [app EXCEPT !.at = "add"]
        /\ remove_peer_internal(app.address) /\ owner' = "app"
        /\ UNCHANGED <<fields, m_connection_state, m_connection_requests, receiver, logic>>
    BY <1>4 DEF connect_remove
  <2>2. app \in [at : {"connect", "add", "erase"}, address : Address]
    BY <1>1, <2>1 DEF ThreadTypes, Idle
  <2>3. StateType' /\ ThreadTypes'
    BY <1>1, <2>1, <2>2 DEF StateType, ThreadTypes
  <2>4. app.address \in Address /\ app'.address = app.address
    BY <2>1, <2>2
  <2>5. m_peers'[app.address] = NULL
    BY <2>1, <2>4, RemoveKeeps DEF IInv
  <2>6. ConnectHolds'
    BY <2>1, <2>4, <2>5 DEF ConnectHolds
  <2>. QED BY <2>1, <2>3, <2>4, <2>6, RemovingKeeps
<1>5. CASE connect_add
  <2>1. /\ app.at = "add" /\ app' = Idle /\ owner' = "none"
        /\ add_peer(app.address, "OUTGOING")
        /\ UNCHANGED <<m_connection_requests, receiver, logic>>
    BY <1>5 DEF connect_add
  <2>2. app.address \in Address
    BY <1>1, <2>1 DEF ThreadTypes, Idle
  <2>3. ThreadTypes' /\ ConnectHolds'
    BY <1>1, <2>1 DEF ThreadTypes, ConnectHolds, Idle
  <2>4. m_peers[app.address] = NULL /\ "OUTGOING" \in State
    BY <2>1 DEF IInv, ConnectHolds, State
  <2>. QED BY <2>1, <2>2, <2>3, <2>4, AddingKeeps
<1>6. ASSUME NEW address \in Address, solve_request(address) PROVE IInv'
  <2>1. /\ app' = [at |-> "erase", address |-> address]
        /\ UNCHANGED <<m_connection_requests, owner, receiver, logic>>
    BY <1>6 DEF solve_request
  <2>2. ThreadTypes' /\ ConnectHolds'
    BY <1>1, <2>1 DEF ThreadTypes, ConnectHolds
  <2>3. CASE /\ m_peers[address] = NULL
             /\ \E state \in {"CONNECTED", "SHUTDOWN_REQUESTED"} : add_peer(address, state)
    <3>1. PICK state \in {"CONNECTED", "SHUTDOWN_REQUESTED"} : add_peer(address, state)
      BY <2>3
    <3>2. state \in State
      BY DEF State
    <3>. QED BY <2>1, <2>2, <2>3, <3>1, <3>2, AddingKeeps
  <2>4. CASE UNCHANGED <<links, ids, fields, m_connection_state>>
    <3>1. StateType'
      BY <1>1, <2>4 DEF StateType
    <3>. QED BY <2>1, <2>2, <2>4, <3>1, QuietKeeps
  <2>. QED BY <1>6, <2>3, <2>4 DEF solve_request
<1>7. CASE erase_request
  <2>1. /\ app' = Idle /\ m_connection_requests' \subseteq m_connection_requests
        /\ UNCHANGED <<links, ids, fields, m_connection_state, owner, receiver, logic>>
    BY <1>7 DEF erase_request
  <2>2. StateType' /\ ThreadTypes'
    BY <1>1, <2>1 DEF StateType, ThreadTypes
  <2>. QED BY <2>1, <2>2, QuietKeeps DEF Idle
<1>8. ASSUME NEW address \in Address, disconnect(address) PROVE IInv'
  <2>1. /\ disconnect_peer(address, "SHUTDOWN_REQUESTED") /\ "SHUTDOWN_REQUESTED" \in State
        /\ UNCHANGED <<links, ids, fields, m_connection_requests, owner, app, receiver, logic>>
    BY <1>8 DEF disconnect, State
  <2>2. StateType'
    BY <2>1, DisconnectTypes DEF IInv
  <2>3. ThreadTypes'
    BY <1>1, <2>1 DEF ThreadTypes
  <2>. QED BY <2>1, <2>2, <2>3, QuietKeeps
<1>. QED BY <1>2, <1>3, <1>4, <1>5, <1>6, <1>7, <1>8 DEF connect_returns

\* The receive thread.
LEMMA ReceiverInv ==
    ASSUME IInv,
           \/ \E address \in Address :
                 receive_accept(address) \/ receive_end(address) \/ receive_request(address)
           \/ receive_disconnect \/ receive_remove \/ enter_request
    PROVE  IInv'
<1>1. StateType /\ ThreadTypes
  BY TypesSplit DEF IInv
<1>2. ASSUME NEW address \in Address, receive_accept(address) PROVE IInv'
  <2>1. /\ m_connection_state' = [m_connection_state EXCEPT ![m_peers[address]] = "CONNECTED"]
        /\ UNCHANGED <<links, ids, fields, m_connection_requests, owner, app, receiver, logic>>
    BY <1>2 DEF receive_accept
  <2>2. StateType' /\ ThreadTypes'
    BY <1>1, <2>1 DEF StateType, ThreadTypes, State
  <2>. QED BY <2>1, <2>2, QuietKeeps
<1>3. ASSUME NEW address \in Address, receive_end(address) \/ receive_request(address) PROVE IInv'
  <2>1. /\ receiver' \in [at : {"disconnect", "replace", "remove", "request"}, address : Address]
        /\ UNCHANGED <<links, ids, fields, m_connection_state, m_connection_requests, owner,
                       app, logic>>
    BY <1>3 DEF receive_end, receive_request
  <2>2. StateType' /\ ThreadTypes'
    BY <1>1, <2>1 DEF StateType, ThreadTypes
  <2>. QED BY <2>1, <2>2, QuietKeeps
<1>4. CASE receive_disconnect
  <2>1. /\ disconnect_peer(receiver.address, "DISCONNECTED") /\ "DISCONNECTED" \in State
        /\ receiver.at \in {"disconnect", "replace"}
        /\ receiver' = IF receiver.at = "replace" THEN [receiver EXCEPT !.at = "remove"] ELSE Idle
        /\ UNCHANGED <<links, ids, fields, m_connection_requests, owner, app, logic>>
    BY <1>4 DEF receive_disconnect, State
  <2>2. StateType'
    BY <2>1, DisconnectTypes DEF IInv
  <2>3. receiver \in [at : {"disconnect", "replace", "remove", "request"}, address : Address]
    BY <1>1, <2>1 DEF ThreadTypes, Idle
  <2>4. ThreadTypes'
    BY <1>1, <2>1, <2>3 DEF ThreadTypes
  <2>. QED BY <2>1, <2>2, <2>4, QuietKeeps
<1>5. CASE receive_remove
  <2>1. /\ receiver.at = "remove" /\ CanLock("receiver")
        /\ remove_peer_internal(receiver.address)
        /\ receiver' = [receiver EXCEPT !.at = "request"]
        /\ UNCHANGED <<fields, m_connection_state, m_connection_requests, owner, app, logic>>
    BY <1>5 DEF receive_remove
  <2>2. receiver \in [at : {"disconnect", "replace", "remove", "request"}, address : Address]
    BY <1>1, <2>1 DEF ThreadTypes, Idle
  <2>3. StateType' /\ ThreadTypes' /\ receiver.address \in Address
    BY <1>1, <2>1, <2>2 DEF StateType, ThreadTypes
  <2>4. app.at # "add"
    BY <2>1 DEF IInv, ConnectHolds, CanLock
  <2>5. ConnectHolds'
    BY <2>1, <2>4 DEF ConnectHolds
  <2>. QED BY <2>1, <2>3, <2>5, RemovingKeeps
<1>6. CASE enter_request
  <2>1. /\ receiver.at = "request" /\ receiver' = Idle
        /\ m_connection_requests' = m_connection_requests \cup {receiver.address}
        /\ UNCHANGED <<links, ids, fields, m_connection_state, owner, app, logic>>
    BY <1>6 DEF enter_request
  <2>2. receiver.address \in Address
    BY <1>1, <2>1 DEF ThreadTypes, Idle
  <2>3. StateType' /\ ThreadTypes'
    BY <1>1, <2>1, <2>2 DEF StateType, ThreadTypes
  <2>. QED BY <2>1, <2>3, QuietKeeps
<1>. QED BY <1>2, <1>3, <1>4, <1>5, <1>6

\* The logic thread: the scan comes by every peer that is still registered.
LEMMA LogicInv == IInv /\ update_logic => IInv'
<1>. SUFFICES ASSUME IInv, update_logic PROVE IInv'
  OBVIOUS
<1>1. StateType /\ ThreadTypes
  BY TypesSplit DEF IInv
<1>2. /\ logic \in [at : {"sleep", "scan", "timeout", "next"}, netPeer : {NULL} \cup Peer,
                    peersToRemove : Seq(Address), owed : SUBSET Peer]
      /\ logic.owed \subseteq Peer /\ logic.netPeer \in {NULL} \cup Peer
      /\ logic.peersToRemove \in Seq(Address)
  BY <1>1 DEF ThreadTypes
<1>3. /\ NULL = 0 /\ NULL \notin Peer /\ Peer \subseteq Nat /\ created \in Nat
      /\ 1 .. created \subseteq Peer
      /\ Registered \subseteq Peer /\ \A p \in Registered : p <= created
      /\ m_next_peer \in [Peer -> Nat]
  BY Bounds DEF IInv
<1>4. /\ \A p \in logic.owed : p <= created
      /\ logic.netPeer <= created
      /\ logic.at = "scan" => \A p \in logic.owed \cap Registered : p <= logic.netPeer
      /\ logic.at \in {"timeout", "next"} =>
            /\ logic.netPeer # NULL
            /\ \A p \in logic.owed \cap Registered : p < logic.netPeer
  BY DEF IInv, ScanIsSound
<1>5. ASSUME logic.netPeer # NULL
      PROVE  logic.netPeer \in Peer /\ logic.netPeer \in 1 .. created
  <2>1. logic.netPeer \in Peer
    BY <1>2, <1>5
  <2>2. logic.netPeer \in Nat /\ logic.netPeer >= 1
    BY <1>3, <2>1 DEF Peer
  <2>. QED BY <1>3, <1>4, <2>1, <2>2
<1>6. CASE begin_scan
  <2>1. /\ logic' = [logic EXCEPT !.at = "scan", !.netPeer = m_head_peer, !.owed = Registered]
        /\ UNCHANGED <<links, ids, fields, m_connection_state, m_connection_requests, owner,
                       app, receiver>>
    BY <1>6 DEF begin_scan
  <2>2. /\ m_head_peer \in {NULL} \cup Peer /\ m_head_peer \in Registered \cup {NULL}
        /\ \A r \in Registered : r <= m_head_peer
    BY DEF IInv, TypeOK, ListIsSound, Chain
  <2>3. /\ logic'.at = "scan" /\ logic'.netPeer = m_head_peer /\ logic'.owed = Registered
        /\ logic' \in [at : {"sleep", "scan", "timeout", "next"}, netPeer : {NULL} \cup Peer,
                       peersToRemove : Seq(Address), owed : SUBSET Peer]
    BY <1>2, <1>3, <2>1, <2>2
  <2>4. StateType' /\ ThreadTypes'
    BY <1>1, <2>1, <2>3 DEF StateType, ThreadTypes
  <2>5. Registered' = Registered /\ created' = created
    BY <2>1, OthersKeep DEF IInv
  <2>6. m_head_peer <= created
    BY <1>3, <2>2
  <2>7. ScanIsSound'
    BY <1>3, <2>2, <2>3, <2>5, <2>6 DEF ScanIsSound
  <2>. QED BY <2>1, <2>4, <2>7, ScanKeeps
<1>7. CASE scan_peer
  <2>. DEFINE peer == logic.netPeer
  <2>1. /\ logic.at = "scan" /\ peer # NULL
        /\ UNCHANGED <<links, ids, fields, m_connection_requests, owner, app, receiver>>
    BY <1>7 DEF scan_peer
  <2>2. peer \in Peer /\ peer \in Nat /\ m_endpoint[peer] \in Address
    BY <1>3, <1>5, <2>1 DEF IInv, MapIsSound
  <2>3. /\ \/ m_connection_state' = m_connection_state
           \/ m_connection_state' = [m_connection_state EXCEPT ![peer] = "DISCONNECTED"]
        /\ \E at \in {"next", "timeout"}, marked \in {logic.peersToRemove,
                                                      Append(logic.peersToRemove, m_endpoint[peer])} :
              logic' = [logic EXCEPT !.at = at, !.owed = @ \ {peer}, !.peersToRemove = marked]
    <3>1. CASE /\ logic' = [logic EXCEPT !.at = "next", !.owed = @ \ {peer},
                                         !.peersToRemove = Append(@, m_endpoint[peer])]
               /\ UNCHANGED m_connection_state
      BY <3>1
    <3>2. CASE /\ logic' = [logic EXCEPT !.at = "next", !.owed = @ \ {peer}]
               /\ \/ UNCHANGED m_connection_state
                  \/ m_connection_state' = [m_connection_state EXCEPT ![peer] = "DISCONNECTED"]
      <4>1. logic' = [logic EXCEPT !.at = "next", !.owed = @ \ {peer},
                                   !.peersToRemove = logic.peersToRemove]
        BY <1>2, <3>2
      <4>. QED BY <3>2, <4>1
    <3>3. CASE /\ logic' = [logic EXCEPT !.at = "timeout", !.owed = @ \ {peer}]
               /\ UNCHANGED m_connection_state
      <4>1. logic' = [logic EXCEPT !.at = "timeout", !.owed = @ \ {peer},
                                   !.peersToRemove = logic.peersToRemove]
        BY <1>2, <3>3
      <4>. QED BY <3>3, <4>1
    <3>. QED BY <1>7, <3>1, <3>2, <3>3 DEF scan_peer
  <2>4. PICK at \in {"next", "timeout"}, marked \in {logic.peersToRemove,
                                                     Append(logic.peersToRemove, m_endpoint[peer])} :
           logic' = [logic EXCEPT !.at = at, !.owed = @ \ {peer}, !.peersToRemove = marked]
    BY <2>3
  <2>5. marked \in Seq(Address)
    BY <1>2, <2>2
  <2>6. /\ logic'.at \in {"timeout", "next"} /\ logic'.netPeer = peer
        /\ logic'.owed = logic.owed \ {peer}
        /\ logic' \in [at : {"sleep", "scan", "timeout", "next"}, netPeer : {NULL} \cup Peer,
                       peersToRemove : Seq(Address), owed : SUBSET Peer]
    BY <1>2, <2>4, <2>5
  <2>7. StateType' /\ ThreadTypes'
    BY <1>1, <2>1, <2>3, <2>6 DEF StateType, ThreadTypes, State
  <2>8. Registered' = Registered /\ created' = created
    BY <2>1, OthersKeep DEF IInv
  <2>9. ASSUME NEW p \in (logic.owed \ {peer}) \cap Registered PROVE p < peer
    <3>1. p <= peer /\ p # peer
      BY <1>4, <2>1
    <3>2. p \in Nat
      BY <1>3
    <3>. QED BY <2>2, <3>1, <3>2
  <2>10. ScanIsSound'
    BY <1>4, <2>1, <2>6, <2>8, <2>9 DEF ScanIsSound
  <2>. QED BY <2>1, <2>7, <2>10, ScanKeeps
<1>8. CASE time_out
  <2>1. /\ logic.at = "timeout" /\ logic' = [logic EXCEPT !.at = "next"]
        /\ disconnect_peer(m_endpoint[logic.netPeer], "DISCONNECTED") /\ "DISCONNECTED" \in State
        /\ UNCHANGED <<links, ids, fields, m_connection_requests, owner, app, receiver>>
    BY <1>8 DEF time_out, State
  <2>2. StateType'
    BY <2>1, DisconnectTypes DEF IInv
  <2>3. /\ logic'.at = "next" /\ logic'.netPeer = logic.netPeer /\ logic'.owed = logic.owed
        /\ logic' \in [at : {"sleep", "scan", "timeout", "next"}, netPeer : {NULL} \cup Peer,
                       peersToRemove : Seq(Address), owed : SUBSET Peer]
    BY <1>2, <2>1
  <2>4. ThreadTypes'
    BY <1>1, <2>1, <2>3 DEF ThreadTypes
  <2>5. Registered' = Registered /\ created' = created
    BY <2>1, OthersKeep DEF IInv
  <2>6. ScanIsSound'
    BY <1>4, <2>1, <2>3, <2>5 DEF ScanIsSound
  <2>. QED BY <2>1, <2>2, <2>4, <2>6, ScanKeeps
<1>9. CASE next_peer
  <2>. DEFINE after == m_next_peer[logic.netPeer]
  <2>1. /\ logic.at = "next" /\ logic' = [logic EXCEPT !.at = "scan", !.netPeer = after]
        /\ UNCHANGED <<links, ids, fields, m_connection_state, m_connection_requests, owner,
                       app, receiver>>
    BY <1>9 DEF next_peer
  <2>2. logic.netPeer \in 1 .. created /\ logic.netPeer \in Peer /\ logic.netPeer \in Nat
    BY <1>3, <1>4, <1>5, <2>1
  <2>3. after \in {NULL} \cup Peer /\ after \in Nat
    BY <1>3, <2>2 DEF IInv, TypeOK
  <2>4. after < logic.netPeer /\ \A r \in Registered : r < logic.netPeer => r <= after
    BY <2>2 DEF IInv, ListIsSound, Chain
  <2>5. after <= created
    BY <1>3, <2>2, <2>3, <2>4
  <2>6. \A p \in logic.owed \cap Registered : p <= after
    BY <1>4, <2>1, <2>4
  <2>7. /\ logic'.at = "scan" /\ logic'.netPeer = after /\ logic'.owed = logic.owed
        /\ logic' \in [at : {"sleep", "scan", "timeout", "next"}, netPeer : {NULL} \cup Peer,
                       peersToRemove : Seq(Address), owed : SUBSET Peer]
    BY <1>2, <2>1, <2>3
  <2>8. StateType' /\ ThreadTypes'
    BY <1>1, <2>1, <2>7 DEF StateType, ThreadTypes
  <2>9. Registered' = Registered /\ created' = created
    BY <2>1, OthersKeep DEF IInv
  <2>10. ScanIsSound'
    BY <1>4, <2>5, <2>6, <2>7, <2>9 DEF ScanIsSound
  <2>. QED BY <2>1, <2>8, <2>10, ScanKeeps
<1>10. CASE remove_marked
  <2>1. /\ logic.peersToRemove # <<>> /\ CanLock("logic")
        /\ remove_peer_internal(Head(logic.peersToRemove))
        /\ logic' = [logic EXCEPT !.peersToRemove = Tail(@)]
        /\ owner' \in {"none", "logic"}
        /\ UNCHANGED <<fields, m_connection_state, m_connection_requests, app, receiver>>
    BY <1>10 DEF remove_marked
  <2>2. Head(logic.peersToRemove) \in Address /\ Tail(logic.peersToRemove) \in Seq(Address)
    BY <1>2, <2>1
  <2>3. /\ logic'.at = logic.at /\ logic'.netPeer = logic.netPeer /\ logic'.owed = logic.owed
        /\ logic' \in [at : {"sleep", "scan", "timeout", "next"}, netPeer : {NULL} \cup Peer,
                       peersToRemove : Seq(Address), owed : SUBSET Peer]
    BY <1>2, <2>1, <2>2
  <2>4. StateType' /\ ThreadTypes'
    BY <1>1, <2>1, <2>3 DEF StateType, ThreadTypes
  <2>5. app.at # "add"
    BY <2>1 DEF IInv, ConnectHolds, CanLock
  <2>6. ConnectHolds'
    BY <2>1, <2>5 DEF ConnectHolds
  <2>. QED BY <2>1, <2>2, <2>3, <2>4, <2>6, RemovingKeeps
<1>11. CASE end_scan
  <2>1. /\ logic' = [logic EXCEPT !.at = "sleep"]
        /\ UNCHANGED <<links, ids, fields, m_connection_state, m_connection_requests, owner,
                       app, receiver>>
    BY <1>11 DEF end_scan
  <2>2. /\ logic'.at = "sleep" /\ logic'.netPeer = logic.netPeer /\ logic'.owed = logic.owed
        /\ logic' \in [at : {"sleep", "scan", "timeout", "next"}, netPeer : {NULL} \cup Peer,
                       peersToRemove : Seq(Address), owed : SUBSET Peer]
    BY <1>2, <2>1
  <2>3. StateType' /\ ThreadTypes'
    BY <1>1, <2>1, <2>2 DEF StateType, ThreadTypes
  <2>4. Registered' = Registered /\ created' = created
    BY <2>1, OthersKeep DEF IInv
  <2>5. ScanIsSound'
    BY <1>4, <2>2, <2>4 DEF ScanIsSound
  <2>. QED BY <2>1, <2>3, <2>5, ScanKeeps
<1>. QED BY <1>6, <1>7, <1>8, <1>9, <1>10, <1>11 DEF update_logic

\* At the start there are no peers.
LEMMA InitInv == Init => IInv
<1>. SUFFICES ASSUME Init PROVE IInv
  OBVIOUS
<1>1. /\ MaxPeers \in Nat /\ ArraySize \in Nat \ {0} /\ NULL = 0 /\ created = 0
  BY RegistryAssumption DEF NULL, Init
<1>2. RegistryTypes
  <2>1. m_peers_array \in [0 .. ArraySize - 1 -> {NULL} \cup Peer]
    BY DEF Init
  <2>2. ArraySize \in ArraySize .. ArraySize + 2 * MaxPeers
    BY <1>1
  <2>. QED BY <1>1, <2>1, <2>2 DEF Init, RegistryTypes
<1>3. StateType /\ ThreadTypes
  BY DEF Init, StateType, ThreadTypes, State, Idle
<1>4. TypeOK
  BY <1>2, <1>3, TypesSplit
<1>5. Registered = {}
  BY DEF Init, Registered
<1>6. MapIsSound
  BY <1>1 DEF Init, MapIsSound
<1>7. ListIsSound
  BY <1>1, <1>5 DEF Init, ListIsSound, Chain
<1>8. Size \in Nat
  BY <1>4, ArrayHasSize
<1>9. \A i \in 0 .. Size - 1 : m_peers_array[i] = NULL
  <2>1. Size = ArraySize
    BY <1>1, PlacesOf DEF Init, Size
  <2>. QED BY <2>1 DEF Init
<1>10. IdsAreSound
  BY <1>1, <1>5, <1>8, <1>9 DEF Init, IdsAreSound, Numbered
<1>11. ConnectHolds /\ ScanIsSound
  BY <1>1, <1>5 DEF Init, ConnectHolds, ScanIsSound, Idle
<1>. QED BY <1>4, <1>6, <1>7, <1>10, <1>11 DEF IInv

\* Nothing happens.
LEMMA StutterInv == IInv /\ UNCHANGED vars => IInv'
<1>. SUFFICES ASSUME IInv, UNCHANGED vars PROVE IInv'
  OBVIOUS
<1>1. UNCHANGED <<links, ids, fields, m_connection_state, m_connection_requests, owner,
                  app, receiver, logic>>
  BY DEF vars
<1>2. StateType' /\ ThreadTypes'
  BY <1>1, TypesSplit DEF IInv, StateType, ThreadTypes
<1>. QED BY <1>1, <1>2, QuietKeeps

\* The registry of peers stays sound whatever the three threads do.
THEOREM RegistryInvariant == Spec => []IInv
<1>1. IInv /\ [Next]_vars => IInv'
  BY ApplicationInv, ReceiverInv, LogicInv, StutterInv DEF Next
<1>. QED BY <1>1, InitInv, PTL DEF Spec

\* The variables of the registry and of its threads keep their types, the
\* array its bounds: it never doubles more than the ids require.
THEOREM TypeCorrect == Spec => []TypeOK
BY RegistryInvariant, PTL DEF IInv

\* The list that the logic thread walks and the map have the same peers, in
\* the order of their creation, through every add_peer and remove_peer_internal.
THEOREM ListIsTheMap == Spec => []ListMatchesMap
<1>1. IInv => ListMatchesMap
  <2>. SUFFICES ASSUME IInv PROVE ListMatchesMap
    OBVIOUS
  <2>1. /\ NULL = 0 /\ NULL \notin Peer /\ Registered \subseteq Peer /\ Peer \subseteq Nat
        /\ \A p \in Registered : p \in 1 .. created
    <3>1. /\ NULL = 0 /\ NULL \notin Peer /\ Registered \subseteq Peer /\ Peer \subseteq Nat
          /\ created \in Nat /\ \A p \in Registered : p <= created
      BY Bounds DEF IInv
    <3>2. \A p \in Peer : p >= 1
      BY RegistryAssumption DEF Peer
    <3>. QED BY <3>1, <3>2
  <2>2. /\ m_head_peer \in Registered \cup {NULL} /\ \A r \in Registered : r <= m_head_peer
        /\ \A p \in Registered : /\ m_next_peer[p] < p
                                 /\ \A r \in Registered : r < p => r <= m_next_peer[p]
        /\ \A p \in Registered : /\ m_next_peer[p] \in Registered \cup {NULL}
                                 /\ m_prev_peer[p] \in Registered \cup {NULL}
        /\ \A p, q \in Registered : m_next_peer[p] = q <=> m_prev_peer[q] = p
    BY <2>1 DEF IInv, ListIsSound, Chain
  <2>3. m_head_peer = IF Registered = {} THEN NULL
                      ELSE CHOOSE p \in Registered : \A q \in Registered : q <= p
    <3>1. CASE Registered = {}
      BY <2>2, <3>1
    <3>2. CASE Registered # {}
      <4>1. m_head_peer \in Registered
        <5>1. PICK r \in Registered : r <= m_head_peer /\ r \in 1 .. created
          BY <2>1, <2>2, <3>2
        <5>2. m_head_peer # NULL
          BY <2>1, <5>1
        <5>. QED BY <2>2, <5>2
      <4>2. \A p \in Registered : (\A q \in Registered : q <= p) => p = m_head_peer
        BY <2>1, <2>2, <4>1
      <4>. QED BY <2>2, <3>2, <4>1, <4>2
    <3>. QED BY <3>1, <3>2
  <2>4. ASSUME NEW p \in Registered, NEW q \in Registered
        PROVE  m_next_peer[p] = q <=> q < p /\ ~\E r \in Registered : q < r /\ r < p
    <3>1. ASSUME m_next_peer[p] = q PROVE q < p /\ ~\E r \in Registered : q < r /\ r < p
      BY <2>1, <2>2, <3>1
    <3>2. ASSUME q < p, ~\E r \in Registered : q < r /\ r < p PROVE m_next_peer[p] = q
      <4>1. q <= m_next_peer[p] /\ m_next_peer[p] < p /\ m_next_peer[p] \in Registered \cup {NULL}
        BY <2>2, <3>2
      <4>2. q \in Nat /\ q >= 1
        BY <2>1
      <4>3. m_next_peer[p] \in Registered /\ m_next_peer[p] \in Nat
        <5>1. m_next_peer[p] # NULL
          BY <2>1, <4>1, <4>2
        <5>. QED BY <2>1, <4>1, <5>1
      <4>4. ~(q < m_next_peer[p])
        BY <3>2, <4>1, <4>3
      <4>. QED BY <4>1, <4>2, <4>3, <4>4
    <3>. QED BY <3>1, <3>2
  <2>. QED BY <2>2, <2>3, <2>4 DEF ListMatchesMap
<1>. QED BY <1>1, RegistryInvariant, PTL

\* Two peers never have one id, and m_peers_array leads from each id to its
\* peer, however often ids are used again and however the array grows.
THEOREM IdsStayUnique == Spec => []IdsAreUnique
<1>1. IInv => IdsAreUnique
  <2>. SUFFICES ASSUME IInv PROVE IdsAreUnique
    OBVIOUS
  <2>1. /\ Size \in Nat /\ m_peers_array \in [0 .. Size - 1 -> {NULL} \cup Peer]
        /\ DOMAIN m_peers_array = 0 .. Size - 1
    BY ArrayHasSize DEF IInv
  <2>2. /\ m_id \in [Peer -> Nat] /\ m_peer_ids \in Seq(Nat) /\ m_peer_id_counter \in Nat
        /\ Registered \subseteq Peer
    BY Bounds DEF IInv, TypeOK
  <2>3. Numbered(Registered, m_id, m_peer_ids, m_peer_id_counter, m_peers_array, Size)
    BY DEF IInv, IdsAreSound
  <2>4. \A p \in Registered : m_id[p] \in 0 .. Size - 1 /\ m_peers_array[m_id[p]] = p
    BY <2>1, <2>2, <2>3 DEF Numbered
  <2>5. DOMAIN m_peer_ids = 1 .. Len(m_peer_ids)
    BY <2>2
  <2>. QED BY <2>1, <2>3, <2>4, <2>5 DEF Numbered, IdsAreUnique
<1>. QED BY <1>1, RegistryInvariant, PTL

\* The scan of update_logic comes by every peer that was registered when it
\* began and still is, whoever is removed under its feet.
THEOREM ScanVisitsAll == Spec => []ScanMissesNobody
<1>1. IInv => ScanMissesNobody
  <2>. SUFFICES ASSUME IInv, logic.at = "scan", logic.netPeer = NULL,
                       NEW p \in logic.owed \cap Registered
                PROVE  FALSE
    BY DEF ScanMissesNobody
  <2>1. p <= 0
    BY Bounds DEF IInv, ScanIsSound
  <2>2. p \in Peer /\ MaxPeers \in Nat
    BY Bounds DEF IInv
  <2>. QED BY <2>1, <2>2 DEF Peer
<1>. QED BY <1>1, RegistryInvariant, PTL
=============================================================================
