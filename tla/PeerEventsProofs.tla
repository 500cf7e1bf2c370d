-------------------------- MODULE PeerEventsProofs --------------------------
(***************************************************************************)
(* That the application is told of the end of every peer, and told once,   *)
(* for any number of its threads, of peers and of connect attempts, and    *)
(* however the steps of the threads interleave.                            *)
(***************************************************************************)
EXTENDS PeerEvents, FiniteSetTheorems, TLAPS

(* What a thread has in hand. *)

Record == [at : Place, peer : Peer \cup {None}, back : {"idle", "remove"}]

\* The places where a thread has the pointer of a peer and uses it.
Holding == {"shut down", "close", "announce", "connected", "accepted", "is up", "expire", "try",
            "CONNECT_ACCEPT", "DATA", "SHUTDOWN_OK"} \cup DOMAIN Ended

\* Whether a thread is at a place with a peer, as a number, and how many are.
Is(r, place, p) == r.at = place /\ r.peer = p
One(r, place, p) == IF Is(r, place, p) THEN 1 ELSE 0
At(at, place, p) == {t \in Thread : Is(at[t], place, p)}
Count(at, place, p) == Cardinality(At(at, place, p))

\* A peer's ends and connections, announced and about to be; the two threads
\* that go by a state they read before they write.
Ends(p) == made["DISCONNECT"][p] + Count(pc, "announce", p)
Connects(p) == made["CONNECT"][p] + Count(pc, "connected", p)
Accepted(p) == Is(pc[Receiver], "accepted", p)
Expiring(p) == Is(pc[Logic], "expire", p)
Down == {"SHUTDOWN_REQUESTED", "DISCONNECTED"}

\* A peer that no thread can know is as Init left it.
Unmade(p) ==
    /\ state[p] = "NONE" /\ attempts[p] = 0
    /\ made["CONNECT"][p] = 0 /\ made["DISCONNECT"][p] = 0 /\ ~undone[p]

\* Whatever leads to a peer leads to one that was made.
Known ==
    /\ entry <= peers
    /\ \A t \in Thread : pc[t].peer <= peers
    /\ \A t \in Thread : pc[t].at \in Holding => pc[t].peer # None

Fresh == \A p \in Peer : IF p <= peers THEN state[p] # "NONE" ELSE Unmade(p)

\* An attempt is counted past the last one only by the logic thread, which then
\* takes the peer down before it looks at it again.
Tries ==
    /\ pc[Logic].at = "try" => attempts[pc[Logic].peer] <= MaxAttempts
    /\ \A p \in Peer :
          entry = p /\ state[p] = "OUTGOING" /\ attempts[p] = MaxAttempts + 1
          => \/ pc[Logic].at = "find"
             \/ pc[Logic].at \in {"shut down", "close"} /\ pc[Logic].peer = p

\* A peer connects once.  A shutdown that process_connect_accept undoes is
\* undone once, as the state was OUTGOING when it was checked.
Joined(p) ==
    /\ Connects(p) <= 1
    /\ state[p] \in {"NONE", "OUTGOING"} \/ Accepted(p) => Connects(p) = 0 /\ ~undone[p]

\* A peer that is down has ended, unless it came from a rejected request.
Ended_announced(p) ==
    (state[p] \in Down \/ Expiring(p)) /\ origin[p] # "reject" => Ends(p) >= 1

\* One thread at a time closes a peer; a peer that is up has not ended; a
\* thread that closes it, if no shutdown was undone, finds it up.
Ends_once(p) ==
    /\ Count(pc, "close", p) <= 1
    /\ ~undone[p] => /\ Ends(p) <= 1
                     /\ state[p] \in Up => Ends(p) = 0 /\ ~Expiring(p)
                     /\ Count(pc, "close", p) = 1 => state[p] \in Up
    /\ undone[p] => /\ Ends(p) <= 2
                    /\ state[p] \in Up \/ Count(pc, "close", p) = 1 => Ends(p) <= 1

Fate(p) == Joined(p) /\ Ended_announced(p) /\ Ends_once(p)

Inv == TypeOK /\ Known /\ Fresh /\ Tries /\ \A p \in Peer : Fate(p)
-----------------------------------------------------------------------------
(* Threads that move. *)

\* There are finitely many threads, so that those at a place can be counted.
LEMMA CountIsNat ==
    ASSUME NEW at, NEW place, NEW p
    PROVE  /\ IsFiniteSet(At(at, place, p)) /\ Count(at, place, p) \in Nat
           /\ Count(at, place, p) = 0 <=> At(at, place, p) = {}
<1>1. IsFiniteSet({Receiver, Logic})
  <2>1. IsFiniteSet({Receiver})
    BY FS_Singleton
  <2>2. {Receiver, Logic} = {Receiver} \cup {Logic}
    OBVIOUS
  <2>. QED  BY <2>1, <2>2, FS_AddElement
<1>2. IsFiniteSet(Thread)
  BY <1>1, FS_Union, PeerEventsAssumption DEF Thread
<1>3. At(at, place, p) \subseteq Thread
  BY DEF At
<1>4. IsFiniteSet(At(at, place, p))
  BY <1>2, <1>3, FS_Subset
<1>. QED  BY <1>4, FS_CardinalityType, FS_EmptySet DEF Count

\* A count is at least one when a thread at the place is at hand.
LEMMA CountSees ==
    ASSUME NEW at, NEW t \in Thread, NEW place, NEW p, Is(at[t], place, p)
    PROVE  Count(at, place, p) >= 1
<1>1. t \in At(at, place, p)
  BY DEF At
<1>. QED  BY <1>1, CountIsNat
-----------------------------------------------------------------------------
(* What a move of a thread keeps. *)

\* The thread t is then at a place, with a peer, to return to where it says.
Moves(t, place, p, back) ==
    /\ place \in Place /\ p \in Peer \cup {None} /\ back \in {"idle", "remove"}
    /\ pc' = [pc EXCEPT ![t] = [at |-> place, peer |-> p, back |-> back]]

\* The moves of the model.
LEMMA GoesMoves ==
    ASSUME TypeOK, NEW t \in Thread, NEW there \in Place, Goes(t, there)
    PROVE  Moves(t, there, pc[t].peer, pc[t].back)
<1>1. pc[t] \in [at : Place, peer : Peer \cup {None}, back : {"idle", "remove"}]
  BY DEF TypeOK
<1>2. [pc[t] EXCEPT !.at = there] = [at |-> there, peer |-> pc[t].peer, back |-> pc[t].back]
  BY <1>1
<1>3. pc' = [pc EXCEPT ![t] = [pc[t] EXCEPT !.at = there]]
  BY DEF Goes, TypeOK
<1>. QED  BY <1>1, <1>2, <1>3 DEF Moves

LEMMA GoesWithMoves ==
    ASSUME TypeOK, NEW t \in Thread, NEW there \in Place, NEW p \in Peer \cup {None},
           GoesWith(t, there, p)
    PROVE  Moves(t, there, p, pc[t].back)
<1>1. pc[t] \in [at : Place, peer : Peer \cup {None}, back : {"idle", "remove"}]
  BY DEF TypeOK
<1>2. [pc[t] EXCEPT !.at = there, !.peer = p] = [at |-> there, peer |-> p, back |-> pc[t].back]
  <2>. DEFINE r == [pc[t] EXCEPT !.at = there, !.peer = p]
  <2>1. DOMAIN pc[t] = {"at", "peer", "back"}
    BY <1>1
  <2>2. r.at = there /\ r.peer = p /\ r.back = pc[t].back
    BY <2>1
  <2>3. r \in [at : Place, peer : Peer \cup {None}, back : {"idle", "remove"}]
    BY <1>1, <2>2
  <2>. HIDE DEF r
  <2>4. r = [at |-> r.at, peer |-> r.peer, back |-> r.back]
    BY <2>3
  <2>. QED  BY <2>2, <2>4 DEF r
<1>3. pc' = [pc EXCEPT ![t] = [pc[t] EXCEPT !.at = there, !.peer = p]]
  BY DEF GoesWith, TypeOK
<1>. QED  BY <1>1, <1>2, <1>3 DEF Moves

LEMMA IsDoneMoves ==
    ASSUME NEW t, IsDone(t)
    PROVE  Moves(t, "idle", None, "idle")
BY DEF IsDone, Moves, Idle, Place

LEMMA CallsMoves ==
    ASSUME NEW t, NEW back \in {"idle", "remove"}, Calls_disconnect_peer(t, back)
    PROVE  Moves(t, "find", None, back)
BY DEF Calls_disconnect_peer, Moves, Place

LEMMA ReturnsMoves ==
    ASSUME TypeOK, NEW t \in Thread, Returns(t)
    PROVE  /\ Moves(t, pc[t].back, None, "idle")
           /\ pc[t].back \in {"idle", "remove"}
<1>1. pc[t].back \in {"idle", "remove"}
  BY DEF TypeOK
<1>2. [Idle EXCEPT !.at = pc[t].back] = [at |-> pc[t].back, peer |-> None, back |-> "idle"]
  BY DEF Idle
<1>. QED  BY <1>1, <1>2 DEF Returns, Moves, Place

\* The thread is where it says, the others stay.
LEMMA Moved ==
    ASSUME TypeOK, NEW t \in Thread, NEW place, NEW p, NEW back, Moves(t, place, p, back)
    PROVE  /\ pc' \in [Thread -> Record]
           /\ pc'[t].at = place /\ pc'[t].peer = p /\ pc'[t].back = back
           /\ \A u \in Thread : u # t => pc'[u] = pc[u]
BY DEF Moves, TypeOK, Record

\* It leaves the count of where it was and joins the count of where it goes.
LEMMA MovedCounts ==
    ASSUME TypeOK, NEW t \in Thread, NEW place, NEW p, NEW back, Moves(t, place, p, back),
           NEW there, NEW q
    PROVE  Count(pc', there, q)
             = Count(pc, there, q) - One(pc[t], there, q)
               + IF place = there /\ p = q THEN 1 ELSE 0
<1>. DEFINE S == At(pc, there, q) \ {t}
<1>1. Is(pc'[t], there, q) <=> place = there /\ p = q
  BY Moved DEF Is
<1>2. At(pc', there, q) = IF place = there /\ p = q THEN S \cup {t} ELSE S
  BY <1>1, Moved DEF At
<1>3. At(pc, there, q) = IF Is(pc[t], there, q) THEN S \cup {t} ELSE S
  BY DEF At
<1>4. IsFiniteSet(S) /\ t \notin S
  BY CountIsNat, FS_RemoveElement
<1>5. Cardinality(S) \in Nat /\ Cardinality(S \cup {t}) = Cardinality(S) + 1
  BY <1>4, FS_AddElement, FS_CardinalityType
<1>. HIDE DEF S
<1>. QED  BY <1>2, <1>3, <1>5 DEF Count, One

\* Known stays when a thread moves with a peer that was made.
LEMMA KnownKept ==
    ASSUME TypeOK, Known, NEW t \in Thread, NEW place, NEW p, NEW back,
           Moves(t, place, p, back),
           p <= peers, place \in Holding => p # None,
           entry' \in {entry, None}, UNCHANGED peers
    PROVE  Known'
<1>1. None <= peers
  BY DEF TypeOK, None
<1>2. entry' <= peers'
  BY <1>1 DEF Known
<1>3. ASSUME NEW u \in Thread
      PROVE  pc'[u].peer <= peers' /\ (pc'[u].at \in Holding => pc'[u].peer # None)
  BY <1>3, Moved DEF Known
<1>. QED  BY <1>2, <1>3 DEF Known

\* What Fresh and Fate read of the peers.
Peers == <<peers, state, origin, undone>>
SameEvents == \A q \in Peer : /\ made'["CONNECT"][q] = made["CONNECT"][q]
                              /\ made'["DISCONNECT"][q] = made["DISCONNECT"][q]

LEMMA FreshKept ==
    ASSUME Fresh, UNCHANGED <<Peers, attempts>>, SameEvents
    PROVE  Fresh'
BY DEF Fresh, Peers, SameEvents, Unmade

\* The places the invariant counts.
Counted == {"close", "announce", "connected"}

\* What Fate reads of a peer is the same, but for decisions that are over.
SameFate(q) ==
    /\ state'[q] = state[q] /\ origin'[q] = origin[q] /\ undone'[q] = undone[q]
    /\ made'["CONNECT"][q] = made["CONNECT"][q]
    /\ made'["DISCONNECT"][q] = made["DISCONNECT"][q]

LEMMA FateSame ==
    ASSUME NEW q \in Peer, Fate(q), SameFate(q),
           \A there \in Counted : Count(pc', there, q) = Count(pc, there, q),
           Accepted(q)' => Accepted(q), Expiring(q)' => Expiring(q)
    PROVE  Fate(q)'
<1>1. Ends(q)' = Ends(q) /\ Connects(q)' = Connects(q)
  BY DEF Ends, Connects, SameFate, Counted
<1>2. Count(pc', "close", q) = Count(pc, "close", q)
  BY DEF Counted
<1>3. Joined(q)'
  BY <1>1 DEF Fate, Joined, SameFate
<1>4. Ended_announced(q)'
  BY <1>1 DEF Fate, Ended_announced, SameFate
<1>5. Ends_once(q)'
  BY <1>1, <1>2 DEF Fate, Ends_once, SameFate
<1>. QED  BY <1>3, <1>4, <1>5 DEF Fate

LEMMA MadeIsNat ==
    ASSUME TypeOK, NEW q \in Peer
    PROVE  made["CONNECT"][q] \in Nat /\ made["DISCONNECT"][q] \in Nat
BY DEF TypeOK, Kind

LEMMA UncountedMove ==
    ASSUME TypeOK, NEW t \in Thread, NEW place, NEW p, NEW back, Moves(t, place, p, back),
           pc[t].at \notin Counted, place \notin Counted, NEW q
    PROVE  \A there \in Counted : Count(pc', there, q) = Count(pc, there, q)
<1>1. \A there \in Counted : One(pc[t], there, q) = 0 /\ place # there
  BY DEF One, Is
<1>. QED  BY <1>1, MovedCounts, CountIsNat

\* Fate stays when a thread moves between places that are not counted, and does
\* not take a decision to write the state later ...
LEMMA FateKept ==
    ASSUME TypeOK, \A q \in Peer : Fate(q), NEW t \in Thread, NEW place, NEW p, NEW back,
           Moves(t, place, p, back),
           pc[t].at \notin Counted, place \notin Counted \cup {"accepted", "expire"},
           UNCHANGED <<state, origin, undone>>, SameEvents
    PROVE  \A q \in Peer : Fate(q)'
<1> SUFFICES ASSUME NEW q \in Peer  PROVE Fate(q)'
  OBVIOUS
<1>1. \A there \in Counted : Count(pc', there, q) = Count(pc, there, q)
  BY UncountedMove
<1>2. Accepted(q)' => Accepted(q)
  BY Moved DEF Accepted, Is, Thread
<1>3. Expiring(q)' => Expiring(q)
  BY Moved DEF Expiring, Is, Thread
<1>4. SameFate(q)
  BY DEF SameFate, SameEvents
<1>. QED  BY <1>1, <1>2, <1>3, <1>4, FateSame

\* ... and that of the other peers stays in any move.
LEMMA OtherFate ==
    ASSUME TypeOK, NEW t \in Thread, NEW place, NEW p, NEW back, Moves(t, place, p, back),
           NEW q \in Peer, Fate(q), q # p, q # pc[t].peer, SameFate(q)
    PROVE  Fate(q)'
<1>1. \A there \in Counted : Count(pc', there, q) = Count(pc, there, q)
  <2>1. \A there \in Counted : One(pc[t], there, q) = 0
    BY DEF One, Is
  <2>. QED  BY <2>1, MovedCounts, CountIsNat
<1>2. Accepted(q)' => Accepted(q)
  BY Moved DEF Accepted, Is, Thread
<1>3. Expiring(q)' => Expiring(q)
  BY Moved DEF Expiring, Is, Thread
<1>. QED  BY <1>1, <1>2, <1>3, FateSame
-----------------------------------------------------------------------------
(* The steps that only move a thread, and at most add events of other kinds *)
(* or take the address out of m_peers.                                      *)

LEMMA NoneIsNoPeer == None \notin Peer
BY DEF Peer, None

LEMMA TriesKept ==
    ASSUME TypeOK, Tries, NEW t \in Thread, NEW place, NEW p, NEW back,
           Moves(t, place, p, back),
           t = Logic => pc[t].at \notin {"find", "shut down", "close"} /\ place # "try",
           UNCHANGED <<state, attempts>>, entry' \in {entry, None}
    PROVE  Tries'
<1>1. Logic \in Thread /\ None \notin Peer
  BY NoneIsNoPeer DEF Thread
<1>2. pc'[Logic].at = "try" => pc'[Logic] = pc[Logic]
  BY <1>1, Moved
<1>3. \A q \in Peer : entry' = q => entry = q
  BY <1>1
<1>4. t = Logic => ~(pc[Logic].at = "find" \/ pc[Logic].at \in {"shut down", "close"})
  OBVIOUS
<1>5. t # Logic => pc'[Logic] = pc[Logic]
  BY <1>1, Moved
<1>. QED  BY <1>1, <1>2, <1>3, <1>4, <1>5 DEF Tries

\* The variables of which the invariant says only their type.
Typed ==
    /\ request \in {"none", "queued", "shown", "solving"} /\ inputs \in 0 .. Inputs
    /\ produce \in Seq(Event) /\ consume \in Seq(Event)
    /\ made \in [Kind -> [Peer \cup {None} -> Nat]]
    /\ handled \in [Kind -> [Peer \cup {None} -> Nat]]

LEMMA TypedKept ==
    ASSUME TypeOK, UNCHANGED queues,
           request' \in {"none", "queued", "shown", "solving"}, inputs' \in 0 .. Inputs
    PROVE  Typed' /\ SameEvents
BY DEF TypeOK, Typed, queues, SameEvents

\* A quiet step: neither the place the thread leaves nor the one it goes to is
\* counted, and the thread takes no decision to write the state.
LEMMA QuietStep ==
    ASSUME Inv, NEW t \in Thread, NEW place, NEW p, NEW back, Moves(t, place, p, back),
           p <= peers, place \in Holding => p # None,
           pc[t].at \notin Counted, place \notin Counted \cup {"accepted", "expire"},
           UNCHANGED <<Peers, attempts>>, entry' \in {entry, None}, Typed', SameEvents, Tries'
    PROVE  Inv'
<1>1. TypeOK /\ Known /\ Fresh /\ Tries /\ \A q \in Peer : Fate(q)
  BY DEF Inv
<1>2. TypeOK'
  <2>1. pc' \in [Thread -> Record]
    BY <1>1, Moved
  <2>2. entry' \in Peer \cup {None}
    BY <1>1 DEF TypeOK
  <2>. QED  BY <1>1, <2>1, <2>2 DEF TypeOK, Typed, Peers, Record
<1>3. Known'
  BY <1>1, KnownKept DEF Peers
<1>4. Fresh'
  BY <1>1, FreshKept
<1>5. \A q \in Peer : Fate(q)'
  BY <1>1, FateKept DEF Peers
<1>. QED  BY <1>2, <1>3, <1>4, <1>5 DEF Inv

\* What the invariant says of the thread at hand.
LEMMA InHand ==
    ASSUME Inv, NEW t \in Thread
    PROVE  /\ pc[t].peer \in Peer \cup {None} /\ pc[t].peer <= peers /\ None <= peers
           /\ pc[t].at \in Holding => pc[t].peer \in Peer
           /\ entry \in Peer \cup {None} /\ entry <= peers
           /\ pc[t].at \in Place /\ pc[t].back \in {"idle", "remove"}
           /\ peers \in Nat /\ None \notin Peer
BY DEF Inv, TypeOK, Known, Peer, None

LEMMA begin_connectStep ==
    ASSUME Inv, NEW u \in User, begin_connect(u)
    PROVE  Inv'
<1>1. u \in Thread /\ u # Logic /\ TypeOK /\ Tries
  BY PeerEventsAssumption DEF Thread, Inv
<1>2. Moves(u, "connect", pc[u].peer, pc[u].back)
  BY <1>1, GoesMoves DEF begin_connect, Place
<1>3. inputs' \in 0 .. Inputs
  BY <1>1, PeerEventsAssumption DEF begin_connect, TypeOK
<1>4. Typed' /\ SameEvents
  BY <1>1, <1>3, TypedKept DEF begin_connect, TypeOK
<1>5. Tries'
  BY <1>1, <1>2, TriesKept DEF begin_connect
<1>. QED  BY <1>1, <1>2, <1>4, <1>5, InHand, QuietStep
             DEF begin_connect, Counted, Peers, Holding, Ended

LEMMA disconnectStep ==
    ASSUME Inv, NEW u \in User, disconnect(u)
    PROVE  Inv'
<1>1. u \in Thread /\ u # Logic /\ TypeOK /\ Tries
  BY PeerEventsAssumption DEF Thread, Inv
<1>2. Moves(u, "find", None, "idle")
  BY <1>1, CallsMoves DEF disconnect
<1>3. inputs' \in 0 .. Inputs
  BY <1>1, PeerEventsAssumption DEF disconnect, TypeOK
<1>4. Typed' /\ SameEvents
  BY <1>1, <1>3, TypedKept DEF disconnect, TypeOK
<1>5. Tries'
  BY <1>1, <1>2, TriesKept DEF disconnect
<1>. QED  BY <1>1, <1>2, <1>4, <1>5, InHand, QuietStep
             DEF disconnect, Counted, Peers, Holding, Ended

LEMMA findStep ==
    ASSUME Inv, NEW t \in Thread, find(t)
    PROVE  Inv'
<1>1. TypeOK /\ Tries /\ Typed' /\ SameEvents
  BY TypedKept DEF find, Inv, TypeOK
<1>2. CASE entry = None
  <2>1. Moves(t, pc[t].back, None, "idle") /\ pc[t].back \in {"idle", "remove"}
    BY <1>1, <1>2, ReturnsMoves DEF find
  <2>2. Tries'
    <3>1. CASE t # Logic
      BY <1>1, <2>1, <3>1, TriesKept DEF find
    <3>2. CASE t = Logic
      BY <1>1, <1>2, <2>1, <3>2, Moved, InHand DEF Tries, find
    <3>. QED  BY <3>1, <3>2
  <2>. QED  BY <1>1, <2>1, <2>2, InHand, QuietStep DEF find, Counted, Peers, Holding, Ended
<1>3. CASE entry # None
  <2>1. Moves(t, "shut down", entry, pc[t].back)
    BY <1>1, <1>3, GoesWithMoves DEF find, TypeOK, Place
  <2>2. Tries'
    <3>1. CASE t # Logic
      BY <1>1, <2>1, <3>1, TriesKept DEF find
    <3>2. CASE t = Logic
      BY <1>1, <2>1, <3>2, Moved, InHand DEF Tries, find
    <3>. QED  BY <3>1, <3>2
  <2>. QED  BY <1>1, <1>3, <2>1, <2>2, InHand, QuietStep DEF find, Counted, Peers, Holding, Ended
<1>. QED  BY <1>2, <1>3

\* A step that moves no thread.
LEMMA StillStep ==
    ASSUME Inv, UNCHANGED <<Peers, attempts, entry, pc>>, Typed', SameEvents
    PROVE  Inv'
<1>1. TypeOK'
  BY DEF Inv, TypeOK, Typed, Peers
<1>2. Known'
  BY DEF Inv, Known, Peers
<1>3. Fresh'
  BY FreshKept DEF Inv
<1>4. Tries'
  BY DEF Inv, Tries, Peers
<1>5. ASSUME NEW q \in Peer  PROVE Fate(q)'
  <2>1. SameFate(q) /\ Accepted(q)' = Accepted(q) /\ Expiring(q)' = Expiring(q)
    BY DEF SameFate, SameEvents, Peers, Accepted, Expiring
  <2>. QED  BY <2>1, FateSame DEF Inv
<1>. QED  BY <1>1, <1>2, <1>3, <1>4, <1>5 DEF Inv

\* One more event of a kind for a peer.
LEMMA CountUp ==
    ASSUME NEW m \in [Kind -> [Peer \cup {None} -> Nat]], NEW m2,
           NEW k \in Kind, NEW p \in Peer \cup {None}, m2 = [m EXCEPT ![k][p] = @ + 1]
    PROVE  /\ m2 \in [Kind -> [Peer \cup {None} -> Nat]]
           /\ \A j \in Kind, q \in Peer \cup {None} :
                 m2[j][q] = m[j][q] + IF j = k /\ q = p THEN 1 ELSE 0
<1>1. m[k] \in [Peer \cup {None} -> Nat]
  OBVIOUS
<1>2. [m[k] EXCEPT ![p] = @ + 1] \in [Peer \cup {None} -> Nat]
  BY <1>1
<1>3. m2 \in [Kind -> [Peer \cup {None} -> Nat]]
  BY <1>2
<1>4. \A j \in Kind, q \in Peer \cup {None} :
         m2[j][q] = m[j][q] + IF j = k /\ q = p THEN 1 ELSE 0
  BY <1>1
<1>. QED  BY <1>3, <1>4

\* create_event: its types, and what it counts.
LEMMA CreateEvent ==
    ASSUME TypeOK, NEW k \in Kind, NEW p \in Peer \cup {None}, create_event(k, p),
           request' \in {"none", "queued", "shown", "solving"}, UNCHANGED inputs
    PROVE  /\ Typed'
           /\ \A j \in Kind, q \in Peer \cup {None} :
                 made'[j][q] = made[j][q] + IF j = k /\ q = p THEN 1 ELSE 0
           /\ k \notin {"CONNECT", "DISCONNECT"} => SameEvents
<1>1. made \in [Kind -> [Peer \cup {None} -> Nat]] /\ made' = [made EXCEPT ![k][p] = @ + 1]
  BY DEF TypeOK, create_event
<1>2. [kind |-> k, peer |-> p] \in Event
  BY DEF Event
<1>3. produce' \in Seq(Event)
  BY <1>2 DEF TypeOK, create_event
<1>4. made' \in [Kind -> [Peer \cup {None} -> Nat]]
  BY <1>1, CountUp
<1>5. Typed'
  BY <1>3, <1>4 DEF TypeOK, create_event, Typed
<1>6. \A j \in Kind, q \in Peer \cup {None} :
         made'[j][q] = made[j][q] + IF j = k /\ q = p THEN 1 ELSE 0
  BY <1>1, CountUp
<1>7. ASSUME k \notin {"CONNECT", "DISCONNECT"}  PROVE SameEvents
  <2>1. ASSUME NEW j \in {"CONNECT", "DISCONNECT"}, NEW q \in Peer
        PROVE  made'[j][q] = made[j][q]
    <3>1. j \in Kind /\ j # k
      BY <1>7 DEF Kind
    <3>2. made[j][q] \in Nat
      BY <1>1, <3>1
    <3>. QED  BY <1>6, <3>1, <3>2
  <2>. QED  BY <2>1 DEF SameEvents
<1>. QED  BY <1>5, <1>6, <1>7

LEMMA swapStep ==
    ASSUME Inv, swap
    PROVE  Inv'
<1>1. Typed' /\ SameEvents
  BY DEF swap, Inv, TypeOK, Typed, SameEvents
<1>. QED  BY <1>1, StillStep DEF swap, Peers

LEMMA process_eventStep ==
    ASSUME Inv, process_event
    PROVE  Inv'
<1>1. TypeOK
  BY DEF Inv
<1>2. Head(consume) \in Event /\ Rest \in Seq(Event)
  BY <1>1 DEF process_event, TypeOK, Rest
<1>3. PICK k \in Kind, p \in Peer \cup {None} : handled' = [handled EXCEPT ![k][p] = @ + 1]
  BY <1>2 DEF process_event, Event
<1>4. handled \in [Kind -> [Peer \cup {None} -> Nat]]
  BY <1>1 DEF TypeOK
<1>5. request' \in {"none", "queued", "shown", "solving"}
  BY <1>1 DEF process_event, TypeOK
<1>6. handled' \in [Kind -> [Peer \cup {None} -> Nat]]
  BY <1>3, <1>4, CountUp
<1>7. Typed' /\ SameEvents
  BY <1>1, <1>2, <1>5, <1>6 DEF process_event, TypeOK, Typed, SameEvents
<1>. QED  BY <1>7, StillStep DEF process_event, Peers

\* The receive thread.
LEMMA ReceiverIs ==
    Receiver \in Thread /\ Logic \in Thread /\ Receiver # Logic
BY PeerEventsAssumption DEF Thread

LEMMA arriveStep ==
    ASSUME Inv, arrive
    PROVE  Inv'
<1>1. TypeOK /\ Tries
  BY DEF Inv
<1>2. inputs' \in 0 .. Inputs
  BY <1>1, PeerEventsAssumption DEF arrive, TypeOK
<1>3. Typed' /\ SameEvents
  BY <1>1, <1>2, TypedKept DEF arrive, TypeOK
<1>4. ASSUME NEW kind \in DOMAIN Ended \cup {"CONNECT_ACCEPT", "DATA", "SHUTDOWN_OK", "CONNECT_REQUEST"},
             GoesWith(Receiver, kind, entry), kind # "CONNECT_REQUEST" => entry # None
      PROVE  Inv'
  <2>1. kind \in Place /\ kind \notin Counted \cup {"accepted", "expire"}
    BY <1>4 DEF Place, Ended, Counted
  <2>2. Moves(Receiver, kind, entry, pc[Receiver].back)
    BY <1>1, <1>4, <2>1, GoesWithMoves, InHand, ReceiverIs
  <2>3. kind \in Holding => entry # None
    BY <1>4 DEF Holding, Ended
  <2>4. Tries'
    BY <1>1, <2>2, ReceiverIs, TriesKept DEF arrive
  <2>. QED  BY <1>1, <1>3, <2>1, <2>2, <2>3, <2>4, InHand, ReceiverIs, QuietStep
               DEF arrive, Counted, Peers
<1>. QED  BY <1>4 DEF arrive

LEMMA end_sessionStep ==
    ASSUME Inv, end_session
    PROVE  Inv'
<1>1. TypeOK /\ Tries /\ Typed' /\ SameEvents
  BY TypedKept DEF end_session, Inv, TypeOK
<1>2. Moves(Receiver, "find", None, "idle") \/ Moves(Receiver, "idle", None, "idle")
  BY CallsMoves, IsDoneMoves DEF end_session
<1>3. Tries'
  BY <1>1, <1>2, ReceiverIs, TriesKept DEF end_session
<1>. QED  BY <1>1, <1>2, <1>3, InHand, ReceiverIs, QuietStep
             DEF end_session, Counted, Peers, Holding, Ended

LEMMA check_dataStep ==
    ASSUME Inv, check_data
    PROVE  Inv'
<1>1. TypeOK /\ Tries /\ Typed' /\ SameEvents
  BY TypedKept DEF check_data, Inv, TypeOK
<1>2. \/ Moves(Receiver, "deliver", pc[Receiver].peer, pc[Receiver].back)
      \/ Moves(Receiver, "idle", None, "idle")
  BY <1>1, ReceiverIs, GoesMoves, IsDoneMoves DEF check_data, GoesIf, Place
<1>3. Tries'
  BY <1>1, <1>2, ReceiverIs, TriesKept DEF check_data
<1>. QED  BY <1>1, <1>2, <1>3, InHand, ReceiverIs, QuietStep
             DEF check_data, Counted, Peers, Holding, Ended

LEMMA create_receive_eventStep ==
    ASSUME Inv, create_receive_event
    PROVE  Inv'
<1>1. TypeOK /\ Tries
  BY DEF Inv
<1>2. "RECEIVE" \in Kind /\ entry \in Peer \cup {None}
  BY <1>1 DEF Kind, TypeOK
<1>3. create_event("RECEIVE", entry) /\ UNCHANGED <<request, inputs>>
  BY DEF create_receive_event
<1>4. Typed' /\ SameEvents
  BY <1>1, <1>2, <1>3, CreateEvent DEF TypeOK
<1>5. Moves(Receiver, "idle", None, "idle")
  BY IsDoneMoves DEF create_receive_event
<1>6. Tries'
  BY <1>1, <1>5, ReceiverIs, TriesKept DEF create_receive_event
<1>. QED  BY <1>1, <1>4, <1>5, <1>6, InHand, ReceiverIs, QuietStep
             DEF create_receive_event, Counted, Peers, Holding, Ended

LEMMA check_shutdown_okStep ==
    ASSUME Inv, check_shutdown_ok
    PROVE  Inv'
<1>1. TypeOK /\ Tries /\ Typed' /\ SameEvents
  BY TypedKept DEF check_shutdown_ok, Inv, TypeOK
<1>2. \/ Moves(Receiver, "is up", pc[Receiver].peer, pc[Receiver].back)
      \/ Moves(Receiver, "idle", None, "idle")
  BY <1>1, ReceiverIs, GoesMoves, IsDoneMoves DEF check_shutdown_ok, GoesIf, Place
<1>3. pc[Receiver].peer # None
  BY InHand, ReceiverIs DEF check_shutdown_ok, Holding
<1>4. Tries'
  BY <1>1, <1>2, ReceiverIs, TriesKept DEF check_shutdown_ok
<1>. QED  BY <1>1, <1>2, <1>3, <1>4, InHand, ReceiverIs, QuietStep
             DEF check_shutdown_ok, Counted, Peers, Holding, Ended

LEMMA process_connect_requestStep ==
    ASSUME Inv, process_connect_request
    PROVE  Inv'
<1>1. TypeOK /\ Tries /\ Typed' /\ SameEvents
  BY TypedKept DEF process_connect_request, Inv, TypeOK
<1>2. \/ Moves(Receiver, "enlist", pc[Receiver].peer, pc[Receiver].back)
      \/ Moves(Receiver, "remove", pc[Receiver].peer, pc[Receiver].back)
      \/ Moves(Receiver, "find", None, "remove")
      \/ Moves(Receiver, "idle", None, "idle")
  BY <1>1, ReceiverIs, GoesMoves, IsDoneMoves, CallsMoves DEF process_connect_request, Place
<1>3. Tries'
  BY <1>1, <1>2, ReceiverIs, TriesKept DEF process_connect_request
<1>. QED  BY <1>1, <1>2, <1>3, InHand, ReceiverIs, QuietStep
             DEF process_connect_request, Counted, Peers, Holding, Ended

LEMMA remove_peerStep ==
    ASSUME Inv, remove_peer
    PROVE  Inv'
<1>1. TypeOK /\ Tries /\ Typed' /\ SameEvents
  BY TypedKept DEF remove_peer, Inv, TypeOK
<1>2. Moves(Receiver, "enlist", pc[Receiver].peer, pc[Receiver].back)
  BY <1>1, ReceiverIs, GoesMoves DEF remove_peer, Place
<1>3. Tries'
  BY <1>1, <1>2, ReceiverIs, TriesKept DEF remove_peer
<1>. QED  BY <1>1, <1>2, <1>3, InHand, ReceiverIs, QuietStep
             DEF remove_peer, Counted, Peers, Holding, Ended

LEMMA enlistStep ==
    ASSUME Inv, enlist
    PROVE  Inv'
<1>1. TypeOK /\ Tries
  BY DEF Inv
<1>2. "CONNECTION_REQUEST" \in Kind
  BY DEF Kind
<1>3. Typed' /\ SameEvents
  <2>1. CASE request = "none"
    BY <1>1, <1>2, <2>1, CreateEvent DEF enlist
  <2>2. CASE request # "none"
    BY <1>1, <2>2, TypedKept DEF enlist, TypeOK
  <2>. QED  BY <2>1, <2>2
<1>4. Moves(Receiver, "idle", None, "idle")
  BY IsDoneMoves DEF enlist
<1>5. Tries'
  BY <1>1, <1>4, ReceiverIs, TriesKept DEF enlist
<1>. QED  BY <1>1, <1>3, <1>4, <1>5, InHand, ReceiverIs, QuietStep
             DEF enlist, Counted, Peers, Holding, Ended
-----------------------------------------------------------------------------
(* disconnect_peer. *)

LEMMA shut_downStep ==
    ASSUME Inv, NEW t \in Thread, shut_down(t)
    PROVE  Inv'
<1>. DEFINE p == pc[t].peer
<1>1. TypeOK /\ Known /\ Fresh /\ Tries /\ Typed' /\ SameEvents /\ \A q \in Peer : Fate(q)
  BY TypedKept DEF shut_down, Inv, TypeOK
<1>2. p \in Peer /\ p <= peers /\ p # None
  BY InHand, NoneIsNoPeer DEF shut_down, Holding
<1>3. CASE state[p] \in Up
  <2>1. Moves(t, "close", p, pc[t].back)
    BY <1>1, <1>3, GoesMoves DEF shut_down, Place
  <2>2. TypeOK'
    BY <1>1, <2>1, Moved DEF shut_down, TypeOK, Typed, Record
  <2>3. Known' /\ Fresh'
    BY <1>1, <1>2, <2>1, KnownKept, FreshKept DEF shut_down, Peers
  <2>4. Tries'
    <3>1. CASE t # Logic
      BY <1>1, <2>1, <3>1, TriesKept DEF shut_down
    <3>2. CASE t = Logic
      <4>1. pc'[Logic].at = "close" /\ pc'[Logic].peer = pc[Logic].peer
        BY <1>1, <2>1, <3>2, Moved
      <4>. QED  BY <1>1, <3>2, <4>1 DEF Tries, shut_down
    <3>. QED  BY <3>1, <3>2
  <2>5. ASSUME NEW q \in Peer  PROVE Fate(q)'
    <3>1. SameFate(q)
      BY <1>1 DEF SameFate, SameEvents, shut_down
    <3>2. CASE q # p
      BY <1>1, <2>1, <3>1, <3>2, OtherFate
    <3>3. CASE q = p
      <4>1. Count(pc', "close", q) = 1
        <5>1. At(pc, "close", q) = {}
          BY <3>3 DEF shut_down, Locked, At, Is
        <5>2. One(pc[t], "close", q) = 0
          BY DEF One, Is, shut_down
        <5>. QED  BY <1>1, <2>1, <3>3, <5>1, <5>2, MovedCounts, CountIsNat
      <4>2. \A there \in {"announce", "connected"} : Count(pc', there, q) = Count(pc, there, q)
        <5>1. \A there \in {"announce", "connected"} : One(pc[t], there, q) = 0 /\ there # "close"
          BY DEF One, Is, shut_down
        <5>. QED  BY <1>1, <2>1, <5>1, MovedCounts, CountIsNat
      <4>3. Ends(q)' = Ends(q) /\ Connects(q)' = Connects(q)
        BY <3>1, <4>2 DEF Ends, Connects, SameFate
      <4>4. (Accepted(q)' => Accepted(q)) /\ (Expiring(q)' => Expiring(q))
        BY <1>1, <2>1, Moved, ReceiverIs DEF Accepted, Expiring, Is
      <4>5. Fate(q) /\ state[q] \in Up
        BY <1>1, <1>3, <3>3
      <4>6. Joined(q)'
        BY <3>1, <4>3, <4>4, <4>5 DEF Fate, Joined, SameFate
      <4>7. Ended_announced(q)'
        BY <3>1, <4>3, <4>4, <4>5 DEF Fate, Ended_announced, SameFate
      <4>8. Ends_once(q)'
        BY <3>1, <4>1, <4>3, <4>4, <4>5 DEF Fate, Ends_once, SameFate
      <4>. QED  BY <4>6, <4>7, <4>8 DEF Fate
    <3>. QED  BY <3>2, <3>3
  <2>. QED  BY <2>2, <2>3, <2>4, <2>5 DEF Inv
<1>4. CASE state[p] \notin Up
  <2>1. Moves(t, pc[t].back, None, "idle") /\ pc[t].back \in {"idle", "remove"}
    BY <1>1, <1>4, ReturnsMoves DEF shut_down
  <2>2. Tries'
    <3>1. CASE t # Logic
      BY <1>1, <2>1, <3>1, TriesKept DEF shut_down
    <3>2. CASE t = Logic
      BY <1>1, <1>4, <2>1, <3>2, Moved DEF Tries, shut_down, Up
    <3>. QED  BY <3>1, <3>2
  <2>. QED  BY <1>1, <2>1, <2>2, InHand, QuietStep DEF shut_down, Counted, Peers, Holding, Ended
<1>. QED  BY <1>3, <1>4

\* Fresh stays when a step changes no other peer than one that was made.
LEMMA FreshStep ==
    ASSUME Fresh, NEW p \in Peer, p <= peers, UNCHANGED peers, state'[p] # "NONE",
           \A q \in Peer : q # p => SameFate(q) /\ attempts'[q] = attempts[q]
    PROVE  Fresh'
<1>1. ASSUME NEW q \in Peer, q # p
      PROVE  IF q <= peers' THEN state'[q] # "NONE" ELSE Unmade(q)'
  BY <1>1 DEF Fresh, SameFate, Unmade
<1>2. IF p <= peers' THEN state'[p] # "NONE" ELSE Unmade(p)'
  OBVIOUS
<1>. QED  BY <1>1, <1>2 DEF Fresh

LEMMA closeStep ==
    ASSUME Inv, NEW t \in Thread, close(t)
    PROVE  Inv'
<1>. DEFINE p == pc[t].peer
            s == IF t \in User THEN "SHUTDOWN_REQUESTED" ELSE "DISCONNECTED"
<1>1. TypeOK /\ Known /\ Fresh /\ Tries /\ Typed' /\ SameEvents /\ \A q \in Peer : Fate(q)
  BY TypedKept DEF close, Inv, TypeOK
<1>2. p \in Peer /\ p <= peers /\ p # None
  BY InHand, NoneIsNoPeer DEF close, Holding
<1>3. s \in Down /\ state' = [state EXCEPT ![p] = s]
  BY DEF Down, close
<1>. HIDE DEF s
<1>4. Moves(t, "announce", p, pc[t].back)
  BY <1>1, GoesMoves DEF close, Place
<1>5. TypeOK'
  <2>1. state' \in [Peer -> State \cup {"NONE"}]
    BY <1>1, <1>3 DEF TypeOK, Down, State
  <2>. QED  BY <1>1, <1>4, <2>1, Moved DEF close, TypeOK, Typed, Record
<1>6. Known'
  BY <1>1, <1>2, <1>4, KnownKept DEF close
<1>7. Fresh'
  <2>1. \A q \in Peer : q # p => SameFate(q) /\ attempts'[q] = attempts[q]
    BY <1>1, <1>3 DEF SameFate, SameEvents, close, TypeOK
  <2>2. state'[p] # "NONE"
    BY <1>1, <1>2, <1>3 DEF TypeOK, Down
  <2>. QED  BY <1>1, <1>2, <2>1, <2>2, FreshStep DEF close
<1>8. Tries'
  <2>1. \A q \in Peer : state'[q] = "OUTGOING" => state[q] = "OUTGOING" /\ q # p
    BY <1>1, <1>2, <1>3 DEF TypeOK, Down
  <2>2. CASE t # Logic
    <3>1. pc'[Logic] = pc[Logic]
      BY <1>1, <1>4, <2>2, Moved, ReceiverIs
    <3>. QED  BY <1>1, <2>1, <3>1 DEF Tries, close
  <2>3. CASE t = Logic
    <3>1. pc'[Logic].at = "announce"
      BY <1>1, <1>4, <2>3, Moved
    <3>. QED  BY <1>1, <2>1, <2>3, <3>1 DEF Tries, close
  <2>. QED  BY <2>2, <2>3
<1>9. ASSUME NEW q \in Peer  PROVE Fate(q)'
  <2>1. CASE q # p
    <3>1. SameFate(q)
      BY <1>1, <1>3, <2>1 DEF SameFate, SameEvents, close, TypeOK
    <3>. QED  BY <1>1, <1>4, <2>1, <3>1, OtherFate
  <2>2. CASE q = p
    <3>1. Is(pc[t], "close", q) /\ Fate(q)
      BY <1>1, <2>2 DEF Is, close
    <3>2. Count(pc, "close", q) = 1 /\ Count(pc', "close", q) = 0
      <4>1. Count(pc, "close", q) = 1
        BY <3>1, CountSees, CountIsNat DEF Fate, Ends_once
      <4>2. One(pc[t], "close", q) = 1
        BY <3>1 DEF One
      <4>. QED  BY <1>1, <1>4, <4>1, <4>2, MovedCounts
    <3>3. Count(pc', "announce", q) = Count(pc, "announce", q) + 1
      <4>1. One(pc[t], "announce", q) = 0
        BY DEF One, Is, close
      <4>. QED  BY <1>1, <1>4, <2>2, <4>1, MovedCounts, CountIsNat
    <3>4. Count(pc', "connected", q) = Count(pc, "connected", q)
      <4>1. One(pc[t], "connected", q) = 0
        BY DEF One, Is, close
      <4>. QED  BY <1>1, <1>4, <4>1, MovedCounts, CountIsNat
    <3>5. made["DISCONNECT"][q] \in Nat /\ Count(pc, "announce", q) \in Nat
      BY <1>1, MadeIsNat, CountIsNat
    <3>6. Ends(q)' = Ends(q) + 1 /\ Ends(q) \in Nat /\ Connects(q)' = Connects(q)
      BY <1>1, <3>3, <3>4, <3>5 DEF Ends, Connects, SameEvents
    <3>7. (Accepted(q)' => Accepted(q)) /\ (Expiring(q)' => Expiring(q))
      BY <1>1, <1>4, Moved, ReceiverIs DEF Accepted, Expiring, Is
    <3>8. state'[q] \in Down /\ undone'[q] = undone[q] /\ origin'[q] = origin[q]
      BY <1>1, <1>3, <2>2 DEF close, TypeOK
    <3>9. state'[q] \notin Up /\ state'[q] \notin {"NONE", "OUTGOING"}
      BY <3>8 DEF Up, Down
    <3>10. Joined(q)'
      BY <3>1, <3>6, <3>7, <3>8, <3>9 DEF Fate, Joined
    <3>11. Ended_announced(q)'
      BY <3>6 DEF Ended_announced
    <3>12. Ends_once(q)'
      BY <3>1, <3>2, <3>6, <3>8, <3>9 DEF Fate, Ends_once
    <3>. QED  BY <3>10, <3>11, <3>12 DEF Fate
  <2>. QED  BY <2>1, <2>2
<1>. QED  BY <1>5, <1>6, <1>7, <1>8, <1>9 DEF Inv

LEMMA announceStep ==
    ASSUME Inv, NEW t \in Thread, announce(t)
    PROVE  Inv'
<1>. DEFINE p == pc[t].peer
<1>1. TypeOK /\ Known /\ Fresh /\ Tries /\ \A q \in Peer : Fate(q)
  BY DEF Inv
<1>2. p \in Peer /\ p <= peers /\ p # None
  BY InHand, NoneIsNoPeer DEF announce, Holding
<1>3. "DISCONNECT" \in Kind /\ "CONNECT" \in Kind
  BY DEF Kind
<1>4. Typed' /\ \A j \in Kind, q \in Peer \cup {None} :
         made'[j][q] = made[j][q] + IF j = "DISCONNECT" /\ q = p THEN 1 ELSE 0
  <2>1. create_event("DISCONNECT", p) /\ UNCHANGED <<request, inputs>>
    BY DEF announce
  <2>2. p \in Peer \cup {None}
    BY <1>2
  <2>. HIDE DEF p
  <2>. QED  BY <1>1, <1>3, <2>1, <2>2, CreateEvent DEF TypeOK
<1>5. \A q \in Peer : /\ made'["CONNECT"][q] = made["CONNECT"][q]
                      /\ made'["DISCONNECT"][q]
                           = IF q = p THEN made["DISCONNECT"][q] + 1 ELSE made["DISCONNECT"][q]
  BY <1>1, <1>3, <1>4, MadeIsNat
<1>6. Moves(t, pc[t].back, None, "idle") /\ pc[t].back \in {"idle", "remove"}
  BY <1>1, ReturnsMoves DEF announce
<1>7. TypeOK'
  BY <1>1, <1>4, <1>6, Moved DEF announce, TypeOK, Typed, Record
<1>8. Known'
  BY <1>1, <1>6, InHand, KnownKept DEF announce, Holding, Ended
<1>9. Fresh'
  <2>1. \A q \in Peer : q # p => SameFate(q) /\ attempts'[q] = attempts[q]
    BY <1>5 DEF SameFate, announce
  <2>2. state'[p] # "NONE"
    BY <1>1, <1>2 DEF Fresh, announce
  <2>. QED  BY <1>1, <1>2, <2>1, <2>2, FreshStep DEF announce
<1>10. Tries'
  BY <1>1, <1>6, TriesKept DEF announce
<1>11. ASSUME NEW q \in Peer  PROVE Fate(q)'
  <2>1. CASE q # p
    <3>1. SameFate(q)
      BY <1>5, <2>1 DEF SameFate, announce
    <3>2. q # None
      BY NoneIsNoPeer
    <3>. QED  BY <1>1, <1>6, <2>1, <3>1, <3>2, OtherFate
  <2>2. CASE q = p
    <3>1. Count(pc', "announce", q) = Count(pc, "announce", q) - 1
      <4>1. One(pc[t], "announce", q) = 1 /\ pc[t].back # "announce"
        BY <1>6, <2>2 DEF One, Is, announce
      <4>. QED  BY <1>1, <1>6, <4>1, MovedCounts, CountIsNat
    <3>2. \A there \in {"close", "connected"} : Count(pc', there, q) = Count(pc, there, q)
      <4>1. \A there \in {"close", "connected"} : One(pc[t], there, q) = 0 /\ pc[t].back # there
        BY <1>6 DEF One, Is, announce
      <4>. QED  BY <1>1, <1>6, <4>1, MovedCounts, CountIsNat
    <3>3. Ends(q)' = Ends(q) /\ Connects(q)' = Connects(q)
      <4>1. made["DISCONNECT"][q] \in Nat /\ Count(pc, "announce", q) \in Nat
        BY <1>1, MadeIsNat, CountIsNat
      <4>2. /\ made'["DISCONNECT"][q] = made["DISCONNECT"][q] + 1
            /\ made'["CONNECT"][q] = made["CONNECT"][q]
        BY <1>5, <2>2
      <4>. QED  BY <3>1, <3>2, <4>1, <4>2 DEF Ends, Connects
    <3>4. (Accepted(q)' => Accepted(q)) /\ (Expiring(q)' => Expiring(q))
      BY <1>1, <1>6, Moved, ReceiverIs DEF Accepted, Expiring, Is
    <3>5. Fate(q) /\ state' = state /\ origin' = origin /\ undone' = undone
      BY <1>1 DEF announce
    <3>6. Joined(q)'
      BY <3>3, <3>4, <3>5 DEF Fate, Joined
    <3>7. Ended_announced(q)'
      BY <3>3, <3>4, <3>5 DEF Fate, Ended_announced
    <3>8. Ends_once(q)'
      BY <3>2, <3>3, <3>4, <3>5 DEF Fate, Ends_once
    <3>. QED  BY <3>6, <3>7, <3>8 DEF Fate
  <2>. QED  BY <2>1, <2>2
<1>. QED  BY <1>7, <1>8, <1>9, <1>10, <1>11 DEF Inv

LEMMA disconnect_peerStep ==
    ASSUME Inv, NEW t \in Thread, disconnect_peer(t)
    PROVE  Inv'
BY findStep, shut_downStep, closeStep, announceStep DEF disconnect_peer
-----------------------------------------------------------------------------
(* The peers that are made. *)

\* Nothing is known of a peer that is not made yet.
LEMMA NewPeer ==
    ASSUME Inv, NEW n \in Peer, n > peers
    PROVE  /\ Unmade(n) /\ \A there : Count(pc, there, n) = 0
           /\ \A t \in Thread : pc[t].peer # n
<1>1. \A t \in Thread : pc[t].peer <= peers /\ pc[t].peer \in Nat
  BY InHand DEF Peer, None
<1>2. \A t \in Thread : pc[t].peer # n
  BY <1>1, InHand, ReceiverIs DEF Peer
<1>3. \A there : At(pc, there, n) = {}
  BY <1>2 DEF At, Is
<1>4. \A there : Count(pc, there, n) = 0
  BY <1>3, CountIsNat
<1>5. Unmade(n)
  BY InHand, ReceiverIs DEF Inv, Fresh, Peer
<1>. QED  BY <1>2, <1>4, <1>5

LEMMA AddStep ==
    ASSUME Inv, NEW u \in User, NEW place, NEW p, NEW back, Moves(u, place, p, back),
           NEW s \in {"OUTGOING", "CONNECTED", "SHUTDOWN_REQUESTED"},
           NEW call \in {"connect", "accept", "reject"}, add_peer(s, call), peers < MaxPeers,
           s = "SHUTDOWN_REQUESTED" => call = "reject",
           pc[u].at \notin Counted,
           \/ place = "idle" /\ p <= peers
           \/ place = "connected" /\ p = peers + 1 /\ s = "CONNECTED",
           UNCHANGED <<attempts, undone>>, Typed', SameEvents
    PROVE  Inv'
<1>1. TypeOK /\ Known /\ Fresh /\ Tries /\ \A q \in Peer : Fate(q)
  BY DEF Inv
<1>2. u \in Thread /\ u # Logic /\ u # Receiver
  BY PeerEventsAssumption DEF Thread
<1>3. PICK n : n = peers + 1
  OBVIOUS
<1>4. n \in Peer /\ n > peers /\ n # None /\ peers \in Nat
  BY <1>1, <1>3, PeerEventsAssumption DEF TypeOK, Peer, None
<1>5. /\ peers' = n /\ entry' = n /\ state'[n] = s /\ origin'[n] = call
      /\ \A q \in Peer : q # n => state'[q] = state[q] /\ origin'[q] = origin[q]
      /\ state' = [state EXCEPT ![n] = s] /\ origin' = [origin EXCEPT ![n] = call]
  BY <1>1, <1>3, <1>4 DEF add_peer, TypeOK
<1>6. Unmade(n) /\ \A t \in Thread : pc[t].peer # n
  BY <1>4, NewPeer
<1>7. TypeOK'
  <2>1. state' \in [Peer -> State \cup {"NONE"}]
    BY <1>1, <1>5 DEF TypeOK, State
  <2>2. origin' \in [Peer -> {"none", "connect", "accept", "reject"}]
    BY <1>1, <1>5 DEF TypeOK
  <2>3. peers' \in 0 .. MaxPeers /\ entry' \in Peer \cup {None}
    BY <1>4, <1>5 DEF Peer
  <2>. QED  BY <1>1, <1>2, <2>1, <2>2, <2>3, Moved DEF TypeOK, Typed, Record
<1>8. Known'
  <2>1. ASSUME NEW t \in Thread
        PROVE  pc'[t].peer <= peers' /\ (pc'[t].at \in Holding => pc'[t].peer # None)
    <3>1. CASE t # u
      <4>1. pc[t].peer <= peers /\ pc[t].peer \in Nat
        BY InHand DEF Peer, None
      <4>. QED  BY <1>1, <1>2, <1>4, <1>5, <1>3, <3>1, <4>1, Moved DEF Known
    <3>2. CASE t = u
      <4>1. p \in Nat /\ "idle" \notin Holding
        BY DEF Moves, Peer, None, Holding, Ended
      <4>. QED  BY <1>1, <1>2, <1>3, <1>4, <1>5, <3>2, <4>1, Moved
    <3>. QED  BY <3>1, <3>2
  <2>. QED  BY <1>4, <1>5, <2>1 DEF Known, Peer
<1>9. Fresh'
  <2>1. ASSUME NEW q \in Peer, q # n
        PROVE  IF q <= peers' THEN state'[q] # "NONE" ELSE Unmade(q)'
    <3>1. q \in Nat /\ (q <= peers' <=> q <= peers)
      BY <1>3, <1>4, <1>5, <2>1 DEF Peer
    <3>2. Unmade(q)' <=> Unmade(q)
      BY <1>5, <2>1 DEF Unmade, SameEvents
    <3>. QED  BY <1>1, <1>5, <2>1, <3>1, <3>2 DEF Fresh
  <2>2. n <= peers' /\ state'[n] # "NONE"
    BY <1>4, <1>5 DEF Peer
  <2>. QED  BY <2>1, <2>2 DEF Fresh
<1>10. Tries'
  <2>1. pc'[Logic] = pc[Logic]
    BY <1>1, <1>2, Moved, ReceiverIs
  <2>2. attempts[n] # MaxAttempts + 1
    BY <1>6, PeerEventsAssumption DEF Unmade
  <2>. QED  BY <1>1, <1>5, <2>1, <2>2 DEF Tries
<1>11. pc'[Receiver] = pc[Receiver] /\ pc'[Logic] = pc[Logic]
  BY <1>1, <1>2, Moved, ReceiverIs
<1>12. ASSUME NEW q \in Peer  PROVE Fate(q)'
  <2>1. \A there \in Counted : One(pc[u], there, q) = 0
    BY DEF One, Is
  <2>2. Accepted(q)' = Accepted(q) /\ Expiring(q)' = Expiring(q)
    BY <1>11 DEF Accepted, Expiring
  <2>3. CASE q # n
    <3>1. \A there \in Counted : Count(pc', there, q) = Count(pc, there, q)
      <4>1. \A there \in Counted : ~(place = there /\ p = q)
        BY <1>3, <2>3 DEF Counted
      <4>. QED  BY <1>1, <1>2, <2>1, <4>1, MovedCounts, CountIsNat
    <3>2. SameFate(q)
      BY <1>5, <2>3 DEF SameFate, SameEvents
    <3>. QED  BY <1>1, <2>2, <3>1, <3>2, FateSame
  <2>4. CASE q = n
    <3>1. \A there \in Counted : Count(pc, there, q) = 0
      BY <1>4, <2>4, NewPeer
    <3>2. Count(pc', "close", q) = 0 /\ Count(pc', "announce", q) = 0
      BY <1>1, <1>2, <2>1, <3>1, MovedCounts DEF Counted
    <3>3. Count(pc', "connected", q) = IF s = "CONNECTED" /\ place = "connected" THEN 1 ELSE 0
      BY <1>1, <1>2, <1>3, <2>1, <2>4, <3>1, MovedCounts DEF Counted
    <3>4. made'["DISCONNECT"][q] = 0 /\ made'["CONNECT"][q] = 0 /\ ~undone'[q]
      BY <1>6, <2>4 DEF Unmade, SameEvents
    <3>5. Ends(q)' = 0
      BY <3>2, <3>4 DEF Ends
    <3>6. Connects(q)' = IF s = "CONNECTED" /\ place = "connected" THEN 1 ELSE 0
      BY <3>3, <3>4 DEF Connects
    <3>7. ~Accepted(q)' /\ ~Expiring(q)'
      BY <1>6, <2>2, <2>4, ReceiverIs DEF Accepted, Expiring, Is
    <3>8. state'[q] = s /\ origin'[q] = call
      BY <1>5, <2>4
    <3>9. Joined(q)'
      BY <3>4, <3>6, <3>7, <3>8 DEF Joined
    <3>10. Ended_announced(q)'
      BY <3>7, <3>8 DEF Ended_announced, Down
    <3>11. Ends_once(q)'
      BY <3>2, <3>4, <3>5, <3>7 DEF Ends_once
    <3>. QED  BY <3>9, <3>10, <3>11 DEF Fate
  <2>. QED  BY <2>3, <2>4
<1>. QED  BY <1>7, <1>8, <1>9, <1>10, <1>12 DEF Inv

\* A thread that stays where it is, as a move.
LEMMA StaysMoves ==
    ASSUME TypeOK, NEW t \in Thread, UNCHANGED pc
    PROVE  Moves(t, pc[t].at, pc[t].peer, pc[t].back)
<1>1. pc[t] \in [at : Place, peer : Peer \cup {None}, back : {"idle", "remove"}]
  BY DEF TypeOK
<1>2. pc[t] = [at |-> pc[t].at, peer |-> pc[t].peer, back |-> pc[t].back]
  BY <1>1
<1>3. pc' = [pc EXCEPT ![t] = pc[t]]
  BY DEF TypeOK
<1>. QED  BY <1>1, <1>2, <1>3 DEF Moves

LEMMA connectStep ==
    ASSUME Inv, NEW u \in User, connect(u)
    PROVE  Inv'
<1>1. u \in Thread /\ u # Logic /\ TypeOK /\ Tries /\ peers \in 0 .. MaxPeers
  <2>1. u \in Thread /\ u # Logic
    BY PeerEventsAssumption DEF Thread
  <2>. QED  BY <2>1 DEF Inv, TypeOK
<1>2. Moves(u, "idle", None, "idle") /\ None <= peers
  BY <1>1, IsDoneMoves, InHand DEF connect
<1>3. Typed' /\ SameEvents
  BY <1>1, TypedKept DEF connect, TypeOK
<1>4. CASE add_peer("OUTGOING", "connect") /\ peers # MaxPeers
  <2>1. peers < MaxPeers
    BY <1>1, <1>4, PeerEventsAssumption
  <2>. QED  BY <1>2, <1>3, <1>4, <2>1, AddStep DEF connect, Counted
<1>5. CASE UNCHANGED <<peers, state, entry, origin>>
  <2>1. Tries'
    BY <1>1, <1>2, <1>5, TriesKept DEF connect
  <2>. QED  BY <1>1, <1>2, <1>3, <1>5, <2>1, QuietStep
               DEF connect, Counted, Peers, Holding, Ended
<1>. QED  BY <1>4, <1>5 DEF connect

LEMMA acceptStep ==
    ASSUME Inv, NEW u \in User, accept(u)
    PROVE  Inv'
<1>1. u \in Thread /\ TypeOK /\ peers \in 0 .. MaxPeers
  BY DEF Thread, Inv, TypeOK
<1>2. request' \in {"none", "queued", "shown", "solving"} /\ UNCHANGED <<inputs, queues>>
  BY DEF accept
<1>3. Typed' /\ SameEvents
  BY <1>1, <1>2, TypedKept DEF TypeOK
<1>4. CASE entry # None
  BY <1>3, <1>4, StillStep DEF accept, Peers
<1>5. CASE entry = None
  <2>1. peers < MaxPeers /\ add_peer("CONNECTED", "accept") /\ GoesWith(u, "connected", peers + 1)
    BY <1>5 DEF accept
  <2>2. peers + 1 \in Peer \cup {None}
    BY <1>1, <2>1, PeerEventsAssumption DEF Peer
  <2>3. "connected" \in Place
    BY DEF Place
  <2>4. Moves(u, "connected", peers + 1, pc[u].back)
    BY <1>1, <2>1, <2>2, <2>3, GoesWithMoves
  <2>5. pc[u].at \notin Counted /\ UNCHANGED <<attempts, undone>>
    BY DEF accept, Counted
  <2>. QED  BY <1>3, <2>1, <2>4, <2>5, AddStep
<1>. QED  BY <1>4, <1>5

LEMMA rejectStep ==
    ASSUME Inv, NEW u \in User, reject(u)
    PROVE  Inv'
<1>1. u \in Thread /\ TypeOK /\ pc[u].peer <= peers
  BY InHand DEF Thread, Inv
<1>2. request' \in {"none", "queued", "shown", "solving"} /\ UNCHANGED <<inputs, queues>>
  BY DEF reject
<1>3. Typed' /\ SameEvents
  BY <1>1, <1>2, TypedKept DEF TypeOK
<1>4. CASE entry # None
  BY <1>3, <1>4, StillStep DEF reject, Peers
<1>5. CASE entry = None
  <2>1. peers < MaxPeers /\ add_peer("SHUTDOWN_REQUESTED", "reject")
    BY <1>5 DEF reject
  <2>2. Moves(u, "idle", pc[u].peer, pc[u].back)
    BY <1>1, StaysMoves DEF reject
  <2>3. pc[u].at \notin Counted /\ UNCHANGED <<attempts, undone>>
    BY DEF reject, Counted
  <2>. QED  BY <1>1, <1>3, <2>1, <2>2, <2>3, AddStep
<1>. QED  BY <1>4, <1>5

LEMMA applicationStep ==
    ASSUME Inv, NEW u \in User, application(u)
    PROVE  Inv'
BY begin_connectStep, connectStep, disconnectStep, acceptStep, rejectStep DEF application
-----------------------------------------------------------------------------
(* The receive thread: what it does with the state of a peer. *)

LEMMA check_acceptStep ==
    ASSUME Inv, check_accept
    PROVE  Inv'
<1>. DEFINE p == pc[Receiver].peer
<1>1. TypeOK /\ Known /\ Fresh /\ Tries /\ Typed' /\ SameEvents /\ \A q \in Peer : Fate(q)
  BY TypedKept DEF check_accept, Inv, TypeOK
<1>2. p \in Peer /\ p <= peers /\ p # None
  BY InHand, NoneIsNoPeer, ReceiverIs DEF check_accept, Holding
<1>3. CASE IsDone(Receiver)
  <2>1. Moves(Receiver, "idle", None, "idle")
    BY <1>3, IsDoneMoves
  <2>2. Tries'
    BY <1>1, <2>1, ReceiverIs, TriesKept DEF check_accept
  <2>. QED  BY <1>1, <2>1, <2>2, InHand, ReceiverIs, QuietStep
               DEF check_accept, Counted, Peers, Holding, Ended
<1>4. CASE state[p] = "OUTGOING" /\ Goes(Receiver, "accepted")
  <2>1. Moves(Receiver, "accepted", p, pc[Receiver].back)
    BY <1>1, <1>4, ReceiverIs, GoesMoves DEF Place
  <2>2. TypeOK'
    BY <1>1, <2>1, Moved, ReceiverIs DEF check_accept, TypeOK, Typed, Record
  <2>3. Known' /\ Fresh'
    BY <1>1, <1>2, <2>1, KnownKept, FreshKept, ReceiverIs DEF check_accept, Peers
  <2>4. Tries'
    BY <1>1, <2>1, ReceiverIs, TriesKept DEF check_accept
  <2>5. ASSUME NEW q \in Peer  PROVE Fate(q)'
    <3>1. \A there \in Counted : Count(pc', there, q) = Count(pc, there, q)
      <4>1. pc[Receiver].at \notin Counted /\ "accepted" \notin Counted
        BY DEF Counted, check_accept
      <4>. QED  BY <1>1, <2>1, <4>1, UncountedMove, ReceiverIs
    <3>2. SameFate(q)
      BY <1>1 DEF SameFate, SameEvents, check_accept
    <3>3. Expiring(q)' => Expiring(q)
      BY <1>1, <2>1, Moved, ReceiverIs DEF Expiring
    <3>4. Accepted(q)' => state[q] = "OUTGOING"
      BY <1>1, <1>4, <2>1, Moved, ReceiverIs DEF Accepted, Is
    <3>5. Ends(q)' = Ends(q) /\ Connects(q)' = Connects(q) /\ Fate(q)
      BY <1>1, <3>1, <3>2 DEF Ends, Connects, SameFate, Counted
    <3>6. Count(pc', "close", q) = Count(pc, "close", q)
      BY <3>1 DEF Counted
    <3>7. Joined(q)'
      BY <3>2, <3>4, <3>5 DEF Fate, Joined, SameFate
    <3>8. Ended_announced(q)'
      BY <3>2, <3>3, <3>5 DEF Fate, Ended_announced, SameFate
    <3>9. Ends_once(q)'
      BY <3>2, <3>3, <3>5, <3>6 DEF Fate, Ends_once, SameFate
    <3>. QED  BY <3>7, <3>8, <3>9 DEF Fate
  <2>. QED  BY <2>2, <2>3, <2>4, <2>5 DEF Inv
<1>. QED  BY <1>3, <1>4 DEF check_accept, GoesIf

LEMMA process_connect_acceptStep ==
    ASSUME Inv, process_connect_accept
    PROVE  Inv'
<1>1. TypeOK /\ Known /\ Fresh /\ Tries /\ Typed' /\ SameEvents /\ \A q \in Peer : Fate(q)
  BY TypedKept DEF process_connect_accept, Inv, TypeOK
<1>2. PICK p \in Peer : p = pc[Receiver].peer /\ p <= peers /\ p # None
  BY InHand, NoneIsNoPeer, ReceiverIs DEF process_connect_accept, Holding
<1>3. Moves(Receiver, "connected", p, pc[Receiver].back)
  BY <1>1, <1>2, ReceiverIs, GoesMoves DEF process_connect_accept, Place
<1>4. /\ state' = [state EXCEPT ![p] = "CONNECTED"]
      /\ undone' = [undone EXCEPT ![p] = state[p] # "OUTGOING"]
  BY <1>2 DEF process_connect_accept
<1>5. \A q \in Peer : /\ state'[q] = IF q = p THEN "CONNECTED" ELSE state[q]
                      /\ q # p => undone'[q] = undone[q]
  BY <1>1, <1>4 DEF TypeOK
<1>6. undone'[p] <=> state[p] # "OUTGOING"
  BY <1>1, <1>4 DEF TypeOK
<1>7. TypeOK'
  <2>1. state' \in [Peer -> State \cup {"NONE"}]
    BY <1>1, <1>4 DEF TypeOK, State
  <2>2. (state[p] # "OUTGOING") \in BOOLEAN
    OBVIOUS
  <2>3. undone' \in [Peer -> BOOLEAN]
    BY <1>1, <1>4, <2>2 DEF TypeOK
  <2>. QED  BY <1>1, <1>3, <2>1, <2>3, Moved, ReceiverIs
            DEF process_connect_accept, TypeOK, Typed, Record
<1>8. Known'
  BY <1>1, <1>2, <1>3, KnownKept, ReceiverIs DEF process_connect_accept
<1>9. Fresh'
  <2>1. \A q \in Peer : q # p => SameFate(q) /\ attempts'[q] = attempts[q]
    BY <1>1, <1>5 DEF SameFate, SameEvents, process_connect_accept
  <2>. QED  BY <1>1, <1>2, <1>5, <2>1, FreshStep DEF process_connect_accept
<1>10. Tries'
  <2>1. pc'[Logic] = pc[Logic]
    BY <1>1, <1>3, Moved, ReceiverIs
  <2>2. \A q \in Peer : state'[q] = "OUTGOING" => state[q] = "OUTGOING"
    BY <1>5
  <2>3. entry' = entry /\ attempts' = attempts
    BY DEF process_connect_accept
  <2>. QED  BY <1>1, <2>1, <2>2, <2>3 DEF Tries
<1>11. ASSUME NEW q \in Peer  PROVE Fate(q)'
  <2>1. CASE q # p
    <3>1. SameFate(q)
      BY <1>1, <1>5, <2>1 DEF SameFate, SameEvents, process_connect_accept
    <3>. QED  BY <1>1, <1>2, <1>3, <2>1, <3>1, OtherFate, ReceiverIs
  <2>2. CASE q = p
    <3>1. Fate(q) /\ Accepted(q)
      BY <1>1, <1>2, <2>2 DEF Accepted, Is, process_connect_accept
    <3>2. \A there \in Counted : One(pc[Receiver], there, q) = 0
      BY DEF One, Is, Counted, process_connect_accept
    <3>3. /\ Count(pc', "close", q) = Count(pc, "close", q)
          /\ Count(pc', "announce", q) = Count(pc, "announce", q)
          /\ Count(pc', "connected", q) = Count(pc, "connected", q) + 1
      BY <1>1, <1>3, <2>2, <3>2, MovedCounts, CountIsNat, ReceiverIs DEF Counted
    <3>4. made["CONNECT"][q] \in Nat /\ Count(pc, "connected", q) \in Nat
      BY <1>1, MadeIsNat, CountIsNat
    <3>5. Ends(q)' = Ends(q)
      BY <1>1, <3>3 DEF Ends, SameEvents
    <3>6. Connects(q)' = 1
      BY <1>1, <3>1, <3>3, <3>4 DEF Fate, Joined, Connects, SameEvents
    <3>7. ~Accepted(q)'
      BY <1>1, <1>3, Moved, ReceiverIs DEF Accepted, Is
    <3>8. Expiring(q)' <=> Expiring(q)
      BY <1>1, <1>3, Moved, ReceiverIs DEF Expiring
    <3>9. /\ state'[q] = "CONNECTED" /\ (undone'[q] <=> state[q] # "OUTGOING")
          /\ ~undone[q] /\ origin'[q] = origin[q]
      BY <1>5, <1>6, <2>2, <3>1 DEF Fate, Joined, process_connect_accept
    <3>10. Joined(q)'
      BY <3>6, <3>7, <3>9 DEF Joined
    <3>11. Ended_announced(q)'
      BY <3>1, <3>5, <3>8, <3>9 DEF Fate, Ended_announced, Down
    <3>12. Ends_once(q)'
      <4>1. Ends(q) <= 1 /\ Count(pc, "close", q) <= 1
        BY <3>1, <3>9 DEF Fate, Ends_once
      <4>2. ASSUME ~undone'[q]
            PROVE  Ends(q) = 0 /\ ~Expiring(q)
        BY <3>1, <3>9, <4>2 DEF Fate, Ends_once, Up
      <4>3. Ends(q) \in Nat
        BY <1>1, MadeIsNat, CountIsNat DEF Ends
      <4>. QED  BY <3>3, <3>5, <3>8, <3>9, <4>1, <4>2, <4>3 DEF Ends_once, Up
    <3>. QED  BY <3>10, <3>11, <3>12 DEF Fate
  <2>. QED  BY <2>1, <2>2
<1>. QED  BY <1>7, <1>8, <1>9, <1>10, <1>11 DEF Inv

LEMMA announce_connectedStep ==
    ASSUME Inv, NEW t \in Thread, announce_connected(t)
    PROVE  Inv'
<1>1. TypeOK /\ Known /\ Fresh /\ Tries /\ \A q \in Peer : Fate(q)
  BY DEF Inv
<1>2. PICK p \in Peer : p = pc[t].peer /\ p <= peers /\ p # None
  BY InHand, NoneIsNoPeer DEF announce_connected, Holding
<1>3. "DISCONNECT" \in Kind /\ "CONNECT" \in Kind
  BY DEF Kind
<1>4. Typed' /\ \A j \in Kind, q \in Peer \cup {None} :
         made'[j][q] = made[j][q] + IF j = "CONNECT" /\ q = p THEN 1 ELSE 0
  <2>1. create_event("CONNECT", p) /\ UNCHANGED inputs
    BY <1>2 DEF announce_connected
  <2>2. request' \in {"none", "queued", "shown", "solving"}
    BY <1>1 DEF announce_connected, TypeOK
  <2>. QED  BY <1>1, <1>2, <1>3, <2>1, <2>2, CreateEvent
<1>5. \A q \in Peer : /\ made'["DISCONNECT"][q] = made["DISCONNECT"][q]
                      /\ made'["CONNECT"][q]
                           = IF q = p THEN made["CONNECT"][q] + 1 ELSE made["CONNECT"][q]
  BY <1>1, <1>3, <1>4, MadeIsNat
<1>6. Moves(t, "idle", None, "idle")
  BY IsDoneMoves DEF announce_connected
<1>7. TypeOK'
  BY <1>1, <1>4, <1>6, Moved DEF announce_connected, TypeOK, Typed, Record
<1>8. Known'
  BY <1>1, <1>6, InHand, KnownKept DEF announce_connected, Holding, Ended
<1>9. Fresh'
  <2>1. \A q \in Peer : q # p => SameFate(q) /\ attempts'[q] = attempts[q]
    BY <1>5 DEF SameFate, announce_connected
  <2>2. state'[p] # "NONE"
    BY <1>1, <1>2 DEF Fresh, announce_connected
  <2>. QED  BY <1>1, <1>2, <2>1, <2>2, FreshStep DEF announce_connected
<1>10. Tries'
  BY <1>1, <1>6, TriesKept DEF announce_connected
<1>11. ASSUME NEW q \in Peer  PROVE Fate(q)'
  <2>1. CASE q # p
    <3>1. SameFate(q)
      BY <1>5, <2>1 DEF SameFate, announce_connected
    <3>2. q # None
      BY NoneIsNoPeer
    <3>. QED  BY <1>1, <1>2, <1>6, <2>1, <3>1, <3>2, OtherFate
  <2>2. CASE q = p
    <3>1. Count(pc', "connected", q) = Count(pc, "connected", q) - 1
      <4>1. One(pc[t], "connected", q) = 1
        BY <1>2, <2>2 DEF One, Is, announce_connected
      <4>. QED  BY <1>1, <1>6, <4>1, MovedCounts, CountIsNat
    <3>2. \A there \in {"close", "announce"} : Count(pc', there, q) = Count(pc, there, q)
      <4>1. \A there \in {"close", "announce"} : One(pc[t], there, q) = 0 /\ there # "idle"
        BY DEF One, Is, announce_connected
      <4>. QED  BY <1>1, <1>6, <4>1, MovedCounts, CountIsNat
    <3>3. Ends(q)' = Ends(q) /\ Connects(q)' = Connects(q)
      <4>1. made["CONNECT"][q] \in Nat /\ Count(pc, "connected", q) \in Nat
        BY <1>1, MadeIsNat, CountIsNat
      <4>2. /\ made'["CONNECT"][q] = made["CONNECT"][q] + 1
            /\ made'["DISCONNECT"][q] = made["DISCONNECT"][q]
        BY <1>5, <2>2
      <4>. QED  BY <3>1, <3>2, <4>1, <4>2 DEF Ends, Connects
    <3>4. (Accepted(q)' => Accepted(q)) /\ (Expiring(q)' => Expiring(q))
      BY <1>1, <1>6, Moved, ReceiverIs DEF Accepted, Expiring, Is
    <3>5. Fate(q) /\ state' = state /\ origin' = origin /\ undone' = undone
      BY <1>1 DEF announce_connected
    <3>6. Joined(q)'
      BY <3>3, <3>4, <3>5 DEF Fate, Joined
    <3>7. Ended_announced(q)'
      BY <3>3, <3>4, <3>5 DEF Fate, Ended_announced
    <3>8. Ends_once(q)'
      BY <3>2, <3>3, <3>4, <3>5 DEF Fate, Ends_once
    <3>. QED  BY <3>6, <3>7, <3>8 DEF Fate
  <2>. QED  BY <2>1, <2>2
<1>. QED  BY <1>7, <1>8, <1>9, <1>10, <1>11 DEF Inv

\* A thread is done with a peer that it writes to be disconnected: the state
\* of a peer that was down, or that the logic thread saw time out.
LEMMA WriteDownStep ==
    ASSUME Inv, NEW t \in Thread, IsDone(t), pc[t].at \in {"is up", "expire"},
           NEW p \in Peer, p <= peers, Expiring(p) \/ state[p] \in Down,
           state' = [state EXCEPT ![p] = "DISCONNECTED"],
           UNCHANGED <<peers, attempts, entry, origin, undone>>, Typed', SameEvents
    PROVE  Inv'
<1>1. TypeOK /\ Known /\ Fresh /\ Tries /\ \A q \in Peer : Fate(q)
  BY DEF Inv
<1>2. Moves(t, "idle", None, "idle")
  BY IsDoneMoves
<1>3. state'[p] = "DISCONNECTED" /\ \A q \in Peer : q # p => state'[q] = state[q]
  BY <1>1 DEF TypeOK
<1>4. TypeOK'
  <2>1. state' \in [Peer -> State \cup {"NONE"}]
    BY <1>1 DEF TypeOK, State
  <2>. QED  BY <1>1, <1>2, <2>1, Moved DEF TypeOK, Typed, Record
<1>5. Known'
  BY <1>1, <1>2, InHand, KnownKept DEF Holding, Ended
<1>6. Fresh'
  <2>1. \A q \in Peer : q # p => SameFate(q) /\ attempts'[q] = attempts[q]
    BY <1>3 DEF SameFate, SameEvents
  <2>. QED  BY <1>1, <1>3, <2>1, FreshStep
<1>7. Tries'
  <2>1. \A q \in Peer : state'[q] = "OUTGOING" => state[q] = "OUTGOING"
    <3>1. SUFFICES ASSUME NEW q \in Peer, state'[q] = "OUTGOING"
                   PROVE  state[q] = "OUTGOING"
      OBVIOUS
    <3>. QED  BY <1>3, <3>1
  <2>2. CASE t # Logic
    <3>1. pc'[Logic] = pc[Logic]
      BY <1>1, <1>2, <2>2, Moved, ReceiverIs
    <3>. QED  BY <1>1, <2>1, <3>1 DEF Tries
  <2>3. CASE t = Logic
    <3>1. pc'[Logic].at = "idle" /\ pc[Logic].at \notin {"find", "shut down", "close"}
      BY <1>1, <1>2, <2>3, Moved
    <3>. QED  BY <1>1, <2>1, <3>1 DEF Tries
  <2>. QED  BY <2>2, <2>3
<1>8. ASSUME NEW q \in Peer  PROVE Fate(q)'
  <2>1. \A there \in Counted : Count(pc', there, q) = Count(pc, there, q)
    <3>1. pc[t].at \notin Counted /\ "idle" \notin Counted
      BY DEF Counted
    <3>. QED  BY <1>1, <1>2, <3>1, UncountedMove
  <2>2. (Accepted(q)' => Accepted(q)) /\ (Expiring(q)' => Expiring(q))
    BY <1>1, <1>2, Moved, ReceiverIs DEF Accepted, Expiring, Is
  <2>3. CASE q # p
    <3>1. SameFate(q)
      BY <1>3, <2>3 DEF SameFate, SameEvents
    <3>. QED  BY <1>1, <2>1, <2>2, <3>1, FateSame
  <2>4. CASE q = p
    <3>1. Ends(q)' = Ends(q) /\ Connects(q)' = Connects(q) /\ Fate(q)
      BY <1>1, <2>1 DEF Ends, Connects, SameEvents, Counted
    <3>2. Count(pc', "close", q) = Count(pc, "close", q)
      BY <2>1 DEF Counted
    <3>3. state'[q] = "DISCONNECTED" /\ origin' = origin /\ undone' = undone
      BY <1>3, <2>4
    <3>4. Expiring(q) \/ state[q] \in Down
      BY <2>4
    <3>5. Joined(q)'
      BY <2>2, <3>1, <3>3 DEF Fate, Joined
    <3>6. Ended_announced(q)'
      BY <3>1, <3>3, <3>4 DEF Fate, Ended_announced
    <3>7. Ends_once(q)'
      BY <3>1, <3>2, <3>3, <3>4 DEF Fate, Ends_once, Up, Down
    <3>. QED  BY <3>5, <3>6, <3>7 DEF Fate
  <2>. QED  BY <2>3, <2>4
<1>. QED  BY <1>4, <1>5, <1>6, <1>7, <1>8 DEF Inv

LEMMA process_shutdown_okStep ==
    ASSUME Inv, process_shutdown_ok
    PROVE  Inv'
<1>1. TypeOK /\ Tries /\ Typed' /\ SameEvents
  BY TypedKept DEF process_shutdown_ok, Inv, TypeOK
<1>2. PICK p \in Peer : p = pc[Receiver].peer /\ p <= peers
  BY InHand, ReceiverIs DEF process_shutdown_ok, Holding
<1>3. CASE state[p] = "SHUTDOWN_REQUESTED"
  <2>1. state' = [state EXCEPT ![p] = "DISCONNECTED"]
    BY <1>1, <1>2, <1>3 DEF process_shutdown_ok, TypeOK
  <2>. QED  BY <1>1, <1>2, <1>3, <2>1, ReceiverIs, WriteDownStep DEF process_shutdown_ok, Down
<1>4. CASE state[p] # "SHUTDOWN_REQUESTED"
  <2>1. state' = state
    BY <1>1, <1>2, <1>4 DEF process_shutdown_ok, TypeOK
  <2>2. Moves(Receiver, "idle", None, "idle")
    BY IsDoneMoves DEF process_shutdown_ok
  <2>3. Tries'
    BY <1>1, <2>1, <2>2, ReceiverIs, TriesKept DEF process_shutdown_ok
  <2>. QED  BY <1>1, <2>1, <2>2, <2>3, InHand, ReceiverIs, QuietStep
               DEF process_shutdown_ok, Counted, Peers, Holding, Ended
<1>. QED  BY <1>3, <1>4

LEMMA receiveStep ==
    ASSUME Inv, receive
    PROVE  Inv'
BY end_sessionStep, check_acceptStep, process_connect_acceptStep, check_dataStep,
   create_receive_eventStep, check_shutdown_okStep, process_shutdown_okStep,
   process_connect_requestStep, remove_peerStep, enlistStep DEF receive
-----------------------------------------------------------------------------
(* The logic thread. *)

LEMMA time_outStep ==
    ASSUME Inv, time_out
    PROVE  Inv'
<1>1. TypeOK /\ Tries /\ Typed' /\ SameEvents
  BY TypedKept DEF time_out, Looks, Inv, TypeOK
<1>2. Moves(Logic, "find", None, "idle")
  BY CallsMoves DEF time_out
<1>3. Tries'
  BY <1>1, <1>2, ReceiverIs, TriesKept DEF time_out, Looks
<1>. QED  BY <1>1, <1>2, <1>3, InHand, ReceiverIs, QuietStep
             DEF time_out, Looks, Counted, Peers, Holding, Ended

LEMMA lookStep ==
    ASSUME Inv, look
    PROVE  Inv'
<1>1. TypeOK /\ Known /\ Fresh /\ Tries /\ Typed' /\ SameEvents /\ \A q \in Peer : Fate(q)
  BY TypedKept DEF look, Looks, Inv, TypeOK
<1>2. pc[Logic].at = "idle" /\ UNCHANGED <<Peers, attempts, entry>> /\ pc[Logic].at \notin Counted
  BY DEF look, Looks, Peers, Counted
<1>3. entry \in Peer /\ entry <= peers /\ entry # None
  BY InHand, ReceiverIs DEF look, Looks
<1>4. CASE Looks("SHUTDOWN_REQUESTED") /\ GoesWith(Logic, "expire", entry)
  <2>1. Moves(Logic, "expire", entry, pc[Logic].back)
    BY <1>1, <1>3, <1>4, ReceiverIs, GoesWithMoves DEF Place
  <2>2. TypeOK'
    BY <1>1, <1>2, <2>1, Moved, ReceiverIs DEF Peers, TypeOK, Typed, Record
  <2>3. Known' /\ Fresh'
    BY <1>1, <1>2, <1>3, <2>1, KnownKept, FreshKept, ReceiverIs DEF Peers
  <2>4. Tries'
    BY <1>1, <1>2, <2>1, ReceiverIs, TriesKept DEF Peers
  <2>5. ASSUME NEW q \in Peer  PROVE Fate(q)'
    <3>1. \A there \in Counted : Count(pc', there, q) = Count(pc, there, q)
      BY <1>1, <1>2, <2>1, UncountedMove, ReceiverIs DEF Counted
    <3>2. SameFate(q)
      BY <1>1, <1>2 DEF SameFate, SameEvents, Peers
    <3>3. Accepted(q)' => Accepted(q)
      BY <1>1, <2>1, Moved, ReceiverIs DEF Accepted
    <3>4. Expiring(q)' => state[q] = "SHUTDOWN_REQUESTED"
      BY <1>1, <1>4, <2>1, Moved, ReceiverIs DEF Expiring, Is, Looks
    <3>5. Ends(q)' = Ends(q) /\ Connects(q)' = Connects(q) /\ Fate(q)
      BY <1>1, <3>1, <3>2 DEF Ends, Connects, SameFate, Counted
    <3>6. Count(pc', "close", q) = Count(pc, "close", q)
      BY <3>1 DEF Counted
    <3>7. Joined(q)'
      BY <3>2, <3>3, <3>5 DEF Fate, Joined, SameFate
    <3>8. Ended_announced(q)'
      BY <3>2, <3>4, <3>5 DEF Fate, Ended_announced, SameFate, Down
    <3>9. Ends_once(q)'
      BY <3>2, <3>4, <3>5, <3>6 DEF Fate, Ends_once, SameFate, Up
    <3>. QED  BY <3>7, <3>8, <3>9 DEF Fate
  <2>. QED  BY <2>2, <2>3, <2>4, <2>5 DEF Inv
<1>5. CASE Looks("DISCONNECTED") /\ Goes(Logic, "unlist")
  <2>1. Moves(Logic, "unlist", pc[Logic].peer, pc[Logic].back)
    BY <1>1, <1>5, ReceiverIs, GoesMoves DEF Place
  <2>2. Tries'
    BY <1>1, <1>2, <2>1, ReceiverIs, TriesKept DEF Peers
  <2>. QED  BY <1>1, <1>2, <2>1, <2>2, InHand, ReceiverIs, QuietStep DEF Counted, Holding, Ended
<1>6. CASE Looks("OUTGOING") /\ GoesWith(Logic, "try", entry)
  <2>1. Moves(Logic, "try", entry, pc[Logic].back)
    BY <1>1, <1>3, <1>6, ReceiverIs, GoesWithMoves DEF Place
  <2>2. Tries'
    <3>1. pc'[Logic].at = "try" /\ pc'[Logic].peer = entry
      BY <1>1, <2>1, Moved, ReceiverIs
    <3>2. state[entry] = "OUTGOING"
      BY <1>6 DEF Looks
    <3>3. attempts[entry] # MaxAttempts + 1
      BY <1>1, <1>2, <1>3, <3>2 DEF Tries
    <3>4. attempts[entry] \in 0 .. MaxAttempts + 1
      BY <1>1, <1>3 DEF TypeOK
    <3>5. attempts[entry] <= MaxAttempts
      BY <3>3, <3>4, PeerEventsAssumption
    <3>. QED  BY <1>1, <1>2, <3>1, <3>2, <3>3, <3>5 DEF Tries, Peers
  <2>. QED  BY <1>1, <1>2, <1>3, <2>1, <2>2, ReceiverIs, QuietStep DEF Counted
<1>. QED  BY <1>4, <1>5, <1>6 DEF look

LEMMA try_againStep ==
    ASSUME Inv, try_again
    PROVE  Inv'
<1>1. TypeOK /\ Known /\ Fresh /\ Tries /\ Typed' /\ SameEvents /\ \A q \in Peer : Fate(q)
  BY TypedKept DEF try_again, Inv, TypeOK
<1>2. PICK p \in Peer : p = pc[Logic].peer /\ p <= peers
  BY InHand, ReceiverIs DEF try_again, Holding
<1>3. /\ attempts' = [attempts EXCEPT ![p] = attempts[p] + 1]
      /\ UNCHANGED <<Peers, entry>> /\ pc[Logic].at = "try"
  BY <1>2 DEF try_again, Attempts, Peers
<1>4. /\ attempts'[p] = attempts[p] + 1 /\ attempts[p] \in Nat /\ attempts[p] <= MaxAttempts
      /\ \A q \in Peer : q # p => attempts'[q] = attempts[q]
  BY <1>1, <1>2, <1>3, PeerEventsAssumption DEF TypeOK, Tries
<1>5. \/ Moves(Logic, "find", None, "idle")
      \/ Moves(Logic, "idle", None, "idle") /\ attempts[p] + 1 <= MaxAttempts
  BY <1>2, CallsMoves, IsDoneMoves DEF try_again, GiveUp, CanTry, Attempts
<1>6. TypeOK'
  <2>1. attempts' \in [Peer -> 0 .. MaxAttempts + 1]
    <3>1. attempts[p] + 1 \in 0 .. MaxAttempts + 1
      BY <1>4, PeerEventsAssumption
    <3>. QED  BY <1>1, <1>3, <3>1 DEF TypeOK
  <2>2. pc' \in [Thread -> Record]
    BY <1>1, <1>5, Moved, ReceiverIs
  <2>. QED  BY <1>1, <1>3, <2>1, <2>2 DEF Peers, TypeOK, Typed, Record
<1>7. Known'
  BY <1>1, <1>3, <1>5, InHand, KnownKept, ReceiverIs DEF Peers, Holding, Ended
<1>8. Fresh'
  <2>1. \A q \in Peer : q # p => SameFate(q) /\ attempts'[q] = attempts[q]
    BY <1>1, <1>3, <1>4 DEF SameFate, SameEvents, Peers
  <2>2. state'[p] # "NONE" /\ peers' = peers
    BY <1>1, <1>2, <1>3 DEF Fresh, Peers
  <2>. QED  BY <1>1, <1>2, <2>1, <2>2, FreshStep
<1>9. Tries'
  <2>1. pc'[Logic].at \in {"find", "idle"}
    BY <1>1, <1>5, Moved, ReceiverIs
  <2>2. CASE Moves(Logic, "find", None, "idle")
    <3>1. pc'[Logic].at = "find"
      BY <1>1, <2>2, Moved, ReceiverIs
    <3>. QED  BY <3>1 DEF Tries
  <2>3. CASE attempts[p] + 1 <= MaxAttempts
    <3>1. attempts'[p] # MaxAttempts + 1
      BY <1>4, <2>3, PeerEventsAssumption
    <3>2. \A q \in Peer : ~(entry = q /\ state[q] = "OUTGOING" /\ attempts[q] = MaxAttempts + 1)
      BY <1>1, <1>3 DEF Tries
    <3>. QED  BY <1>3, <1>4, <2>1, <3>1, <3>2 DEF Tries, Peers
  <2>. QED  BY <1>5, <2>2, <2>3
<1>10. \A q \in Peer : Fate(q)'
  <2>1. pc[Logic].at \notin Counted
    BY <1>3 DEF Counted
  <2>2. "find" \notin Counted \cup {"accepted", "expire"} /\ "idle" \notin Counted \cup {"accepted", "expire"}
    BY DEF Counted
  <2>. QED  BY <1>1, <1>3, <1>5, <2>1, <2>2, FateKept, ReceiverIs DEF Peers
<1>. QED  BY <1>6, <1>7, <1>8, <1>9, <1>10 DEF Inv

LEMMA expireStep ==
    ASSUME Inv, expire
    PROVE  Inv'
<1>1. TypeOK /\ Typed' /\ SameEvents
  BY TypedKept DEF expire, Inv, TypeOK
<1>2. PICK p \in Peer : p = pc[Logic].peer /\ p <= peers
  BY InHand, ReceiverIs DEF expire, Holding
<1>3. Expiring(p) /\ state' = [state EXCEPT ![p] = "DISCONNECTED"]
  BY <1>2 DEF expire, Expiring, Is
<1>. QED  BY <1>1, <1>2, <1>3, ReceiverIs, WriteDownStep DEF expire

LEMMA unlistStep ==
    ASSUME Inv, unlist
    PROVE  Inv'
<1>1. TypeOK /\ Tries /\ Typed' /\ SameEvents
  BY TypedKept DEF unlist, Inv, TypeOK
<1>2. Moves(Logic, "idle", None, "idle")
  BY IsDoneMoves DEF unlist
<1>3. Tries'
  BY <1>1, <1>2, ReceiverIs, TriesKept DEF unlist
<1>. QED  BY <1>1, <1>2, <1>3, InHand, ReceiverIs, QuietStep
             DEF unlist, Counted, Peers, Holding, Ended

LEMMA update_logicStep ==
    ASSUME Inv, update_logic
    PROVE  Inv'
BY lookStep, try_againStep, expireStep, unlistStep DEF update_logic
-----------------------------------------------------------------------------
(* The theorems. *)

LEMMA InitInv == Init => Inv
<1> SUFFICES ASSUME Init  PROVE Inv
  OBVIOUS
<1>1. TypeOK
  <2>1. <<>> \in Seq(Event)
    OBVIOUS
  <2>2. Idle \in [at : Place, peer : Peer \cup {None}, back : {"idle", "remove"}]
    BY DEF Idle, Place
  <2>. QED  BY <2>1, <2>2, PeerEventsAssumption DEF Init, TypeOK
<1>2. Known /\ Fresh
  <2>1. Known
    <3>1. \A t \in Thread : pc[t].at = "idle" /\ pc[t].peer = None
      BY DEF Init, Idle
    <3>2. "idle" \notin Holding
      BY DEF Holding, Ended
    <3>. QED  BY <3>1, <3>2 DEF Init, Known, None
  <2>2. \A q \in Peer : Unmade(q) /\ ~(q <= peers)
    BY DEF Init, Unmade, Kind, Peer
  <2>. QED  BY <2>1, <2>2 DEF Fresh
<1>3. Tries
  BY ReceiverIs DEF Init, Tries, Idle
<1>4. ASSUME NEW q \in Peer  PROVE Fate(q)
  <2>1. \A there : Count(pc, there, q) = 0
    <3>1. \A there : At(pc, there, q) = {}
      BY NoneIsNoPeer DEF Init, At, Is, Idle
    <3>. QED  BY <3>1, CountIsNat
  <2>2. Ends(q) = 0 /\ Connects(q) = 0
    BY <2>1 DEF Init, Ends, Connects, Kind
  <2>3. ~Accepted(q) /\ ~Expiring(q)
    BY NoneIsNoPeer, ReceiverIs DEF Init, Accepted, Expiring, Is, Idle
  <2>4. state[q] = "NONE" /\ ~undone[q]
    BY DEF Init
  <2>. QED  BY <2>1, <2>2, <2>3, <2>4 DEF Fate, Joined, Ended_announced, Ends_once, Down, Up
<1>. QED  BY <1>1, <1>2, <1>3, <1>4 DEF Inv

LEMMA NextInv ==
    ASSUME Inv, [Next]_vars
    PROVE  Inv'
<1>1. CASE Next
  BY <1>1, applicationStep, disconnect_peerStep, announce_connectedStep, swapStep,
     process_eventStep, arriveStep, receiveStep, time_outStep, update_logicStep DEF Next
<1>2. CASE UNCHANGED vars
  <2>1. Typed' /\ SameEvents
    BY <1>2, TypedKept DEF vars, Inv, TypeOK
  <2>. QED  BY <1>2, <2>1, StillStep DEF vars, Peers
<1>. QED  BY <1>1, <1>2

THEOREM Invariance == Spec => []Inv
<1>1. Init => Inv
  BY InitInv
<1>2. Inv /\ [Next]_vars => Inv'
  BY NextInv
<1>. QED  BY <1>1, <1>2, PTL DEF Spec

\* The type of every variable; m_connect_attempts is counted past the last
\* attempt once and no further.
THEOREM TypeCorrect == Spec => []TypeOK
<1>1. Inv => TypeOK
  BY DEF Inv
<1>. QED  BY <1>1, Invariance, PTL

\* Whoever takes a peer down, its end is announced: shutdown returns true to
\* one caller, and this one creates the event.
THEOREM EndsAreAnnounced == Spec => []EndIsAnnounced
<1>1. Inv => EndIsAnnounced
  <2> SUFFICES ASSUME Inv, NEW p \in Peer, state[p] \in Down, origin[p] # "reject"
               PROVE  \/ made["DISCONNECT"][p] > 0
                      \/ \E t \in Thread : pc[t].at = "announce" /\ pc[t].peer = p
    BY DEF EndIsAnnounced, Down
  <2>1. Ends(p) >= 1
    BY DEF Inv, Fate, Ended_announced
  <2>2. made["DISCONNECT"][p] \in Nat
    BY MadeIsNat DEF Inv
  <2>3. made["DISCONNECT"][p] > 0 \/ Count(pc, "announce", p) # 0
    BY <2>1, <2>2, CountIsNat DEF Ends
  <2>4. At(pc, "announce", p) # {} => \E t \in Thread : pc[t].at = "announce" /\ pc[t].peer = p
    BY DEF At, Is
  <2>. QED  BY <2>3, <2>4, CountIsNat
<1>. QED  BY <1>1, Invariance, PTL

\* However the threads that disconnect a peer interleave, there is one
\* DISCONNECT event for it, and a second one only if process_connect_accept
\* wrote over a shutdown; there is never more than one CONNECT event.
THEOREM EndsAreAnnouncedOnce == Spec => []EndsOnce
<1>1. Inv => EndsOnce
  <2> SUFFICES ASSUME Inv, NEW p \in Peer
               PROVE  /\ made["CONNECT"][p] <= 1
                      /\ made["DISCONNECT"][p] <= IF undone[p] THEN 2 ELSE 1
    BY DEF EndsOnce
  <2>1. made["CONNECT"][p] \in Nat /\ made["DISCONNECT"][p] \in Nat
    BY MadeIsNat DEF Inv
  <2>2. Count(pc, "connected", p) \in Nat /\ Count(pc, "announce", p) \in Nat
    BY CountIsNat
  <2>3. Connects(p) <= 1 /\ Ends(p) <= IF undone[p] THEN 2 ELSE 1
    BY DEF Inv, Fate, Joined, Ends_once
  <2>. QED  BY <2>1, <2>2, <2>3 DEF Connects, Ends
<1>. QED  BY <1>1, Invariance, PTL
=============================================================================
