-------------------------- MODULE ConnectionProofs --------------------------
(***************************************************************************)
(* Proofs about Connection, for every bound, whatever the network and the  *)
(* applications do.                                                        *)
(***************************************************************************)
EXTENDS Connection, FiniteSetTheorems, TLAPS

\* Each of the two managers is the other one's other.
LEMMA OtherFacts ==
    ASSUME NEW m \in Manager
    PROVE  /\ Other(m) \in Manager /\ Other(m) # m /\ Other(Other(m)) = m
           /\ \A k \in Manager : k = m \/ k = Other(m)
<1>1. IsFiniteSet(Manager \ {m}) /\ Cardinality(Manager \ {m}) = 1
  BY FS_RemoveElement, ConnectionAssumption
<1>2. PICK o : Manager \ {m} = {o}
  BY <1>1, FS_Singleton
<1>3. o \in Manager /\ o # m /\ Manager = {m, o}
  BY <1>2
<1>4. Other(m) = o /\ Other(o) = m
  BY <1>3 DEF Other
<1>. QED BY <1>3, <1>4
-----------------------------------------------------------------------------
(* The types. *)

PeerRecord ==
    [state : State \cup {"NONE"}, time : 0 .. MaxTime, number : 0 .. 255, accepts : BOOLEAN,
     attempts : 0 .. MaxAttempts, since : 0 .. DisconnectTimeout + 1]
Number == 0 .. MAX_CONNECTION_NUMBER - 1
Session == [time : 0 .. MaxTime, number : Number]
HandlerRecord == [step : Step, time : 0 .. MaxTime, number : Number]

\* The accept packet of a peer carries a number that the wire can carry.
AcceptsAreWired == \A m \in Manager : peer[m].accepts => peer[m].number \in Number

\* The constants, in the form the proofs use.
LEMMA Constants ==
    /\ MaxTime \in Nat \ {0} /\ MaxAttempts \in Nat \ {0} /\ DisconnectTimeout \in Nat \ {0}
    /\ NoPeer \in PeerRecord /\ NoRequest \in Session /\ Idle \in HandlerRecord
BY ConnectionAssumption DEF NoPeer, NoRequest, Idle, PeerRecord, Session, HandlerRecord, Step, Number,
   MAX_CONNECTION_NUMBER

\* The types of the variables of one manager.
LEMMA TypesAt ==
    ASSUME TypeOK, NEW m \in Manager
    PROVE  /\ peer[m] \in PeerRecord /\ request[m] \in Session /\ clock[m] \in 0 .. MaxTime
           /\ net[m] \in SUBSET Packet /\ open[m] \in Int /\ dropped[m] \in Nat
           /\ handler[m] \in HandlerRecord /\ logic[m] \in LogicStep /\ stale[m] \in SUBSET Thread
           /\ accepted[m] \in SUBSET (0 .. MaxTime) /\ closed[m] \in SUBSET Session
BY DEF TypeOK, PeerRecord, Session, HandlerRecord, Number

LEMMA PeerNumber ==
    ASSUME TypeOK, NEW m \in Manager
    PROVE  peer[m].number \in Nat
<1>1. peer[m] \in PeerRecord
  BY TypesAt
<1>. QED BY <1>1 DEF PeerRecord

\* The header keeps a number below 4, and makes one of any other.
LEMMA WireType ==
    ASSUME NEW n \in Nat
    PROVE  Wire(n) \in Number /\ (n \in Number => Wire(n) = n)
BY DEF Wire, Number, MAX_CONNECTION_NUMBER

\* The packets the handlers make.
LEMMA PacketTypes ==
    /\ \A time \in 0 .. MaxTime, number \in Nat :
          /\ ConnectRequest(time, number) \in Packet
          /\ Disconnect(time, number) \in Packet
    /\ \A time \in 0 .. MaxTime, number \in Number : ConnectAccept(time, number) \in Packet
    /\ \A number \in Nat : Data(number) \in Packet
    /\ \A kind \in BareKind : Bare(kind) \in Packet
<1>1. 0 \in 0 .. MaxTime
  BY Constants
<1>2. \A number \in Nat : Wire(number) \in Number
  BY WireType
<1>3. \A kind \in BareKind : Bare(kind) \in Packet
  BY DEF Packet
<1>4. Bare("MALFORMED") \in Packet
  BY <1>3 DEF BareKind
<1>5. \A time \in 0 .. MaxTime, number \in Nat : Disconnect(time, number) \in Packet
  BY <1>2, <1>4 DEF Packet, Disconnect, Number
<1>. QED BY <1>1, <1>2, <1>3, <1>5 DEF Packet, ConnectRequest, ConnectAccept, Data, Number

\* What is new on the network is what was sent.
LEMMA SendType ==
    ASSUME TypeOK, NEW m \in Manager, NEW ds \in SUBSET Packet, Send(m, ds)
    PROVE  /\ net' \in [Manager -> SUBSET Packet]
           /\ \A k \in Manager : net'[k] \subseteq net[k] \cup (IF k = Other(m) THEN ds ELSE {})
<1>1. net \in [Manager -> SUBSET Packet]
  BY DEF TypeOK
<1>2. \A s : Fits(s, ds) \subseteq s \cup ds
  BY DEF Fits
<1>3. Other(m) \in Manager
  BY OtherFacts
<1>4. net' = [net EXCEPT ![Other(m)] = Fits(net[Other(m)], ds)]
  BY <1>3, <1>1 DEF Send
<1>. QED BY <1>1, <1>2, <1>3, <1>4

LEMMA ReceiveAndSendType ==
    ASSUME TypeOK, NEW m \in Manager, NEW d, NEW ds \in SUBSET Packet, ReceiveAndSend(m, d, ds)
    PROVE  /\ net' \in [Manager -> SUBSET Packet]
           /\ \A k \in Manager : net'[k] \subseteq net[k] \cup (IF k = Other(m) THEN ds ELSE {})
<1>1. net \in [Manager -> SUBSET Packet]
  BY DEF TypeOK
<1>2. \A s : Fits(s, ds) \subseteq s \cup ds
  BY DEF Fits
<1>3. Other(m) \in Manager /\ Other(m) # m
  BY OtherFacts
<1>4. net' = [net EXCEPT ![m] = Consumed(m, d), ![Other(m)] = Fits(net[Other(m)], ds)]
  BY <1>3, <1>1 DEF ReceiveAndSend
<1>5. Consumed(m, d) \subseteq net[m]
  BY DEF Consumed
<1>. QED BY <1>1, <1>2, <1>3, <1>4, <1>5
-----------------------------------------------------------------------------
(* The inductive invariant.  x, r, o, k, A and C stand for the peer, the    *)
(* request, the open events, the dropped peers, the accepted times and the  *)
(* closed sessions of one manager; h, l and s for its threads.              *)

\* What a manager's peer says is what the manager did: times are real, a
\* peer that answers requests was accepted, one that sends DISCONNECT packets
\* was closed, and the application knows of the connection.
PeerIsSound(x, r, o, k, A, C) ==
    /\ x.accepts => x.number \in Number /\ x.time \in A
    /\ x.state # "NONE" => x.time # 0
    /\ x.state = "SHUTDOWN_REQUESTED" => [time |-> x.time, number |-> Wire(x.number)] \in C
    /\ r # NoRequest => r.time # 0
    /\ o = (IF x.state = "CONNECTED" THEN 1 ELSE 0) + k

\* What a packet says is what its sender did.
PacketIsSound(d, A, C) ==
    /\ d.kind = "CONNECT_REQUEST" => d.time # 0
    /\ d.kind = "CONNECT_ACCEPT" => d.time \in A
    /\ d.kind = "DISCONNECT" /\ d.time # 0 => [time |-> d.time, number |-> d.number] \in C

\* A connected peer that did not accept was accepted by the other side.
AcceptIsSound(x, A) == x.state = "CONNECTED" /\ ~x.accepts => x.time \in A

\* No connection comes out of these states: the peer has to be replaced.
Settled == {"NONE", "DISCONNECTED", "SHUTDOWN_REQUESTED"}

\* A thread that is about to remove a peer, or to end a session for a DISCONNECT
\* packet, has looked at this peer or another one has taken its address since.
ThreadsAreSound(x, h, l, s, C) ==
    /\ h.step \in {"RECONNECT", "REMOVE"} => h.time # 0
    /\ h.step = "REMOVE" /\ "receive" \notin s => x.state \in Settled
    /\ l = "REMOVE" /\ "logic" \notin s => x.state \in Settled
    /\ h.step = "DISCONNECT" =>
          /\ [time |-> h.time, number |-> h.number] \in C
          /\ "receive" \notin s /\ x.state # "NONE" => x.time = h.time /\ x.number = h.number

IInv ==
    /\ TypeOK
    /\ \A m \in Manager :
          /\ PeerIsSound(peer[m], request[m], open[m], dropped[m], accepted[m], closed[m])
          /\ AcceptIsSound(peer[m], accepted[Other(m)])
          /\ ThreadsAreSound(peer[m], handler[m], logic[m], stale[m], closed[Other(m)])
          /\ \A d \in net[m] : PacketIsSound(d, accepted[Other(m)], closed[Other(m)])

\* A step of m: it changes nothing of the other manager, and sends it ds.
StepOf(m, x, r, o, A, C, ds) ==
    /\ peer' = [peer EXCEPT ![m] = x] /\ request' = [request EXCEPT ![m] = r]
    /\ open' = [open EXCEPT ![m] = o]
    /\ accepted' = [accepted EXCEPT ![m] = A] /\ closed' = [closed EXCEPT ![m] = C]
    /\ net' \in [Manager -> SUBSET Packet]
    /\ \A k \in Manager : net'[k] \subseteq net[k] \cup (IF k = Other(m) THEN ds ELSE {})
    /\ clock' \in [Manager -> 0 .. MaxTime]
    /\ turn' \in Manager
    /\ calls' \in Application

\* What it does to the threads of m.
ThreadsOf(m, h, l, s, k) ==
    /\ handler' = [handler EXCEPT ![m] = h] /\ logic' = [logic EXCEPT ![m] = l]
    /\ stale' = [stale EXCEPT ![m] = s] /\ dropped' = [dropped EXCEPT ![m] = k]

\* It keeps the invariant if what it leaves and what it sends are sound.
LEMMA StepKeepsInv ==
    ASSUME IInv, NEW m \in Manager, NEW x \in PeerRecord, NEW r \in Session, NEW o \in Int,
           NEW A \in SUBSET (0 .. MaxTime), NEW C \in SUBSET Session, NEW ds,
           NEW h \in HandlerRecord, NEW l \in LogicStep, NEW s \in SUBSET Thread, NEW k \in Nat,
           StepOf(m, x, r, o, A, C, ds), ThreadsOf(m, h, l, s, k),
           accepted[m] \subseteq A, closed[m] \subseteq C,
           PeerIsSound(x, r, o, k, A, C), AcceptIsSound(x, accepted[Other(m)]),
           ThreadsAreSound(x, h, l, s, closed[Other(m)]),
           \A d \in ds : PacketIsSound(d, A, C)
    PROVE  IInv'
<1>1. TypeOK
  BY DEF IInv
<1>2. TypeOK'
  <2>1. /\ peer' \in [Manager -> PeerRecord] /\ request' \in [Manager -> Session]
        /\ open' \in [Manager -> Int] /\ accepted' \in [Manager -> SUBSET (0 .. MaxTime)]
        /\ closed' \in [Manager -> SUBSET Session]
    BY <1>1 DEF TypeOK, StepOf, PeerRecord, Session, Number
  <2>2. /\ handler' \in [Manager -> HandlerRecord] /\ logic' \in [Manager -> LogicStep]
        /\ stale' \in [Manager -> SUBSET Thread] /\ dropped' \in [Manager -> Nat]
    BY <1>1 DEF TypeOK, ThreadsOf, HandlerRecord, Number
  <2>. QED BY <2>1, <2>2 DEF StepOf, TypeOK, PeerRecord, Session, HandlerRecord, Number
<1>3. /\ peer'[m] = x /\ request'[m] = r /\ open'[m] = o /\ accepted'[m] = A /\ closed'[m] = C
      /\ \A j \in Manager : j # m =>
            /\ peer'[j] = peer[j] /\ request'[j] = request[j] /\ open'[j] = open[j]
            /\ accepted'[j] = accepted[j] /\ closed'[j] = closed[j]
  BY <1>1 DEF StepOf, TypeOK
<1>4. /\ handler'[m] = h /\ logic'[m] = l /\ stale'[m] = s /\ dropped'[m] = k
      /\ \A j \in Manager : j # m =>
            /\ handler'[j] = handler[j] /\ logic'[j] = logic[j] /\ stale'[j] = stale[j]
            /\ dropped'[j] = dropped[j]
  BY <1>1 DEF ThreadsOf, TypeOK
<1>5. \A j \in Manager : accepted[j] \subseteq accepted'[j] /\ closed[j] \subseteq closed'[j]
  BY <1>3
<1>6. ASSUME NEW j \in Manager
      PROVE  PeerIsSound(peer'[j], request'[j], open'[j], dropped'[j], accepted'[j], closed'[j])
  BY <1>3, <1>4 DEF IInv
<1>7. ASSUME NEW j \in Manager
      PROVE  AcceptIsSound(peer'[j], accepted'[Other(j)])
  <2>1. Other(j) \in Manager
    BY OtherFacts
  <2>2. AcceptIsSound(peer'[j], accepted[Other(j)])
    BY <1>3 DEF IInv
  <2>. QED BY <2>1, <2>2, <1>5 DEF AcceptIsSound
<1>8. ASSUME NEW j \in Manager
      PROVE  ThreadsAreSound(peer'[j], handler'[j], logic'[j], stale'[j], closed'[Other(j)])
  <2>1. Other(j) \in Manager
    BY OtherFacts
  <2>2. ThreadsAreSound(peer'[j], handler'[j], logic'[j], stale'[j], closed[Other(j)])
    BY <1>3, <1>4 DEF IInv
  <2>. QED BY <2>1, <2>2, <1>5 DEF ThreadsAreSound
<1>9. ASSUME NEW j \in Manager, NEW d \in net'[j]
      PROVE  PacketIsSound(d, accepted'[Other(j)], closed'[Other(j)])
  <2>1. Other(j) \in Manager
    BY OtherFacts
  <2>2. CASE d \in net[j]
    <3>1. PacketIsSound(d, accepted[Other(j)], closed[Other(j)])
      BY <2>2 DEF IInv
    <3>. QED BY <3>1, <2>1, <1>5 DEF PacketIsSound
  <2>3. CASE d \notin net[j]
    <3>1. j = Other(m) /\ d \in ds
      BY <2>3, <1>9 DEF StepOf
    <3>2. Other(j) = m
      BY <3>1, OtherFacts
    <3>. QED BY <3>1, <3>2, <1>3
  <2>. QED BY <2>2, <2>3
<1>. QED BY <1>2, <1>6, <1>7, <1>8, <1>9 DEF IInv

\* The invariant, at one manager.
LEMMA InvAt ==
    ASSUME IInv, NEW m \in Manager
    PROVE  /\ TypeOK
           /\ PeerIsSound(peer[m], request[m], open[m], dropped[m], accepted[m], closed[m])
           /\ AcceptIsSound(peer[m], accepted[Other(m)])
           /\ ThreadsAreSound(peer[m], handler[m], logic[m], stale[m], closed[Other(m)])
           /\ \A d \in net[m] : PacketIsSound(d, accepted[Other(m)], closed[Other(m)])
BY DEF IInv

\* A variable that does not change is a step like any other.
LEMMA SameAt ==
    ASSUME TypeOK, NEW m \in Manager
    PROVE  /\ peer = [peer EXCEPT ![m] = peer[m]] /\ request = [request EXCEPT ![m] = request[m]]
           /\ open = [open EXCEPT ![m] = open[m]]
           /\ accepted = [accepted EXCEPT ![m] = accepted[m]]
           /\ closed = [closed EXCEPT ![m] = closed[m]]
           /\ handler = [handler EXCEPT ![m] = handler[m]] /\ logic = [logic EXCEPT ![m] = logic[m]]
           /\ stale = [stale EXCEPT ![m] = stale[m]] /\ dropped = [dropped EXCEPT ![m] = dropped[m]]
           /\ clock \in [Manager -> 0 .. MaxTime] /\ turn \in Manager
           /\ calls \in Application
BY DEF TypeOK

\* Threads whose peer is as settled as it was, and still has its session, are
\* as sound as they were.
LEMMA ThreadsStaySound ==
    ASSUME NEW x, NEW y, NEW h, NEW l, NEW s, NEW C, ThreadsAreSound(y, h, l, s, C),
           y.state \in Settled => x.state \in Settled,
           h.step = "DISCONNECT" /\ x.state # "NONE" =>
              y.state # "NONE" /\ x.time = y.time /\ x.number = y.number
    PROVE  ThreadsAreSound(x, h, l, s, C)
BY DEF ThreadsAreSound

\* A step that leaves the threads alone.
LEMMA PeerStepKeepsInv ==
    ASSUME IInv, NEW m \in Manager, NEW x \in PeerRecord, NEW r \in Session, NEW o \in Int,
           NEW A \in SUBSET (0 .. MaxTime), NEW C \in SUBSET Session, NEW ds,
           StepOf(m, x, r, o, A, C, ds), UNCHANGED threads,
           accepted[m] \subseteq A, closed[m] \subseteq C,
           PeerIsSound(x, r, o, dropped[m], A, C), AcceptIsSound(x, accepted[Other(m)]),
           peer[m].state \in Settled => x.state \in Settled,
           handler[m].step = "DISCONNECT" /\ x.state # "NONE" =>
              peer[m].state # "NONE" /\ x.time = peer[m].time /\ x.number = peer[m].number,
           \A d \in ds : PacketIsSound(d, A, C)
    PROVE  IInv'
<1>1. TypeOK
  BY DEF IInv
<1>2. ThreadsAreSound(x, handler[m], logic[m], stale[m], closed[Other(m)])
  BY InvAt, ThreadsStaySound
<1>3. ThreadsOf(m, handler[m], logic[m], stale[m], dropped[m])
  BY <1>1, SameAt DEF threads, ThreadsOf
<1>. QED BY <1>1, <1>2, <1>3, TypesAt, StepKeepsInv

\* One that puts another peer at the address.
LEMMA AddPeerKeepsInv ==
    ASSUME IInv, NEW m \in Manager, NEW x \in PeerRecord, NEW r \in Session, NEW o \in Int,
           NEW A \in SUBSET (0 .. MaxTime), NEW C \in SUBSET Session, NEW ds,
           StepOf(m, x, r, o, A, C, ds), add_peer(m, x),
           accepted[m] \subseteq A, closed[m] \subseteq C,
           PeerIsSound(x, r, o, dropped[m], A, C), AcceptIsSound(x, accepted[Other(m)]),
           \A d \in ds : PacketIsSound(d, A, C)
    PROVE  IInv'
<1>. DEFINE s == {t \in Thread : IsBusy(m, t)}
<1>1. TypeOK
  BY DEF IInv
<1>2. /\ handler[m] # Idle => "receive" \in s
      /\ logic[m] # "IDLE" => "logic" \in s
  BY DEF IsBusy, Thread
<1>3. ThreadsAreSound(x, handler[m], logic[m], s, closed[Other(m)])
  <2>1. ThreadsAreSound(peer[m], handler[m], logic[m], stale[m], closed[Other(m)])
    BY InvAt
  <2>2. handler[m] = Idle => handler[m].step = "IDLE"
    BY DEF Idle
  <2>. HIDE DEF s
  <2>. QED BY <1>2, <2>1, <2>2 DEF ThreadsAreSound
<1>4. ThreadsOf(m, handler[m], logic[m], s, dropped[m])
  BY <1>1, SameAt DEF add_peer, ThreadsOf
<1>5. s \in SUBSET Thread
  OBVIOUS
<1>. HIDE DEF s
<1>. QED BY <1>1, <1>3, <1>4, <1>5, TypesAt, StepKeepsInv

\* NoPeer and NoRequest are sound.
LEMMA NothingIsSound ==
    ASSUME NEW A, NEW C, NEW k \in Int
    PROVE  /\ PeerIsSound(NoPeer, NoRequest, k, k, A, C) /\ AcceptIsSound(NoPeer, A)
           /\ \A r : r # NoRequest /\ r.time # 0 => PeerIsSound(NoPeer, r, k, k, A, C)
           /\ \A s : ThreadsAreSound(NoPeer, Idle, "IDLE", s, C)
BY DEF PeerIsSound, AcceptIsSound, ThreadsAreSound, NoPeer, Idle

\* A thread that is done with the address.
LEMMA IdleIsSound ==
    ASSUME NEW x, NEW h, NEW l, NEW s, NEW C, ThreadsAreSound(x, h, l, s, C)
    PROVE  /\ ThreadsAreSound(x, Idle, l, s \ {"receive"}, C)
           /\ ThreadsAreSound(x, Idle, l, s, C)
           /\ ThreadsAreSound(x, h, "IDLE", s \ {"logic"}, C)
BY DEF ThreadsAreSound, Idle

\* At the start there is nothing.
LEMMA InitInv == Init => IInv
<1>. SUFFICES ASSUME Init PROVE IInv
  OBVIOUS
<1>1. turn \in Manager
  <2>1. \E m \in Manager : TRUE
    BY ConnectionAssumption, FS_EmptySet
  <2>. QED BY <2>1 DEF Init
<1>2. TypeOK
  <2>1. calls \in Application
    BY ConnectionAssumption DEF Init
  <2>2. /\ handler \in [Manager -> HandlerRecord] /\ logic \in [Manager -> LogicStep]
        /\ stale \in [Manager -> SUBSET Thread] /\ dropped \in [Manager -> Nat]
    BY Constants DEF Init, LogicStep
  <2>. QED BY <1>1, <2>1, <2>2, Constants
           DEF Init, TypeOK, PeerRecord, Session, HandlerRecord, Number
<1>3. ASSUME NEW m \in Manager
      PROVE  /\ PeerIsSound(peer[m], request[m], open[m], dropped[m], accepted[m], closed[m])
             /\ AcceptIsSound(peer[m], accepted[Other(m)])
             /\ ThreadsAreSound(peer[m], handler[m], logic[m], stale[m], closed[Other(m)])
             /\ net[m] = {}
  <2>1. /\ peer[m] = NoPeer /\ request[m] = NoRequest /\ open[m] = 0 /\ dropped[m] = 0
        /\ handler[m] = Idle /\ logic[m] = "IDLE" /\ net[m] = {}
    BY DEF Init
  <2>2. 0 \in Int
    OBVIOUS
  <2>. QED BY <2>1, <2>2, NothingIsSound
<1>. QED BY <1>2, <1>3 DEF IInv
-----------------------------------------------------------------------------
(* The steps. *)

\* A handler that changes nothing but the network.
LEMMA IgnoreInv ==
    ASSUME IInv, NEW m \in Manager, NEW d, NEW ds \in SUBSET Packet, ignore(m, d, ds),
           \A e \in ds : PacketIsSound(e, accepted[m], closed[m])
    PROVE  IInv'
<1>1. TypeOK
  BY DEF IInv
<1>2. StepOf(m, peer[m], request[m], open[m], accepted[m], closed[m], ds) /\ UNCHANGED threads
  BY <1>1, SameAt, ReceiveAndSendType DEF ignore, history, StepOf
<1>. QED BY <1>1, <1>2, TypesAt, InvAt, PeerStepKeepsInv

\* disconnect_peer_force leaves a sound peer.
LEMMA ForcedIsSound ==
    ASSUME IInv, NEW m \in Manager
    PROVE  /\ Forced(m) \in PeerRecord /\ OpenAfterShutdown(m) \in Int
           /\ PeerIsSound(Forced(m), request[m], OpenAfterShutdown(m), dropped[m],
                          accepted[m], closed[m])
           /\ AcceptIsSound(Forced(m), accepted[Other(m)])
           /\ ThreadsAreSound(Forced(m), handler[m], logic[m], stale[m], closed[Other(m)])
           /\ Forced(m).state \in Settled
           /\ OpenAfterShutdown(m) = dropped[m]
<1>1. TypeOK
  BY DEF IInv
<1>2. peer[m] \in PeerRecord /\ open[m] \in Int /\ dropped[m] \in Nat
  BY <1>1, TypesAt
<1>3. /\ PeerIsSound(peer[m], request[m], open[m], dropped[m], accepted[m], closed[m])
      /\ AcceptIsSound(peer[m], accepted[Other(m)])
      /\ ThreadsAreSound(peer[m], handler[m], logic[m], stale[m], closed[Other(m)])
  BY InvAt
<1>4. CASE ShutdownResult(m) = "NONE"
  <2>1. peer[m].state \in Settled
    BY <1>4, <1>2 DEF ShutdownResult, Settled
  <2>2. Forced(m) = peer[m] /\ OpenAfterShutdown(m) = open[m]
    BY <1>4 DEF Forced, OpenAfterShutdown
  <2>3. open[m] = dropped[m]
    BY <2>1, <1>2, <1>3 DEF PeerIsSound, Settled
  <2>. QED BY <2>1, <2>2, <2>3, <1>2, <1>3
<1>5. CASE ShutdownResult(m) # "NONE"
  <2>1. /\ peer[m].state \in {"OUTGOING", "CONNECTED"}
        /\ ShutdownResult(m) = "WAS_CONNECTED" <=> peer[m].state = "CONNECTED"
    BY <1>5, <1>2 DEF ShutdownResult, PeerRecord, State
  <2>2. Forced(m) = [peer[m] EXCEPT !.state = "DISCONNECTED"]
    BY <1>5 DEF Forced
  <2>3. Forced(m) \in PeerRecord
    BY <2>2, <1>2 DEF PeerRecord, State
  <2>4. OpenAfterShutdown(m) = dropped[m]
    BY <2>1, <1>2, <1>3 DEF PeerIsSound, OpenAfterShutdown
  <2>5. /\ Forced(m).state = "DISCONNECTED" /\ Forced(m).time = peer[m].time
        /\ Forced(m).number = peer[m].number /\ Forced(m).accepts = peer[m].accepts
    BY <2>2, <1>2 DEF PeerRecord
  <2>6. PeerIsSound(Forced(m), request[m], dropped[m], dropped[m], accepted[m], closed[m])
    BY <2>1, <2>5, <1>2, <1>3 DEF PeerIsSound
  <2>7. AcceptIsSound(Forced(m), accepted[Other(m)])
    BY <2>5 DEF AcceptIsSound
  <2>8. Forced(m).state \in Settled
    BY <2>5 DEF Settled
  <2>9. ThreadsAreSound(Forced(m), handler[m], logic[m], stale[m], closed[Other(m)])
    BY <1>3, <2>1, <2>5, <2>8, ThreadsStaySound
  <2>. QED BY <1>2, <2>3, <2>4, <2>6, <2>7, <2>8, <2>9
<1>. QED BY <1>4, <1>5

\* The application.

LEMMA ConnectInv ==
    ASSUME IInv, NEW m \in Manager, connect(m)
    PROVE  IInv'
<1>1. TypeOK
  BY DEF IInv
<1>2. PICK time \in clock[m] + 1 .. MaxTime, number \in 0 .. 255 :
        /\ clock' = [clock EXCEPT ![m] = time]
        /\ add_peer(m, [NoPeer EXCEPT !.state = "OUTGOING", !.time = time, !.number = number])
        /\ Send(m, {ConnectRequest(time, number)})
  <2>1. peer[m] \in PeerRecord
    BY <1>1, TypesAt
  <2>2. (peer[m].number + 1) % MAX_CONNECTION_NUMBER \in 0 .. 255
    BY <2>1 DEF PeerRecord, MAX_CONNECTION_NUMBER
  <2>3. Uninitialised \subseteq 0 .. 255
    BY ConnectionAssumption
  <2>. QED BY <2>2, <2>3 DEF connect
<1>3. time \in 0 .. MaxTime /\ time # 0
  BY <1>1, TypesAt
<1>. DEFINE x == [NoPeer EXCEPT !.state = "OUTGOING", !.time = time, !.number = number]
            d == ConnectRequest(time, number)
<1>4. x \in PeerRecord
  BY <1>3, Constants DEF PeerRecord, NoPeer, State
<1>5. x.state = "OUTGOING" /\ x.time = time /\ x.accepts = FALSE
  BY DEF NoPeer
<1>6. peer[m].state # "CONNECTED" /\ request[m] = NoRequest
  BY DEF connect, IsConnected
<1>7. open[m] = 0 + dropped[m]
  BY <1>6, InvAt DEF PeerIsSound
<1>8. PeerIsSound(x, request[m], open[m], dropped[m], accepted[m], closed[m])
  BY <1>3, <1>5, <1>6, <1>7 DEF PeerIsSound
<1>9. AcceptIsSound(x, accepted[Other(m)])
  BY <1>5 DEF AcceptIsSound
<1>10. {d} \in SUBSET Packet
  BY <1>3, PacketTypes
<1>11. PacketIsSound(d, accepted[m], closed[m])
  BY <1>3 DEF PacketIsSound, ConnectRequest
<1>12. clock' \in [Manager -> 0 .. MaxTime]
  BY <1>1, <1>2, <1>3, SameAt
<1>13. add_peer(m, x) /\ peer' = [peer EXCEPT ![m] = x] /\ Send(m, {d})
  BY <1>2 DEF add_peer
<1>15. calls' \in Application
  <2>1. calls \in Application /\ calls.connects > 0
    BY <1>1, SameAt DEF connect
  <2>2. calls.connects - 1 \in Nat
    BY <2>1 DEF Application
  <2>. QED BY <2>1, <2>2 DEF connect, Application
<1>. HIDE DEF x, d
<1>14. StepOf(m, x, request[m], open[m], accepted[m], closed[m], {d})
  BY <1>1, <1>10, <1>12, <1>13, <1>15, SameAt, SendType DEF connect, history, StepOf
<1>. QED BY <1>1, <1>4, <1>8, <1>9, <1>11, <1>13, <1>14, TypesAt, AddPeerKeepsInv

LEMMA DisconnectInv ==
    ASSUME IInv, NEW m \in Manager, disconnect(m)
    PROVE  IInv'
<1>1. TypeOK
  BY DEF IInv
<1>. DEFINE x == [peer[m] EXCEPT !.state = "SHUTDOWN_REQUESTED", !.since = 0]
            session == [time |-> peer[m].time, number |-> Wire(peer[m].number)]
            C == closed[m] \cup {session}
            d == Disconnect(peer[m].time, peer[m].number)
<1>2. peer[m] \in PeerRecord /\ closed[m] \in SUBSET Session
  BY <1>1, TypesAt
<1>3. peer[m].time \in 0 .. MaxTime /\ peer[m].number \in Nat
  BY <1>2 DEF PeerRecord
<1>4. session \in Session /\ C \in SUBSET Session
  BY <1>2, <1>3, WireType DEF Session
<1>5. x \in PeerRecord
  <2>1. "SHUTDOWN_REQUESTED" \in State \cup {"NONE"} /\ 0 \in 0 .. DisconnectTimeout + 1
    BY Constants DEF State
  <2>. QED BY <2>1, <1>2 DEF PeerRecord
<1>6. /\ x.state = "SHUTDOWN_REQUESTED" /\ x.time = peer[m].time /\ x.number = peer[m].number
      /\ x.accepts = peer[m].accepts
  BY <1>2 DEF PeerRecord
<1>7. peer[m].state # "NONE"
  BY DEF disconnect, ShutdownResult
<1>8. OpenAfterShutdown(m) = dropped[m] /\ dropped[m] \in Nat
  BY <1>1, ForcedIsSound, TypesAt
<1>9. PeerIsSound(x, request[m], OpenAfterShutdown(m), dropped[m], accepted[m], C)
  <2>1. OpenAfterShutdown(m) = 0 + dropped[m]
    BY <1>8
  <2>2. [time |-> x.time, number |-> Wire(x.number)] \in C
    BY <1>6
  <2>. HIDE DEF x, C
  <2>. QED BY <1>6, <1>7, <2>1, <2>2, InvAt DEF PeerIsSound
<1>10. AcceptIsSound(x, accepted[Other(m)])
  BY <1>6 DEF AcceptIsSound
<1>11. {d} \in SUBSET Packet
  BY <1>3, PacketTypes
<1>12. PacketIsSound(d, accepted[m], C)
  BY DEF PacketIsSound, Disconnect, Bare
<1>13. calls' \in Application
  <2>1. calls \in Application /\ calls.disconnects > 0
    BY <1>1, SameAt DEF disconnect
  <2>2. calls.disconnects - 1 \in Nat
    BY <2>1 DEF Application
  <2>. QED BY <2>1, <2>2 DEF disconnect, Application
<1>14. /\ peer' = [peer EXCEPT ![m] = x] /\ closed' = [closed EXCEPT ![m] = C]
       /\ open' = [open EXCEPT ![m] = OpenAfterShutdown(m)] /\ Send(m, {d})
       /\ UNCHANGED <<request, clock, turn, accepted>> /\ UNCHANGED threads
  BY <1>1 DEF disconnect, TypeOK
<1>15. closed[m] \subseteq C
  OBVIOUS
<1>. HIDE DEF x, C, d
<1>16. StepOf(m, x, request[m], OpenAfterShutdown(m), accepted[m], C, {d})
  BY <1>1, <1>11, <1>13, <1>14, SameAt, SendType DEF StepOf
<1>17. x.state \in Settled
  BY <1>6 DEF Settled
<1>. QED BY <1>1, <1>4, <1>5, <1>6, <1>7, <1>8, <1>9, <1>10, <1>12, <1>14, <1>15, <1>16, <1>17,
            TypesAt, PeerStepKeepsInv

\* A peer made from a request.
LEMMA PeerOfRequest ==
    ASSUME IInv, NEW m \in Manager, request[m] # NoRequest, NEW s \in State
    PROVE  LET x == [NoPeer EXCEPT !.state = s, !.time = request[m].time,
                                   !.number = request[m].number]
               y == [NoPeer EXCEPT !.state = s, !.time = request[m].time,
                                   !.number = request[m].number, !.accepts = TRUE]
           IN  /\ x \in PeerRecord
               /\ x.state = s /\ x.time = request[m].time /\ x.number = request[m].number
               /\ x.accepts = FALSE
               /\ x.time # 0 /\ x.number \in Number
               /\ y \in PeerRecord
               /\ y.state = s /\ y.time = request[m].time /\ y.number = request[m].number
               /\ y.accepts = TRUE
               /\ y.time # 0 /\ y.number \in Number
<1>1. request[m] \in Session
  BY TypesAt DEF IInv
<1>2. request[m].time \in 0 .. MaxTime /\ request[m].number \in Number
  BY <1>1 DEF Session
<1>3. request[m].number \in 0 .. 255
  BY <1>2 DEF Number, MAX_CONNECTION_NUMBER
<1>4. request[m].time # 0
  BY InvAt DEF PeerIsSound
<1>5. 0 \in 0 .. MaxAttempts /\ 0 \in 0 .. DisconnectTimeout + 1 /\ s \in State \cup {"NONE"}
  BY Constants
<1>. QED BY <1>2, <1>3, <1>4, <1>5 DEF PeerRecord, NoPeer

LEMMA AcceptInv ==
    ASSUME IInv, NEW m \in Manager, accept(m)
    PROVE  IInv'
<1>1. TypeOK
  BY DEF IInv
<1>2. request[m] # NoRequest
  BY DEF accept
<1>3. CASE Exists(m)
  <2>1. /\ UNCHANGED <<peer, net, history, clock, turn, calls>> /\ UNCHANGED threads
        /\ request' = [request EXCEPT ![m] = NoRequest]
    BY <1>3 DEF accept
  <2>2. StepOf(m, peer[m], NoRequest, open[m], accepted[m], closed[m], {})
    <3>1. net \in [Manager -> SUBSET Packet]
      BY <1>1 DEF TypeOK
    <3>. QED BY <1>1, <2>1, <3>1, SameAt DEF StepOf, history
  <2>3. PeerIsSound(peer[m], NoRequest, open[m], dropped[m], accepted[m], closed[m])
    BY InvAt DEF PeerIsSound
  <2>. QED BY <1>1, <2>1, <2>2, <2>3, TypesAt, InvAt, Constants, PeerStepKeepsInv
<1>4. CASE ~Exists(m)
  <2>. DEFINE x == [NoPeer EXCEPT !.state = "CONNECTED", !.time = request[m].time,
                                  !.number = request[m].number, !.accepts = TRUE]
              A == accepted[m] \cup {request[m].time}
              d == ConnectAccept(request[m].time, request[m].number)
  <2>1. /\ x \in PeerRecord /\ x.state = "CONNECTED" /\ x.time = request[m].time
        /\ x.number = request[m].number /\ x.accepts = TRUE /\ x.time # 0 /\ x.number \in Number
    BY <1>2, PeerOfRequest DEF State
  <2>2. request[m].time \in 0 .. MaxTime /\ request[m].number \in Number
    BY <1>1, TypesAt DEF Session
  <2>3. A \in SUBSET (0 .. MaxTime) /\ accepted[m] \subseteq A
    BY <1>1, <2>2, TypesAt
  <2>4. open[m] + 1 = 1 + dropped[m] /\ dropped[m] \in Nat
    <3>1. peer[m].state # "CONNECTED" /\ dropped[m] \in Nat
      BY <1>1, <1>4, TypesAt DEF Exists, NoPeer
    <3>2. open[m] = 0 + dropped[m]
      BY <3>1, InvAt DEF PeerIsSound
    <3>. QED BY <3>1, <3>2
  <2>5. PeerIsSound(x, NoRequest, 1 + dropped[m], dropped[m], A, closed[m])
    <3>1. x.time \in A
      BY <2>1
    <3>. HIDE DEF x, A
    <3>. QED BY <2>1, <3>1 DEF PeerIsSound
  <2>6. AcceptIsSound(x, accepted[Other(m)])
    BY <2>1 DEF AcceptIsSound
  <2>7. {d} \in SUBSET Packet
    BY <2>2, PacketTypes
  <2>8. PacketIsSound(d, A, closed[m])
    BY DEF PacketIsSound, ConnectAccept
  <2>9. /\ add_peer(m, x) /\ peer' = [peer EXCEPT ![m] = x]
        /\ accepted' = [accepted EXCEPT ![m] = A]
        /\ open' = [open EXCEPT ![m] = 1 + dropped[m]] /\ Send(m, {d})
        /\ request' = [request EXCEPT ![m] = NoRequest]
        /\ UNCHANGED <<closed, clock, turn, calls>>
    BY <1>1, <1>4, <2>4 DEF accept, add_peer, TypeOK
  <2>. HIDE DEF x, A, d
  <2>10. StepOf(m, x, NoRequest, 1 + dropped[m], A, closed[m], {d})
    BY <1>1, <2>7, <2>9, SameAt, SendType DEF StepOf
  <2>. QED BY <1>1, <2>1, <2>3, <2>4, <2>5, <2>6, <2>8, <2>9, <2>10, TypesAt, Constants,
              AddPeerKeepsInv
<1>. QED BY <1>3, <1>4
LEMMA RejectInv ==
    ASSUME IInv, NEW m \in Manager, reject(m)
    PROVE  IInv'
<1>1. TypeOK
  BY DEF IInv
<1>2. request[m] # NoRequest
  BY DEF reject
<1>3. CASE Exists(m)
  <2>1. /\ UNCHANGED <<peer, net, closed, clock, turn, calls, accepted, open>> /\ UNCHANGED threads
        /\ request' = [request EXCEPT ![m] = NoRequest]
    BY <1>3 DEF reject
  <2>2. StepOf(m, peer[m], NoRequest, open[m], accepted[m], closed[m], {})
    <3>1. net \in [Manager -> SUBSET Packet]
      BY <1>1 DEF TypeOK
    <3>. QED BY <1>1, <2>1, <3>1, SameAt DEF StepOf
  <2>3. PeerIsSound(peer[m], NoRequest, open[m], dropped[m], accepted[m], closed[m])
    BY InvAt DEF PeerIsSound
  <2>. QED BY <1>1, <2>1, <2>2, <2>3, TypesAt, InvAt, Constants, PeerStepKeepsInv
<1>4. CASE ~Exists(m)
  <2>. DEFINE x == [NoPeer EXCEPT !.state = "SHUTDOWN_REQUESTED", !.time = request[m].time,
                                  !.number = request[m].number]
              C == closed[m] \cup {request[m]}
              d == Disconnect(request[m].time, request[m].number)
  <2>1. /\ x \in PeerRecord /\ x.state = "SHUTDOWN_REQUESTED" /\ x.time = request[m].time
        /\ x.number = request[m].number /\ x.accepts = FALSE /\ x.time # 0 /\ x.number \in Number
    BY <1>2, PeerOfRequest DEF State
  <2>2. /\ request[m] \in Session
        /\ request[m].time \in 0 .. MaxTime /\ request[m].number \in Number
        /\ request[m] = [time |-> request[m].time, number |-> request[m].number]
    BY <1>1, TypesAt DEF Session
  <2>3. Wire(request[m].number) = request[m].number /\ request[m].number \in Nat
    BY <2>2, WireType DEF Number, MAX_CONNECTION_NUMBER
  <2>4. C \in SUBSET Session /\ closed[m] \subseteq C
    BY <1>1, <2>2, TypesAt
  <2>5. open[m] = 0 + dropped[m]
    <3>1. peer[m].state # "CONNECTED"
      BY <1>4 DEF Exists, NoPeer
    <3>. QED BY <3>1, InvAt DEF PeerIsSound
  <2>6. PeerIsSound(x, NoRequest, open[m], dropped[m], accepted[m], C)
    <3>1. [time |-> x.time, number |-> Wire(x.number)] \in C
      BY <2>1, <2>2, <2>3
    <3>. HIDE DEF x, C
    <3>. QED BY <2>1, <2>5, <3>1 DEF PeerIsSound
  <2>7. AcceptIsSound(x, accepted[Other(m)])
    BY <2>1 DEF AcceptIsSound
  <2>8. {d} \in SUBSET Packet
    BY <2>2, <2>3, PacketTypes
  <2>9. PacketIsSound(d, accepted[m], C)
    BY <2>2, <2>3 DEF PacketIsSound, Disconnect, Bare
  <2>10. /\ add_peer(m, x) /\ peer' = [peer EXCEPT ![m] = x]
         /\ closed' = [closed EXCEPT ![m] = C]
         /\ request' = [request EXCEPT ![m] = NoRequest] /\ Send(m, {d})
         /\ UNCHANGED <<clock, turn, calls, accepted, open>>
    BY <1>1, <1>4 DEF reject, add_peer, TypeOK
  <2>. HIDE DEF x, C, d
  <2>11. StepOf(m, x, NoRequest, open[m], accepted[m], C, {d})
    BY <1>1, <2>8, <2>10, SameAt, SendType DEF StepOf
  <2>. QED BY <1>1, <2>1, <2>4, <2>6, <2>7, <2>9, <2>10, <2>11, TypesAt, Constants,
              AddPeerKeepsInv
<1>. QED BY <1>3, <1>4

\* The packet of reject_force carries no connect time, and so ends nothing.
LEMMA RejectForceInv ==
    ASSUME IInv, NEW m \in Manager, reject_force(m)
    PROVE  IInv'
<1>1. TypeOK
  BY DEF IInv
<1>. DEFINE d == Disconnect(0, request[m].number)
<1>2. request[m].number \in Nat
  BY <1>1, TypesAt DEF Session, Number, MAX_CONNECTION_NUMBER
<1>3. 0 \in 0 .. MaxTime
  BY Constants
<1>4. {d} \in SUBSET Packet
  BY <1>2, <1>3, PacketTypes
<1>5. PacketIsSound(d, accepted[m], closed[m])
  BY DEF PacketIsSound, Disconnect, Bare
<1>6. PeerIsSound(peer[m], NoRequest, open[m], dropped[m], accepted[m], closed[m])
  BY InvAt DEF PeerIsSound
<1>7. Send(m, {d}) /\ UNCHANGED threads
  BY DEF reject_force
<1>. HIDE DEF d
<1>8. StepOf(m, peer[m], NoRequest, open[m], accepted[m], closed[m], {d})
  BY <1>1, <1>4, <1>7, SameAt, SendType DEF reject_force, history, StepOf
<1>. QED BY <1>1, <1>5, <1>6, <1>7, <1>8, TypesAt, InvAt, Constants, PeerStepKeepsInv

LEMMA SendInv ==
    ASSUME IInv, NEW m \in Manager, send(m)
    PROVE  IInv'
<1>1. TypeOK
  BY DEF IInv
<1>2. PICK d \in {Data(peer[m].number), Bare("MERGED")} : Send(m, {d})
  BY DEF send
<1>3. peer[m].number \in Nat
  BY <1>1, PeerNumber
<1>4. {d} \in SUBSET Packet
  BY <1>3, PacketTypes DEF BareKind
<1>5. PacketIsSound(d, accepted[m], closed[m])
  BY DEF PacketIsSound, Data, Bare
<1>6. StepOf(m, peer[m], request[m], open[m], accepted[m], closed[m], {d}) /\ UNCHANGED threads
  BY <1>1, <1>2, <1>4, SameAt, SendType DEF send, history, StepOf
<1>. QED BY <1>1, <1>5, <1>6, TypesAt, InvAt, PeerStepKeepsInv

\* A process that ends knows nothing, and so nothing wrong.
LEMMA ForgetInv ==
    ASSUME IInv, NEW m \in Manager, Forget(m), UNCHANGED <<accepted, closed>>,
           net' \in [Manager -> SUBSET Packet], \A k \in Manager : net'[k] \subseteq net[k],
           clock' \in [Manager -> 0 .. MaxTime], turn' \in Manager, calls' \in Application
    PROVE  IInv'
<1>1. TypeOK
  BY DEF IInv
<1>2. StepOf(m, NoPeer, NoRequest, 0, accepted[m], closed[m], {})
  BY <1>1, SameAt DEF Forget, StepOf
<1>3. ThreadsOf(m, Idle, "IDLE", {}, 0)
  BY DEF Forget, ThreadsOf
<1>4. 0 \in Int /\ 0 \in Nat /\ "IDLE" \in LogicStep /\ {} \in SUBSET Thread
  BY DEF LogicStep
<1>5. /\ PeerIsSound(NoPeer, NoRequest, 0, 0, accepted[m], closed[m])
      /\ AcceptIsSound(NoPeer, accepted[Other(m)])
      /\ ThreadsAreSound(NoPeer, Idle, "IDLE", {}, closed[Other(m)])
  BY <1>4, NothingIsSound
<1>. QED BY <1>1, <1>2, <1>3, <1>4, <1>5, TypesAt, Constants, StepKeepsInv

LEMMA RestartInv ==
    ASSUME IInv, NEW m \in Manager, restart(m)
    PROVE  IInv'
<1>1. TypeOK
  BY DEF IInv
<1>2. net' \in [Manager -> SUBSET Packet] /\ net' = net
  BY <1>1 DEF restart, TypeOK
<1>3. calls' \in Application
  <2>1. calls \in Application /\ calls.restarts > 0
    BY <1>1, SameAt DEF restart
  <2>2. calls.restarts - 1 \in Nat
    BY <2>1 DEF Application
  <2>. QED BY <2>1, <2>2 DEF restart, Application
<1>4. Forget(m) /\ UNCHANGED <<accepted, closed, clock, turn>>
  BY DEF restart
<1>. QED BY <1>1, <1>2, <1>3, <1>4, SameAt, ForgetInv

LEMMA LoseInv ==
    ASSUME IInv, NEW m \in Manager, lose(m)
    PROVE  IInv'
<1>1. TypeOK
  BY DEF IInv
<1>2. /\ net' \in [Manager -> SUBSET Packet]
      /\ \A k \in Manager : net'[k] \subseteq net[k]
  BY <1>1 DEF lose, TypeOK
<1>3. StepOf(m, peer[m], request[m], open[m], accepted[m], closed[m], {}) /\ UNCHANGED threads
  BY <1>1, <1>2, SameAt DEF lose, history, StepOf
<1>. QED BY <1>1, <1>3, TypesAt, InvAt, PeerStepKeepsInv
-----------------------------------------------------------------------------
(* The receive thread. *)

\* A bare packet says nothing about anyone.
LEMMA BareIsSound ==
    ASSUME NEW k \in BareKind, NEW A, NEW C
    PROVE  {Bare(k)} \in SUBSET Packet /\ \A e \in {Bare(k)} : PacketIsSound(e, A, C)
<1>1. {Bare(k)} \in SUBSET Packet
  BY PacketTypes
<1>2. Bare(k).kind \notin {"CONNECT_REQUEST", "CONNECT_ACCEPT", "DISCONNECT"}
  BY DEF Bare, BareKind
<1>. QED BY <1>1, <1>2 DEF PacketIsSound

\* The fields of a packet on its way.
LEMMA PacketFields ==
    ASSUME TypeOK, NEW m \in Manager, NEW d \in net[m]
    PROVE  d.time \in 0 .. MaxTime /\ d.number \in Number
<1>1. d \in Packet
  BY TypesAt
<1>2. 0 \in 0 .. MaxTime /\ 0 \in Number
  BY Constants DEF Number, MAX_CONNECTION_NUMBER
<1>. QED BY <1>1, <1>2 DEF Packet, Bare, Number

LEMMA IgnoreRequestInv ==
    ASSUME IInv, NEW m \in Manager, NEW d \in net[m], ignore_request(m, d)
    PROVE  IInv'
<1>1. TypeOK
  BY DEF IInv
<1>2. CASE ~AnswersAgain(m, d)
  <2>1. ignore(m, d, {})
    BY <1>2 DEF ignore_request
  <2>. QED BY <2>1, IgnoreInv
<1>3. CASE AnswersAgain(m, d) /\ peer[m].accepts
  <2>. DEFINE e == ConnectAccept(peer[m].time, peer[m].number)
  <2>1. peer[m].time \in 0 .. MaxTime
    BY <1>1, TypesAt DEF PeerRecord
  <2>2. peer[m].number \in Number /\ peer[m].time \in accepted[m]
    BY <1>3, InvAt DEF PeerIsSound
  <2>3. {e} \in SUBSET Packet
    BY <2>1, <2>2, PacketTypes
  <2>4. PacketIsSound(e, accepted[m], closed[m])
    BY <2>2 DEF PacketIsSound, ConnectAccept
  <2>5. ignore(m, d, {e})
    BY <1>3 DEF ignore_request
  <2>. HIDE DEF e
  <2>. QED BY <2>3, <2>4, <2>5, IgnoreInv
<1>4. CASE AnswersAgain(m, d) /\ ~peer[m].accepts
  <2>1. ReceiveAndSend(m, d, {}) /\ Forget(m) /\ UNCHANGED <<clock, turn, calls, accepted, closed>>
    BY <1>4 DEF ignore_request
  <2>2. /\ net' \in [Manager -> SUBSET Packet]
        /\ \A k \in Manager : net'[k] \subseteq net[k]
    BY <1>1, <2>1, ReceiveAndSendType
  <2>. QED BY <1>1, <2>1, <2>2, SameAt, ForgetInv
<1>. QED BY <1>2, <1>3, <1>4

\* A request that is filed is one with a real connect time.
LEMMA FiledIsSound ==
    ASSUME IInv, NEW m \in Manager, NEW time \in 0 .. MaxTime, NEW number \in Number, time # 0
    PROVE  LET r == Updated(request[m], [time |-> time, number |-> number])
           IN  r \in Session /\ (r # NoRequest => r.time # 0)
<1>1. request[m] \in Session /\ (request[m] # NoRequest => request[m].time # 0)
  BY InvAt, TypesAt DEF PeerIsSound
<1>2. [time |-> time, number |-> number] \in Session
  BY DEF Session
<1>. QED BY <1>1, <1>2 DEF Updated

LEMMA TakeRequestInv ==
    ASSUME IInv, NEW m \in Manager, NEW d \in net[m], d.kind = "CONNECT_REQUEST", take_request(m, d),
           handler[m].step = "IDLE"
    PROVE  IInv'
<1>1. TypeOK
  BY DEF IInv
<1>2. d.time \in 0 .. MaxTime /\ d.number \in Number
  BY <1>1, PacketFields
<1>3. d.time # 0
  BY InvAt DEF PacketIsSound
<1>4. ReceiveAndSend(m, d, {})
  BY DEF take_request
<1>5. CASE ConnectRequestResult(m, d) = "NO_PEER"
  <2>. DEFINE r == Updated(request[m], [time |-> d.time, number |-> d.number])
  <2>1. r \in Session /\ (r # NoRequest => r.time # 0)
    BY <1>2, <1>3, FiledIsSound
  <2>2. request' = [request EXCEPT ![m] = r]
    BY <1>1, <1>5 DEF take_request, file_request, TypeOK
  <2>3. UNCHANGED <<peer, clock, turn, calls, history>> /\ UNCHANGED threads
    BY <1>5 DEF take_request, threads
  <2>. HIDE DEF r
  <2>4. PeerIsSound(peer[m], r, open[m], dropped[m], accepted[m], closed[m])
    BY <2>1, InvAt DEF PeerIsSound
  <2>5. StepOf(m, peer[m], r, open[m], accepted[m], closed[m], {})
    BY <1>1, <1>4, <2>2, <2>3, SameAt, ReceiveAndSendType DEF history, StepOf
  <2>. QED BY <1>1, <2>1, <2>3, <2>4, <2>5, TypesAt, InvAt, PeerStepKeepsInv
<1>6. CASE ConnectRequestResult(m, d) # "NO_PEER"
  <2>. DEFINE h == [step |-> FirstStep(ConnectRequestResult(m, d)),
                    time |-> d.time, number |-> NumberFor(m, d)]
  <2>1. handler' = [handler EXCEPT ![m] = h]
    BY <1>6 DEF take_request
  <2>2. NumberFor(m, d) \in Number
    <3>1. peer[m].number \in Nat
      BY <1>1, PeerNumber
    <3>2. (peer[m].number + 1) % MAX_CONNECTION_NUMBER \in Number
      BY <3>1 DEF Number, MAX_CONNECTION_NUMBER
    <3>. QED BY <1>2, <3>2 DEF NumberFor
  <2>3. /\ h \in HandlerRecord /\ h.time = d.time /\ h.step \in {"RECONNECT", "REMOVE"}
        /\ h.step = "REMOVE" => ConnectRequestResult(m, d) = "NEW_CONNECTION"
    BY <1>2, <2>2 DEF FirstStep, HandlerRecord, Step
  <2>4. ConnectRequestResult(m, d) = "NEW_CONNECTION" => peer[m].state \in Settled
    BY DEF ConnectRequestResult, Settled
  <2>. HIDE DEF h
  <2>5. ThreadsAreSound(peer[m], h, logic[m], stale[m], closed[Other(m)])
    <3>1. ThreadsAreSound(peer[m], handler[m], logic[m], stale[m], closed[Other(m)])
      BY InvAt
    <3>. QED BY <1>3, <2>3, <2>4, <3>1 DEF ThreadsAreSound
  <2>6. UNCHANGED <<peer, request, clock, turn, calls, history, logic, stale, dropped>>
    BY <1>6 DEF take_request
  <2>7. ThreadsOf(m, h, logic[m], stale[m], dropped[m])
    BY <1>1, <2>1, <2>6, SameAt DEF ThreadsOf
  <2>8. StepOf(m, peer[m], request[m], open[m], accepted[m], closed[m], {})
    BY <1>1, <1>4, <2>6, SameAt, ReceiveAndSendType DEF history, StepOf
  <2>. QED BY <1>1, <2>3, <2>5, <2>7, <2>8, TypesAt, InvAt, StepKeepsInv
<1>. QED BY <1>5, <1>6

\* disconnect_peer_force, by a step that leaves what the threads say sound.
LEMMA ForceInv ==
    ASSUME IInv, NEW m \in Manager, disconnect_peer_force(m),
           NEW ds \in SUBSET Packet, Send(m, ds) \/ UNCHANGED net,
           \A e \in ds : PacketIsSound(e, accepted[m], closed[m]),
           NEW h \in HandlerRecord, NEW l \in LogicStep, NEW s \in SUBSET Thread,
           ThreadsOf(m, h, l, s, dropped[m]),
           ThreadsAreSound(Forced(m), h, l, s, closed[Other(m)]),
           UNCHANGED <<request, clock, turn, calls, accepted, closed>>
    PROVE  IInv'
<1>1. TypeOK
  BY DEF IInv
<1>2. /\ net' \in [Manager -> SUBSET Packet]
      /\ \A k \in Manager : net'[k] \subseteq net[k] \cup (IF k = Other(m) THEN ds ELSE {})
  <2>1. CASE Send(m, ds)
    BY <1>1, <2>1, SendType
  <2>2. CASE UNCHANGED net
    BY <1>1, <2>2 DEF TypeOK
  <2>. QED BY <2>1, <2>2
<1>3. StepOf(m, Forced(m), request[m], OpenAfterShutdown(m), accepted[m], closed[m], ds)
  BY <1>1, <1>2, SameAt DEF disconnect_peer_force, StepOf
<1>. QED BY <1>1, <1>3, TypesAt, ForcedIsSound, StepKeepsInv

LEMMA DisconnectReplacedInv ==
    ASSUME IInv, NEW m \in Manager, disconnect_replaced(m)
    PROVE  IInv'
<1>. DEFINE h == [handler[m] EXCEPT !.step = "REMOVE"]
<1>1. TypeOK
  BY DEF IInv
<1>2. handler[m] \in HandlerRecord
  BY <1>1, TypesAt
<1>3. /\ h \in HandlerRecord /\ h.step = "REMOVE" /\ h.time = handler[m].time
      /\ handler[m].step = "RECONNECT"
  BY <1>2 DEF HandlerRecord, Step, disconnect_replaced
<1>4. handler' = [handler EXCEPT ![m] = h]
  BY <1>1 DEF disconnect_replaced, TypeOK
<1>. HIDE DEF h
<1>5. ThreadsOf(m, h, logic[m], stale[m], dropped[m])
  BY <1>1, <1>4, SameAt DEF disconnect_replaced, ThreadsOf
<1>6. ThreadsAreSound(Forced(m), h, logic[m], stale[m], closed[Other(m)])
  BY <1>3, ForcedIsSound DEF ThreadsAreSound
<1>7. /\ disconnect_peer_force(m)
      /\ UNCHANGED net /\ UNCHANGED <<request, clock, turn, calls, accepted, closed>>
  BY DEF disconnect_replaced
<1>8. {} \in SUBSET Packet
  OBVIOUS
<1>. QED BY <1>1, <1>3, <1>5, <1>6, <1>7, <1>8, TypesAt, ForceInv

LEMMA EndSessionInv ==
    ASSUME IInv, NEW m \in Manager, end_session(m)
    PROVE  IInv'
<1>. DEFINE ds == IF handler[m].step = "DISCONNECT" THEN {Bare("SHUTDOWN_OK")} ELSE {}
            s == stale[m] \ {"receive"}
<1>1. TypeOK
  BY DEF IInv
<1>2. ds \in SUBSET Packet /\ \A e \in ds : PacketIsSound(e, accepted[m], closed[m])
  BY BareIsSound DEF BareKind
<1>3. Send(m, ds) /\ disconnect_peer_force(m) /\ UNCHANGED <<request, clock, turn, calls, accepted, closed>>
  BY DEF end_session
<1>4. s \in SUBSET Thread
  BY <1>1, TypesAt
<1>5. ThreadsOf(m, Idle, logic[m], s, dropped[m])
  <2>1. stale' = [stale EXCEPT ![m] = s]
    BY <1>1 DEF end_session, TypeOK
  <2>. QED BY <1>1, <2>1, SameAt DEF end_session, ThreadsOf
<1>6. ThreadsAreSound(Forced(m), Idle, logic[m], s, closed[Other(m)])
  BY ForcedIsSound, IdleIsSound
<1>. HIDE DEF ds, s
<1>. QED BY <1>1, <1>2, <1>3, <1>4, <1>5, <1>6, Constants, TypesAt, ForceInv

\* What remove_peer_internal removes is counted if it is CONNECTED: a thread
\* whose peer has not been replaced removes one that is not.
LEMMA RemovedIsSound ==
    ASSUME IInv, NEW m \in Manager, NEW thread \in Thread,
           thread \in stale[m] \/ peer[m].state \in Settled
    PROVE  LET k == IF peer[m].state = "CONNECTED" /\ thread \in stale[m]
                    THEN dropped[m] + 1 ELSE dropped[m]
           IN  k \in Nat /\ open[m] = k
<1>1. /\ open[m] = (IF peer[m].state = "CONNECTED" THEN 1 ELSE 0) + dropped[m]
      /\ dropped[m] \in Nat
  BY InvAt, TypesAt DEF PeerIsSound
<1>. QED BY <1>1 DEF Settled

LEMMA RemoveReplacedInv ==
    ASSUME IInv, NEW m \in Manager, remove_replaced(m)
    PROVE  IInv'
<1>. DEFINE r == Updated(request[m], [time |-> handler[m].time, number |-> handler[m].number])
            k == IF peer[m].state = "CONNECTED" /\ "receive" \in stale[m]
                 THEN dropped[m] + 1 ELSE dropped[m]
            s == stale[m] \ {"receive"}
<1>1. TypeOK
  BY DEF IInv
<1>2. ThreadsAreSound(peer[m], handler[m], logic[m], stale[m], closed[Other(m)])
  BY InvAt
<1>3. handler[m].step = "REMOVE" /\ remove_peer_internal(m, "receive")
  BY DEF remove_replaced
<1>4. k \in Nat /\ open[m] = k
  <2>1. "receive" \in stale[m] \/ peer[m].state \in Settled
    BY <1>2, <1>3 DEF ThreadsAreSound
  <2>. QED BY <2>1, RemovedIsSound DEF Thread
<1>5. r \in Session /\ (r # NoRequest => r.time # 0)
  <2>1. handler[m].time # 0
    BY <1>2, <1>3 DEF ThreadsAreSound
  <2>2. handler[m].time \in 0 .. MaxTime /\ handler[m].number \in Number
    BY <1>1, TypesAt DEF HandlerRecord
  <2>. QED BY <2>1, <2>2, FiledIsSound
<1>6. s \in SUBSET Thread
  BY <1>1, TypesAt
<1>7. ThreadsAreSound(NoPeer, Idle, logic[m], s, closed[Other(m)])
  BY DEF ThreadsAreSound, NoPeer, Idle, Settled
<1>8. /\ request' = [request EXCEPT ![m] = r] /\ peer' = [peer EXCEPT ![m] = NoPeer]
      /\ dropped' = [dropped EXCEPT ![m] = k] /\ stale' = [stale EXCEPT ![m] = s]
      /\ handler' = [handler EXCEPT ![m] = Idle]
      /\ UNCHANGED <<clock, net, turn, calls, history, logic>>
  BY <1>1 DEF remove_replaced, remove_peer_internal, file_request, TypeOK
<1>. HIDE DEF r, k, s
<1>9. PeerIsSound(NoPeer, r, open[m], k, accepted[m], closed[m])
  <2>1. k \in Int
    BY <1>4
  <2>. QED BY <1>4, <1>5, <2>1, NothingIsSound
<1>10. AcceptIsSound(NoPeer, accepted[Other(m)])
  BY DEF AcceptIsSound, NoPeer
<1>11. StepOf(m, NoPeer, r, open[m], accepted[m], closed[m], {})
  <2>1. net' \in [Manager -> SUBSET Packet] /\ net' = net
    BY <1>1, <1>8 DEF TypeOK
  <2>. QED BY <1>1, <1>8, <2>1, SameAt DEF history, StepOf
<1>12. ThreadsOf(m, Idle, logic[m], s, k)
  BY <1>1, <1>8, SameAt DEF ThreadsOf
<1>. QED BY <1>1, <1>4, <1>5, <1>6, <1>7, <1>9, <1>10, <1>11, <1>12, Constants, TypesAt, StepKeepsInv

LEMMA ReceiveConnectAcceptInv ==
    ASSUME IInv, NEW m \in Manager, NEW d \in net[m], receive_connect_accept(m, d),
           handler[m].step = "IDLE"
    PROVE  IInv'
<1>1. TypeOK /\ d.kind = "CONNECT_ACCEPT"
  BY DEF IInv, receive_connect_accept
<1>2. CASE ~Accepts(m, d)
  <2>1. ignore(m, d, {})
    BY <1>2 DEF receive_connect_accept
  <2>. QED BY <2>1, IgnoreInv
<1>3. CASE Accepts(m, d)
  <2>. DEFINE x == [peer[m] EXCEPT !.state = "CONNECTED", !.number = d.number, !.since = 0]
  <2>1. peer[m] \in PeerRecord
    BY <1>1, TypesAt
  <2>2. d.number \in Number /\ d.number \in 0 .. 255
    BY <1>1, PacketFields DEF Number, MAX_CONNECTION_NUMBER
  <2>3. x \in PeerRecord
    <3>1. "CONNECTED" \in State \cup {"NONE"} /\ 0 \in 0 .. DisconnectTimeout + 1
      BY Constants DEF State
    <3>. QED BY <3>1, <2>1, <2>2 DEF PeerRecord
  <2>4. /\ x.state = "CONNECTED" /\ x.time = peer[m].time /\ x.number = d.number
        /\ x.accepts = peer[m].accepts
    BY <2>1 DEF PeerRecord
  <2>5. peer[m].state = "OUTGOING" /\ d.time = peer[m].time
    BY <1>3 DEF Accepts
  <2>6. open[m] + 1 = 1 + dropped[m] /\ dropped[m] \in Nat
    <3>1. PeerIsSound(peer[m], request[m], open[m], dropped[m], accepted[m], closed[m])
      BY InvAt
    <3>2. open[m] = 0 + dropped[m] /\ dropped[m] \in Nat
      BY <1>1, <2>5, <3>1, TypesAt DEF PeerIsSound
    <3>. QED BY <3>2
  <2>7. PeerIsSound(x, request[m], 1 + dropped[m], dropped[m], accepted[m], closed[m])
    <3>1. PeerIsSound(peer[m], request[m], open[m], dropped[m], accepted[m], closed[m])
      BY InvAt
    <3>. HIDE DEF x
    <3>. QED BY <2>2, <2>4, <2>5, <3>1 DEF PeerIsSound
  <2>8. AcceptIsSound(x, accepted[Other(m)])
    BY <1>1, <2>4, <2>5, InvAt DEF AcceptIsSound, PacketIsSound
  <2>9. /\ peer' = [peer EXCEPT ![m] = x] /\ open' = [open EXCEPT ![m] = 1 + dropped[m]]
        /\ ReceiveAndSend(m, d, {}) /\ UNCHANGED <<request, clock, turn, calls, accepted, closed>>
        /\ UNCHANGED threads
    BY <1>1, <1>3, <2>6 DEF receive_connect_accept, TypeOK
  <2>. HIDE DEF x
  <2>10. StepOf(m, x, request[m], 1 + dropped[m], accepted[m], closed[m], {})
    BY <1>1, <2>9, SameAt, ReceiveAndSendType DEF StepOf
  <2>11. peer[m].state \notin Settled /\ handler[m].step # "DISCONNECT"
    BY <2>5 DEF Settled
  <2>12. /\ request[m] \in Session /\ 1 + dropped[m] \in Int
         /\ accepted[m] \in SUBSET (0 .. MaxTime) /\ closed[m] \in SUBSET Session
    BY <1>1, <2>6, TypesAt
  <2>13. UNCHANGED threads /\ \A e \in {} : PacketIsSound(e, accepted[m], closed[m])
    BY <2>9
  <2>. QED BY <2>3, <2>7, <2>8, <2>10, <2>11, <2>12, <2>13, PeerStepKeepsInv
<1>. QED BY <1>2, <1>3

\* The receive thread has looked at a peer and goes on by its address.
LEMMA DecideInv ==
    ASSUME IInv, NEW m \in Manager, NEW d \in net[m], NEW step \in {"DISCONNECT", "PEER_NOT_FOUND"},
           decide_to_end(m, d, step),
           step = "DISCONNECT" => d.kind = "DISCONNECT" /\ IsDisconnected(m, d)
    PROVE  IInv'
<1>. DEFINE h == [step |-> step, time |-> d.time, number |-> d.number]
<1>1. TypeOK
  BY DEF IInv
<1>2. d.time \in 0 .. MaxTime /\ d.number \in Number
  BY <1>1, PacketFields
<1>3. h \in HandlerRecord /\ h.step = step /\ h.time = d.time /\ h.number = d.number
  BY <1>2 DEF HandlerRecord, Step
<1>4. /\ handler' = [handler EXCEPT ![m] = h] /\ ReceiveAndSend(m, d, {})
      /\ UNCHANGED <<peer, request, clock, turn, calls, history, logic, stale, dropped>>
  BY DEF decide_to_end
<1>. HIDE DEF h
<1>5. h.step = "DISCONNECT" =>
         /\ [time |-> h.time, number |-> h.number] \in closed[Other(m)]
         /\ peer[m].time = h.time /\ peer[m].number = h.number
  <2>. SUFFICES ASSUME step = "DISCONNECT"
                PROVE  /\ [time |-> d.time, number |-> d.number] \in closed[Other(m)]
                       /\ peer[m].time = d.time /\ peer[m].number = d.number
    BY <1>3
  <2>1. d.kind = "DISCONNECT" /\ IsDisconnected(m, d)
    OBVIOUS
  <2>2. peer[m].state # "NONE" /\ peer[m].time = d.time /\ peer[m].number = d.number
    BY <2>1 DEF IsDisconnected, IsConnected
  <2>3. d.time # 0
    BY <2>2, InvAt DEF PeerIsSound
  <2>. QED BY <2>1, <2>2, <2>3, InvAt DEF PacketIsSound
<1>6. ThreadsAreSound(peer[m], h, logic[m], stale[m], closed[Other(m)])
  <2>1. ThreadsAreSound(peer[m], handler[m], logic[m], stale[m], closed[Other(m)])
    BY InvAt
  <2>. QED BY <1>3, <1>5, <2>1 DEF ThreadsAreSound
<1>7. StepOf(m, peer[m], request[m], open[m], accepted[m], closed[m], {})
  BY <1>1, <1>4, SameAt, ReceiveAndSendType DEF history, StepOf
<1>8. ThreadsOf(m, h, logic[m], stale[m], dropped[m])
  BY <1>1, <1>4, SameAt DEF ThreadsOf
<1>. QED BY <1>1, <1>3, <1>6, <1>7, <1>8, TypesAt, InvAt, StepKeepsInv

LEMMA ReceiveDisconnectInv ==
    ASSUME IInv, NEW m \in Manager, NEW d \in net[m], receive_disconnect(m, d)
    PROVE  IInv'
<1>1. /\ {Bare("SHUTDOWN_OK")} \in SUBSET Packet
      /\ \A e \in {Bare("SHUTDOWN_OK")} : PacketIsSound(e, accepted[m], closed[m])
  BY BareIsSound DEF BareKind
<1>2. \/ ignore(m, d, {Bare("SHUTDOWN_OK")}) \/ ignore(m, d, {})
      \/ d.kind = "DISCONNECT" /\ IsDisconnected(m, d) /\ decide_to_end(m, d, "DISCONNECT")
  BY DEF receive_disconnect
<1>3. CASE ignore(m, d, {Bare("SHUTDOWN_OK")})
  BY <1>1, <1>3, IgnoreInv
<1>4. CASE ignore(m, d, {})
  BY <1>4, IgnoreInv
<1>5. CASE d.kind = "DISCONNECT" /\ IsDisconnected(m, d) /\ decide_to_end(m, d, "DISCONNECT")
  BY <1>5, DecideInv
<1>. QED BY <1>2, <1>3, <1>4, <1>5

LEMMA ReceivePeerNotFoundInv ==
    ASSUME IInv, NEW m \in Manager, NEW d \in net[m], receive_peer_not_found(m, d)
    PROVE  IInv'
<1>1. \A k \in {"NETWORK_CHANGED", "PEER_NOT_FOUND_AGAIN"} :
        /\ {Bare(k)} \in SUBSET Packet
        /\ \A e \in {Bare(k)} : PacketIsSound(e, accepted[m], closed[m])
  BY BareIsSound DEF BareKind
<1>2. \/ \E k \in {"NETWORK_CHANGED", "PEER_NOT_FOUND_AGAIN"} : ignore(m, d, {Bare(k)})
      \/ ignore(m, d, {})
      \/ decide_to_end(m, d, "PEER_NOT_FOUND")
  BY DEF receive_peer_not_found
<1>3. ASSUME NEW k \in {"NETWORK_CHANGED", "PEER_NOT_FOUND_AGAIN"}, ignore(m, d, {Bare(k)})
      PROVE  IInv'
  BY <1>1, <1>3, IgnoreInv
<1>4. CASE ignore(m, d, {})
  BY <1>4, IgnoreInv
<1>5. CASE decide_to_end(m, d, "PEER_NOT_FOUND")
  BY <1>5, DecideInv
<1>. QED BY <1>2, <1>3, <1>4, <1>5

\* A peer of which only the timers change is as sound as it was.
LEMMA TimersAreSound ==
    ASSUME IInv, NEW m \in Manager,
           NEW n \in 0 .. DisconnectTimeout + 1, NEW k \in 0 .. MaxAttempts
    PROVE  LET x == [peer[m] EXCEPT !.since = n]
               y == [peer[m] EXCEPT !.since = n, !.attempts = k]
           IN  /\ x \in PeerRecord /\ y \in PeerRecord
               /\ x.state = peer[m].state /\ x.time = peer[m].time /\ x.number = peer[m].number
               /\ y.state = peer[m].state /\ y.time = peer[m].time /\ y.number = peer[m].number
               /\ PeerIsSound(x, request[m], open[m], dropped[m], accepted[m], closed[m])
               /\ PeerIsSound(y, request[m], open[m], dropped[m], accepted[m], closed[m])
               /\ AcceptIsSound(x, accepted[Other(m)]) /\ AcceptIsSound(y, accepted[Other(m)])
<1>. DEFINE x == [peer[m] EXCEPT !.since = n]
            y == [peer[m] EXCEPT !.since = n, !.attempts = k]
<1>1. peer[m] \in PeerRecord
  BY TypesAt DEF IInv
<1>2. x \in PeerRecord /\ y \in PeerRecord
  BY <1>1 DEF PeerRecord
<1>3. /\ x.state = peer[m].state /\ x.time = peer[m].time /\ x.number = peer[m].number
      /\ x.accepts = peer[m].accepts
      /\ y.state = peer[m].state /\ y.time = peer[m].time /\ y.number = peer[m].number
      /\ y.accepts = peer[m].accepts
  BY <1>1 DEF PeerRecord
<1>. HIDE DEF x, y
<1>4. /\ PeerIsSound(x, request[m], open[m], dropped[m], accepted[m], closed[m])
      /\ PeerIsSound(y, request[m], open[m], dropped[m], accepted[m], closed[m])
  BY <1>3, InvAt DEF PeerIsSound
<1>5. AcceptIsSound(x, accepted[Other(m)]) /\ AcceptIsSound(y, accepted[Other(m)])
  BY <1>3, InvAt DEF AcceptIsSound
<1>. QED BY <1>2, <1>3, <1>4, <1>5 DEF x, y

LEMMA ReceiveOtherInv ==
    ASSUME IInv, NEW m \in Manager, NEW d \in net[m], receive_other(m, d)
    PROVE  IInv'
<1>1. TypeOK
  BY DEF IInv
<1>2. \A k \in {"PEER_NOT_FOUND", "PONG"} :
        /\ {Bare(k)} \in SUBSET Packet
        /\ \A e \in {Bare(k)} : PacketIsSound(e, accepted[m], closed[m])
  BY BareIsSound DEF BareKind
<1>3. CASE ~Exists(m)
  <2>1. ignore(m, d, {Bare("PEER_NOT_FOUND")})
    BY <1>3 DEF receive_other, IsForSession, IsConnected, Exists, NoPeer
  <2>. QED BY <1>2, <2>1, IgnoreInv
<1>4. CASE Exists(m) /\ ~IsForSession(m, d)
  <2>1. ignore(m, d, {})
    BY <1>4 DEF receive_other
  <2>. QED BY <2>1, IgnoreInv
<1>5. CASE Exists(m) /\ IsForSession(m, d)
  <2>. DEFINE x == [peer[m] EXCEPT !.since = 0]
              ds == IF d.kind = "PING" THEN {Bare("PONG")} ELSE {}
  <2>1. 0 \in 0 .. DisconnectTimeout + 1 /\ 0 \in 0 .. MaxAttempts
    BY Constants
  <2>2. /\ x \in PeerRecord /\ x.state = peer[m].state
        /\ x.time = peer[m].time /\ x.number = peer[m].number
        /\ PeerIsSound(x, request[m], open[m], dropped[m], accepted[m], closed[m])
        /\ AcceptIsSound(x, accepted[Other(m)])
    BY <2>1, TimersAreSound
  <2>3. ds \in SUBSET Packet /\ \A e \in ds : PacketIsSound(e, accepted[m], closed[m])
    BY <1>2
  <2>4. /\ peer' = [peer EXCEPT ![m] = x] /\ ReceiveAndSend(m, d, ds)
        /\ UNCHANGED <<request, clock, turn, calls, history>> /\ UNCHANGED threads
    BY <1>1, <1>5 DEF receive_other, TypeOK
  <2>. HIDE DEF x, ds
  <2>5. StepOf(m, x, request[m], open[m], accepted[m], closed[m], ds)
    BY <1>1, <2>3, <2>4, SameAt, ReceiveAndSendType DEF history, StepOf
  <2>6. peer[m].state # "NONE"
    BY <1>5 DEF IsForSession, IsConnected
  <2>. QED BY <1>1, <2>2, <2>3, <2>4, <2>5, <2>6, TypesAt, PeerStepKeepsInv
<1>. QED BY <1>3, <1>4, <1>5

LEMMA ReceiveInv ==
    ASSUME IInv, NEW m \in Manager, NEW d \in net[m], receive(m, d)
    PROVE  IInv'
<1>1. handler[m].step = "IDLE"
  BY DEF receive
<1>2. CASE receive_malformed(m, d)
  <2>1. ignore(m, d, {})
    BY <1>2 DEF receive_malformed
  <2>. QED BY <2>1, IgnoreInv
<1>3. CASE receive_connect_request(m, d)
  BY <1>1, <1>3, IgnoreRequestInv, TakeRequestInv DEF receive_connect_request
<1>. QED BY <1>1, <1>2, <1>3, ReceiveConnectAcceptInv, ReceiveDisconnectInv,
            ReceivePeerNotFoundInv, ReceiveOtherInv DEF receive

LEMMA HandleInv ==
    ASSUME IInv, NEW m \in Manager, handle(m)
    PROVE  IInv'
BY EndSessionInv, DisconnectReplacedInv, RemoveReplacedInv DEF handle
-----------------------------------------------------------------------------
(* The logic thread. *)

\* The timers stay in their bounds.
LEMMA TimerTypes ==
    ASSUME TypeOK, NEW m \in Manager
    PROVE  /\ Since(m) \in 0 .. DisconnectTimeout + 1
           /\ ~(Attempts(m) > MaxAttempts) => Attempts(m) \in 0 .. MaxAttempts
           /\ peer[m].attempts \in 0 .. MaxAttempts
           /\ 0 \in 0 .. MaxAttempts
<1>0. peer[m] \in PeerRecord
  BY TypesAt
<1>1. peer[m].since \in 0 .. DisconnectTimeout + 1 /\ peer[m].attempts \in 0 .. MaxAttempts
  BY <1>0 DEF PeerRecord
<1>. QED BY <1>1, Constants DEF Since, Attempts

\* The turn stays with a manager.
LEMMA TurnType ==
    ASSUME TypeOK, NEW m \in Manager, PassTurn(m)
    PROVE  turn' \in Manager
BY OtherFacts DEF PassTurn, TypeOK

\* What every update leaves alone.
UpdateRest(m) ==
    PassTurn(m) /\ UNCHANGED <<request, clock, calls, history, handler, stale, dropped>>

\* A peer that the logic thread is going to remove is one that is down.
LEMMA MarkInv ==
    ASSUME IInv, NEW m \in Manager, NEW step \in {"GIVE_UP", "REMOVE"}, CanTick(m),
           mark(m, step), UpdateRest(m),
           step = "REMOVE" => peer[m].state \in Settled
    PROVE  IInv'
<1>. DEFINE x == [peer[m] EXCEPT !.since = Since(m)]
<1>1. TypeOK
  BY DEF IInv
<1>2. /\ Since(m) \in 0 .. DisconnectTimeout + 1 /\ 0 \in 0 .. MaxAttempts
      /\ turn' \in Manager
  BY <1>1, TimerTypes, TurnType DEF UpdateRest
<1>3. /\ x \in PeerRecord /\ x.state = peer[m].state
      /\ x.time = peer[m].time /\ x.number = peer[m].number
      /\ PeerIsSound(x, request[m], open[m], dropped[m], accepted[m], closed[m])
      /\ AcceptIsSound(x, accepted[Other(m)])
  BY <1>2, TimersAreSound
<1>4. peer' = [peer EXCEPT ![m] = x]
  BY <1>1 DEF mark, TypeOK
<1>5. /\ logic' = [logic EXCEPT ![m] = step] /\ step \in LogicStep
      /\ UNCHANGED <<net, request, clock, calls, history, handler, stale, dropped>>
  BY DEF mark, UpdateRest, LogicStep
<1>. HIDE DEF x
<1>6. ThreadsAreSound(x, handler[m], step, stale[m], closed[Other(m)])
  <2>1. ThreadsAreSound(peer[m], handler[m], logic[m], stale[m], closed[Other(m)])
    BY InvAt
  <2>. QED BY <1>3, <2>1 DEF ThreadsAreSound
<1>7. StepOf(m, x, request[m], open[m], accepted[m], closed[m], {})
  <2>1. net' \in [Manager -> SUBSET Packet] /\ net' = net
    BY <1>1, <1>5 DEF TypeOK
  <2>. QED BY <1>1, <1>2, <1>4, <1>5, <2>1, SameAt DEF history, StepOf
<1>8. ThreadsOf(m, handler[m], step, stale[m], dropped[m])
  BY <1>1, <1>5, SameAt DEF ThreadsOf
<1>. QED BY <1>1, <1>3, <1>5, <1>6, <1>7, <1>8, TypesAt, StepKeepsInv

\* An update that only counts and sends.
LEMMA KeepInv ==
    ASSUME IInv, NEW m \in Manager, NEW attempts \in 0 .. MaxAttempts, NEW ds \in SUBSET Packet,
           CanTick(m), keep(m, attempts, ds), UpdateRest(m),
           \A e \in ds : PacketIsSound(e, accepted[m], closed[m])
    PROVE  IInv'
<1>. DEFINE x == [peer[m] EXCEPT !.since = Since(m), !.attempts = attempts]
<1>1. TypeOK
  BY DEF IInv
<1>2. Since(m) \in 0 .. DisconnectTimeout + 1 /\ turn' \in Manager
  BY <1>1, TimerTypes, TurnType DEF UpdateRest
<1>3. /\ x \in PeerRecord /\ x.state = peer[m].state
      /\ x.time = peer[m].time /\ x.number = peer[m].number
      /\ PeerIsSound(x, request[m], open[m], dropped[m], accepted[m], closed[m])
      /\ AcceptIsSound(x, accepted[Other(m)])
  BY <1>2, TimersAreSound
<1>4. peer' = [peer EXCEPT ![m] = x] /\ Send(m, ds)
  BY <1>1 DEF keep, TypeOK
<1>5. UNCHANGED <<request, clock, calls, history>> /\ UNCHANGED threads
  BY DEF keep, UpdateRest, threads
<1>6. peer[m].state # "NONE" \/ x.state = "NONE"
  BY <1>3
<1>. HIDE DEF x
<1>7. StepOf(m, x, request[m], open[m], accepted[m], closed[m], ds)
  BY <1>1, <1>2, <1>4, <1>5, SameAt, SendType DEF history, StepOf
<1>. QED BY <1>1, <1>3, <1>5, <1>6, <1>7, TypesAt, PeerStepKeepsInv

LEMMA UpdateConnectedInv ==
    ASSUME IInv, NEW m \in Manager, update_connected(m)
    PROVE  IInv'
<1>1. TypeOK /\ CanTick(m) /\ UpdateRest(m)
  BY DEF IInv, update_connected, UpdateRest
<1>2. CASE TimedOut(m)
  <2>1. mark(m, "GIVE_UP")
    BY <1>2 DEF update_connected
  <2>. QED BY <1>1, <2>1, MarkInv
<1>3. CASE ~TimedOut(m)
  <2>1. keep(m, peer[m].attempts, {Bare("PING")})
    BY <1>3 DEF update_connected
  <2>2. /\ {Bare("PING")} \in SUBSET Packet
        /\ \A e \in {Bare("PING")} : PacketIsSound(e, accepted[m], closed[m])
    BY BareIsSound DEF BareKind
  <2>. QED BY <1>1, <2>1, <2>2, TimerTypes, KeepInv
<1>. QED BY <1>2, <1>3

LEMMA UpdateShutdownInv ==
    ASSUME IInv, NEW m \in Manager, update_shutdown(m)
    PROVE  IInv'
<1>1. TypeOK /\ CanTick(m) /\ UpdateRest(m)
  BY DEF IInv, update_shutdown, UpdateRest
<1>2. Since(m) \in 0 .. DisconnectTimeout + 1 /\ turn' \in Manager
  BY <1>1, TimerTypes, TurnType DEF UpdateRest
<1>3. peer[m].state = "SHUTDOWN_REQUESTED"
  BY DEF update_shutdown
<1>4. CASE TimedOut(m)
  <2>. DEFINE x == [peer[m] EXCEPT !.state = "DISCONNECTED", !.since = Since(m)]
  <2>1. peer[m] \in PeerRecord
    BY <1>1, TypesAt
  <2>2. x \in PeerRecord
    BY <1>2, <2>1 DEF PeerRecord, State
  <2>3. /\ x.state = "DISCONNECTED" /\ x.time = peer[m].time /\ x.number = peer[m].number
        /\ x.accepts = peer[m].accepts
    BY <2>1 DEF PeerRecord
  <2>4. PeerIsSound(x, request[m], open[m], dropped[m], accepted[m], closed[m])
    <3>1. PeerIsSound(peer[m], request[m], open[m], dropped[m], accepted[m], closed[m])
      BY InvAt
    <3>. HIDE DEF x
    <3>. QED BY <1>3, <2>3, <3>1 DEF PeerIsSound
  <2>5. AcceptIsSound(x, accepted[Other(m)]) /\ x.state \in Settled
    BY <2>3 DEF AcceptIsSound, Settled
  <2>6. /\ peer' = [peer EXCEPT ![m] = x]
        /\ UNCHANGED <<net, request, clock, calls, accepted, closed, open>> /\ UNCHANGED threads
    BY <1>1, <1>4 DEF update_shutdown, history, threads, TypeOK
  <2>7. net \in [Manager -> SUBSET Packet]
    BY <1>1 DEF TypeOK
  <2>. HIDE DEF x
  <2>8. StepOf(m, x, request[m], open[m], accepted[m], closed[m], {})
    BY <1>1, <1>2, <2>6, <2>7, SameAt DEF StepOf
  <2>. QED BY <1>1, <1>3, <2>2, <2>3, <2>4, <2>5, <2>6, <2>8, TypesAt, PeerStepKeepsInv
<1>5. CASE ~TimedOut(m)
  <2>. DEFINE d == Disconnect(peer[m].time, peer[m].number)
  <2>1. peer[m].time \in 0 .. MaxTime /\ peer[m].number \in Nat
    <3>1. peer[m] \in PeerRecord
      BY <1>1, TypesAt
    <3>. QED BY <3>1 DEF PeerRecord
  <2>2. {d} \in SUBSET Packet
    BY <2>1, PacketTypes
  <2>3. PacketIsSound(d, accepted[m], closed[m])
    <3>1. [time |-> peer[m].time, number |-> Wire(peer[m].number)] \in closed[m]
      BY <1>3, InvAt DEF PeerIsSound
    <3>. QED BY <3>1 DEF PacketIsSound, Disconnect, Bare
  <2>4. keep(m, peer[m].attempts, {d})
    BY <1>5 DEF update_shutdown
  <2>. HIDE DEF d
  <2>. QED BY <1>1, <2>2, <2>3, <2>4, TimerTypes, KeepInv
<1>. QED BY <1>4, <1>5

LEMMA UpdateOutgoingInv ==
    ASSUME IInv, NEW m \in Manager, update_outgoing(m)
    PROVE  IInv'
<1>1. TypeOK /\ CanTick(m) /\ UpdateRest(m)
  BY DEF IInv, update_outgoing, UpdateRest
<1>2. CASE Attempts(m) > MaxAttempts
  <2>1. mark(m, "GIVE_UP")
    BY <1>2 DEF update_outgoing
  <2>. QED BY <1>1, <2>1, MarkInv
<1>3. CASE ~(Attempts(m) > MaxAttempts)
  <2>. DEFINE d == ConnectRequest(peer[m].time, peer[m].number)
  <2>1. peer[m].time \in 0 .. MaxTime /\ peer[m].number \in Nat
    <3>1. peer[m] \in PeerRecord
      BY <1>1, TypesAt
    <3>. QED BY <3>1 DEF PeerRecord
  <2>2. {d} \in SUBSET Packet
    BY <2>1, PacketTypes
  <2>3. PacketIsSound(d, accepted[m], closed[m])
    <3>1. peer[m].time # 0
      BY InvAt DEF PeerIsSound, update_outgoing
    <3>. QED BY <3>1 DEF PacketIsSound, ConnectRequest
  <2>4. keep(m, Attempts(m), {d})
    BY <1>3 DEF update_outgoing
  <2>5. Attempts(m) \in 0 .. MaxAttempts
    BY <1>1, <1>3, TimerTypes
  <2>. HIDE DEF d
  <2>. QED BY <1>1, <2>2, <2>3, <2>4, <2>5, KeepInv
<1>. QED BY <1>2, <1>3

LEMMA UpdateDisconnectedInv ==
    ASSUME IInv, NEW m \in Manager, update_disconnected(m)
    PROVE  IInv'
<1>1. TypeOK /\ CanTick(m) /\ UpdateRest(m)
  BY DEF IInv, update_disconnected, UpdateRest
<1>2. CASE peer[m].since > DisconnectTimeout
  <2>1. mark(m, "REMOVE") /\ peer[m].state \in Settled
    BY <1>2 DEF update_disconnected, Settled
  <2>. QED BY <1>1, <2>1, MarkInv
<1>3. CASE ~(peer[m].since > DisconnectTimeout)
  <2>1. keep(m, peer[m].attempts, {})
    BY <1>3 DEF update_disconnected
  <2>2. {} \in SUBSET Packet
    OBVIOUS
  <2>. QED BY <1>1, <2>1, <2>2, TimerTypes, KeepInv
<1>. QED BY <1>2, <1>3

LEMMA GiveUpInv ==
    ASSUME IInv, NEW m \in Manager, give_up(m)
    PROVE  IInv'
<1>. DEFINE s == stale[m] \ {"logic"}
<1>1. TypeOK
  BY DEF IInv
<1>2. disconnect_peer_force(m) /\ UNCHANGED net /\ UNCHANGED <<request, clock, turn, calls, accepted, closed>>
  BY DEF give_up
<1>3. s \in SUBSET Thread /\ "IDLE" \in LogicStep /\ {} \in SUBSET Packet
  BY <1>1, TypesAt DEF LogicStep
<1>4. ThreadsOf(m, handler[m], "IDLE", s, dropped[m])
  <2>1. stale' = [stale EXCEPT ![m] = s]
    BY <1>1 DEF give_up, TypeOK
  <2>. QED BY <1>1, <2>1, SameAt DEF give_up, ThreadsOf
<1>5. ThreadsAreSound(Forced(m), handler[m], "IDLE", s, closed[Other(m)])
  BY ForcedIsSound, IdleIsSound
<1>. HIDE DEF s
<1>. QED BY <1>1, <1>2, <1>3, <1>4, <1>5, TypesAt, ForceInv

LEMMA RemoveMarkedInv ==
    ASSUME IInv, NEW m \in Manager, remove_marked(m)
    PROVE  IInv'
<1>. DEFINE k == IF peer[m].state = "CONNECTED" /\ "logic" \in stale[m]
                 THEN dropped[m] + 1 ELSE dropped[m]
            s == stale[m] \ {"logic"}
<1>1. TypeOK
  BY DEF IInv
<1>2. ThreadsAreSound(peer[m], handler[m], logic[m], stale[m], closed[Other(m)])
  BY InvAt
<1>3. logic[m] = "REMOVE" /\ remove_peer_internal(m, "logic")
  BY DEF remove_marked
<1>4. k \in Nat /\ open[m] = k
  <2>1. "logic" \in stale[m] \/ peer[m].state \in Settled
    BY <1>2, <1>3 DEF ThreadsAreSound
  <2>. QED BY <2>1, RemovedIsSound DEF Thread
<1>5. s \in SUBSET Thread /\ "IDLE" \in LogicStep
  BY <1>1, TypesAt DEF LogicStep
<1>6. ThreadsAreSound(NoPeer, handler[m], "IDLE", s, closed[Other(m)])
  BY <1>2 DEF ThreadsAreSound, NoPeer, Settled
<1>7. /\ peer' = [peer EXCEPT ![m] = NoPeer] /\ dropped' = [dropped EXCEPT ![m] = k]
      /\ stale' = [stale EXCEPT ![m] = s] /\ logic' = [logic EXCEPT ![m] = "IDLE"]
      /\ UNCHANGED <<request, clock, net, turn, calls, history, handler>>
  BY <1>1 DEF remove_marked, remove_peer_internal, TypeOK
<1>. HIDE DEF k, s
<1>8. PeerIsSound(NoPeer, request[m], open[m], k, accepted[m], closed[m])
  <2>1. request[m] # NoRequest => request[m].time # 0
    BY InvAt DEF PeerIsSound
  <2>2. k \in Int
    BY <1>4
  <2>. QED BY <1>4, <2>1, <2>2, NothingIsSound
<1>9. AcceptIsSound(NoPeer, accepted[Other(m)])
  BY DEF AcceptIsSound, NoPeer
<1>10. StepOf(m, NoPeer, request[m], open[m], accepted[m], closed[m], {})
  <2>1. net' \in [Manager -> SUBSET Packet] /\ net' = net
    BY <1>1, <1>7 DEF TypeOK
  <2>. QED BY <1>1, <1>7, <2>1, SameAt DEF history, StepOf
<1>11. ThreadsOf(m, handler[m], "IDLE", s, k)
  BY <1>1, <1>7, SameAt DEF ThreadsOf
<1>. QED BY <1>1, <1>4, <1>5, <1>6, <1>8, <1>9, <1>10, <1>11, Constants, TypesAt, StepKeepsInv
-----------------------------------------------------------------------------
(* The theorems. *)

LEMMA NextInv == IInv /\ [Next]_vars => IInv'
<1>. SUFFICES ASSUME IInv, [Next]_vars PROVE IInv'
  OBVIOUS
<1>1. CASE UNCHANGED vars
  BY <1>1 DEF vars, IInv, TypeOK
<1>2. ASSUME NEW m \in Manager, tick(m) PROVE IInv'
  BY <1>2, UpdateConnectedInv, UpdateShutdownInv, UpdateOutgoingInv, UpdateDisconnectedInv DEF tick
<1>. QED BY <1>1, <1>2, ConnectInv, DisconnectInv, AcceptInv, RejectInv, RejectForceInv, SendInv,
            RestartInv, ReceiveInv, HandleInv, GiveUpInv, RemoveMarkedInv, LoseInv DEF Next

LEMMA Invariance == Spec => []IInv
BY InitInv, NextInv, PTL DEF Spec

\* Whatever the network does, and whatever connect finds in connectionNumber,
\* the variables keep their types: a peer that answers with its accept packet
\* has a number that the packet can carry.
THEOREM TypeCorrect == Spec => []TypeOK
<1>1. IInv => TypeOK
  BY DEF IInv
<1>. QED BY <1>1, Invariance, PTL

\* on_peer_connected and on_peer_disconnected come in pairs, across
\* reconnections, rejections, time-outs and restarts; the connections that end
\* without on_peer_disconnected are those of peers that were removed by a thread
\* that had looked at an earlier peer of the address.
THEOREM EventsMatch == Spec => []EveryConnectIsMatched
<1>1. IInv => EveryConnectIsMatched
  BY DEF IInv, PeerIsSound, EveryConnectIsMatched
<1>. QED BY <1>1, Invariance, PTL

\* process_connect_accept makes a connection only of an attempt that the
\* application at the other end accepted.
THEOREM ConnectionsAreAccepted == Spec => []ConnectedWasAccepted
<1>1. IInv => ConnectedWasAccepted
  BY DEF IInv, AcceptIsSound, ConnectedWasAccepted
<1>. QED BY <1>1, Invariance, PTL

\* process_disconnect takes a packet, however late or often it comes, only if
\* the other manager closed the session it names; disconnect_peer_force ends
\* that session, unless the address was given to another peer in between.
THEOREM DisconnectsAreMeant == Spec => DisconnectEndsItsSession
<1>. DEFINE Ends(m) ==
        end_session(m) /\ handler[m].step = "DISCONNECT"
          => /\ [time |-> handler[m].time, number |-> handler[m].number] \in closed[Other(m)]
             /\ \/ peer'[m] = peer[m]
                \/ "receive" \in stale[m]
                \/ peer[m].time = handler[m].time /\ peer[m].number = handler[m].number
<1>1. ASSUME IInv, NEW m \in Manager PROVE Ends(m)
  <2>. SUFFICES ASSUME end_session(m), handler[m].step = "DISCONNECT",
                       peer'[m] # peer[m], "receive" \notin stale[m]
                PROVE  peer[m].time = handler[m].time /\ peer[m].number = handler[m].number
    BY <1>1, InvAt DEF ThreadsAreSound
  <2>1. peer' = [peer EXCEPT ![m] = Forced(m)] /\ peer \in [Manager -> PeerRecord]
    BY <1>1 DEF end_session, disconnect_peer_force, IInv, TypeOK, PeerRecord
  <2>2. Forced(m) # peer[m]
    BY <2>1
  <2>3. peer[m].state # "NONE"
    BY <2>2 DEF Forced, ShutdownResult
  <2>. QED BY <1>1, <2>3, InvAt DEF ThreadsAreSound
<1>2. IInv => [\A m \in Manager : Ends(m)]_vars
  BY <1>1
<1>. QED BY <1>2, Invariance, PTL DEF DisconnectEndsItsSession
=============================================================================
