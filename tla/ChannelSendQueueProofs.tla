----------------------- MODULE ChannelSendQueueProofs -----------------------
(***************************************************************************)
(* Proofs about ChannelSendQueue, for any number of channels and           *)
(* application threads: the types, and that the flag of a channel is a     *)
(* lock on its place in the send queue.                                    *)
(***************************************************************************)
EXTENDS ChannelSendQueue, FiniteSetTheorems, SequenceTheorems, TLAPS

\* The initial states are well typed: nothing is queued, every thread idles.
LEMMA InitTypeOK == Init => TypeOK
BY SendQueueAssumption DEF Init, TypeOK, Thread

\* A step of an application thread or of the receive thread keeps the types.
LEMMA CallersTypeOK ==
    ASSUME TypeOK
    PROVE  /\ \A c \in Channel : request_ack(c) => TypeOK'
           /\ \A c \in Channel : begin_ack(c) => TypeOK'
           /\ confirm => TypeOK'
           /\ \A t \in App, c \in Channel : push_message(t, c) => TypeOK'
           /\ \A t \in Thread : claim(t) => TypeOK'
           /\ \A t \in Thread : push_channel(t) => TypeOK'
<1>1. ASSUME NEW c \in Channel, request_ack(c) PROVE TypeOK'
  BY <1>1 DEF TypeOK, Thread, request_ack
<1>2. ASSUME NEW c \in Channel, begin_ack(c) PROVE TypeOK'
  BY <1>2 DEF TypeOK, Thread, begin_ack, channels
<1>3. ASSUME confirm PROVE TypeOK'
  <2>1. PICK n \in 0 .. pending[on[Receiver]] - 1 :
           pending' = [pending EXCEPT ![on[Receiver]] = n]
    BY <1>3 DEF confirm
  <2>2. on[Receiver] \in Channel /\ pending[on[Receiver]] \in 0 .. WindowSize
    BY DEF TypeOK, Thread
  <2>3. n \in 0 .. WindowSize
    BY <2>2, SendQueueAssumption
  <2>4. pending' \in [Channel -> 0 .. WindowSize]
    BY <2>1, <2>3 DEF TypeOK
  <2>. QED BY <1>3, <2>4 DEF confirm, TypeOK, Thread
<1>4. ASSUME NEW t \in App, NEW c \in Channel, push_message(t, c) PROVE TypeOK'
  <2>1. /\ t \in Thread
        /\ submitted' = [submitted EXCEPT ![c] = @ + 1]
        /\ m_outgoing_queue' = [m_outgoing_queue EXCEPT ![c] = @ + 1]
        /\ at' = [at EXCEPT ![t] = "claim"]
        /\ on' = [on EXCEPT ![t] = c]
        /\ UNCHANGED <<m_channel_send_queue, is_added, m_must_send_acks, pending, logic>>
    BY <1>4 DEF push_message, Thread
  <2>2. submitted' \in [Channel -> Nat] /\ m_outgoing_queue' \in [Channel -> Nat]
    BY <2>1 DEF TypeOK
  <2>3. at' \in [Thread -> {"idle", "claim", "push", "confirm"}] /\ on' \in [Thread -> Channel]
    BY <2>1 DEF TypeOK
  <2>. QED BY <2>1, <2>2, <2>3 DEF TypeOK
<1>5. ASSUME NEW t \in Thread, claim(t) PROVE TypeOK'
  BY <1>5 DEF TypeOK, Thread, claim, channels
<1>6. ASSUME NEW t \in Thread, push_channel(t) PROVE TypeOK'
  BY <1>6 DEF TypeOK, Thread, push_channel, channels
<1>. QED BY <1>1, <1>2, <1>3, <1>4, <1>5, <1>6

\* A step of the logic thread keeps the types.
LEMMA UpdateTypeOK ==
    ASSUME TypeOK, update
    PROVE  TypeOK'
<1>1. CASE begin_update
  <2>1. Cardinality(Channel) \in Nat
    BY FS_CardinalityType, SendQueueAssumption
  <2>2. Len(m_channel_send_queue) \in Nat
    BY DEF TypeOK
  <2>. DEFINE sizes == IF \E t \in Thread : at[t] = "push" THEN 0 .. Cardinality(Channel) + 1
                                                           ELSE {Len(m_channel_send_queue)}
  <2>3. sizes \subseteq Nat
    BY <2>1, <2>2
  <2>4. PICK n \in sizes : logic' = [logic EXCEPT !.at = "visit", !.count = n]
    BY <1>1 DEF begin_update
  <2>. QED BY <1>1, <2>3, <2>4 DEF begin_update, TypeOK, channels, threads
<1>2. CASE visit_channel
  <2>1. m_channel_send_queue # <<>>
    BY <1>2 DEF visit_channel, MoreVisits
  <2>. m_channel_send_queue \in Seq(Channel)
    BY DEF TypeOK
  <2>2. Head(m_channel_send_queue) \in Channel /\ Tail(m_channel_send_queue) \in Seq(Channel)
    BY <2>1, HeadTailProperties
  <2>. DEFINE left == IF logic.count = 0 THEN 0 ELSE logic.count - 1
  <2>3. left \in Nat
    BY DEF TypeOK
  <2>4. logic' = [logic EXCEPT !.at = "acks", !.channel = Head(m_channel_send_queue),
                               !.count = left, !.sent = FALSE]
    BY <1>2 DEF visit_channel, TypeOK
  <2>. HIDE DEF left
  <2>. QED BY <1>2, <2>2, <2>3, <2>4 DEF visit_channel, TypeOK, channels, threads
<1>3. CASE end_update
  BY <1>3 DEF end_update, TypeOK, channels, threads
<1>4. CASE send_acks
  BY <1>4 DEF send_acks, TypeOK, threads
<1>5. CASE number_message
  <2>1. /\ m_outgoing_queue[logic.channel] \in Nat \ {0}
        /\ pending[logic.channel] \in 0 .. WindowSize - 1
    BY <1>5, SendQueueAssumption DEF number_message, HasRoom, TypeOK
  <2>2. /\ m_outgoing_queue' \in [Channel -> Nat]
        /\ pending' \in [Channel -> 0 .. WindowSize]
    BY <1>5, <2>1, SendQueueAssumption DEF number_message, TypeOK
  <2>. QED BY <1>5, <2>2 DEF number_message, TypeOK, threads
<1>6. CASE send_pending
  <2>1. PICK due \in BOOLEAN : logic' = [logic EXCEPT !.at = "result", !.sent = @ \/ due]
    BY <1>6 DEF send_pending
  <2>2. (logic.sent \/ due) \in BOOLEAN
    BY <2>1
  <2>. QED BY <1>6, <2>1, <2>2 DEF send_pending, TypeOK, channels, threads
<1>7. CASE decide
  BY <1>7 DEF decide, TypeOK, channels, threads
<1>8. CASE release
  BY <1>8 DEF release, TypeOK, channels, threads
<1>9. CASE requeue
  <2>1. Append(m_channel_send_queue, logic.channel) \in Seq(Channel)
    BY AppendProperties DEF TypeOK
  <2>. QED BY <1>9, <2>1 DEF requeue, PutBack, TypeOK, channels, threads
<1>. QED BY <1>1, <1>2, <1>3, <1>4, <1>5, <1>6, <1>7, <1>8, <1>9 DEF update

\* Every variable keeps its type; the window is never overrun.
THEOREM TypeCorrect == Spec => []TypeOK
<1>1. TypeOK /\ [Next]_vars => TypeOK'
  <2>. SUFFICES ASSUME TypeOK, [Next]_vars PROVE TypeOK'
    OBVIOUS
  <2>1. CASE Next
    BY <2>1, CallersTypeOK, UpdateTypeOK DEF Next
  <2>2. CASE UNCHANGED vars
    BY <2>2 DEF vars, channels, threads, TypeOK
  <2>. QED BY <2>1, <2>2
<1>. QED BY InitTypeOK, <1>1, PTL DEF Spec
-----------------------------------------------------------------------------
(* The lock.  With the types, FlagIsALock is inductive as it stands. *)

\* A step that touches neither the flags nor the queue, and after which the
\* same threads push and visit the same channels, keeps the lock.
LEMMA LockFrame ==
    ASSUME FlagIsALock,
           UNCHANGED <<is_added, m_channel_send_queue>>,
           \A c \in Channel : Visits(c)' <=> Visits(c),
           \A t \in Thread, c \in Channel : Pushes(t, c)' <=> Pushes(t, c)
    PROVE  FlagIsALock'
BY DEF FlagIsALock, InQueue

\* Initially no flag is set and nothing is queued, pushed or visited.
LEMMA InitLock == Init => FlagIsALock
BY DEF Init, FlagIsALock, InQueue, Visits, Busy, Pushes

\* The steps up to the exchange of the flag.
LEMMA BeforeClaimLock ==
    ASSUME TypeOK, FlagIsALock
    PROVE  /\ \A c \in Channel : request_ack(c) => FlagIsALock'
           /\ \A c \in Channel : begin_ack(c) => FlagIsALock'
           /\ confirm => FlagIsALock'
           /\ \A t \in App, c \in Channel : push_message(t, c) => FlagIsALock'
<1>1. ASSUME NEW c \in Channel, request_ack(c) PROVE FlagIsALock'
  <2>1. \A t \in Thread, d \in Channel : Pushes(t, d)' <=> Pushes(t, d)
    BY <1>1 DEF request_ack, Pushes, TypeOK, Thread
  <2>2. \A d \in Channel : Visits(d)' <=> Visits(d)
    BY <1>1 DEF request_ack, Visits, Busy
  <2>. QED BY <1>1, <2>1, <2>2, LockFrame DEF request_ack
<1>2. ASSUME NEW c \in Channel, begin_ack(c) PROVE FlagIsALock'
  <2>1. \A t \in Thread, d \in Channel : Pushes(t, d)' <=> Pushes(t, d)
    BY <1>2 DEF begin_ack, Pushes, TypeOK, Thread
  <2>2. \A d \in Channel : Visits(d)' <=> Visits(d)
    BY <1>2 DEF begin_ack, Visits, Busy
  <2>. QED BY <1>2, <2>1, <2>2, LockFrame DEF begin_ack
<1>3. ASSUME confirm PROVE FlagIsALock'
  <2>1. \A t \in Thread, d \in Channel : Pushes(t, d)' <=> Pushes(t, d)
    BY <1>3 DEF confirm, Pushes, TypeOK, Thread
  <2>2. \A d \in Channel : Visits(d)' <=> Visits(d)
    BY <1>3 DEF confirm, Visits, Busy
  <2>. QED BY <1>3, <2>1, <2>2, LockFrame DEF confirm
<1>4. ASSUME NEW t \in App, NEW c \in Channel, push_message(t, c) PROVE FlagIsALock'
  <2>1. \A u \in Thread, d \in Channel : Pushes(u, d)' <=> Pushes(u, d)
    BY <1>4 DEF push_message, Pushes, TypeOK, Thread
  <2>2. \A d \in Channel : Visits(d)' <=> Visits(d)
    BY <1>4 DEF push_message, Visits, Busy
  <2>. QED BY <1>4, <2>1, <2>2, LockFrame DEF push_message
<1>. QED BY <1>1, <1>2, <1>3, <1>4

\* The exchange of the flag: only the thread that finds it clear pushes.
LEMMA ClaimLock ==
    ASSUME TypeOK, FlagIsALock, NEW t \in Thread, claim(t)
    PROVE  FlagIsALock'
<1>1. on[t] \in Channel /\ at \in [Thread -> {"idle", "claim", "push", "confirm"}]
  BY DEF TypeOK
<1>2. /\ at[t] = "claim"
      /\ UNCHANGED <<m_channel_send_queue, on, logic>>
  BY DEF claim
<1>3. \A c \in Channel : (Visits(c)' <=> Visits(c)) /\ (InQueue(c)' <=> InQueue(c))
  BY <1>2 DEF Visits, Busy, InQueue
<1>4. \A u \in Thread, c \in Channel : u # t => (Pushes(u, c)' <=> Pushes(u, c))
  BY <1>1, <1>2 DEF claim, Pushes
<1>5. \A c \in Channel : ~Pushes(t, c)
  BY <1>2 DEF Pushes
<1>6. CASE is_added[on[t]]
  <2>1. is_added' = is_added
    BY <1>6 DEF claim, TypeOK
  <2>2. \A c \in Channel : ~Pushes(t, c)'
    BY <1>1, <1>6 DEF claim, Claims, Pushes
  <2>. QED BY <1>2, <1>3, <1>4, <1>5, <2>1, <2>2, LockFrame
<1>7. CASE ~is_added[on[t]]
  <2>1. \A c \in Channel : is_added'[c] <=> is_added[c] \/ c = on[t]
    BY <1>1 DEF claim, TypeOK
  <2>2. \A c \in Channel : Pushes(t, c)' <=> c = on[t]
    BY <1>1, <1>7 DEF claim, Claims, Pushes
  <2>3. /\ ~InQueue(on[t]) /\ ~Visits(on[t])
        /\ \A u \in Thread : ~Pushes(u, on[t])
    BY <1>1, <1>7 DEF FlagIsALock
  <2>. QED BY <1>2, <1>3, <1>4, <1>5, <2>1, <2>2, <2>3 DEF FlagIsALock
<1>. QED BY <1>6, <1>7

\* What a push does to the queue.
LEMMA InQueueAppend ==
    ASSUME m_channel_send_queue \in Seq(Channel), NEW c \in Channel,
           m_channel_send_queue' = Append(m_channel_send_queue, c)
    PROVE  /\ \A d \in Channel : InQueue(d)' <=> InQueue(d) \/ d = c
           /\ (\A i, j \in DOMAIN m_channel_send_queue :
                  m_channel_send_queue[i] = m_channel_send_queue[j] => i = j) /\ ~InQueue(c)
              => \A i, j \in DOMAIN m_channel_send_queue' :
                    m_channel_send_queue'[i] = m_channel_send_queue'[j] => i = j
<1>. DEFINE q == m_channel_send_queue
            r == Append(q, c)
<1>1. /\ Len(q) \in Nat /\ Len(r) = Len(q) + 1
      /\ DOMAIN q = 1 .. Len(q) /\ DOMAIN r = 1 .. Len(q) + 1
      /\ \A i \in 1 .. Len(q) : r[i] = q[i]
      /\ r[Len(q) + 1] = c
  BY AppendProperties, LenProperties
<1>2. m_channel_send_queue' = r
  OBVIOUS
<1>. HIDE DEF q, r
<1>3. \A d \in Channel : (\E i \in DOMAIN r : r[i] = d) <=> (\E i \in DOMAIN q : q[i] = d) \/ d = c
  BY <1>1
<1>4. ASSUME \A i, j \in DOMAIN q : q[i] = q[j] => i = j, ~\E i \in DOMAIN q : q[i] = c
      PROVE  \A i, j \in DOMAIN r : r[i] = r[j] => i = j
  BY <1>1, <1>4
<1>. QED BY <1>2, <1>3, <1>4 DEF InQueue, q

\* The thread that claimed the channel pushes it.
LEMMA PushLock ==
    ASSUME TypeOK, FlagIsALock, NEW t \in Thread, push_channel(t)
    PROVE  FlagIsALock'
<1>1. /\ on[t] \in Channel
      /\ m_channel_send_queue \in Seq(Channel)
      /\ m_channel_send_queue' = Append(m_channel_send_queue, on[t])
      /\ UNCHANGED <<is_added, on, logic>>
  BY DEF TypeOK, push_channel
<1>2. \A d \in Channel : InQueue(d)' <=> InQueue(d) \/ d = on[t]
  BY <1>1, InQueueAppend
<1>3. /\ Pushes(t, on[t])
      /\ \A c \in Channel : ~Pushes(t, c)'
      /\ \A u \in Thread, c \in Channel : u # t => (Pushes(u, c)' <=> Pushes(u, c))
  BY <1>1 DEF push_channel, Pushes, TypeOK
<1>4. ~InQueue(on[t]) /\ ~Visits(on[t]) /\ \A u \in Thread : u # t => ~Pushes(u, on[t])
  BY <1>1, <1>3 DEF FlagIsALock
<1>5. \A c \in Channel : Pushes(t, c) <=> c = on[t]
  BY <1>3 DEF Pushes
<1>6. \A i, j \in DOMAIN m_channel_send_queue' :
          m_channel_send_queue'[i] = m_channel_send_queue'[j] => i = j
  BY <1>1, <1>4, InQueueAppend DEF FlagIsALock
<1>7. \A c \in Channel : Visits(c)' <=> Visits(c)
  BY <1>1 DEF Visits, Busy
<1>. QED BY <1>1, <1>2, <1>3, <1>4, <1>5, <1>6, <1>7 DEF FlagIsALock

\* The steps of the logic thread that leave the queue and the flags alone.
LEMMA InsideVisitLock ==
    ASSUME TypeOK, FlagIsALock
    PROVE  begin_update \/ end_update \/ send_acks \/ number_message \/ send_pending \/ decide
              => FlagIsALock'
<1>. DEFINE Inside == /\ UNCHANGED <<is_added, m_channel_send_queue, at, on>>
                      /\ Busy' <=> Busy
                      /\ logic'.channel = logic.channel
<1>1. begin_update \/ end_update => Inside
  BY DEF begin_update, end_update, Busy, TypeOK, threads
<1>2. send_acks => Inside
  BY DEF send_acks, Busy, TypeOK, threads
<1>3. number_message => Inside
  BY DEF number_message, Busy, TypeOK, threads
<1>4. send_pending => Inside
  BY DEF send_pending, Busy, TypeOK, threads
<1>5. decide => Inside
  BY DEF decide, Busy, TypeOK, threads
<1>6. Inside => FlagIsALock'
  BY LockFrame DEF Visits, Pushes
<1>. HIDE DEF Inside
<1>. QED BY <1>1, <1>2, <1>3, <1>4, <1>5, <1>6

\* The logic thread takes a channel out of the queue.
LEMMA VisitLock ==
    ASSUME TypeOK, FlagIsALock, visit_channel
    PROVE  FlagIsALock'
<1>. DEFINE q == m_channel_send_queue
            r == Tail(q)
            c == Head(q)
<1>1. q \in Seq(Channel) /\ q # <<>>
  BY DEF TypeOK, visit_channel, MoreVisits
<1>2. /\ Len(q) \in Nat \ {0}
      /\ DOMAIN q = 1 .. Len(q) /\ DOMAIN r = 1 .. Len(q) - 1
      /\ \A i \in 1 .. Len(q) - 1 : r[i] = q[i + 1]
      /\ c = q[1] /\ c \in Channel
  BY <1>1, HeadTailProperties, LenProperties
<1>3. /\ UNCHANGED <<is_added, at, on>>
      /\ m_channel_send_queue' = r
      /\ ~Busy /\ Busy' /\ logic'.channel = c
  BY DEF visit_channel, Busy, threads, TypeOK
<1>. HIDE DEF q, r, c
<1>4. \A i, j \in DOMAIN q : q[i] = q[j] => i = j
  BY DEF FlagIsALock, q
<1>5. \A i, j \in DOMAIN r : r[i] = r[j] => i = j
  BY <1>2, <1>4
<1>6. \A d \in Channel : (\E i \in DOMAIN r : r[i] = d) <=> (\E i \in DOMAIN q : q[i] = d) /\ d # c
  <2>. TAKE d \in Channel
  <2>1. ASSUME NEW i \in DOMAIN r, r[i] = d
        PROVE  q[i + 1] = d /\ i + 1 \in DOMAIN q /\ d # c
    BY <1>2, <1>4, <2>1
  <2>2. ASSUME NEW i \in DOMAIN q, q[i] = d, d # c
        PROVE  i - 1 \in DOMAIN r /\ r[i - 1] = d
    BY <1>2, <2>2
  <2>. QED BY <2>1, <2>2
<1>7. \A d \in Channel : InQueue(d)' <=> InQueue(d) /\ d # c
  BY <1>3, <1>6 DEF InQueue, q
<1>8. InQueue(c)
  BY <1>2 DEF InQueue, q
<1>9. \A d \in Channel : ~Visits(d) /\ (Visits(d)' <=> d = c)
  BY <1>3 DEF Visits
<1>10. \A t \in Thread, d \in Channel : Pushes(t, d)' <=> Pushes(t, d)
  BY <1>3 DEF Pushes
<1>. QED BY <1>2, <1>3, <1>5, <1>7, <1>8, <1>9, <1>10 DEF FlagIsALock

\* The visited channel is left out of the queue, or goes back into it.
LEMMA EndVisitLock ==
    ASSUME TypeOK, FlagIsALock, release \/ requeue
    PROVE  FlagIsALock'
<1>. DEFINE c == logic.channel
<1>1. c \in Channel /\ m_channel_send_queue \in Seq(Channel)
  BY DEF TypeOK
<1>2. /\ UNCHANGED <<at, on>>
      /\ Busy /\ ~Busy'
  BY DEF release, requeue, Busy, threads, TypeOK
<1>3. \A d \in Channel : (Visits(d) <=> d = c) /\ ~Visits(d)'
  BY <1>2 DEF Visits
<1>4. \A t \in Thread, d \in Channel : Pushes(t, d)' <=> Pushes(t, d)
  BY <1>2 DEF Pushes
<1>5. ~InQueue(c) /\ \A t \in Thread : ~Pushes(t, c)
  BY <1>1, <1>3 DEF FlagIsALock
<1>6. CASE release
  <2>1. /\ m_channel_send_queue' = m_channel_send_queue
        /\ \A d \in Channel : is_added'[d] <=> is_added[d] /\ d # c
    BY <1>1, <1>6 DEF release, TypeOK
  <2>2. \A d \in Channel : InQueue(d)' <=> InQueue(d)
    BY <2>1 DEF InQueue
  <2>. HIDE DEF c
  <2>. QED BY <1>1, <1>3, <1>4, <1>5, <2>1, <2>2 DEF FlagIsALock
<1>7. CASE requeue
  <2>1. /\ m_channel_send_queue' = Append(m_channel_send_queue, c)
        /\ is_added' = is_added
    BY <1>7 DEF requeue, PutBack
  <2>2. \A d \in Channel : InQueue(d)' <=> InQueue(d) \/ d = c
    BY <1>1, <2>1, InQueueAppend
  <2>3. \A i, j \in DOMAIN m_channel_send_queue' :
            m_channel_send_queue'[i] = m_channel_send_queue'[j] => i = j
    BY <1>1, <1>5, <2>1, InQueueAppend DEF FlagIsALock
  <2>. HIDE DEF c
  <2>. QED BY <1>1, <1>3, <1>4, <1>5, <2>1, <2>2, <2>3 DEF FlagIsALock
<1>. QED BY <1>6, <1>7

\* While the flag of a channel is set exactly one of the queue, a thread about
\* to push and the logic thread has the channel; the queue holds none twice.
THEOREM Lock == Spec => []FlagIsALock
<1>1. TypeOK /\ FlagIsALock /\ [Next]_vars => FlagIsALock'
  <2>. SUFFICES ASSUME TypeOK, FlagIsALock, [Next]_vars PROVE FlagIsALock'
    OBVIOUS
  <2>1. CASE Next
    BY <2>1, BeforeClaimLock, ClaimLock, PushLock, InsideVisitLock, VisitLock, EndVisitLock
       DEF Next, update
  <2>2. CASE UNCHANGED vars
    BY <2>2, LockFrame DEF vars, threads, Visits, Busy, Pushes
  <2>. QED BY <2>1, <2>2
<1>. QED BY InitLock, TypeCorrect, <1>1, PTL DEF Spec
=============================================================================
