-------------------------- MODULE ChannelSendQueue --------------------------
(***************************************************************************)
(* The send queue of a peer, shared by three kinds of thread: application  *)
(* threads that send messages, the receive thread that asks for acks, and  *)
(* the logic thread that visits the channels of the queue in               *)
(* net_peer::update.  A channel is in the queue when its flag              *)
(* m_is_added_to_peer_channel_send_queue is set; whoever sets the flag     *)
(* pushes the channel, and the logic thread clears the flag when a visit   *)
(* found nothing more to do.                                               *)
(*                                                                         *)
(* A step is one access to memory the threads share, or one critical       *)
(* section.  The contents of the packets are left out (ReliableChannel     *)
(* has them): a message is a unit in a counter.                            *)
(*                                                                         *)
(* Definitions marked `Mutant' are errors made on purpose, one for each    *)
(* property; no action uses them.                                          *)
(***************************************************************************)
EXTENDS Integers, Sequences, FiniteSets

CONSTANTS
    Channel,       \* the reliable channels of the peer
    App,           \* the application's threads
    Receiver,      \* the receive thread
    WindowSize,    \* net_constants::DEFAULT_WINDOW_SIZE
    MaxMessages    \* bound: MaxMessages[c] messages are sent on channel c

ASSUME SendQueueAssumption ==
    /\ Receiver \notin App
    /\ IsFiniteSet(Channel)
    /\ WindowSize \in Nat \ {0}
    /\ MaxMessages \in [Channel -> Nat]

Thread == App \cup {Receiver}

VARIABLES
    m_channel_send_queue,
    is_added,            \* m_is_added_to_peer_channel_send_queue of each channel
    m_outgoing_queue,    \* how many messages wait for a sequence number
    m_must_send_acks,
    pending,             \* how many messages are sent and not confirmed
    submitted,           \* how many messages the application has sent
    at, on,              \* where each thread is in add_to_peer_channel_send_queue, for which channel
    logic                \* the logic thread: where it is, the channel it visits, the
                         \* visits it has left, whether this visit sent a packet

channels == <<m_outgoing_queue, m_must_send_acks, pending, submitted>>
threads == <<at, on>>
vars == <<m_channel_send_queue, is_added, channels, threads, logic>>

Init ==
    /\ m_channel_send_queue = <<>>
    /\ is_added = [c \in Channel |-> FALSE]
    /\ m_outgoing_queue = [c \in Channel |-> 0]
    /\ m_must_send_acks = [c \in Channel |-> FALSE]
    /\ pending = [c \in Channel |-> 0]
    /\ submitted = [c \in Channel |-> 0]
    /\ at = [t \in Thread |-> "idle"]
    /\ on \in [Thread -> Channel]
    /\ \E c \in Channel : logic = [at |-> "sleep", channel |-> c, count |-> 0, sent |-> FALSE]
-----------------------------------------------------------------------------
(* The callers of add_to_peer_channel_send_queue. *)

\* add_to_queue, up to the call.
push_message(t, c) ==
    /\ t \in App
    /\ at[t] = "idle"
    /\ submitted[c] < MaxMessages[c]
    /\ submitted' = [submitted EXCEPT ![c] = @ + 1]
    /\ m_outgoing_queue' = [m_outgoing_queue EXCEPT ![c] = @ + 1]
    /\ at' = [at EXCEPT ![t] = "claim"]
    /\ on' = [on EXCEPT ![t] = c]
    /\ UNCHANGED <<m_channel_send_queue, is_added, m_must_send_acks, pending, logic>>

\* process_packet on a data packet, up to the call.
request_ack(c) ==
    /\ at[Receiver] = "idle"
    /\ m_must_send_acks' = [m_must_send_acks EXCEPT ![c] = TRUE]
    /\ at' = [at EXCEPT ![Receiver] = "claim"]
    /\ on' = [on EXCEPT ![Receiver] = c]
    /\ UNCHANGED <<m_channel_send_queue, is_added, m_outgoing_queue, pending, submitted, logic>>

\* process_ack: some of the pending packets are confirmed.  It waits for the
\* mutex that send_next_packets holds from the numbering to the end.
begin_ack(c) ==
    /\ at[Receiver] = "idle"
    /\ pending[c] > 0
    /\ at' = [at EXCEPT ![Receiver] = "confirm"]
    /\ on' = [on EXCEPT ![Receiver] = c]
    /\ UNCHANGED <<m_channel_send_queue, is_added, channels, logic>>

confirm ==
    /\ at[Receiver] = "confirm"
    /\ ~(logic.at \in {"number", "result"} /\ logic.channel = on[Receiver])
    /\ \E n \in 0 .. pending[on[Receiver]] - 1 :
          pending' = [pending EXCEPT ![on[Receiver]] = n]
    /\ at' = [at EXCEPT ![Receiver] = "idle"]
    /\ UNCHANGED <<m_channel_send_queue, is_added, m_outgoing_queue, m_must_send_acks,
                   submitted, on, logic>>

\* Mutant: the flag is looked at before, not by, the exchange.
Claims_always(c) == TRUE

\* The compare-and-swap succeeds.
Claims(c) == ~is_added[c]

claim(t) ==
    /\ at[t] = "claim"
    /\ at' = [at EXCEPT ![t] = IF Claims(on[t]) THEN "push" ELSE "idle"]
    /\ is_added' = [is_added EXCEPT ![on[t]] = TRUE]
    /\ UNCHANGED <<m_channel_send_queue, channels, on, logic>>

\* net_peer::add_to_reliable_channel_send_queue.
push_channel(t) ==
    /\ at[t] = "push"
    /\ m_channel_send_queue' = Append(m_channel_send_queue, on[t])
    /\ at' = [at EXCEPT ![t] = "idle"]
    /\ UNCHANGED <<is_added, channels, on, logic>>
-----------------------------------------------------------------------------
(* The logic thread: the part of net_peer::update that visits the queue. *)

\* net_queue::size takes no lock: a size that is read while another thread
\* pushes may be any.  (The queue never holds a channel twice.)
begin_update ==
    /\ logic.at = "sleep"
    /\ \E n \in IF \E t \in Thread : at[t] = "push" THEN 0 .. Cardinality(Channel) + 1
                                                    ELSE {Len(m_channel_send_queue)} :
          logic' = [logic EXCEPT !.at = "visit", !.count = n]
    /\ UNCHANGED <<m_channel_send_queue, is_added, channels, threads>>

\* Mutant: the loop runs until the queue is empty.
MoreVisits_unbounded == m_channel_send_queue # <<>>

MoreVisits == logic.count > 0 /\ m_channel_send_queue # <<>>

visit_channel ==
    /\ logic.at = "visit"
    /\ MoreVisits
    /\ m_channel_send_queue' = Tail(m_channel_send_queue)
    /\ logic' = [logic EXCEPT !.at = "acks", !.channel = Head(m_channel_send_queue),
                              !.count = IF @ = 0 THEN 0 ELSE @ - 1, !.sent = FALSE]
    /\ UNCHANGED <<is_added, channels, threads>>

end_update ==
    /\ logic.at = "visit"
    /\ ~MoreVisits
    /\ logic' = [logic EXCEPT !.at = "sleep"]
    /\ UNCHANGED <<m_channel_send_queue, is_added, channels, threads>>

\* send_next_packets, the ack.
send_acks ==
    /\ logic.at = "acks"
    /\ m_must_send_acks' = [m_must_send_acks EXCEPT ![logic.channel] = FALSE]
    /\ logic' = [logic EXCEPT !.at = "number"]
    /\ UNCHANGED <<m_channel_send_queue, is_added, m_outgoing_queue, pending, submitted, threads>>

\* Mutant: the window is not looked at.
HasRoom_unbounded(c) == m_outgoing_queue[c] > 0

HasRoom(c) == m_outgoing_queue[c] > 0 /\ pending[c] < WindowSize

\* send_next_packets, one turn of the loop that numbers the queued messages.
number_message ==
    /\ logic.at = "number"
    /\ HasRoom(logic.channel)
    /\ m_outgoing_queue' = [m_outgoing_queue EXCEPT ![logic.channel] = @ - 1]
    /\ pending' = [pending EXCEPT ![logic.channel] = @ + 1]
    /\ logic' = [logic EXCEPT !.sent = TRUE]
    /\ UNCHANGED <<m_channel_send_queue, is_added, m_must_send_acks, submitted, threads>>

\* send_next_packets, the loop over try_send: the new packets are sent, and
\* any packet whose resend delay has elapsed.
send_pending ==
    /\ logic.at = "number"
    /\ ~HasRoom(logic.channel)
    /\ \E due \in BOOLEAN :
          /\ due => pending[logic.channel] > 0
          /\ logic' = [logic EXCEPT !.at = "result", !.sent = @ \/ due]
    /\ UNCHANGED <<m_channel_send_queue, is_added, channels, threads>>

\* The result of send_next_packets.
HasMore ==
    \/ logic.sent
    \/ m_must_send_acks[logic.channel]
    \/ m_outgoing_queue[logic.channel] > 0

\* send_and_check_queue, after send_next_packets.
decide ==
    /\ logic.at = "result"
    /\ logic' = [logic EXCEPT !.at = IF HasMore THEN "requeue" ELSE "release"]
    /\ UNCHANGED <<m_channel_send_queue, is_added, channels, threads>>

release ==
    /\ logic.at = "release"
    /\ is_added' = [is_added EXCEPT ![logic.channel] = FALSE]
    /\ logic' = [logic EXCEPT !.at = "visit"]
    /\ UNCHANGED <<m_channel_send_queue, channels, threads>>

\* Mutant: the channel goes back to the front.
PutBack_first(q, c) == <<c>> \o q

PutBack(q, c) == Append(q, c)

requeue ==
    /\ logic.at = "requeue"
    /\ m_channel_send_queue' = PutBack(m_channel_send_queue, logic.channel)
    /\ logic' = [logic EXCEPT !.at = "visit"]
    /\ UNCHANGED <<is_added, channels, threads>>

update ==
    \/ begin_update \/ visit_channel \/ end_update
    \/ send_acks \/ number_message \/ send_pending
    \/ decide \/ release \/ requeue

Next ==
    \/ \E c \in Channel : request_ack(c) \/ begin_ack(c)
    \/ confirm
    \/ \E t \in App, c \in Channel : push_message(t, c)
    \/ \E t \in Thread : claim(t) \/ push_channel(t)
    \/ update

Spec == Init /\ [][Next]_vars

\* Every thread runs: a call that was begun is finished and the logic thread
\* goes on.  Nothing forces messages or acks to arrive.
Fairness ==
    /\ WF_vars(update)
    /\ \A t \in Thread : WF_vars(claim(t) \/ push_channel(t))

FairSpec == Spec /\ Fairness

\* With a remote end that confirms what it is sent.
ConfirmingSpec == FairSpec /\ SF_vars(confirm) /\ \A c \in Channel : SF_vars(begin_ack(c))
-----------------------------------------------------------------------------
Busy == logic.at \in {"acks", "number", "result", "release", "requeue"}

\* The type of every variable.
TypeOK ==
    /\ m_channel_send_queue \in Seq(Channel)
    /\ is_added \in [Channel -> BOOLEAN]
    /\ m_outgoing_queue \in [Channel -> Nat]
    /\ m_must_send_acks \in [Channel -> BOOLEAN]
    /\ pending \in [Channel -> 0 .. WindowSize]
    /\ submitted \in [Channel -> Nat]
    /\ at \in [Thread -> {"idle", "claim", "push", "confirm"}]
    /\ on \in [Thread -> Channel]
    /\ logic \in [at : {"sleep", "visit", "acks", "number", "result", "release", "requeue"},
                  channel : Channel, count : Nat, sent : BOOLEAN]

\* Who holds the right to put channel c into the queue, or has put it there.
InQueue(c) == \E i \in DOMAIN m_channel_send_queue : m_channel_send_queue[i] = c
Pushes(t, c) == at[t] = "push" /\ on[t] = c
Visits(c) == Busy /\ logic.channel = c

\* The flag of a channel is a lock: while it is set exactly one of the queue,
\* a thread about to push and the logic thread has the channel.  So the queue
\* holds no channel twice (two visits in one update would send an ack twice
\* and a flag cleared by the first would be missed by the second), and a
\* channel whose flag is set is not forgotten by all.
FlagIsALock ==
    /\ \A c \in Channel :
          is_added[c] <=> InQueue(c) \/ Visits(c) \/ \E t \in Thread : Pushes(t, c)
    /\ \A i, j \in DOMAIN m_channel_send_queue :
          m_channel_send_queue[i] = m_channel_send_queue[j] => i = j
    /\ \A c \in Channel : ~(InQueue(c) /\ Visits(c))
    /\ \A t \in Thread, c \in Channel :
          Pushes(t, c) => /\ ~InQueue(c) /\ ~Visits(c)
                          /\ \A u \in Thread : Pushes(u, c) => u = t

\* A channel whose flag is set is visited, however busy the others are.
ScheduledIsVisited == \A c \in Channel : is_added[c] ~> Visits(c)

\* An update ends although the channels it visits go back into the queue: the
\* logic thread gets on to the other peers.
UpdateReturns == (logic.at # "sleep") ~> (logic.at = "sleep")

\* A message that is queued on a channel whose window keeps moving is sent.
QueuedIsSent == \A c \in Channel : (m_outgoing_queue[c] > 0) ~> (m_outgoing_queue[c] = 0)
=============================================================================
