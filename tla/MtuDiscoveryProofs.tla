------------------------- MODULE MtuDiscoveryProofs -------------------------
(***************************************************************************)
(* Proofs about MtuDiscovery, for every array of sizes, number of attempts *)
(* and network: the index stays inside the array, and the MTU is one that  *)
(* a probe confirmed.                                                      *)
(***************************************************************************)
EXTENDS MtuDiscovery, FiniteSetTheorems, TLAPS

\* Each of the two ends is the other one's other.
LEMMA OtherFacts ==
    ASSUME NEW p \in Peer
    PROVE  Other(p) \in Peer /\ Other(p) # p
<1>1. IsFiniteSet(Peer \ {p}) /\ Cardinality(Peer \ {p}) = 1
  BY FS_RemoveElement, MtuAssumption
<1>2. PICK o : Peer \ {p} = {o}
  BY <1>1, FS_Singleton
<1>. QED BY <1>2 DEF Other

\* There is an end, and the index counts from 0 to at least 1.
LEMMA Constants ==
    /\ LastIdx \in Nat \ {0}
    /\ \E p \in Peer : TRUE
<1>1. Peer # {}
  BY MtuAssumption, FS_EmptySet
<1>. QED BY <1>1, MtuAssumption DEF LastIdx

\* The packets of the discovery.
LEMMA PacketFacts ==
    /\ \A size \in Sizes : Check(size) \in Packet /\ Ok(size) \in Packet
    /\ \A d \in Packet : d.size \in Sizes
    /\ \A size \in Sizes : Check(size).property = "MTU_CHECK"
                           /\ Ok(size).property = "MTU_OK" /\ Ok(size).size = size
    /\ \A p \in Peer, d \in Packet : Carried(p, d) \subseteq {d}
<1>1. \A size : /\ Check(size).property = "MTU_CHECK" /\ Check(size).size = size
                /\ Ok(size).property = "MTU_OK" /\ Ok(size).size = size
  BY DEF Check, Ok
<1>2. \A size \in Sizes : Check(size) \in Packet /\ Ok(size) \in Packet
  BY DEF Packet
<1>3. ASSUME NEW d \in Packet PROVE d.size \in Sizes
  <2>1. PICK size \in Sizes : d = Check(size) \/ d = Ok(size)
    BY DEF Packet
  <2>. QED BY <2>1, <1>1
<1>4. \A p \in Peer, d \in Packet : Carried(p, d) \subseteq {d}
  BY DEF Carried
<1>. QED BY <1>1, <1>2, <1>3, <1>4

\* While an end is still probing it has attempts left.
StillCounts ==
    \A p \in Peer : ~m_finish_mtu[p] => m_mtu_check_attempts[p] < MAX_MTU_CHECK_ATTEMPTS

\* An answer on its way to p is one to a probe of p that arrived.
AnswersAreTrue ==
    \A p \in Peer : \A d \in net[p] : d.property = "MTU_OK" => d.size \in carried[p]

\* The inductive invariant.
IInv == TypeOK /\ StillCounts /\ AnswersAreTrue /\ MtuWasConfirmed

\* Nothing has been sent, both ends are at the first size.
LEMMA InitInv == Init => IInv
<1>. SUFFICES ASSUME Init PROVE IInv
  OBVIOUS
<1>1. turn \in Peer
  BY Constants DEF Init
<1>2. TypeOK
  BY <1>1, Constants, MtuAssumption DEF Init, TypeOK
<1>. QED BY <1>2, MtuAssumption DEF IInv, Init, StillCounts, AnswersAreTrue, MtuWasConfirmed

\* What p receives takes one packet from its net and adds to the other's.
LEMMA NetAfter ==
    ASSUME TypeOK, NEW p \in Peer, NEW d \in net[p]
    PROVE  /\ Consumed(p, d) \in [Peer -> SUBSET Packet]
           /\ \A q \in Peer : Consumed(p, d)[q] \subseteq net[q]
BY DEF TypeOK, Consumed

-----------------------------------------------------------------------------
(* The steps. *)

\* The next probe: the attempts are counted up to the last one, which ends the
\* probing, and only a probe is added to what is on its way.
LEMMA UpdateInv ==
    ASSUME IInv, NEW p \in Peer, update_mtu_logic(p)
    PROVE  IInv'
<1>. DEFINE o == Other(p)
<1>1. o \in Peer /\ o # p
  BY OtherFacts
<1>2. /\ ~m_finish_mtu[p]
      /\ m_mtu_check_attempts' = [m_mtu_check_attempts EXCEPT ![p] = m_mtu_check_attempts[p] + 1]
      /\ UNCHANGED <<m_mtu_idx, m_mtu, m_connect_number, prompt, capacity, changes, carried>>
      /\ turn' \in Peer
  BY <1>1 DEF update_mtu_logic, Attempts, IInv, TypeOK
<1>3. m_mtu_check_attempts[p] \in Nat /\ m_mtu_check_attempts[p] + 1 <= MAX_MTU_CHECK_ATTEMPTS
  BY <1>2, MtuAssumption DEF IInv, TypeOK, StillCounts
<1>4. m_mtu_check_attempts' \in [Peer -> 0 .. MAX_MTU_CHECK_ATTEMPTS]
  BY <1>2, <1>3, MtuAssumption DEF IInv, TypeOK
<1>5. m_mtu_idx[p] \in 0 .. LastIdx /\ m_mtu_idx[p] # LastIdx
  BY <1>2 DEF IInv, TypeOK
<1>6. SizeAt(m_mtu_idx[p] + 1) \in Sizes
  BY <1>5, Constants DEF Sizes
<1>. DEFINE d == Check(SizeAt(m_mtu_idx[p] + 1))
<1>7. d \in Packet /\ d.property = "MTU_CHECK" /\ Carried(o, d) \subseteq {d}
  BY <1>1, <1>6, PacketFacts
<1>. HIDE DEF d, o
<1>8. /\ \/ m_finish_mtu' = [m_finish_mtu EXCEPT ![p] = TRUE]
         \/ m_finish_mtu' = m_finish_mtu /\ m_mtu_check_attempts[p] + 1 < MAX_MTU_CHECK_ATTEMPTS
      /\ net' = net \/ net' = [net EXCEPT ![o] = @ \cup Carried(o, d)]
  BY DEF update_mtu_logic, Attempts, give_up, probe, d, o
<1>9. m_finish_mtu' \in [Peer -> BOOLEAN] /\ \A q \in Peer : m_finish_mtu[q] => m_finish_mtu'[q]
  BY <1>8 DEF IInv, TypeOK
<1>10. net' \in [Peer -> SUBSET Packet] /\ \A q \in Peer : net'[q] \subseteq net[q] \cup {d}
  BY <1>1, <1>7, <1>8 DEF IInv, TypeOK
<1>11. TypeOK'
  BY <1>2, <1>4, <1>9, <1>10 DEF IInv, TypeOK
<1>12. StillCounts'
  BY <1>2, <1>3, <1>8, <1>9 DEF IInv, TypeOK, StillCounts
<1>13. AnswersAreTrue' /\ MtuWasConfirmed'
  BY <1>2, <1>7, <1>10 DEF IInv, AnswersAreTrue, MtuWasConfirmed
<1>. QED BY <1>11, <1>12, <1>13 DEF IInv

\* A probe is answered with its own size, which the other end's answer may then
\* confirm.
LEMMA CheckInv ==
    ASSUME IInv, NEW p \in Peer, NEW d \in net[p], receive_check(p, d)
    PROVE  IInv'
<1>. DEFINE o == Other(p)
            a == Ok(d.size)
<1>1. o \in Peer /\ o # p
  BY OtherFacts
<1>2. d \in Packet /\ d.size \in Sizes
  BY PacketFacts DEF IInv, TypeOK
<1>3. a \in Packet /\ a.property = "MTU_OK" /\ a.size = d.size /\ Carried(o, a) \subseteq {a}
  BY <1>1, <1>2, PacketFacts
<1>4. /\ net' = [Consumed(p, d) EXCEPT ![o] = @ \cup Carried(o, a)]
      /\ carried' = [carried EXCEPT ![o] = @ \cup {d.size}]
      /\ UNCHANGED <<m_mtu_idx, m_mtu, m_finish_mtu, m_connect_number, prompt, capacity, turn, changes>>
  BY DEF receive_check, path
<1>. HIDE DEF o, a
<1>5. PICK n \in ResetAttempts(p) : m_mtu_check_attempts' = [m_mtu_check_attempts EXCEPT ![p] = n]
  BY DEF receive_check
<1>6. n \in 0 .. MAX_MTU_CHECK_ATTEMPTS /\ n <= m_mtu_check_attempts[p]
  BY <1>5, MtuAssumption DEF ResetAttempts, IInv, TypeOK
<1>7. m_mtu_check_attempts' \in [Peer -> 0 .. MAX_MTU_CHECK_ATTEMPTS]
  BY <1>5, <1>6 DEF IInv, TypeOK
<1>8. /\ net' \in [Peer -> SUBSET Packet]
      /\ \A q \in Peer : net'[q] \subseteq net[q] \cup (IF q = o THEN {a} ELSE {})
  <2>1. /\ Consumed(p, d) \in [Peer -> SUBSET Packet]
        /\ \A q \in Peer : Consumed(p, d)[q] \subseteq net[q]
    BY NetAfter DEF IInv
  <2>. QED BY <1>1, <1>3, <1>4, <2>1
<1>9. /\ carried' \in [Peer -> SUBSET Sizes]
      /\ \A q \in Peer : carried[q] \subseteq carried'[q]
      /\ d.size \in carried'[o]
  BY <1>1, <1>2, <1>4 DEF IInv, TypeOK
<1>10. TypeOK'
  BY <1>4, <1>7, <1>8, <1>9 DEF IInv, TypeOK
<1>11. StillCounts'
  BY <1>4, <1>5, <1>6, MtuAssumption DEF IInv, TypeOK, StillCounts
<1>12. AnswersAreTrue'
  BY <1>3, <1>8, <1>9 DEF IInv, AnswersAreTrue
<1>13. MtuWasConfirmed'
  BY <1>4, <1>9 DEF IInv, MtuWasConfirmed
<1>. QED BY <1>10, <1>11, <1>12, <1>13 DEF IInv

\* An answer to the next probe raises the MTU, and ends the probing if there is
\* no size left.
LEMMA RaiseInv ==
    ASSUME IInv, NEW p \in Peer, NEW d \in net[p], raise_mtu(p, d)
    PROVE  IInv'
<1>1. /\ d.property = "MTU_OK" /\ ~m_finish_mtu[p] /\ d.size = SizeAt(m_mtu_idx[p] + 1)
      /\ m_mtu_idx' = [m_mtu_idx EXCEPT ![p] = m_mtu_idx[p] + 1]
      /\ m_mtu' = [m_mtu EXCEPT ![p] = SizeAt(m_mtu_idx[p] + 1)]
      /\ m_finish_mtu' = [m_finish_mtu EXCEPT ![p] = m_finish_mtu[p] \/ m_mtu_idx[p] + 1 = LastIdx]
      /\ net' = Consumed(p, d) \/ net' = net
      /\ UNCHANGED <<m_mtu_check_attempts, m_connect_number, prompt, capacity, turn, changes, carried>>
  BY DEF raise_mtu, Confirms, Finishes, path
<1>2. m_mtu_idx[p] + 1 \in 0 .. LastIdx
  BY <1>1, Constants DEF IInv, TypeOK
<1>3. m_mtu_idx' \in [Peer -> 0 .. LastIdx] /\ m_mtu' = [q \in Peer |-> SizeAt(m_mtu_idx'[q])]
  BY <1>1, <1>2 DEF IInv, TypeOK
<1>4. /\ m_finish_mtu' \in [Peer -> BOOLEAN]
      /\ \A q \in Peer : m_finish_mtu[q] => m_finish_mtu'[q]
      /\ \A q \in Peer : m_mtu_idx'[q] = LastIdx => m_finish_mtu'[q]
  BY <1>1, <1>2 DEF IInv, TypeOK
<1>5. net' \in [Peer -> SUBSET Packet] /\ \A q \in Peer : net'[q] \subseteq net[q]
  BY <1>1, NetAfter DEF IInv, TypeOK
<1>6. d.size \in carried[p]
  BY <1>1 DEF IInv, AnswersAreTrue
<1>7. TypeOK'
  BY <1>1, <1>3, <1>4, <1>5 DEF IInv, TypeOK
<1>8. StillCounts'
  BY <1>1, <1>4 DEF IInv, StillCounts
<1>9. AnswersAreTrue'
  BY <1>1, <1>5 DEF IInv, AnswersAreTrue
<1>10. MtuWasConfirmed'
  BY <1>1, <1>6 DEF IInv, TypeOK, MtuWasConfirmed
<1>. QED BY <1>7, <1>8, <1>9, <1>10 DEF IInv

\* A packet that is ignored or lost is gone.
LEMMA ConsumeInv ==
    ASSUME IInv, NEW p \in Peer, NEW d \in net[p], net' = Consumed(p, d),
           UNCHANGED <<ends, path, carried>>
    PROVE  IInv'
<1>1. net' \in [Peer -> SUBSET Packet] /\ \A q \in Peer : net'[q] \subseteq net[q]
  BY NetAfter DEF IInv
<1>. QED BY <1>1 DEF IInv, TypeOK, StillCounts, AnswersAreTrue, MtuWasConfirmed, ends, path

\* reset_mtu goes back to the first size.
LEMMA ResetInv ==
    ASSUME IInv, NEW p \in Peer, peer_not_found(p)
    PROVE  IInv'
<1>1. /\ m_mtu_idx' = [m_mtu_idx EXCEPT ![p] = 0]
      /\ m_mtu' = [m_mtu EXCEPT ![p] = SizeAt(0)]
      /\ changes < Changes /\ changes' = changes + 1
      /\ UNCHANGED <<m_mtu_check_attempts, m_finish_mtu, m_connect_number, prompt, capacity, turn,
                     net, carried>>
  BY DEF peer_not_found
<1>2. /\ m_mtu_idx' \in [Peer -> 0 .. LastIdx] /\ m_mtu' = [q \in Peer |-> SizeAt(m_mtu_idx'[q])]
      /\ \A q \in Peer : m_mtu_idx'[q] = LastIdx => m_finish_mtu'[q]
  BY <1>1, Constants DEF IInv, TypeOK
<1>3. changes' \in 0 .. Changes
  BY <1>1, MtuAssumption DEF IInv, TypeOK
<1>4. TypeOK'
  BY <1>1, <1>2, <1>3 DEF IInv, TypeOK
<1>. QED BY <1>1, <1>4 DEF IInv, TypeOK, StillCounts, AnswersAreTrue, MtuWasConfirmed

\* What the network carries changes.
LEMMA RouteInv ==
    ASSUME IInv, route_changes
    PROVE  IInv'
BY MtuAssumption
   DEF route_changes, ends, IInv, TypeOK, StillCounts, AnswersAreTrue, MtuWasConfirmed

\* Every step keeps the invariant.
LEMMA StepKeepsInv == IInv /\ [Next]_vars => IInv'
<1>. SUFFICES ASSUME IInv, [Next]_vars PROVE IInv'
  OBVIOUS
<1>1. ASSUME NEW p \in Peer, update_mtu_logic(p) PROVE IInv'
  BY <1>1, UpdateInv
<1>2. ASSUME NEW p \in Peer, NEW d \in net[p], process_mtu_packet(p, d) PROVE IInv'
  <2>1. CASE receive_check(p, d)
    BY <2>1, CheckInv
  <2>2. CASE raise_mtu(p, d)
    BY <2>2, RaiseInv
  <2>3. CASE ignore(p, d)
    BY <2>3, ConsumeInv DEF ignore
  <2>. QED BY <1>2, <2>1, <2>2, <2>3 DEF process_mtu_packet
<1>3. ASSUME NEW p \in Peer, peer_not_found(p) PROVE IInv'
  BY <1>3, ResetInv
<1>4. ASSUME NEW p \in Peer, lose(p) PROVE IInv'
  BY <1>4, ConsumeInv DEF lose
<1>5. CASE route_changes
  BY <1>5, RouteInv
<1>6. CASE UNCHANGED vars
  BY <1>6 DEF vars, ends, path, IInv, TypeOK, StillCounts, AnswersAreTrue, MtuWasConfirmed
<1>. QED BY <1>1, <1>2, <1>3, <1>4, <1>5, <1>6 DEF Next

\* The variables keep their types whatever arrives and whenever: the index of
\* the MTU stays inside POSSIBLE_MTU, also where update_mtu_logic and
\* process_mtu_packet read the element after it, because an end at the last
\* size has finished and never starts again.
THEOREM TypeCorrect == Spec => []TypeOK
<1>1. IInv => TypeOK
  BY DEF IInv
<1>. QED BY InitInv, StepKeepsInv, <1>1, PTL DEF Spec

\* The MTU of an end is the first size or that of a probe of its own that
\* reached the other end, for any loss, delay and repetition of the packets of
\* the discovery and any number of resets.
THEOREM MtuIsConfirmed == Spec => []MtuWasConfirmed
<1>1. IInv => MtuWasConfirmed
  BY DEF IInv
<1>. QED BY InitInv, StepKeepsInv, <1>1, PTL DEF Spec
=============================================================================
