-------------------------- MODULE SequenceNumbers --------------------------
(***************************************************************************)
(* The 16-bit circular sequence numbers of the channels and of the pings:  *)
(* net_constants::MAX_SEQUENCE and relative_sequence_number.               *)
(***************************************************************************)
EXTENDS Integers

CONSTANT MaxSequence    \* net_constants::MAX_SEQUENCE (32768 in the code)

ASSUME MaxSequenceAssumption ==
    /\ MaxSequence \in Nat \ {0}
    /\ MaxSequence % 2 = 0

HALF_MAX_SEQUENCE == MaxSequence \div 2

\* The C++ operator % rounds towards zero, the TLA+ one towards minus infinity.
Remainder(a, b) == IF a >= 0 THEN a % b ELSE -((-a) % b)

\* How far `number' is ahead (or, if negative, behind) of `expected'.
relative_sequence_number(number, expected) ==
    Remainder(number - expected + MaxSequence + HALF_MAX_SEQUENCE, MaxSequence)
        - HALF_MAX_SEQUENCE

\* Mutant: the counter does not wrap.
Advance_unwrapped(seq, n) == seq + n

\* The sequence number n places after seq, (seq + n) % MAX_SEQUENCE.
Advance(seq, n) == (seq + n) % MaxSequence
=============================================================================
