----------------------------- MODULE WordArith -----------------------------
(***************************************************************************)
(* Unsigned machine words of the two TC375 nodes: uint32 in the code, a    *)
(* word of 2*HalfWord values here.  Sequence numbers, millisecond clocks   *)
(* and STM tick counters are all compared with unsigned subtraction that   *)
(* wraps, so the width matters and is a parameter.                         *)
(***************************************************************************)
EXTENDS Integers

CONSTANT HalfWord   \* 0x80000000 in the code

ASSUME HalfWordAssumption == HalfWord \in Nat \ {0}

\* The number of values of a word (2^32 in the code) and the words themselves.
WordSize == 2 * HalfWord
Words    == 0 .. WordSize - 1

\* a - b and a + b on unsigned words.
WordSub(a, b) == IF a >= b THEN a - b ELSE a - b + WordSize
WordAdd(a, b) == IF a + b < WordSize THEN a + b ELSE a + b - WordSize

\* Mutant of sequenceNewer: the same number counts as newer.
sequenceNewer_OrSame(candidate, reference) == WordSub(candidate, reference) < HalfWord

\* Half-range modular comparison of sequence numbers.
sequenceNewer(candidate, reference) ==
    LET difference == WordSub(candidate, reference)
    IN  difference # 0 /\ difference < HalfWord
=============================================================================
