------------------------- MODULE BlockHeightsProofs -------------------------
(***************************************************************************)
(* What absDiff computes, for any width of the integers.                    *)
(***************************************************************************)
EXTENDS BlockHeights, Integers, TLAPS

(* absDiff is the distance: the subtraction never wraps.                    *)
LEMMA Distance ==
  ASSUME NEW a \in Uint, NEW b \in Uint
  PROVE  absDiff(a, b) = IF a > b THEN a - b ELSE b - a
<1>1. \A x \in Uint : (Modulus + x) % Modulus = x
  BY ModulusAssumption, SMTT(30) DEF Uint
<1>2. CASE a > b
  <2>1. a - b \in Uint /\ Modulus + a - b = Modulus + (a - b)
    BY <1>2, ModulusAssumption DEF Uint
  <2> QED BY <1>1, <1>2, <2>1 DEF absDiff, Minus
<1>3. CASE ~(a > b)
  <2>1. b - a \in Uint /\ Modulus + b - a = Modulus + (b - a)
    BY <1>3, ModulusAssumption DEF Uint
  <2> QED BY <1>1, <1>3, <2>1 DEF absDiff, Minus
<1> QED BY <1>2, <1>3

(* So a height differs iff it is more than blockDiff above or below the one *)
(* before it.                                                               *)
LEMMA DifferingHeights ==
  ASSUME NEW s, s # <<>> => s[Len(s)] \in Uint, NEW t \in Uint
  PROVE  TipsDiffer(s, t) <=>
           /\ s # <<>>
           /\ s[Len(s)] > t + blockDiff \/ t > s[Len(s)] + blockDiff
<1>1. CASE s # <<>>
  <2>1. s[Len(s)] \in Uint
    BY <1>1
  <2>2. absDiff(t, s[Len(s)]) = IF t > s[Len(s)] THEN t - s[Len(s)] ELSE s[Len(s)] - t
    BY <2>1, Distance
  <2> QED
    BY <1>1, <2>1, <2>2, ModulusAssumption DEF TipsDiffer, blockDiff, Uint
<1> QED
  BY <1>1 DEF TipsDiffer
=============================================================================
