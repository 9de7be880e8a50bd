---------------------------- MODULE BlockHeights ----------------------------
(***************************************************************************)
(* The comparison of block heights in multiNodeClient.BlockNumber           *)
(* (proxy/eth_client.go), on the unsigned integers of the program.          *)
(***************************************************************************)
EXTENDS Naturals, Sequences

CONSTANT Modulus   \* 2^64 in the program: the number of uint64 values

ASSUME ModulusAssumption == Modulus \in Nat \ {0}

Uint == 0 .. Modulus - 1

(* uint64 subtraction; Modulus is added first so that Nat suffices. *)
Minus(a, b) == (Modulus + a - b) % Modulus

blockDiff == 3

(* absDiff picks the order of the operands before it subtracts; the mutated *)
(* form subtracts in the order given and relies on the sign.                *)
absDiffUnordered(a, b) == Minus(a, b)
absDiff(a, b) == IF a > b THEN Minus(a, b) ELSE Minus(b, a)

(* blockheights already holds what the nodes before this one reported; only *)
(* its last element is compared with the new height h.  Mutated: the limit  *)
(* is exceeded one block too early.                                         *)
TipsDifferEarly(heights, h) ==
  /\ heights # <<>>
  /\ absDiff(h, heights[Len(heights)]) >= blockDiff
TipsDiffer(heights, h) ==
  /\ heights # <<>>
  /\ absDiff(h, heights[Len(heights)]) > blockDiff
=============================================================================
