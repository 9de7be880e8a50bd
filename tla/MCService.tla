----------------------------- MODULE MCService -----------------------------
(***************************************************************************)
(* Instances of Service for TLC.  The first URL occurs twice.               *)
(***************************************************************************)
EXTENDS Service, TLC

CONSTANTS u1, u2, r1, r2

ThreeUrls == <<u1, u2, u1>>
TwoUrls == <<u1, u2>>
TwoRequests == {r1, r2}
OneRequest == {r1}
Symmetry == Permutations(Requests)
=============================================================================
