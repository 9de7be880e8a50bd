------------------------ MODULE MCMultiNodeClient ------------------------
(***************************************************************************)
(* Instances of MultiNodeClient for TLC.  Modulus stands for 2^64: small    *)
(* enough that a subtraction the wrong way round wraps to a value in range. *)
(***************************************************************************)
EXTENDS MultiNodeClient, TLC

CONSTANTS h1, h2, h3, nobody

ThreeHandlers == {h1, h2, h3}
TwoHandlers == {h1, h2}
OneHandler == {h1}

\* The handlers run the same code: they may be exchanged.
Symmetry == Permutations(Handlers)

NoNodes == {}
AllNodes == Index
Node0 == {0}
Node1 == {1}
Nodes12 == {1, 2}
Last == {N - 1}
AllButLast == 0 .. N - 2

OneTip == {0}
SpreadTips == {0, 3, 4, 6}
NearAndFar == {0, 3, 4}

Balance == {"BalanceAt"}
BalanceAndProbe == {"BalanceAt", "BlockNumber"}
SendAndProbe == {"SendTransaction", "BlockNumber"}
Probe == {"BlockNumber"}
=============================================================================
