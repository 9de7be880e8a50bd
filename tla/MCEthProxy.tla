----------------------------- MODULE MCEthProxy -----------------------------
(***************************************************************************)
(* An instance of EthProxy for TLC: two calls at the same time.  Call r2    *)
(* sends a transaction, with a patient caller and a good connection; call   *)
(* r1 goes to any endpoint, by either method, and its caller may leave and  *)
(* its connection break at any moment.                                      *)
(***************************************************************************)
EXTENDS EthProxy

CONSTANTS r1, r2, nobody

TwoRequests == {r1, r2}
BothNodes == {0, 1}
Node0 == {0}
Node1 == {1}
FarTips == {0, 4}

\* Balance is SendTx without the transaction, Tx is TxReceipt without absence.
DistinctEndpoints == {"Status", "Health", "TxReceipt", "SendTx"}

SendsAlongside == endpoint[r2] = "SendTx" /\ method[r2] = "POST"
Patience == ~ctx'[r2] /\ conn'[r2] # "gone"
=============================================================================
