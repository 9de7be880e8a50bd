------------------------------- MODULE MCApi -------------------------------
(***************************************************************************)
(* An instance of Api for TLC.                                              *)
(***************************************************************************)
EXTENDS Api

CONSTANTS r1, r2, nobody

TwoRequests == {r1, r2}
ReceiptAndSend == {"TxReceipt", "SendTx"}
=============================================================================
