----------------------------- MODULE RemoteCall -----------------------------
(***************************************************************************)
(* What a caller of the proxy is promised.  The proxy refuses an operation, *)
(* which is then never begun, or it begins it by handing it to the nodes.   *)
(* What has begun is done or fails, and a failure says nothing of traces it *)
(* may have left; an operation on the proxy itself is done without being    *)
(* begun.  The caller is told what has been settled, so that it can repeat  *)
(* a refused operation as if it had never been called; or it is told, at    *)
(* any time, that nobody knows, and the operation may still begin.          *)
(***************************************************************************)
CONSTANT Calls

VARIABLES
  begun,       \* has the operation been handed to the nodes?
  settled,     \* "open", "refused", "done" or "failed"
  told         \* "nothing", "unknown", or what has been settled

callsVars == <<begun, settled, told>>

Init ==
  /\ begun = [c \in Calls |-> FALSE]
  /\ settled = [c \in Calls |-> "open"]
  /\ told = [c \in Calls |-> "nothing"]

Begin(c) ==
  /\ ~begun[c]
  /\ settled[c] = "open"
  /\ begun' = [begun EXCEPT ![c] = TRUE]
  /\ UNCHANGED <<settled, told>>

Outcomes(c) == IF begun[c] THEN {"done", "failed"} ELSE {"done", "refused"}

Settle(c) ==
  /\ settled[c] = "open"
  /\ \E s \in Outcomes(c) : settled' = [settled EXCEPT ![c] = s]
  /\ UNCHANGED <<begun, told>>

Tell(c) ==
  /\ told[c] = "nothing"
  /\ \E t \in {settled[c], "unknown"} \ {"open"} : told' = [told EXCEPT ![c] = t]
  /\ UNCHANGED <<begun, settled>>

Next == \E c \in Calls : Begin(c) \/ Settle(c) \/ Tell(c)

Spec == Init /\ [][Next]_callsVars
=============================================================================
