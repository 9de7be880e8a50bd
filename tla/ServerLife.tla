----------------------------- MODULE ServerLife -----------------------------
(***************************************************************************)
(* What a process with an HTTP server promises to those who connect: it     *)
(* opens once and closes once, accepts requests only in between, and either *)
(* stops when all of them have been answered, or aborts those that have     *)
(* not.  Nothing happens to a request after that.                           *)
(***************************************************************************)
CONSTANT Requests

VARIABLES
  life,        \* "closed", "open", "closing", "stopped", "aborted"
  served       \* "none", "open", "answered" or "cut off"

lifeVars == <<life, served>>

Init ==
  /\ life = "closed"
  /\ served = [r \in Requests |-> "none"]

OpenUp ==
  /\ life = "closed"
  /\ life' = "open"
  /\ UNCHANGED served

Admit(r) ==
  /\ life = "open"
  /\ served[r] = "none"
  /\ served' = [served EXCEPT ![r] = "open"]
  /\ UNCHANGED life

Serve(r) ==
  /\ life \in {"open", "closing"}
  /\ served[r] = "open"
  /\ served' = [served EXCEPT ![r] = "answered"]
  /\ UNCHANGED life

Close ==
  /\ life \in {"closed", "open"}
  /\ life' = "closing"
  /\ UNCHANGED served

Stop ==
  /\ life = "closing"
  /\ \A r \in Requests : served[r] \in {"none", "answered"}
  /\ life' = "stopped"
  /\ UNCHANGED served

Abort ==
  /\ life \in {"closed", "open", "closing"}
  /\ life' = "aborted"
  /\ served' = [r \in Requests |-> IF served[r] = "open" THEN "cut off" ELSE served[r]]

Next ==
  \/ OpenUp
  \/ \E r \in Requests : Admit(r) \/ Serve(r)
  \/ Close
  \/ Stop
  \/ Abort

Spec == Init /\ [][Next]_lifeVars
=============================================================================
