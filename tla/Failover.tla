------------------------------ MODULE Failover ------------------------------
(***************************************************************************)
(* What multiNodeClient (proxy/eth_client.go) promises, without positions,  *)
(* locks and deadlines.  Each handler runs one request at a time.  A query  *)
(* is served by one node, or fails.  Only a query that succeeds may change  *)
(* the order of priority, at most once, by moving the node that served it   *)
(* one place up; a node that heads the list stays there.  A probe changes   *)
(* nothing.                                                                 *)
(***************************************************************************)
EXTENDS Naturals

CONSTANTS
  Handlers,
  Nodes        \* number of nodes

Place == 0 .. Nodes - 1

VARIABLES
  order,       \* place -> the node there
  phase,       \* of each handler's request
  server,      \* the node that served it, while that node may still move
  reply        \* "none" until the request is over, then "nil" or "err"

absVars == <<order, phase, server, reply>>

Init ==
  /\ order = [p \in Place |-> p]
  /\ phase = [h \in Handlers |-> "idle"]
  /\ server = [h \in Handlers |-> 0]
  /\ reply = [h \in Handlers |-> "none"]

Step(h, from, to) ==
  /\ phase[h] = from
  /\ phase' = [phase EXCEPT ![h] = to]

Query(h) == Step(h, "idle", "open") /\ UNCHANGED <<order, server, reply>>

Probe(h) == Step(h, "idle", "probing") /\ UNCHANGED <<order, server, reply>>

ServedByHead(h) ==
  /\ Step(h, "open", "closed")
  /\ reply' = [reply EXCEPT ![h] = "nil"]
  /\ UNCHANGED <<order, server>>

ServedBy(h, n) ==
  /\ n # order[0]
  /\ Step(h, "open", "served")
  /\ server' = [server EXCEPT ![h] = n]
  /\ reply' = [reply EXCEPT ![h] = "nil"]
  /\ UNCHANGED order

Fail(h) ==
  /\ Step(h, "open", "closed")
  /\ reply' = [reply EXCEPT ![h] = "err"]
  /\ UNCHANGED <<order, server>>

Probed(h) ==
  /\ Step(h, "probing", "closed")
  /\ \E r \in {"nil", "err"} : reply' = [reply EXCEPT ![h] = r]
  /\ UNCHANGED <<order, server>>

MoveUp(h) ==
  /\ Step(h, "served", "closed")
  /\ \E p \in Place \ {0} :
       /\ order[p] = server[h]
       /\ order' = [order EXCEPT ![p - 1] = order[p], ![p] = order[p - 1]]
  /\ server' = [server EXCEPT ![h] = 0]
  /\ UNCHANGED reply

(* The list has changed since the node answered: it keeps its place.        *)
Stay(h) ==
  /\ Step(h, "served", "closed")
  /\ server' = [server EXCEPT ![h] = 0]
  /\ UNCHANGED <<order, reply>>

Leave(h) ==
  /\ Step(h, "closed", "idle")
  /\ reply' = [reply EXCEPT ![h] = "none"]
  /\ UNCHANGED <<order, server>>

Next ==
  \E h \in Handlers :
    \/ Query(h)
    \/ Probe(h)
    \/ ServedByHead(h)
    \/ \E n \in Place : ServedBy(h, n)
    \/ Fail(h)
    \/ Probed(h)
    \/ MoveUp(h)
    \/ Stay(h)
    \/ Leave(h)

Spec == Init /\ [][Next]_absVars
=============================================================================
