--------------------------- MODULE EthProxyProofs ---------------------------
(***************************************************************************)
(* The parts keep together what each of them keeps alone, for any number of *)
(* calls and nodes.                                                         *)
(***************************************************************************)
EXTENDS EthProxy, ProxyClientProofs

NP == INSTANCE ProbeProofs WITH Handlers <- Requests, NoHandler <- Nobody

(* What the multi-node client asks of its constants.                        *)
LEMMA NodesAssumptions ==
  /\ N \in Nat \ {0}
  /\ Ops \subseteq NP!AllOps
  /\ NP!Index = Answering \cup Failing \cup Slow
  /\ Modulus \in Nat \ {0}
  /\ Tips \subseteq NP!Uint
  /\ Nobody \notin Requests
BY ClusterAssumption, NobodyAssumption
DEF Ops, NP!AllOps, NP!FailoverOps, NP!ReadOps, NP!Index, Nodes!Index, NP!Uint, Nodes!Uint

(* The multi-node client starts in an initial state of its own module.      *)
LEMMA InitNodes == Init => NP!IInv /\ NP!ProbeInv
<1>1. Init => NP!Init
  BY DEF Init, Nodes!Init, NP!Init, NP!LockInit, Nodes!LockInit, Nodes!Index, NP!Index
<1> QED
  BY <1>1, NodesAssumptions, NP!InitIInv, NP!InitProbe

-----------------------------------------------------------------------------
(***************************************************************************)
(* Every step is one of the Go client and its service, and one of the       *)
(* multi-node client, or stutters there.                                    *)
(***************************************************************************)

(* Every step is one of the Go client and the service, or none of theirs.   *)
LEMMA StepOfCalls == [Next]_vars => [CallNext]_clientVars
<1>1. ASSUME NEW r \in Requests, CallNodes(r) \/ NodesReturn(r)
      PROVE  CallNext
  BY <1>1 DEF CallNodes, NodesReturn, CallNext
<1>2. ASSUME NEW r \in Requests, InNodes(r)
      PROVE  UNCHANGED clientVars
  BY <1>2 DEF InNodes
<1>3. ASSUME NEW r \in Requests, Elsewhere(r)
      PROVE  CallNext
  BY <1>3 DEF Elsewhere, CallNext
<1> QED
  BY <1>1, <1>2, <1>3 DEF Next, vars

(* The handlers call the client as module MultiNodeClient expects it.       *)
Inside(r) ==
  \/ NP!TakeReadLock(r)
  \/ NP!Fetch(r)
  \/ NP!Accept(r)
  \/ NP!Reply(r)
  \/ NP!LockList(r)
  \/ NP!Promote(r)
  \/ NP!Expire(r)

(* The steps of an operation are those of module MultiNodeClient.           *)
LEMMA StepInNodes ==
  ASSUME NEW r \in Requests, InNodes(r)
  PROVE  Inside(r)
<1>1. CASE Nodes!TakeReadLock(r)
  BY <1>1 DEF Nodes!TakeReadLock, NP!TakeReadLock, Nodes!RLock, NP!RLock, Nodes!handlerVars,
     NP!handlerVars, Nodes!probeVars, NP!probeVars, Nodes!sendVars, NP!sendVars, Nodes!moveVars,
     NP!moveVars, Inside
<1>2. CASE Nodes!Fetch(r)
  BY <1>2 DEF Nodes!Fetch, NP!Fetch, Nodes!lockVars, NP!lockVars, Nodes!probeVars, NP!probeVars,
     Nodes!sendVars, NP!sendVars, Nodes!moveVars, NP!moveVars, Inside
<1>3. CASE Nodes!Accept(r)
  BY <1>3 DEF Nodes!Accept, NP!Accept, Nodes!lockVars, NP!lockVars, Nodes!handlerVars,
     NP!handlerVars, Nodes!probeVars, NP!probeVars, Nodes!moveVars, NP!moveVars, Inside
<1>4. CASE Nodes!Reply(r)
  <2>1. NP!Reply(r)
    BY <1>4 DEF Nodes!Reply, NP!Reply, Nodes!ReplyOK, NP!ReplyOK, Nodes!ReplyErr, NP!ReplyErr,
       Nodes!HeightOK, NP!HeightOK, Nodes!HeightErr, NP!HeightErr, Nodes!Answers, NP!Answers,
       Nodes!Fails, NP!Fails, Nodes!Calling, NP!Calling, Nodes!KnownTransaction,
       NP!KnownTransaction, Nodes!RUnlock, NP!RUnlock, Nodes!Assigned, NP!Assigned, Nodes!AtHead,
       NP!AtHead, Nodes!Advance, NP!Advance, Nodes!NextIndex, NP!NextIndex, Nodes!SameDeadline,
       NP!SameDeadline, Nodes!MoreNodes, NP!MoreNodes, Nodes!ProbeResult, NP!ProbeResult,
       Nodes!TipsDiffer, NP!TipsDiffer, Nodes!absDiff, NP!absDiff, Nodes!Minus, NP!Minus,
       Nodes!blockDiff, NP!blockDiff, Nodes!ErrorUnlock, NP!ErrorUnlock, Nodes!FailoverOps,
       NP!FailoverOps, Nodes!ReadOps, NP!ReadOps, Nodes!lockVars, NP!lockVars, Nodes!probeVars,
       NP!probeVars, Nodes!sendVars, NP!sendVars, Nodes!moveVars, NP!moveVars
  <2> QED
    BY <2>1 DEF Inside
<1>5. CASE Nodes!LockList(r)
  BY <1>5 DEF Nodes!LockList, NP!LockList, Nodes!AnnounceLock, NP!AnnounceLock, Nodes!handlerVars,
     NP!handlerVars, Nodes!probeVars, NP!probeVars, Nodes!sendVars, NP!sendVars, Nodes!moveVars,
     NP!moveVars, Inside
<1>6. CASE Nodes!Promote(r)
  BY <1>6 DEF Nodes!Promote, NP!Promote, Nodes!Exclusive, NP!Exclusive, Nodes!Drained, NP!Drained,
     Nodes!Unlock, NP!Unlock, Nodes!StillThere, NP!StillThere, Nodes!Swapped, NP!Swapped,
     Nodes!InLoop, NP!InLoop, Nodes!handlerVars, NP!handlerVars, Nodes!probeVars, NP!probeVars,
     Nodes!sendVars, NP!sendVars, Nodes!moveVars, NP!moveVars, Inside
<1>7. CASE Nodes!Expire(r)
  BY <1>7 DEF Nodes!Expire, NP!Expire, Nodes!InLoop, NP!InLoop, Nodes!lockVars, NP!lockVars,
     Nodes!probeVars, NP!probeVars, Nodes!sendVars, NP!sendVars, Nodes!moveVars, NP!moveVars, Inside
<1> QED
  BY <1>1, <1>2, <1>3, <1>4, <1>5, <1>6, <1>7 DEF InNodes

(* Every step is one of the multi-node client, or none of its own.          *)
LEMMA StepOfNodes ==
  ASSUME CallInv, [Next]_vars
  PROVE  [NP!Next]_NP!vars
<1>1. ASSUME NEW r \in Requests, CallNodes(r)
      PROVE  NP!Next
  <2>1. endpoint[r] \in {"Health", "Balance", "Tx", "TxReceipt", "SendTx"}
    BY <1>1, EndpointsAssumption DEF CallNodes, Accept, AllEndpoints, CallInv, ApiInv, ApiTypeOK
  <2>2. Operation(endpoint[r]) \in Ops
    BY <2>1 DEF Operation, Ops
  <2>3. NP!Enter(r, Operation(endpoint[r]))
    BY <1>1 DEF CallNodes, Nodes!Enter, NP!Enter, Nodes!lockVars, NP!lockVars, Nodes!probeVars,
       NP!probeVars, Nodes!sendVars, NP!sendVars, Nodes!moveVars, NP!moveVars
  <2>4. NP!Call(r)
    BY <2>2, <2>3 DEF Ops, NP!Call, NP!BalanceAt, NP!TransactionByHash, NP!TransactionReceipt,
       NP!SendTransaction, NP!BlockNumber
  <2> QED
    BY <2>4 DEF NP!Next
<1>2. ASSUME NEW r \in Requests, NodesReturn(r)
      PROVE  NP!Next
  <2>1. NP!Return(r)
    BY <1>2 DEF NodesReturn, Nodes!Return, NP!Return, Nodes!lockVars, NP!lockVars
  <2> QED
    BY <2>1 DEF NP!Next
<1>3. ASSUME NEW r \in Requests, Elsewhere(r) \/ UNCHANGED vars
      PROVE  UNCHANGED NP!vars
  BY <1>3 DEF Elsewhere, vars, nodeVars, NP!vars, NP!lockVars, NP!handlerVars, NP!probeVars,
     NP!sendVars, NP!moveVars
<1>4. CASE UNCHANGED vars
  BY <1>4 DEF vars, nodeVars, NP!vars, NP!lockVars, NP!handlerVars, NP!probeVars, NP!sendVars,
     NP!moveVars
<1>5. ASSUME NEW r \in Requests, InNodes(r)
      PROVE  NP!Next
  BY <1>5, StepInNodes DEF Inside, NP!Next
<1> QED
  BY <1>1, <1>2, <1>3, <1>4, <1>5 DEF Next

-----------------------------------------------------------------------------
(***************************************************************************)
(* What ties the parts together: a request is in the multi-node client      *)
(* exactly while its handler waits for it, there it runs the operation of   *)
(* its endpoint, and the nodes that took its transaction, or the heights    *)
(* they reported, are remembered with the outcome they led to.              *)
(***************************************************************************)

PathAt(r) ==
  /\ stage[r] = "client" <=> pc[r] # "idle"
  /\ pc[r] # "idle" => op[r] = Operation(endpoint[r])
  /\ outcome[r] = "none" => taken[r] = {}
  /\ endpoint[r] = "SendTx" =>
       /\ outcome[r] = "ok" => taken[r] \ unheard[r] # {}
       /\ outcome[r] = "err" => taken[r] \ unheard[r] = {}
  /\ endpoint[r] = "Health" =>
       /\ outcome[r] = "ok" => Agreeing(reported[r])
       /\ outcome[r] = "err" => ~Agreeing(reported[r])

PathTypeOK ==
  /\ taken \in [Requests -> SUBSET NP!Index]
  /\ unheard \in [Requests -> SUBSET NP!Index]
  /\ reported \in [Requests -> Seq(Tips)]

WholeInv == CallInv /\ NP!IInv /\ NP!ProbeInv /\ PathTypeOK /\ \A r \in Requests : PathAt(r)

(* A step inside the multi-node client keeps the operation going.           *)
LEMMA InsideStays ==
  ASSUME NP!TypeOK, NEW r \in Requests, InNodes(r)
  PROVE  /\ op' = op
         /\ pc[r] # "idle" /\ pc'[r] # "idle"
         /\ \A q \in Requests \ {r} : pc'[q] = pc[q]
<1>1. CASE \/ Nodes!TakeReadLock(r) \/ Nodes!Fetch(r) \/ Nodes!Accept(r)
           \/ Nodes!LockList(r) \/ Nodes!Promote(r)
  BY <1>1 DEF Nodes!TakeReadLock, Nodes!Fetch, Nodes!Accept, Nodes!LockList, Nodes!Promote,
     Nodes!handlerVars, NP!TypeOK
<1>2. CASE Nodes!Expire(r)
  BY <1>2 DEF Nodes!Expire, Nodes!InLoop
<1>3. CASE Nodes!Reply(r)
  BY <1>3 DEF Nodes!Reply, Nodes!ReplyOK, Nodes!ReplyErr, Nodes!HeightOK, Nodes!HeightErr,
     Nodes!Answers, Nodes!Fails, Nodes!Calling, Nodes!Advance, NP!TypeOK
<1> QED
  BY <1>1, <1>2, <1>3 DEF InNodes

(* The steps of the proxy outside of it happen before and after the call.   *)
LEMMA OutsideStays ==
  ASSUME CallInv, NEW r \in Requests, Elsewhere(r)
  PROVE  /\ UNCHANGED <<endpoint, outcome>>
         /\ \A q \in Requests : stage'[q] = "client" <=> stage[q] = "client"
<1>1. CASE Caller(r)
  BY <1>1, CallerFootprint
<1>2. CASE Network(r)
  BY <1>2 DEF Network, Disconnect, fixedVars
<1>3. CASE Handle(r)
  <2>1. endpoint' = endpoint /\ \A q \in Requests : q # r => stage'[q] = stage[q]
    BY <1>3, HandlerFootprint DEF CallInv
  <2>2. stage[r] # "client" /\ stage'[r] # "client" /\ outcome' = outcome
    <3>1. CASE Status(r) \/ Reject(r) \/ Respond(r)
      <4>1. PICK c \in {200, 400, 404, 500, 503}, b \in {"payload", "JSONError"} : Wrote(r, c, b)
        BY <3>1, HandlerWrites DEF CallInv
      <4>2. stage'[r] = "merge"
        BY <4>1 DEF Wrote, CallInv, ApiInv, ApiTypeOK
      <4>3. stage[r] # "client" /\ outcome' = outcome
        BY <3>1 DEF Status, Reject, Respond, Routed, Delivered
      <4> QED
        BY <4>2, <4>3
    <3>2. CASE NotAllowed(r) \/ Merge(r) \/ Emit(r)
      BY <3>2 DEF NotAllowed, Delivered, Merge, Emit, CallInv, ApiInv, ApiTypeOK
    <3> QED
      BY <1>3, <3>1, <3>2 DEF Handle
  <2> QED
    BY <2>1, <2>2
<1> QED
  BY <1>1, <1>2, <1>3 DEF Elsewhere, Server

(* At first no request is in the multi-node client.                         *)
LEMMA InitWhole == Init => WholeInv
<1> SUFFICES ASSUME Init PROVE WholeInv
  OBVIOUS
<1>1. CallInv
  BY InitCall DEF Init
<1>2. NP!IInv /\ NP!ProbeInv
  BY InitNodes
<1>3. PathTypeOK
  <2>1. <<>> \in Seq(Tips)
    OBVIOUS
  <2> QED
    BY <2>1 DEF Init, PathTypeOK
<1>4. ASSUME NEW r \in Requests
      PROVE  PathAt(r)
  BY DEF Init, CallInit, ApiInit, Nodes!Init, PathAt
<1> QED
  BY <1>1, <1>2, <1>3, <1>4 DEF WholeInv

(* The return of the multi-node client: SentIffAcknowledged and             *)
(* ProbeVerdict become what the handler's outcome says of the nodes.        *)
LEMMA ReturnTells ==
  ASSUME WholeInv, NEW r \in Requests, NodesReturn(r)
  PROVE  PathTypeOK' /\ PathAt(r)'
<1>1. /\ stage[r] = "client" /\ stage'[r] = "respond" /\ endpoint' = endpoint
      /\ outcome'[r] \in {"ok", "err", "nil"}
      /\ outcome'[r] = "nil" => endpoint[r] = "TxReceipt"
      /\ outcome'[r] # "err" <=> err[r] = "nil"
  BY DEF NodesReturn, ClientReturns, Goto, fixedVars, NoErr, WholeInv, CallInv, ApiInv, ApiTypeOK
<1>2. /\ pc[r] = "done" /\ pc'[r] = "idle"
      /\ taken' = [taken EXCEPT ![r] = accepted[r]]
      /\ unheard' = [unheard EXCEPT ![r] = lost[r]]
      /\ reported' = [reported EXCEPT ![r] = heights[r]]
  BY DEF NodesReturn, Nodes!Return, WholeInv, NP!IInv, NP!TypeOK
<1>3. PathTypeOK'
  <2>1. /\ accepted[r] \in SUBSET NP!Index /\ lost[r] \in SUBSET NP!Index
        /\ heights[r] \in Seq(Tips)
    BY DEF WholeInv, NP!IInv, NP!TypeOK
  <2> QED
    BY <1>2, <2>1 DEF WholeInv, PathTypeOK
<1>4. ASSUME endpoint[r] = "SendTx"
      PROVE  accepted[r] \ lost[r] = {n \in {node[r]} : err[r] = "nil"}
  <2>1. op[r] = "SendTransaction"
    BY <1>2, <1>4 DEF WholeInv, PathAt, Operation
  <2>2. NP!SentIffAcknowledged
    BY DEF WholeInv, NP!IInv, NP!SentInv, NP!SentAt, NP!SentIffAcknowledged
  <2> QED
    BY <1>2, <2>1, <2>2 DEF NP!SentIffAcknowledged
<1>5. taken'[r] = accepted[r] /\ unheard'[r] = lost[r] /\ reported'[r] = heights[r]
  BY <1>2 DEF WholeInv, PathTypeOK
<1>6. ASSUME endpoint[r] = "Health"
      PROVE  err[r] = "nil" <=> Agreeing(heights[r])
  <2>1. op[r] = "BlockNumber"
    BY <1>2, <1>6 DEF WholeInv, PathAt, Operation
  <2>2. NP!ProbeVerdict
    BY NodesAssumptions, NP!ProbeImplies DEF WholeInv, NP!IInv
  <2> QED
    BY <1>2, <2>1, <2>2 DEF NP!ProbeVerdict, Agreeing, NP!Near, Nodes!Near, NP!blockDiff,
       Nodes!blockDiff
<1>7. PathAt(r)'
  <2>1. CASE endpoint[r] = "SendTx"
    BY <1>1, <1>2, <1>4, <1>5, <2>1 DEF PathAt
  <2>2. CASE endpoint[r] = "Health"
    <3>1. Agreeing(reported[r])' <=> Agreeing(heights[r])
      BY <1>5 DEF Agreeing
    <3> QED
      BY <1>1, <1>2, <1>6, <2>2, <3>1 DEF PathAt
  <2>3. CASE endpoint[r] \notin {"SendTx", "Health"}
    BY <1>1, <1>2, <2>3 DEF PathAt
  <2> QED
    BY <2>1, <2>2, <2>3
<1> QED
  BY <1>3, <1>7

(* Every step keeps handler and multi-node client in agreement.             *)
LEMMA PathStep ==
  ASSUME WholeInv, [Next]_vars
  PROVE  PathTypeOK' /\ \A q \in Requests : PathAt(q)'
<1>1. ASSUME NEW r \in Requests, CallNodes(r)
      PROVE  PathTypeOK' /\ \A q \in Requests : PathAt(q)'
  <2>1. /\ stage' = [stage EXCEPT ![r] = "client"]
        /\ pc' = [pc EXCEPT ![r] = "rlock"]
        /\ op' = [op EXCEPT ![r] = Operation(endpoint[r])]
        /\ UNCHANGED <<endpoint, outcome, taken, unheard, reported>>
    BY <1>1 DEF CallNodes, Accept, Goto, Nodes!Enter, fixedVars, history
  <2> QED
    BY <2>1 DEF WholeInv, PathTypeOK, PathAt, Agreeing, CallInv, ApiInv, ApiTypeOK, NP!IInv, NP!TypeOK
<1>2. ASSUME NEW r \in Requests, InNodes(r)
      PROVE  PathTypeOK' /\ \A q \in Requests : PathAt(q)'
  <2>1. UNCHANGED <<stage, endpoint, outcome, taken, unheard, reported>>
    BY <1>2 DEF InNodes, clientVars, apiVars, fixedVars, history
  <2>2. op' = op /\ \A q \in Requests : pc'[q] # "idle" <=> pc[q] # "idle"
    BY <1>2, InsideStays DEF WholeInv, NP!IInv
  <2> QED
    BY <2>1, <2>2 DEF WholeInv, PathTypeOK, PathAt, Agreeing
<1>3. ASSUME NEW r \in Requests, NodesReturn(r)
      PROVE  PathTypeOK' /\ \A q \in Requests : PathAt(q)'
  <2>1. ASSUME NEW q \in Requests \ {r}
        PROVE  PathAt(q)'
    <3>1. /\ stage'[q] = stage[q] /\ outcome'[q] = outcome[q] /\ endpoint' = endpoint
      BY <1>3, HandlerFootprint DEF NodesReturn, WholeInv, CallInv
    <3>2. /\ pc'[q] = pc[q] /\ op'[q] = op[q]
      BY <1>3 DEF NodesReturn, Nodes!Return, WholeInv, NP!IInv, NP!TypeOK
    <3>3. taken'[q] = taken[q] /\ unheard'[q] = unheard[q] /\ reported'[q] = reported[q]
      BY <1>3 DEF NodesReturn, WholeInv, PathTypeOK
    <3> QED
      BY <3>1, <3>2, <3>3 DEF WholeInv, PathAt, Agreeing
  <2> QED
    BY <1>3, <2>1, ReturnTells
<1>4. ASSUME NEW r \in Requests, Elsewhere(r)
      PROVE  PathTypeOK' /\ \A q \in Requests : PathAt(q)'
  <2>1. UNCHANGED <<pc, op, taken, unheard, reported>>
    BY <1>4 DEF Elsewhere, nodeVars, history
  <2>2. /\ UNCHANGED <<endpoint, outcome>>
        /\ \A q \in Requests : stage'[q] = "client" <=> stage[q] = "client"
    BY <1>4, OutsideStays DEF WholeInv
  <2> QED
    BY <2>1, <2>2 DEF WholeInv, PathTypeOK, PathAt, Agreeing
<1>5. CASE UNCHANGED vars
  <2>1. UNCHANGED <<stage, endpoint, outcome, pc, op, taken, unheard, reported>>
    BY <1>5 DEF vars, clientVars, apiVars, fixedVars, nodeVars, history
  <2> QED
    BY <2>1 DEF WholeInv, PathTypeOK, PathAt, Agreeing
<1> QED
  BY <1>1, <1>2, <1>3, <1>4, <1>5 DEF Next

(* Every step keeps the joint invariant.                                    *)
LEMMA WholeStep ==
  ASSUME WholeInv, [Next]_vars
  PROVE  WholeInv'
<1>1. CallInv'
  BY StepOfCalls, CallStep DEF WholeInv
<1>2. NP!IInv' /\ NP!ProbeInv'
  <2>1. NP!IInv /\ NP!ProbeInv /\ [NP!Next]_NP!vars
    BY StepOfNodes DEF WholeInv
  <2>2. NP!TypeOK /\ NP!LoopInv /\ NP!NodeStable
    BY <2>1 DEF NP!IInv
  <2> QED
    BY <2>1, <2>2, NodesAssumptions, NP!StepIInv, NP!ProbeStep
<1> QED
  BY <1>1, <1>2, PathStep DEF WholeInv

-----------------------------------------------------------------------------
(***************************************************************************)
(* How every step brings one request nearer to its end.                     *)
(***************************************************************************)

Measures(q) == <<call[q], ctx[q], conn[q], stage[q], pc[q], index[q], expired[q]>>

(* What is left depends on the state of the request alone.                  *)
LEMMA LeftDepends ==
  ASSUME NEW q \in Requests, UNCHANGED Measures(q)
  PROVE  Left(q)' = Left(q)
BY DEF Measures, Left, CallLeft, HandlerLeft, OthersLeft, Nodes!StepsLeft, Nodes!InLoop, Nodes!Stage

(* An operation has at most four steps for each node left, and three.       *)
LEMMA OperationLeft ==
  ASSUME NP!TypeOK, NP!LoopInv, NEW r \in Requests
  PROVE  Nodes!StepsLeft(r) \in Nat
<1>1. N \in Nat /\ pc[r] \in NP!PCs
  BY NodesAssumptions DEF NP!TypeOK
<1>2. NP!InLoop(r) => N - 1 - index[r] \in Nat
  BY <1>1 DEF NP!LoopInv, NP!LoopAt, NP!Index
<1> QED
  BY <1>1, <1>2 DEF Nodes!StepsLeft, Nodes!Stage, Nodes!InLoop, NP!InLoop, NP!PCs

(* ... and so in the next state.                                            *)
LEMMA OperationStaysNatural ==
  NP!TypeOK' /\ NP!LoopInv' => \A r \in Requests : Nodes!StepsLeft(r)' \in Nat
<1> DEFINE Natural == \A r \in Requests : Nodes!StepsLeft(r) \in Nat
<1>1. NP!TypeOK /\ NP!LoopInv => Natural
  BY OperationLeft
<1>2. NP!TypeOK' /\ NP!LoopInv' => Natural'
  <2> HIDE DEF Natural
  <2> QED
    BY <1>1, PTL
<1> QED
  BY <1>2

(* All parts of the measure are natural numbers.                            *)
LEMMA LeftIsNatural ==
  ASSUME WholeInv, NEW r \in Requests
  PROVE  CallLeft(r) \in Nat /\ HandlerLeft(r) \in Nat /\ OthersLeft(r) \in Nat
<1>1. CallLeft(r) \in Nat
  BY DEF CallLeft, WholeInv, CallInv, CallTypeOK
<1>2. HandlerLeft(r) \in Nat
  <2>1. Nodes!StepsLeft(r) \in Nat
    BY OperationLeft DEF WholeInv, NP!IInv
  <2> HIDE DEF Nodes!StepsLeft
  <2>2. stage[r] \in Stages /\ N \in Nat
    BY NodesAssumptions DEF WholeInv, CallInv, ApiInv, ApiTypeOK
  <2> QED
    BY <2>1, <2>2 DEF HandlerLeft, Stages
<1>3. OthersLeft(r) \in Nat
  BY DEF OthersLeft
<1> QED
  BY <1>1, <1>2, <1>3

(* A step inside an operation shortens it, or its deadline passes.          *)
LEMMA InsideShortens ==
  ASSUME NP!TypeOK, NP!LoopInv, NP!NodeStable, NEW r \in Requests, Inside(r)
  PROVE  /\ pc[r] # "idle" /\ pc'[r] # "idle"
         /\ \/ Nodes!StepsLeft(r)' < Nodes!StepsLeft(r) /\ expired'[r] = expired[r]
            \/ /\ Nodes!StepsLeft(r)' = Nodes!StepsLeft(r)
               /\ ~expired[r] /\ expired'[r]
         /\ \A q \in Requests \ {r} : UNCHANGED <<pc[q], index[q], expired[q]>>
<1> USE NodesAssumptions
<1>1. \A q \in Requests \ {r} : UNCHANGED <<pc[q], index[q], expired[q]>>
  <2>1. CASE NP!Promote(r)
    BY <2>1 DEF NP!Promote, NP!handlerVars, NP!TypeOK
  <2>2. CASE ~NP!Promote(r)
    <3>1. NP!OwnStep(r)
      BY <2>2 DEF Inside, NP!OwnStep
    <3> QED
      BY <3>1, NP!Others DEF NP!Locals
  <2> QED
    BY <2>1, <2>2
<1>2. CASE NP!Expire(r)
  <2>1. /\ pc[r] # "idle" /\ UNCHANGED <<pc, index>> /\ ~expired[r]
        /\ expired' = [expired EXCEPT ![r] = TRUE]
    BY <1>2 DEF NP!Expire, NP!InLoop
  <2>2. Nodes!StepsLeft(r)' = Nodes!StepsLeft(r)
    BY <2>1 DEF Nodes!StepsLeft, Nodes!InLoop, Nodes!Stage
  <2> QED
    BY <1>1, <2>1, <2>2 DEF NP!TypeOK
<1>3. CASE ~NP!Expire(r)
  <2>1. pc[r] # "idle" /\ pc'[r] # "idle" /\ pc'[r] # pc[r] /\ expired' = expired
    <3>1. CASE NP!Reply(r)
      <4>1. NP!Calling(r) /\ pc'[r] \in {"lock", "done", "rlock"} /\ expired' = expired
        BY <3>1, NP!Advancing DEF NP!Reply, NP!ReplyOK, NP!Answers, NP!TypeOK
      <4> QED
        BY <4>1 DEF NP!Calling
    <3>2. CASE ~NP!Reply(r)
      BY <1>3, <3>2 DEF Inside, NP!TakeReadLock, NP!Fetch, NP!Accept, NP!LockList, NP!Promote,
         NP!handlerVars, NP!TypeOK
    <3> QED
      BY <3>1, <3>2
  <2>2. NP!StepsLeft(r)' < NP!StepsLeft(r) \/ UNCHANGED <<pc[r], index[r]>>
    <3>1. NP!OwnStep(r) \/ NP!Promote(r)
      BY DEF Inside, NP!OwnStep
    <3> QED
      BY <2>1, <3>1, NP!OwnStepShortens DEF NP!Busy
  <2>3. NP!StepsLeft(r) = Nodes!StepsLeft(r)
    BY DEF NP!StepsLeft, Nodes!StepsLeft, NP!InLoop, Nodes!InLoop, NP!Stage, Nodes!Stage
  <2>4. NP!StepsLeft(r)' = Nodes!StepsLeft(r)'
    BY DEF NP!StepsLeft, Nodes!StepsLeft, NP!InLoop, Nodes!InLoop, NP!Stage, Nodes!Stage
  <2> QED
    BY <1>1, <2>1, <2>2, <2>3, <2>4
<1> QED
  BY <1>2, <1>3

(* ... and so they are in the next state.                                   *)
LEMMA LeftStaysNatural ==
  WholeInv' => \A r \in Requests :
                 CallLeft(r)' \in Nat /\ HandlerLeft(r)' \in Nat /\ OthersLeft(r)' \in Nat
<1> DEFINE Natural == \A r \in Requests :
                        CallLeft(r) \in Nat /\ HandlerLeft(r) \in Nat /\ OthersLeft(r) \in Nat
<1>1. WholeInv => Natural
  BY LeftIsNatural
<1>2. WholeInv' => Natural'
  <2> HIDE DEF Natural
  <2> QED
    BY <1>1, PTL
<1> QED
  BY <1>2

(* The sum falls when one part does and no other rises.                     *)
LEMMA LeftFalls ==
  ASSUME WholeInv, WholeInv', NEW r \in Requests,
         CallLeft(r)' <= CallLeft(r),
         HandlerLeft(r)' <= HandlerLeft(r),
         OthersLeft(r)' <= OthersLeft(r),
         \/ CallLeft(r)' < CallLeft(r)
         \/ HandlerLeft(r)' < HandlerLeft(r)
         \/ OthersLeft(r)' < OthersLeft(r)
  PROVE  Left(r)' < Left(r)
<1>1. CallLeft(r) \in Nat /\ HandlerLeft(r) \in Nat /\ OthersLeft(r) \in Nat
  BY LeftIsNatural
<1>2. CallLeft(r)' \in Nat /\ HandlerLeft(r)' \in Nat /\ OthersLeft(r)' \in Nat
  BY LeftStaysNatural
<1> QED
  BY <1>1, <1>2 DEF Left

Counts(r) == Left(r)' < Left(r) /\ \A q \in Requests \ {r} : UNCHANGED Measures(q)

(* The caller takes up its request, gives it up, or goes on; its connection *)
(* breaks.                                                                  *)
LEMMA CallerCounts ==
  ASSUME WholeInv, WholeInv', NEW r \in Requests, Caller(r) \/ Network(r), UNCHANGED nodeVars
  PROVE  Counts(r)
<1>1. UNCHANGED <<stage, pc, index, expired>>
  BY CallerFootprint DEF Network, Disconnect, nodeVars, WholeInv
<1>2. HandlerLeft(r)' = HandlerLeft(r)
  BY <1>1 DEF HandlerLeft, Nodes!StepsLeft, Nodes!InLoop, Nodes!Stage
<1> USE DEF WholeInv, CallInv, CallTypeOK, ApiInv, ApiTypeOK, Return
<1>3. \A q \in Requests \ {r} : UNCHANGED <<call[q], ctx[q], conn[q]>>
  BY DEF Caller, Proceed, Network, Disconnect, Send, Arrive, CannotSend, ContextDone, Receive,
     GiveUp, ConnectionLost, MethodNotAllowed, BodyLost, Deliver, WaitTimeout, WaitResponse,
     callVars, apiVars
<1>4. /\ CallLeft(r)' <= CallLeft(r) /\ OthersLeft(r)' <= OthersLeft(r)
      /\ CallLeft(r)' < CallLeft(r) \/ OthersLeft(r)' < OthersLeft(r)
  <2> USE DEF CallLeft, OthersLeft, callVars, apiVars
  <2>1. CASE ContextDone(r)
    BY <2>1 DEF ContextDone
  <2>2. CASE Network(r)
    BY <2>2 DEF Network, Disconnect
  <2>3. CASE Send(r)
    BY <2>3 DEF Send, Arrive
  <2>4. CASE GiveUp(r)
    BY <2>4 DEF GiveUp
  <2>5. CASE \/ CannotSend(r) \/ Receive(r) \/ ConnectionLost(r) \/ MethodNotAllowed(r)
             \/ BodyLost(r) \/ Deliver(r) \/ WaitTimeout(r) \/ WaitResponse(r)
    BY <2>5 DEF CannotSend, Receive, ConnectionLost, MethodNotAllowed, BodyLost, Deliver,
       WaitTimeout, WaitResponse
  <2> QED
    BY <2>1, <2>2, <2>3, <2>4, <2>5 DEF Caller, Proceed
<1>5. Left(r)' < Left(r)
  <2>1. HandlerLeft(r)' <= HandlerLeft(r)
    BY <1>2, LeftIsNatural
  <2> QED
    BY <1>4, <2>1, LeftFalls
<1> QED
  BY <1>1, <1>3, <1>5 DEF Counts, Measures

(* The handler goes on outside the multi-node client.                       *)
LEMMA HandlerCounts ==
  ASSUME WholeInv, WholeInv', NEW r \in Requests, Server(r), UNCHANGED nodeVars
  PROVE  Counts(r)
<1>1. UNCHANGED <<call, ctx, conn, pc, index, expired>>
  BY HandlerFootprint DEF Server, callVars, nodeVars, WholeInv, CallInv
<1>2. \A q \in Requests \ {r} : stage'[q] = stage[q]
  BY HandlerFootprint DEF Server, WholeInv, CallInv
<1>3. \/ stage[r] \in {"new", "respond"} /\ stage'[r] \in {"merge", "unrouted"}
      \/ stage[r] = "merge" /\ stage'[r] = "emit"
      \/ stage[r] = "emit" /\ stage'[r] = "done"
  <2>1. CASE Status(r) \/ Reject(r) \/ Respond(r)
    <3>1. PICK c \in {200, 400, 404, 500, 503}, b \in {"payload", "JSONError"} : Wrote(r, c, b)
      BY <2>1, HandlerWrites DEF WholeInv, CallInv
    <3>2. stage'[r] = "merge"
      BY <3>1 DEF Wrote, WholeInv, CallInv, ApiInv, ApiTypeOK
    <3> QED
      BY <2>1, <3>2 DEF Status, Reject, Respond, Routed, Delivered
  <2>2. CASE NotAllowed(r) \/ Merge(r) \/ Emit(r)
    BY <2>2 DEF NotAllowed, Delivered, Merge, Emit, WholeInv, CallInv, ApiInv, ApiTypeOK
  <2> QED
    BY <2>1, <2>2 DEF Server, Handle
<1>4. HandlerLeft(r)' < HandlerLeft(r)
  BY <1>3, NodesAssumptions DEF HandlerLeft
<1>5. CallLeft(r)' = CallLeft(r) /\ OthersLeft(r)' = OthersLeft(r)
  BY <1>1 DEF CallLeft, OthersLeft
<1>6. Left(r)' < Left(r)
  <2>1. CallLeft(r)' <= CallLeft(r) /\ OthersLeft(r)' <= OthersLeft(r)
    BY <1>5, LeftIsNatural
  <2>2. HandlerLeft(r)' <= HandlerLeft(r)
    BY <1>3, NodesAssumptions DEF HandlerLeft
  <2> QED
    BY <1>4, <2>1, <2>2, LeftFalls
<1> QED
  BY <1>1, <1>2, <1>6 DEF Counts, Measures

(* The handler enters the multi-node client, or comes back.                 *)
LEMMA BorderCounts ==
  ASSUME WholeInv, WholeInv', NEW r \in Requests, CallNodes(r) \/ NodesReturn(r)
  PROVE  Counts(r)
<1> USE DEF NP!TypeOK, CallInv, ApiInv, ApiTypeOK
<1>1. UNCHANGED <<call, ctx, conn>>
  BY DEF CallNodes, NodesReturn, callVars, Accept, ClientReturns, Goto
<1>2. \A q \in Requests \ {r} : UNCHANGED <<stage[q], pc[q], index[q], expired[q]>>
  BY DEF CallNodes, NodesReturn, Accept, ClientReturns, Goto, Nodes!Enter, Nodes!Return, WholeInv,
     NP!IInv
<1>3. HandlerLeft(r)' < HandlerLeft(r)
  <2>1. CASE CallNodes(r)
    <3>1. stage[r] = "new" /\ stage'[r] = "client" /\ pc[r] = "idle" /\ pc'[r] = "rlock"
      BY <2>1 DEF CallNodes, Accept, Routed, Delivered, Goto, Nodes!Enter, WholeInv, NP!IInv
    <3>2. index'[r] = 0 /\ expired'[r] \in BOOLEAN
      BY <2>1, <3>1 DEF CallNodes, Nodes!Enter, WholeInv, NP!IInv, NP!LoopInv, NP!LoopAt
    <3>3. Nodes!StepsLeft(r)' = 4 * (N - 1) + 7
      BY <3>1, <3>2, NodesAssumptions DEF Nodes!StepsLeft, Nodes!InLoop, Nodes!Stage
    <3> QED
      BY <3>1, <3>2, <3>3, NodesAssumptions DEF HandlerLeft
  <2>2. CASE NodesReturn(r)
    <3>1. stage[r] = "client" /\ stage'[r] = "respond"
      BY <2>2 DEF NodesReturn, ClientReturns, Goto, WholeInv
    <3>2. Nodes!StepsLeft(r) \in Nat
      BY OperationLeft DEF WholeInv, NP!IInv
    <3> QED
      BY <3>1, <3>2 DEF HandlerLeft
  <2> QED
    BY <2>1, <2>2
<1>4. CallLeft(r)' = CallLeft(r) /\ OthersLeft(r)' = OthersLeft(r)
  BY <1>1 DEF CallLeft, OthersLeft
<1>5. Left(r)' < Left(r)
  <2>1. CallLeft(r) \in Nat /\ OthersLeft(r) \in Nat /\ HandlerLeft(r) \in Nat
    BY LeftIsNatural
  <2>2. HandlerLeft(r)' \in Nat
    BY LeftStaysNatural
  <2> QED
    BY <1>3, <1>4, <2>1, <2>2, LeftFalls
<1> QED
  BY <1>1, <1>2, <1>5 DEF Counts, Measures

(* The handler goes on inside the multi-node client.                        *)
LEMMA InsideCounts ==
  ASSUME WholeInv, WholeInv', NEW r \in Requests, InNodes(r)
  PROVE  Counts(r)
<1>1. UNCHANGED <<call, ctx, conn, stage>>
  BY DEF InNodes, clientVars, apiVars, callVars
<1>2. /\ pc[r] # "idle"
      /\ \/ Nodes!StepsLeft(r)' < Nodes!StepsLeft(r) /\ expired'[r] = expired[r]
         \/ Nodes!StepsLeft(r)' = Nodes!StepsLeft(r) /\ ~expired[r] /\ expired'[r]
      /\ \A q \in Requests \ {r} : UNCHANGED <<pc[q], index[q], expired[q]>>
  BY StepInNodes, InsideShortens DEF WholeInv, NP!IInv
<1>3. stage[r] = "client"
  BY <1>2 DEF WholeInv, PathAt
<1>4. HandlerLeft(r)' < HandlerLeft(r)
  <2>1. Nodes!StepsLeft(r) \in Nat
    BY OperationLeft DEF WholeInv, NP!IInv
  <2>2. stage'[r] = "client"
    BY <1>1, <1>3
  <2>3. HandlerLeft(r) = Nodes!StepsLeft(r) + 4 + (IF expired[r] THEN 0 ELSE 1)
    BY <1>3 DEF HandlerLeft
  <2>4. HandlerLeft(r)' = Nodes!StepsLeft(r)' + 4 + (IF expired'[r] THEN 0 ELSE 1)
    BY <2>2 DEF HandlerLeft
  <2>5. Nodes!StepsLeft(r)' \in Nat
    BY <1>2, <2>1, OperationStaysNatural DEF WholeInv, NP!IInv
  <2> QED
    BY <1>2, <2>1, <2>3, <2>4, <2>5
<1>5. CallLeft(r)' = CallLeft(r) /\ OthersLeft(r)' = OthersLeft(r)
  BY <1>1 DEF CallLeft, OthersLeft
<1>6. Left(r)' < Left(r)
  <2>1. CallLeft(r) \in Nat /\ OthersLeft(r) \in Nat /\ HandlerLeft(r) \in Nat
    BY LeftIsNatural
  <2>2. HandlerLeft(r)' \in Nat
    BY LeftStaysNatural
  <2> QED
    BY <1>4, <1>5, <2>1, <2>2, LeftFalls
<1> QED
  BY <1>1, <1>2, <1>6 DEF Counts, Measures

(* Every step brings exactly one request nearer to its end.                 *)
LEMMA StepCounts ==
  ASSUME WholeInv, [Next]_vars
  PROVE  UNCHANGED vars \/ \E r \in Requests : Counts(r)
<1>1. WholeInv'
  BY WholeStep
<1>2. ASSUME NEW r \in Requests, Elsewhere(r)
      PROVE  Counts(r)
  BY <1>1, <1>2, CallerCounts, HandlerCounts DEF Elsewhere
<1> QED
  BY <1>1, <1>2, BorderCounts, InsideCounts DEF Next

-----------------------------------------------------------------------------
(***************************************************************************)
(* The theorems.                                                            *)
(***************************************************************************)

(* The joint invariant holds in every state that can be reached.            *)
THEOREM WholeInvariance == Spec => []WholeInv
<1>1. WholeInv /\ [Next]_vars => WholeInv'
  BY WholeStep
<1> QED
  BY InitWhole, <1>1, PTL DEF Spec

(* The whole is calls of the Go client, so that all that is proved of these *)
(* holds of it: CallersAreToldTheTruth, ErrorsHaveTexts, NothingThrownAway  *)
(* and, through CallersAreHTTPClients, the theorems about the handlers.     *)
THEOREM WholeIsCalls == Spec => CallSpec
<1>1. Init => CallInit
  BY DEF Init
<1> QED
  BY <1>1, StepOfCalls, PTL DEF Spec, CallSpec

(* The whole uses the multi-node client as its model allows: every property *)
(* proved in MultiNodeClientProofs holds of it.                             *)
THEOREM WholeRunsNodes == Spec => NP!Spec
<1>1. Init => NP!Init
  BY DEF Init, Nodes!Init, NP!Init, NP!LockInit, Nodes!LockInit, Nodes!Index, NP!Index
<1>2. WholeInv /\ [Next]_vars => [NP!Next]_NP!vars
  BY StepOfNodes DEF WholeInv
<1> QED
  BY <1>1, <1>2, WholeInvariance, PTL DEF Spec, NP!Spec

(* So the order of priority that all callers together see changes as module *)
(* Failover promises, in the whole as in the multi-node client alone.       *)
THEOREM WholeImplementsFailover == Spec => NP!ImplementsFailover
BY WholeRunsNodes, NodesAssumptions, NP!ClientImplementsFailover, PTL

(* No node is lost, and no handler waits for the lock in vain, whatever the *)
(* callers and the network do to the requests.                              *)
THEOREM WholeKeepsNodesAndLock == Spec => [](NP!NoNodeLost /\ NP!LockIsPassedOn)
BY WholeRunsNodes, NodesAssumptions, NP!ListStaysPermutation, NP!NobodyWaitsInVain, PTL

(* The joint invariant implies the properties.                              *)
LEMMA WholeInvImplies ==
  ASSUME WholeInv
  PROVE  SendIsTold /\ HealthIsTold /\ NothingLeftBehind
<1>1. NothingLeftBehind
  <2>1. \A r \in Requests : pc[r] = "idle" => r \notin readers \cup queued /\ writer # r
    BY DEF WholeInv, NP!IInv, NP!LockDiscipline
  <2> QED
    BY <2>1 DEF WholeInv, PathAt, NothingLeftBehind
<1>2. ASSUME NEW r \in Requests, endpoint[r] = "SendTx"
      PROVE  /\ answer[r] = "ok" => taken[r] \ unheard[r] # {}
             /\ answer[r] = "message" => taken[r] \subseteq unheard[r] /\ pc[r] = "idle"
             /\ wire[r].code \in {400, 405} => asked[r] = {} /\ taken[r] = {}
  <2>1. PathAt(r)
    BY DEF WholeInv
  <2>2. /\ outcome[r] \in {"none", "ok", "err"}
        /\ wire[r] # Unwritten => stage[r] # "client"
    BY <1>2 DEF WholeInv, CallInv, ApiInv, ApiTypeOK, ServedInv, Silent
  <2>3. wire[r].code \in {400, 405} => wire[r] # Unwritten /\ outcome[r] = "none"
    <3>1. wire[r] = Unwritten => wire[r].code = 0
      BY DEF Unwritten
    <3>2. stage[r] \in Stages /\ ServedInv
      BY DEF WholeInv, CallInv, ApiInv, ApiTypeOK
    <3>3. CASE stage[r] \in {"merge", "emit", "done"}
      BY <3>1, <3>2, <3>3 DEF ServedInv, Served
    <3>4. CASE stage[r] = "unrouted"
      BY <3>1, <3>2, <3>4 DEF ServedInv
    <3>5. CASE stage[r] \in {"new", "client", "respond"}
      BY <3>1, <3>2, <3>5 DEF ServedInv, Silent
    <3> QED
      BY <3>2, <3>3, <3>4, <3>5 DEF Stages
  <2>4. wire[r] # Unwritten => pc[r] = "idle" /\ asked[r] = {}
    BY <2>1, <2>2 DEF PathAt, WholeInv, NP!IInv, NP!LoopInv, NP!LoopAt
  <2>5. /\ answer[r] = "ok" => wire[r] # Unwritten /\ outcome[r] = "ok"
        /\ answer[r] = "message" => wire[r] # Unwritten /\ outcome[r] # "ok"
    BY <1>2, WireFacts DEF WholeInv, CallInv, AnswerIs
  <2> QED
    BY <1>2, <2>1, <2>2, <2>3, <2>4, <2>5 DEF PathAt
<1>3. ASSUME NEW r \in Requests, endpoint[r] = "Health"
      PROVE  /\ answer[r] = "ok" => Agreeing(reported[r])
             /\ answer[r] = "empty" => ~Agreeing(reported[r])
  <2>1. answer[r] \in {"ok", "empty"} =>
          wire[r] # Unwritten /\ ~IsNotAllowed(wire[r].code) /\ answer[r] = Decoded(r)
    BY DEF WholeInv, CallInv, AnswerIs
  <2>2. answer[r] = "ok" => outcome[r] = "ok"
    BY <1>3, <2>1, WireFacts DEF WholeInv
  <2>3. answer[r] = "empty" => outcome[r] = "err"
    BY <1>3, <2>1, WireFacts DEF WholeInv
  <2> QED
    BY <1>3, <2>2, <2>3 DEF WholeInv, PathAt
<1> QED
  BY <1>1, <1>2, <1>3 DEF SendIsTold, HealthIsTold

(* A handler in the multi-node client goes on, or waits for one that does.  *)
LEMMA ClientGoesOn ==
  ASSUME WholeInv, NEW r \in Requests, stage[r] = "client"
  PROVE  \/ InClientAble(r)
         \/ \E q \in Requests \ {r} : q \in readers \cup {writer} /\ InClientAble(q)
<1>1. pc[r] # "idle"
  BY DEF WholeInv, PathAt
<1>2. NP!LockIsPassedOn
  BY NodesAssumptions, NP!NobodyBlocked DEF WholeInv, NP!IInv
<1>3. \A q \in Requests : NP!Able(q) <=> Nodes!Able(q)
  BY DEF NP!Able, Nodes!Able, NP!Calling, Nodes!Calling, NP!Drained, Nodes!Drained
<1>4. CASE Nodes!Able(r)
  BY <1>4 DEF InClientAble
<1>5. CASE ~Nodes!Able(r)
  <2>1. PICK q \in Requests \ {r} : q \in readers \cup {writer} /\ NP!Able(q)
    BY <1>1, <1>2, <1>3, <1>5 DEF NP!LockIsPassedOn, NP!Busy
  <2>2. pc[q] # "idle"
    BY <2>1 DEF WholeInv, NP!IInv, NP!LockDiscipline
  <2>3. stage[q] = "client"
    BY <2>2 DEF WholeInv, PathAt
  <2> QED
    BY <1>3, <2>1, <2>3 DEF InClientAble
<1> QED
  BY <1>4, <1>5

(* A call goes on, or waits for its handler.                                *)
LEMMA CallGoesOn ==
  ASSUME WholeInv, NEW r \in Requests, call[r] \notin {"new", "returned"}, ~CallerAble(r)
  PROVE  HandlerAble(r) \/ stage[r] = "client"
<1>1. CallAt(r) /\ call[r] \in {"sent", "decoding", "waiting"}
  BY DEF WholeInv, CallInv, CallTypeOK
<1>2. call[r] = "sent"
  BY <1>1 DEF CallAt, CallerAble, Room, Decoded
<1>3. conn[r] # "none" /\ ~Flushed(r)
  BY <1>1, <1>2 DEF CallAt, CallerAble
<1>4. stage[r] \in Stages /\ ServedInv
  BY DEF WholeInv, CallInv, ApiInv, ApiTypeOK
<1>5. stage[r] # "unrouted"
  BY <1>3, <1>4 DEF ServedInv, Flushed, Unwritten
<1>6. stage[r] # "done"
  BY <1>3, <1>4 DEF ServedInv, Served, Flushed, Unwritten
<1> QED
  BY <1>3, <1>4, <1>5, <1>6 DEF Stages, HandlerAble, Delivered

(* Callers, handlers and the lock never wait for each other in a circle.    *)
THEOREM NobodyWaitsInACircle == Spec => []NobodyHangs
<1>1. WholeInv => NobodyHangs
  BY CallGoesOn, ClientGoesOn DEF NobodyHangs, HandlerAble
<1> QED
  BY <1>1, WholeInvariance, PTL

(* Every step counts, so no behaviour is longer than what is left at its    *)
(* start; with NobodyWaitsInACircle this is all that is safety in the claim *)
(* that every call returns.                                                 *)
THEOREM NothingIsPutOff == Spec => EveryStepCounts
<1>1. WholeInv /\ [Next]_vars =>
        [\E r \in Requests :
           Left(r)' < Left(r) /\ \A q \in Requests \ {r} : Left(q)' = Left(q)]_vars
  BY StepCounts, LeftDepends DEF Counts
<1> QED
  BY <1>1, WholeInvariance, PTL DEF Spec, EveryStepCounts

(* What the caller of SendTransaction is told is true of the nodes.         *)
THEOREM SendersAreToldTheTruth == Spec => []SendIsTold
BY WholeInvariance, WholeInvImplies, PTL

(* What the caller of Health is told is true of the heights of all nodes.   *)
THEOREM HealthCallersAreToldTheTruth == Spec => []HealthIsTold
BY WholeInvariance, WholeInvImplies, PTL

(* A handler that has answered keeps nothing that others need.              *)
THEOREM NoHandlerStaysBehind == Spec => []NothingLeftBehind
BY WholeInvariance, WholeInvImplies, PTL
=============================================================================
