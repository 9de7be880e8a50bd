----------------------- MODULE MultiNodeClientProofs -----------------------
(***************************************************************************)
(* Proofs about MultiNodeClient, for any number of nodes and handlers and   *)
(* any behaviour of the nodes.                                              *)
(***************************************************************************)
EXTENDS MultiNodeClient, TLAPS

USE DEF PCs

-----------------------------------------------------------------------------
(***************************************************************************)
(* What the control state says of the locals: the strengthening without     *)
(* which neither the types nor the properties are inductive.  A loop is at  *)
(* a position of the list and has no success behind it; a promotion is      *)
(* under way only after a success, away from the head.                      *)
(***************************************************************************)
LoopAt(h) ==
  /\ pc[h] = "idle" => index[h] = 0 /\ err[h] = "none" /\ asked[h] = {}
  /\ InLoop(h) => index[h] \in Index /\ err[h] # "nil"
  /\ Calling(h) => node[h] \in asked[h]
  /\ pc[h] = "sent" => op[h] = "SendTransaction"
  /\ pc[h] \in {"lock", "drain"} =>
       index[h] \in Index \ {0} /\ err[h] = "nil" /\ op[h] \in FailoverOps

LoopInv == \A h \in Handlers : LoopAt(h)

-----------------------------------------------------------------------------
(***************************************************************************)
(* Types.                                                                   *)
(***************************************************************************)

(* The entry of an operation and the loop keep the variables in their types.*)
LEMMA LoopTypes ==
  ASSUME TypeOK, NEW h \in Handlers,
         Call(h) \/ TakeReadLock(h) \/ Fetch(h) \/ Accept(h) \/ Expire(h),
         LoopInv
  PROVE  TypeOK'
<1> USE NAssumption, OpsAssumption, NodesAssumption
<1>1. CASE Call(h)
  BY <1>1 DEF AllOps, FailoverOps, ReadOps, TypeOK, LockTypeOK, Call, Enter, BalanceAt, TransactionByHash,
     TransactionReceipt, SendTransaction, BlockNumber, lockVars, probeVars, sendVars, moveVars
<1>2. CASE TakeReadLock(h)
  BY <1>2 DEF TypeOK, LockTypeOK, TakeReadLock, RLock, handlerVars, probeVars, sendVars, moveVars
<1>3. CASE Fetch(h)
  <2>1. nodes[index[h]] \in Index
    BY <1>3 DEF TypeOK, LoopInv, LoopAt, Fetch, InLoop
  <2>2. /\ node' \in [Handlers -> Index]
        /\ pc' \in [Handlers -> PCs]
    BY <1>3, <2>1 DEF TypeOK, Fetch
  <2>3. asked' \in [Handlers -> SUBSET Index]
    <3>1. asked[h] \cup {nodes[index[h]]} \in SUBSET Index
      BY <2>1 DEF TypeOK
    <3> QED BY <1>3, <3>1 DEF TypeOK, Fetch
  <2> QED
    BY <1>3, <2>2, <2>3 DEF TypeOK, LockTypeOK, Fetch, lockVars, probeVars, sendVars, moveVars
<1>4. CASE Accept(h)
  BY <1>4 DEF TypeOK, LockTypeOK, Accept, lockVars, handlerVars, probeVars, moveVars
<1>5. CASE Expire(h)
  BY <1>5 DEF TypeOK, LockTypeOK, Expire, lockVars, probeVars, sendVars, moveVars
<1> QED BY <1>1, <1>2, <1>3, <1>4, <1>5

(* ... and so does the answer of a node, whatever it is.                    *)
LEMMA ReplyTypes ==
  ASSUME TypeOK, NEW h \in Handlers, Reply(h),
         LoopInv
  PROVE  TypeOK'
<1> USE NAssumption, TipsAssumption
<1>1. index[h] \in Index
  BY DEF LoopInv, LoopAt, Reply, ReplyOK, ReplyErr, HeightOK, HeightErr, Answers, Fails, Calling, InLoop
<1>2. CASE ReplyOK(h)
  <2>1. lost[h] \ {node[h]} \in SUBSET Index
    BY DEF TypeOK
  <2>2. lost' \in [Handlers -> SUBSET Index]
    BY <1>2, <2>1 DEF TypeOK, ReplyOK
  <2> QED
    BY <1>2, <2>2 DEF TypeOK, LockTypeOK, ReplyOK, RUnlock, Assigned, probeVars, moveVars
<1>3. ASSUME Advance(h)
      PROVE  /\ index' \in [Handlers -> 0 .. N]
             /\ pc' \in [Handlers -> PCs]
             /\ expired' \in [Handlers -> BOOLEAN]
  <2>1. index[h] + 1 \in 0 .. N
    BY <1>1 DEF Index
  <2> QED BY <1>3, <2>1 DEF TypeOK, Advance, NextIndex, SameDeadline
<1>4. CASE ReplyErr(h)
  <2>1. lost[h] \cup {n \in {node[h]} : pc[h] = "sent"} \in SUBSET Index
    BY DEF TypeOK
  <2>2. lost' \in [Handlers -> SUBSET Index]
    BY <1>4, <2>1 DEF TypeOK, ReplyErr
  <2>3. err' \in [Handlers -> {"none", "nil", "err"}]
    BY <1>4 DEF TypeOK, ReplyErr, Assigned
  <2>4. LockTypeOK'
    BY <1>4 DEF TypeOK, LockTypeOK, ReplyErr, RUnlock
  <2> QED BY <1>3, <1>4, <2>2, <2>3, <2>4 DEF TypeOK, ReplyErr, probeVars, moveVars
<1>5. ASSUME errStr' \in [Handlers -> BOOLEAN]
      PROVE  ProbeResult(h) \in {"none", "nil", "err"}
  BY <1>5 DEF TypeOK, ProbeResult
<1>6. CASE HeightOK(h)
  <2>1. PICK t \in Tips :
          /\ heights' = [heights EXCEPT ![h] = Append(@, t)]
          /\ errStr' = [errStr EXCEPT ![h] = @ \/ TipsDiffer(heights[h], t)]
    BY <1>6 DEF HeightOK
  <2>2. heights' \in [Handlers -> Seq(Tips)]
    <3>1. Append(heights[h], t) \in Seq(Tips)
      BY DEF TypeOK
    <3> QED BY <2>1, <3>1 DEF TypeOK
  <2>3. errStr' \in [Handlers -> BOOLEAN]
    BY <2>1 DEF TypeOK, TipsDiffer
  <2>4. err' \in [Handlers -> {"none", "nil", "err"}]
    BY <1>5, <1>6, <2>3 DEF TypeOK, HeightOK
  <2>5. LockTypeOK'
    BY <1>6 DEF TypeOK, LockTypeOK, HeightOK, RUnlock
  <2> QED BY <1>3, <1>6, <2>2, <2>3, <2>4, <2>5 DEF TypeOK, HeightOK, sendVars, moveVars
<1>7. CASE HeightErr(h)
  <2>1. errStr' \in [Handlers -> BOOLEAN]
    BY <1>7 DEF TypeOK, HeightErr
  <2>2. err' \in [Handlers -> {"none", "nil", "err"}]
    BY <1>5, <1>7, <2>1 DEF TypeOK, HeightErr
  <2>3. LockTypeOK'
    BY <1>7 DEF TypeOK, LockTypeOK, HeightErr, ErrorUnlock, RUnlock
  <2> QED BY <1>3, <1>7, <2>1, <2>2, <2>3 DEF TypeOK, HeightErr, sendVars, moveVars
<1> QED BY <1>2, <1>4, <1>6, <1>7 DEF Reply

(* ... and the promotion, which only happens away from the head.            *)
LEMMA PromotionTypes ==
  ASSUME TypeOK, NEW h \in Handlers, LockList(h) \/ Promote(h) \/ Return(h),
         LoopInv
  PROVE  TypeOK'
<1> USE NAssumption
<1>1. CASE LockList(h)
  BY <1>1 DEF TypeOK, LockTypeOK, LockList, AnnounceLock, handlerVars, probeVars, sendVars, moveVars
<1>2. CASE Promote(h)
  <2>1. index[h] \in Index /\ index[h] - 1 \in Index
    BY <1>2 DEF LoopInv, LoopAt, Promote, Index
  <2>2. nodes[index[h]] \in Index /\ nodes[index[h] - 1] \in Index
    BY <2>1 DEF TypeOK
  <2>3. nodes' \in [Index -> Index]
    BY <1>2, <2>1, <2>2 DEF TypeOK, Promote, Swapped
  <2>4. \A g \in Handlers :
          /\ promoted[g] \cup {n \in {nodes[index[h]]} : InLoop(g)} \in SUBSET Index
          /\ demoted[g] \cup {n \in {nodes[index[h] - 1]} : InLoop(g)} \in SUBSET Index
    BY <2>2 DEF TypeOK
  <2>5. promoted' \in [Handlers -> SUBSET Index] /\ demoted' \in [Handlers -> SUBSET Index]
    BY <1>2, <2>4 DEF TypeOK, Promote, moveVars
  <2>6. LockTypeOK' /\ pc' \in [Handlers -> PCs]
    BY <1>2 DEF TypeOK, LockTypeOK, Promote, Unlock
  <2> QED
    BY <1>2, <2>3, <2>5, <2>6 DEF TypeOK, Promote, handlerVars, probeVars, sendVars
<1>3. CASE Return(h)
  <2>1. 0 \in Index
    BY DEF Index
  <2>2. <<>> \in Seq(Tips)
    OBVIOUS
  <2> QED
    BY <1>3, <2>1, <2>2 DEF TypeOK, LockTypeOK, Return, lockVars, AllOps, FailoverOps, ReadOps
<1> QED BY <1>1, <1>2, <1>3

(* Together: every step of the client keeps the types.                      *)
LEMMA TypeStep == TypeOK /\ LoopInv /\ [Next]_vars => TypeOK'
<1> SUFFICES ASSUME TypeOK, LoopInv, [Next]_vars PROVE TypeOK'
  OBVIOUS
<1>1. CASE UNCHANGED vars
  BY <1>1 DEF TypeOK, LockTypeOK, vars, lockVars, handlerVars, probeVars, sendVars, moveVars
<1>2. CASE Next
  BY <1>2, LoopTypes, ReplyTypes, PromotionTypes DEF Next
<1> QED BY <1>1, <1>2

-----------------------------------------------------------------------------
(***************************************************************************)
(* The control state and the lock.                                          *)
(***************************************************************************)

(* The loop condition keeps the position in the list.                       *)
LEMMA Positions == 0 \in Index /\ \A i \in Index : i + 1 < N => i + 1 \in Index
BY NAssumption DEF Index

(* Where a handler is and what its locals say stay in agreement: a position *)
(* in the loop is in the list, a result means that a node has answered.     *)
LEMMA LoopStep == TypeOK /\ LoopInv /\ [Next]_vars => LoopInv'
<1> SUFFICES ASSUME TypeOK, LoopInv, [Next]_vars PROVE LoopInv'
  OBVIOUS
<1> USE NAssumption DEF TypeOK, LoopInv, LoopAt, InLoop, Calling
<1>1. CASE UNCHANGED vars
  BY <1>1 DEF vars, handlerVars
<1>2. ASSUME NEW h \in Handlers, Call(h) PROVE LoopInv'
  <2>1. PICK o \in AllOps : Enter(h, o)
    BY <1>2, OpsAssumption DEF Call, Enter, BalanceAt, TransactionByHash, TransactionReceipt,
       SendTransaction, BlockNumber
  <2>2. \A g \in Handlers \ {h} : pc'[g] = pc[g] /\ op'[g] = op[g]
    BY <2>1 DEF Enter
  <2>3. pc'[h] = "rlock" /\ index'[h] \in Index /\ err'[h] # "nil"
    BY <2>1 DEF Enter, Index
  <2> QED BY <2>1, <2>2, <2>3 DEF Enter
<1>3. ASSUME NEW h \in Handlers, TakeReadLock(h) \/ LockList(h) PROVE LoopInv'
  BY <1>3 DEF TakeReadLock, LockList, handlerVars
<1>4. ASSUME NEW h \in Handlers, Fetch(h) PROVE LoopInv'
  <2>1. node'[h] \in asked'[h]
    BY <1>4 DEF Fetch
  <2>2. \A g \in Handlers \ {h} : pc'[g] = pc[g] /\ node'[g] = node[g] /\ asked'[g] = asked[g]
    BY <1>4 DEF Fetch
  <2>3. pc'[h] = "call" /\ pc[h] = "fetch" /\ UNCHANGED <<index, err, op>>
    BY <1>4 DEF Fetch
  <2> QED BY <2>1, <2>2, <2>3
<1>5. ASSUME NEW h \in Handlers, Accept(h) PROVE LoopInv'
  BY <1>5 DEF Accept, handlerVars
<1>6. ASSUME NEW h \in Handlers, ReplyOK(h) PROVE LoopInv'
  BY <1>6 DEF ReplyOK, Answers, Assigned, AtHead
<1>7. ASSUME NEW h \in Handlers, NEW e \in {"none", "nil", "err"}, InLoop(h),
             Advance(h), err' = [err EXCEPT ![h] = e], MoreNodes(NextIndex(h)) => e # "nil",
             UNCHANGED <<op, node, asked>>
      PROVE  LoopInv'
  <2>1. \A g \in Handlers \ {h} : pc'[g] = pc[g] /\ index'[g] = index[g] /\ err'[g] = err[g]
    BY <1>7 DEF Advance
  <2>2. pc'[h] = "rlock" => index'[h] \in Index /\ err'[h] # "nil"
    <3>1. index[h] \in Index
      BY <1>7
    <3>2. index[h] + 1 < N => index[h] + 1 \in Index
      BY <3>1, Positions
    <3>3. index'[h] = index[h] + 1 /\ err'[h] = e /\ (pc'[h] = "rlock" => index[h] + 1 < N)
      BY <1>7 DEF Advance, NextIndex, MoreNodes
    <3> QED BY <1>7, <3>2, <3>3 DEF NextIndex, MoreNodes
  <2>3. pc'[h] \in {"rlock", "done"}
    BY <1>7 DEF Advance
  <2>4. pc'[h] \notin {"idle", "call", "sent", "lock", "drain"}
    BY <2>3
  <2>5. LoopAt(h)'
    BY <2>2, <2>3, <2>4
  <2>6. ASSUME NEW g \in Handlers \ {h} PROVE LoopAt(g)'
    BY <1>7, <2>1
  <2> QED BY <2>5, <2>6
<1>8. ASSUME NEW h \in Handlers, ReplyErr(h) PROVE LoopInv'
  <2>1. Calling(h) /\ Advance(h) /\ err' = [err EXCEPT ![h] = "err"] /\ UNCHANGED <<op, node, asked>>
    BY <1>8 DEF ReplyErr, Fails, Assigned
  <2> QED BY <1>7, <2>1
<1>9. ASSUME NEW h \in Handlers, HeightOK(h) \/ HeightErr(h) PROVE LoopInv'
  <2>1. Calling(h) /\ Advance(h) /\ UNCHANGED <<op, node, asked>>
    BY <1>9 DEF HeightOK, HeightErr, Fails, Answers
  <2>2. err' = [err EXCEPT ![h] = ProbeResult(h)]
    BY <1>9 DEF HeightOK, HeightErr
  <2>3. /\ ProbeResult(h) \in {"none", "nil", "err"}
        /\ MoreNodes(NextIndex(h)) => ProbeResult(h) = err[h]
    BY DEF ProbeResult
  <2>4. InLoop(h) /\ err[h] # "nil"
    BY <2>1
  <2> QED BY <1>7, <2>1, <2>2, <2>3, <2>4
<1>10. ASSUME NEW h \in Handlers, Promote(h) PROVE LoopInv'
  BY <1>10 DEF Promote, handlerVars
<1>11. ASSUME NEW h \in Handlers, Return(h) PROVE LoopInv'
  BY <1>11 DEF Return
<1>12. ASSUME NEW h \in Handlers, Expire(h) PROVE LoopInv'
  BY <1>12 DEF Expire
<1> QED
  BY <1>1, <1>2, <1>3, <1>4, <1>5, <1>6, <1>7, <1>8, <1>9, <1>10, <1>11, <1>12
  DEF Next, Reply

(* Every path of the loops takes and gives back the lock in pairs.          *)
LEMMA LockStep == TypeOK /\ LockDiscipline /\ [Next]_vars => LockDiscipline'
<1> SUFFICES ASSUME TypeOK, LockDiscipline, [Next]_vars PROVE LockDiscipline'
  OBVIOUS
<1> USE NoHandlerAssumption DEF TypeOK, LockTypeOK, LockDiscipline
<1>1. CASE UNCHANGED vars
  BY <1>1 DEF vars, lockVars
<1>2. ASSUME NEW h \in Handlers, Call(h) PROVE LockDiscipline'
  BY <1>2 DEF Call, Enter, BalanceAt, TransactionByHash, TransactionReceipt, SendTransaction,
     BlockNumber, lockVars
<1>3. ASSUME NEW h \in Handlers, TakeReadLock(h) PROVE LockDiscipline'
  BY <1>3 DEF TakeReadLock, RLock
<1>4. ASSUME NEW h \in Handlers, Fetch(h) \/ Accept(h) PROVE LockDiscipline'
  BY <1>4 DEF Fetch, Accept, lockVars
<1>5. ASSUME NEW h \in Handlers, Reply(h) PROVE LockDiscipline'
  <2>1. Calling(h) /\ RUnlock(h)
    BY <1>5 DEF Reply, ReplyOK, ReplyErr, HeightOK, HeightErr, ErrorUnlock, Answers, Fails
  <2>2. PICK s \in {"rlock", "lock", "done"} : pc' = [pc EXCEPT ![h] = s]
    BY <1>5 DEF Reply, ReplyOK, ReplyErr, HeightOK, HeightErr, Advance
  <2> QED BY <2>1, <2>2 DEF Calling, RUnlock
<1>6. ASSUME NEW h \in Handlers, LockList(h) PROVE LockDiscipline'
  BY <1>6 DEF LockList, AnnounceLock
<1>7. ASSUME NEW h \in Handlers, Promote(h) PROVE LockDiscipline'
  BY <1>7 DEF Promote, Exclusive, Drained, Unlock
<1>8. ASSUME NEW h \in Handlers, Return(h) \/ Expire(h) PROVE LockDiscipline'
  BY <1>8 DEF Return, Expire, lockVars
<1> QED
  BY <1>1, <1>2, <1>3, <1>4, <1>5, <1>6, <1>7, <1>8 DEF Next

(* A promotion happens when no node is being called.                        *)
LEMMA NobodyCalls ==
  ASSUME LockDiscipline, Exclusive PROVE \A g \in Handlers : ~Calling(g)
BY DEF LockDiscipline, Exclusive, Drained, Calling

-----------------------------------------------------------------------------
(***************************************************************************)
(* The list.                                                                *)
(***************************************************************************)

(* Only a promotion writes the list, and it swaps two neighbours.           *)
LEMMA ListSteps ==
  ASSUME TypeOK, LoopInv, [Next]_vars
  PROVE  \/ UNCHANGED nodes
         \/ \E h \in Handlers :
              /\ Promote(h)
              /\ index[h] \in Index \ {0}
              /\ index[h] - 1 \in Index
              /\ nodes[index[h]] = node[h]
              /\ nodes' = Swapped(index[h])
<1>1. CASE UNCHANGED vars
  BY <1>1 DEF vars
<1>2. ASSUME NEW h \in Handlers, Promote(h)
      PROVE  \/ UNCHANGED nodes
             \/ /\ index[h] \in Index \ {0}
                /\ index[h] - 1 \in Index
                /\ nodes[index[h]] = node[h]
                /\ nodes' = Swapped(index[h])
  <2>1. index[h] \in Index \ {0}
    BY <1>2 DEF Promote, LoopInv, LoopAt
  <2>2. index[h] - 1 \in Index
    BY <2>1, NAssumption DEF Index
  <2> QED BY <1>2, <2>1, <2>2 DEF Promote, StillThere
<1>3. ASSUME NEW h \in Handlers,
             Call(h) \/ TakeReadLock(h) \/ Fetch(h) \/ Accept(h) \/ Reply(h) \/ LockList(h)
             \/ Return(h) \/ Expire(h)
      PROVE  UNCHANGED nodes
  BY <1>3 DEF Call, Enter, BalanceAt, TransactionByHash, TransactionReceipt, SendTransaction,
     BlockNumber, TakeReadLock, Fetch, Accept, Reply, ReplyOK, ReplyErr, HeightOK, HeightErr,
     LockList, Return, Expire
<1> QED BY <1>1, <1>2, <1>3 DEF Next

(* Swapping neighbours keeps the list a permutation.                        *)
LEMMA PermutationStep == TypeOK /\ LoopInv /\ NoNodeLost /\ [Next]_vars => NoNodeLost'
<1> SUFFICES ASSUME TypeOK, LoopInv, NoNodeLost, [Next]_vars PROVE NoNodeLost'
  OBVIOUS
<1>1. CASE UNCHANGED nodes
  BY <1>1 DEF NoNodeLost
<1>2. ASSUME NEW p \in Index, NEW q \in Index, p # q,
             nodes' = [nodes EXCEPT ![q] = nodes[p], ![p] = nodes[q]]
      PROVE  NoNodeLost'
  <2> DEFINE from(i) == IF i = p THEN q ELSE IF i = q THEN p ELSE i
  <2>1. \A i \in Index : from(i) \in Index /\ nodes'[i] = nodes[from(i)]
    BY <1>2 DEF TypeOK
  <2>2. \A i, j \in Index : nodes'[i] = nodes'[j] => i = j
    <3>1. \A i, j \in Index : from(i) = from(j) => i = j
      BY <1>2
    <3> HIDE DEF from
    <3> QED BY <2>1, <3>1 DEF NoNodeLost
  <2>3. \A n \in Index : \E i \in Index : nodes'[i] = n
    <3> TAKE n \in Index
    <3>1. PICK j \in Index : nodes[j] = n
      BY DEF NoNodeLost
    <3>2. from(j) \in Index /\ from(from(j)) = j
      BY <1>2
    <3> HIDE DEF from
    <3> QED BY <2>1, <3>1, <3>2
  <2> QED BY <2>2, <2>3 DEF NoNodeLost
<1>3. ASSUME NEW h \in Handlers, index[h] \in Index \ {0}, index[h] - 1 \in Index,
             nodes' = Swapped(index[h])
      PROVE  NoNodeLost'
  <2>1. index[h] # index[h] - 1
    BY <1>3 DEF Index
  <2> QED BY <1>2, <1>3, <2>1 DEF Swapped
<1> QED BY <1>1, <1>3, ListSteps

(* What is true of a caller's position stays true until the answer is there.*)
LEMMA StableStep ==
  TypeOK /\ LoopInv /\ LockDiscipline /\ NodeStable /\ [Next]_vars => NodeStable'
<1> SUFFICES ASSUME TypeOK, LoopInv, LockDiscipline, NodeStable, [Next]_vars,
                    NEW g \in Handlers, Calling(g)'
             PROVE  nodes'[index'[g]] = node'[g]
  BY DEF NodeStable
<1> USE DEF Calling
<1>1. CASE UNCHANGED vars
  BY <1>1 DEF vars, handlerVars, NodeStable
<1>2. ASSUME NEW h \in Handlers, Fetch(h) PROVE nodes'[index'[g]] = node'[g]
  BY <1>2 DEF Fetch, TypeOK, NodeStable
<1>3. ASSUME NEW h \in Handlers, Promote(h) PROVE FALSE
  BY <1>3, NobodyCalls DEF Promote, TypeOK
<1>4. ASSUME NEW h \in Handlers, Call(h) PROVE nodes'[index'[g]] = node'[g]
  BY <1>4 DEF Call, Enter, BalanceAt, TransactionByHash, TransactionReceipt, SendTransaction,
     BlockNumber, NodeStable, TypeOK
<1>5. ASSUME NEW h \in Handlers, TakeReadLock(h) \/ Accept(h) \/ LockList(h) \/ Expire(h)
      PROVE  nodes'[index'[g]] = node'[g]
  BY <1>5 DEF TakeReadLock, Accept, LockList, Expire, handlerVars, NodeStable, TypeOK
<1>6. ASSUME NEW h \in Handlers, Reply(h) PROVE nodes'[index'[g]] = node'[g]
  <2>1. PICK s \in {"rlock", "lock", "done"} : pc' = [pc EXCEPT ![h] = s]
    BY <1>6 DEF Reply, ReplyOK, ReplyErr, HeightOK, HeightErr, Advance
  <2>2. Calling(g) /\ g # h
    BY <2>1 DEF TypeOK
  <2>3. index'[g] = index[g] /\ UNCHANGED <<nodes, node>>
    BY <1>6, <2>2 DEF Reply, ReplyOK, ReplyErr, HeightOK, HeightErr, Advance, TypeOK
  <2> QED BY <2>2, <2>3 DEF NodeStable
<1>7. ASSUME NEW h \in Handlers, Return(h) PROVE nodes'[index'[g]] = node'[g]
  BY <1>7 DEF Return, NodeStable, TypeOK
<1> QED BY <1>1, <1>2, <1>3, <1>4, <1>5, <1>6, <1>7 DEF Next

-----------------------------------------------------------------------------
(***************************************************************************)
(* What a step leaves alone.                                                *)
(***************************************************************************)

Locals(g) ==
  <<pc[g], op[g], index[g], node[g], expired[g], err[g], heights[g], errStr[g],
    accepted[g], lost[g], asked[g], promoted[g], demoted[g]>>

(* The steps of a handler between two promotions.                           *)
OwnStep(h) ==
  \/ Call(h)
  \/ TakeReadLock(h)
  \/ Fetch(h)
  \/ Accept(h)
  \/ Reply(h)
  \/ LockList(h)
  \/ Return(h)
  \/ Expire(h)

(* A step of one handler leaves the locals of the others alone, but for the *)
(* moves a promotion notes for the loops that are running.                  *)
LEMMA Others ==
  ASSUME TypeOK, NEW h \in Handlers, OwnStep(h)
  PROVE  UNCHANGED nodes /\ \A g \in Handlers \ {h} : UNCHANGED Locals(g)
<1> USE DEF TypeOK, Locals, handlerVars, probeVars, sendVars, moveVars
<1>1. CASE Call(h)
  BY <1>1 DEF Call, Enter, BalanceAt, TransactionByHash, TransactionReceipt, SendTransaction,
     BlockNumber
<1>2. CASE TakeReadLock(h) \/ Accept(h) \/ LockList(h) \/ Expire(h)
  BY <1>2 DEF TakeReadLock, Accept, LockList, Expire
<1>3. CASE Fetch(h)
  BY <1>3 DEF Fetch
<1>4. CASE ReplyOK(h)
  BY <1>4 DEF ReplyOK
<1>5. CASE ReplyErr(h)
  BY <1>5 DEF ReplyErr, Advance, SameDeadline
<1>6. CASE HeightOK(h)
  BY <1>6 DEF HeightOK, Advance, SameDeadline
<1>7. CASE HeightErr(h)
  BY <1>7 DEF HeightErr, Advance, SameDeadline
<1>8. CASE Return(h)
  BY <1>8 DEF Return
<1> QED BY <1>1, <1>2, <1>3, <1>4, <1>5, <1>6, <1>7, <1>8 DEF OwnStep, Reply

(* Every step is a step of one handler.                                     *)
LEMMA Steps ==
  ASSUME [Next]_vars
  PROVE  \/ UNCHANGED vars
         \/ \E h \in Handlers : OwnStep(h) \/ Promote(h)
BY DEF Next, OwnStep

(* The answer that sends a loop to its next position, or past the last one. *)
LEMMA Advancing ==
  ASSUME TypeOK, LoopInv, NodeStable, NEW h \in Handlers, Reply(h), ~ReplyOK(h)
  PROVE  /\ Calling(h) /\ index[h] \in Index
         /\ index'[h] = index[h] + 1
         /\ pc'[h] = IF index[h] + 1 < N THEN "rlock" ELSE "done"
         /\ UNCHANGED <<nodes, node, op, asked, promoted, demoted, expired>>
         /\ nodes[index[h]] = node[h] /\ node[h] \in asked[h]
<1>1. /\ Calling(h) /\ Advance(h)
      /\ UNCHANGED <<nodes, node, op, asked, promoted, demoted>>
  BY DEF Reply, ReplyErr, HeightOK, HeightErr, Fails, Answers, moveVars
<1>2. index[h] \in Index /\ node[h] \in asked[h]
  BY <1>1 DEF LoopInv, LoopAt, InLoop, Calling
<1> QED
  BY <1>1, <1>2 DEF NodeStable, Advance, NextIndex, MoreNodes, SameDeadline, TypeOK

-----------------------------------------------------------------------------
(***************************************************************************)
(* Skipped and repeated nodes.                                              *)
(***************************************************************************)

Passed(g) == \A i \in Index : i < index[g] => nodes[i] \in asked[g] \cup promoted[g]

SkipAt(g) ==
  /\ InLoop(g) => Passed(g)
  /\ Failed(g) => asked[g] \cup promoted[g] = Index

(* What a loop has passed it has asked, or it was promoted meanwhile.        *)
LEMMA SkipStep ==
  TypeOK /\ LoopInv /\ NoNodeLost /\ NodeStable /\ NoSilentSkip /\ [Next]_vars
    => NoSilentSkip'
<1> SUFFICES ASSUME TypeOK, LoopInv, NoNodeLost, NodeStable, NoSilentSkip, [Next]_vars,
                    NEW g \in Handlers
             PROVE  SkipAt(g)'
  BY DEF NoSilentSkip, SkipAt, Passed
<1>0. SkipAt(g) /\ TypeOK'
  BY TypeStep DEF NoSilentSkip, SkipAt, Passed
<1> USE DEF SkipAt, Passed
<1>1. CASE UNCHANGED vars
  BY <1>0, <1>1 DEF vars, handlerVars, moveVars, InLoop, Failed
<1>2. ASSUME NEW h \in Handlers, g # h, OwnStep(h) PROVE SkipAt(g)'
  BY <1>0, <1>2, Others DEF Locals, InLoop, Failed
<1>3. CASE Call(g)
  <2>1. index'[g] = 0 /\ pc'[g] = "rlock"
    BY <1>3 DEF Call, Enter, BalanceAt, TransactionByHash, TransactionReceipt, SendTransaction,
       BlockNumber, LoopInv, LoopAt, TypeOK
  <2> QED BY <2>1 DEF Index, InLoop, Failed
<1>4. CASE TakeReadLock(g) \/ Accept(g) \/ Expire(g) \/ LockList(g)
  <2>1. UNCHANGED <<nodes, index, asked, promoted, err>>
    BY <1>4 DEF TakeReadLock, Accept, Expire, LockList, handlerVars, moveVars
  <2>2. (InLoop(g)' => InLoop(g)) /\ ~Failed(g)'
    BY <1>4 DEF TakeReadLock, Accept, Expire, LockList, InLoop, Failed, TypeOK
  <2> QED BY <1>0, <2>1, <2>2
<1>5. CASE Fetch(g)
  <2>1. /\ UNCHANGED <<nodes, index, promoted>>
        /\ asked[g] \subseteq asked'[g]
        /\ pc[g] = "fetch" /\ pc'[g] = "call"
    BY <1>5 DEF Fetch, moveVars, TypeOK
  <2> QED BY <1>0, <2>1 DEF InLoop, Failed
<1>6. CASE ReplyOK(g)
  BY <1>6 DEF ReplyOK, InLoop, Failed, Assigned, TypeOK
<1>7. CASE Reply(g) /\ ~ReplyOK(g)
  <2>1. /\ index[g] \in Index /\ index'[g] = index[g] + 1
        /\ pc'[g] = IF index[g] + 1 < N THEN "rlock" ELSE "done"
        /\ nodes[index[g]] \in asked[g] /\ UNCHANGED <<nodes, asked, promoted>>
        /\ InLoop(g)
    BY <1>7, Advancing DEF Calling, InLoop
  <2>2. \A i \in Index : i < index[g] + 1 => i < index[g] \/ i = index[g]
    BY <2>1 DEF Index
  <2>3. Passed(g)'
    BY <1>0, <2>1, <2>2
  <2>4. Failed(g)' => \A i \in Index : i < index'[g]
    BY <2>1, NAssumption DEF Failed, Index
  <2>5. Failed(g)' => Index \subseteq asked'[g] \cup promoted'[g]
    BY <2>1, <2>3, <2>4 DEF NoNodeLost
  <2> QED BY <1>0, <2>3, <2>5 DEF TypeOK
<1>8. CASE Return(g)
  BY <1>8 DEF Return, InLoop, Failed, TypeOK
<1>9. ASSUME NEW h \in Handlers, Promote(h) PROVE SkipAt(g)'
  <2>1. /\ UNCHANGED <<index, asked, err>>
        /\ InLoop(g)' <=> InLoop(g)
        /\ Failed(g)' => Failed(g)
        /\ promoted[g] \subseteq promoted'[g]
    BY <1>9 DEF Promote, handlerVars, moveVars, InLoop, Failed, LoopInv, LoopAt, TypeOK
  <2>2. Failed(g)' => asked'[g] \cup promoted'[g] = Index
    BY <1>0, <2>1 DEF TypeOK
  <2>3. ASSUME InLoop(g) PROVE Passed(g)'
    <3>1. CASE UNCHANGED nodes
      BY <1>0, <2>1, <2>3, <3>1
    <3>2. CASE StillThere(h)
      <4> DEFINE p == index[h]
      <4>1. p \in Index \ {0} /\ p - 1 \in Index
        BY <1>9, NAssumption DEF Promote, LoopInv, LoopAt, Index
      <4>2. nodes' = [nodes EXCEPT ![p - 1] = nodes[p], ![p] = nodes[p - 1]]
        BY <1>9, <3>2 DEF Promote, Swapped
      <4>3. nodes[p] \in promoted'[g]
        BY <1>9, <2>3, <3>2 DEF Promote
      <4> SUFFICES ASSUME NEW i \in Index, i < index[g]
                   PROVE  nodes'[i] \in asked[g] \cup promoted'[g]
        BY <2>1
      <4>4. CASE i = p - 1
        BY <4>1, <4>2, <4>3, <4>4 DEF TypeOK, Index
      <4>5. CASE i = p
        <5>1. nodes'[i] = nodes[p - 1] /\ p - 1 < index[g]
          BY <4>1, <4>2, <4>5 DEF TypeOK, Index
        <5> QED BY <1>0, <2>1, <2>3, <4>1, <5>1
      <4>6. CASE i # p - 1 /\ i # p
        BY <1>0, <2>1, <2>3, <4>1, <4>2, <4>6 DEF TypeOK
      <4> HIDE DEF p
      <4> QED BY <4>4, <4>5, <4>6
    <3> QED BY <1>9, <3>1, <3>2 DEF Promote
  <2> QED BY <2>1, <2>2, <2>3
<1> QED BY <1>1, <1>2, <1>3, <1>4, <1>5, <1>6, <1>7, <1>8, <1>9, Steps DEF OwnStep

(* Behind the position of a loop that is between two calls, and strictly    *)
(* behind it during a call.                                                 *)
Ahead(g) == {i \in Index : IF Calling(g) THEN index[g] < i ELSE index[g] <= i}

RepeatAt(g) ==
  InLoop(g) => \A i \in Ahead(g) : nodes[i] \in asked[g] => nodes[i] \in demoted[g]

RepeatInv == \A g \in Handlers : RepeatAt(g)

(* What a loop has asked is behind it, or it was overtaken meanwhile.       *)
LEMMA RepeatStep ==
  TypeOK /\ LoopInv /\ LockDiscipline /\ NoNodeLost /\ NodeStable /\ RepeatInv /\ [Next]_vars
    => RepeatInv'
<1> SUFFICES ASSUME TypeOK, LoopInv, LockDiscipline, NoNodeLost, NodeStable, RepeatInv,
                    [Next]_vars, NEW g \in Handlers
             PROVE  RepeatAt(g)'
  BY DEF RepeatInv
<1>0. RepeatAt(g)
  BY DEF RepeatInv
<1> USE DEF RepeatAt, Ahead
<1>1. CASE UNCHANGED vars
  BY <1>0, <1>1 DEF vars, handlerVars, moveVars, InLoop, Calling
<1>2. ASSUME NEW h \in Handlers, g # h, OwnStep(h) PROVE RepeatAt(g)'
  BY <1>0, <1>2, Others DEF Locals, InLoop, Calling
<1>3. CASE Call(g)
  <2>1. asked'[g] = {}
    BY <1>3 DEF Call, Enter, BalanceAt, TransactionByHash, TransactionReceipt, SendTransaction,
       BlockNumber, LoopInv, LoopAt
  <2> QED BY <2>1
<1>4. CASE TakeReadLock(g) \/ Accept(g) \/ Expire(g)
  <2>1. UNCHANGED <<nodes, index, asked, demoted>>
    BY <1>4 DEF TakeReadLock, Accept, Expire, handlerVars, moveVars
  <2>2. InLoop(g) /\ (Calling(g)' <=> Calling(g))
    BY <1>4 DEF TakeReadLock, Accept, Expire, InLoop, Calling, TypeOK
  <2> QED BY <1>0, <2>1, <2>2
<1>5. CASE Fetch(g)
  <2>1. /\ UNCHANGED <<nodes, index, demoted>>
        /\ asked'[g] = asked[g] \cup {nodes[index[g]]}
        /\ InLoop(g) /\ ~Calling(g) /\ Calling(g)' /\ index[g] \in Index
    BY <1>5 DEF Fetch, moveVars, TypeOK, InLoop, Calling, LoopInv, LoopAt
  <2>2. \A i \in Index : index[g] < i => index[g] <= i /\ nodes[i] # nodes[index[g]]
    BY <2>1 DEF NoNodeLost, Index
  <2> QED BY <1>0, <2>1, <2>2
<1>6. CASE LockList(g) \/ ReplyOK(g) \/ Return(g)
  BY <1>6 DEF LockList, ReplyOK, Return, InLoop, TypeOK
<1>7. CASE Reply(g) /\ ~ReplyOK(g)
  <2>1. /\ index[g] \in Index /\ index'[g] = index[g] + 1
        /\ UNCHANGED <<nodes, asked, demoted>>
        /\ Calling(g) /\ InLoop(g) /\ ~Calling(g)'
    BY <1>7, Advancing DEF Calling, InLoop
  <2>2. \A i \in Index : index[g] + 1 <= i => index[g] < i
    BY <2>1 DEF Index
  <2> QED BY <1>0, <2>1, <2>2
<1>8. ASSUME NEW h \in Handlers, Promote(h) PROVE RepeatAt(g)'
  <2>1. /\ UNCHANGED <<index, asked>>
        /\ InLoop(g)' <=> InLoop(g)
        /\ Calling(g)' <=> Calling(g)
        /\ demoted[g] \subseteq demoted'[g]
        /\ index[g] \in 0 .. N
    BY <1>8 DEF Promote, handlerVars, moveVars, InLoop, Calling, LoopInv, LoopAt, TypeOK
  <2>2. ~Calling(g)
    BY <1>8, NobodyCalls DEF Promote
  <2>3. CASE UNCHANGED nodes
    BY <1>0, <2>1, <2>2, <2>3
  <2>4. CASE StillThere(h) /\ InLoop(g)
    <3> DEFINE p == index[h]
    <3>1. p \in Index \ {0} /\ p - 1 \in Index
      BY <1>8, NAssumption DEF Promote, LoopInv, LoopAt, Index
    <3>2. nodes' = [nodes EXCEPT ![p - 1] = nodes[p], ![p] = nodes[p - 1]]
      BY <1>8, <2>4 DEF Promote, Swapped
    <3>3. nodes[p - 1] \in demoted'[g]
      BY <1>8, <2>4 DEF Promote
    <3> SUFFICES ASSUME NEW i \in Index, index[g] <= i, nodes'[i] \in asked[g]
                 PROVE  nodes'[i] \in demoted'[g]
      BY <2>1, <2>2
    <3>4. CASE i = p
      BY <3>1, <3>2, <3>3, <3>4 DEF TypeOK, Index
    <3>5. CASE i = p - 1
      <4>1. nodes'[i] = nodes[p] /\ index[g] <= p
        BY <2>1, <3>1, <3>2, <3>5 DEF TypeOK, Index
      <4> QED BY <1>0, <2>1, <2>2, <2>4, <3>1, <4>1
    <3>6. CASE i # p - 1 /\ i # p
      BY <1>0, <2>1, <2>2, <2>4, <3>1, <3>2, <3>6 DEF TypeOK
    <3> HIDE DEF p
    <3> QED BY <3>4, <3>5, <3>6
  <2> QED BY <1>8, <2>1, <2>3, <2>4 DEF Promote
<1> QED BY <1>1, <1>2, <1>3, <1>4, <1>5, <1>6, <1>7, <1>8, Steps DEF OwnStep

-----------------------------------------------------------------------------
(***************************************************************************)
(* A hung node at the head.                                                 *)
(***************************************************************************)

(* A loop past the head has outlived its deadline.                          *)
HungAt(g) ==
  /\ InLoop(g) /\ index[g] > 0 => expired[g]
  /\ op[g] \in FailoverOps => err[g] # "nil"

HungInv == 0 \in Hung => nodes[0] = 0 /\ \A g \in Handlers : HungAt(g)

(* A hung head keeps every loop at its first position until the deadline,   *)
(* and the deadline holds for the rest of the loop.                         *)
LEMMA HungStep ==
  TypeOK /\ LoopInv /\ NodeStable /\ HungInv /\ [Next]_vars => HungInv'
<1> SUFFICES ASSUME TypeOK, LoopInv, NodeStable, HungInv, [Next]_vars, 0 \in Hung
             PROVE  nodes'[0] = 0 /\ \A g \in Handlers : HungAt(g)'
  BY DEF HungInv
<1>0. nodes[0] = 0 /\ \A g \in Handlers : HungAt(g)
  BY DEF HungInv
<1>1. CASE UNCHANGED vars
  BY <1>0, <1>1 DEF vars, handlerVars, InLoop, HungAt
<1>2. ASSUME NEW h \in Handlers, Promote(h) PROVE FALSE
  BY <1>0, <1>2 DEF Promote, LoopInv, LoopAt, HungAt
<1>3. ASSUME NEW h \in Handlers, OwnStep(h) PROVE HungAt(h)'
  <2>1. HungAt(h)
    BY <1>0
  <2>2. CASE Call(h)
    <3>1. index'[h] = 0 /\ err'[h] = "none"
      BY <2>2 DEF Call, Enter, BalanceAt, TransactionByHash, TransactionReceipt,
         SendTransaction, BlockNumber, LoopInv, LoopAt
    <3> QED BY <3>1 DEF HungAt
  <2>3. CASE TakeReadLock(h) \/ LockList(h) \/ Fetch(h) \/ Accept(h)
    <3>1. UNCHANGED <<op, index, expired, err>> /\ (InLoop(h)' => InLoop(h))
      BY <2>3 DEF TakeReadLock, LockList, Fetch, Accept, handlerVars, InLoop, TypeOK
    <3> QED BY <2>1, <3>1 DEF HungAt
  <2>4. ASSUME Calling(h), nodes[index[h]] = node[h], index[h] \in Index, Answers(h) PROVE FALSE
    <3>1. index[h] = 0
      BY <2>1, <2>4 DEF HungAt, Answers, InLoop, Calling, Index
    <3>2. node[h] = 0 /\ node[h] \in Answering
      BY <1>0, <2>4, <3>1 DEF Answers
    <3> QED BY <3>2 DEF Hung
  <2>5. ASSUME Calling(h), nodes[index[h]] = node[h], index[h] \in Index, Fails(h)
        PROVE  expired[h]
    <3>1. index[h] = 0 => node[h] \notin Answering \cup Failing
      BY <1>0, <2>5 DEF Hung
    <3>2. index[h] = 0 => expired[h]
      BY <2>5, <3>1 DEF Fails, KnownTransaction
    <3>3. index[h] # 0 => expired[h]
      BY <2>1, <2>5 DEF HungAt, InLoop, Calling, Index
    <3> QED BY <3>2, <3>3
  <2>6. CASE ReplyOK(h)
    <3>1. Calling(h) /\ nodes[index[h]] = node[h] /\ index[h] \in Index /\ Answers(h)
      BY <2>6 DEF ReplyOK, Answers, NodeStable, LoopInv, LoopAt, InLoop, Calling
    <3> QED BY <2>4, <3>1
  <2>7. CASE Reply(h) /\ ~ReplyOK(h)
    <3>1. /\ Calling(h) /\ index[h] \in Index
          /\ UNCHANGED <<expired, op>> /\ nodes[index[h]] = node[h]
      BY <2>7, Advancing
    <3>2. Answers(h) => HungAt(h)'
      BY <2>4, <3>1
    <3>3. ASSUME Fails(h) PROVE HungAt(h)'
      <4>1. expired'[h]
        BY <2>5, <3>1, <3>3
      <4>2. op[h] \in FailoverOps => err'[h] # "nil"
        BY <2>7 DEF Reply, ReplyErr, HeightOK, HeightErr, Assigned, TypeOK, FailoverOps, ReadOps
      <4> QED BY <3>1, <4>1, <4>2 DEF HungAt
    <3>4. Answers(h) \/ Fails(h)
      BY <2>7 DEF Reply, ReplyErr, HeightOK, HeightErr
    <3> QED BY <3>2, <3>3, <3>4
  <2>8. CASE Return(h)
    BY <2>8 DEF Return, InLoop, TypeOK, HungAt
  <2>9. CASE Expire(h)
    <3>1. expired'[h] /\ UNCHANGED <<op, err>>
      BY <2>9 DEF Expire, TypeOK
    <3> QED BY <2>1, <3>1 DEF HungAt
  <2> QED BY <1>3, <2>2, <2>3, <2>6, <2>7, <2>8, <2>9 DEF OwnStep
<1>4. ASSUME NEW h \in Handlers, OwnStep(h) PROVE nodes'[0] = 0 /\ \A g \in Handlers : HungAt(g)'
  <2>1. \A g \in Handlers \ {h} : HungAt(g)'
    BY <1>0, <1>4, Others DEF Locals, InLoop, HungAt
  <2> QED BY <1>0, <1>3, <1>4, <2>1, Others
<1> QED BY <1>1, <1>2, <1>4, Steps

-----------------------------------------------------------------------------
(***************************************************************************)
(* What SendTransaction reports.                                            *)
(***************************************************************************)

SentAt(g) ==
  /\ pc[g] \in {"idle", "rlock", "fetch", "call"} => accepted[g] = lost[g]
  /\ pc[g] = "sent" => accepted[g] = lost[g] \cup {node[g]}
  /\ pc[g] \in {"lock", "drain", "done"} /\ op[g] = "SendTransaction" =>
       accepted[g] \ lost[g] = {n \in {node[g]} : err[g] = "nil"}

SentInv == \A g \in Handlers : SentAt(g)

(* In the loop every transaction taken was taken by a node whose answer was *)
(* lost, but for the node in flight.                                        *)
LEMMA SentStep == TypeOK /\ LoopInv /\ SentInv /\ [Next]_vars => SentInv'
<1> SUFFICES ASSUME TypeOK, LoopInv, SentInv, [Next]_vars PROVE SentInv'
  OBVIOUS
<1>1. CASE UNCHANGED vars
  BY <1>1 DEF vars, handlerVars, sendVars, SentInv, SentAt
<1>2. ASSUME NEW h \in Handlers, Promote(h) PROVE SentInv'
  <2>1. /\ UNCHANGED <<accepted, lost, node, op, err>>
        /\ pc[h] = "drain" /\ pc' = [pc EXCEPT ![h] = "done"]
    BY <1>2 DEF Promote, handlerVars, sendVars
  <2> QED BY <2>1 DEF SentInv, SentAt, TypeOK
<1>3. ASSUME NEW h \in Handlers, OwnStep(h) PROVE SentAt(h)'
  <2>1. SentAt(h)
    BY DEF SentInv
  <2> USE DEF SentAt
  <2>2. CASE Call(h) \/ TakeReadLock(h) \/ Fetch(h)
    <3>1. /\ UNCHANGED <<accepted, lost>>
          /\ pc[h] \in {"idle", "rlock", "fetch"} /\ pc'[h] \in {"rlock", "fetch", "call"}
      BY <2>2 DEF Call, Enter, BalanceAt, TransactionByHash, TransactionReceipt,
         SendTransaction, BlockNumber, TakeReadLock, Fetch, sendVars, TypeOK
    <3> QED BY <2>1, <3>1
  <2>3. CASE Accept(h)
    <3>1. /\ accepted'[h] = accepted[h] \cup {node[h]}
          /\ pc[h] = "call" /\ pc'[h] = "sent" /\ UNCHANGED <<lost, node>>
      BY <2>3 DEF Accept, handlerVars, TypeOK
    <3> QED BY <2>1, <3>1
  <2>4. CASE ReplyOK(h)
    <3>1. /\ UNCHANGED <<accepted, node, op>> /\ err'[h] = "nil"
          /\ lost'[h] = lost[h] \ {node[h]}
          /\ pc'[h] \in {"lock", "done"}
          /\ op[h] = "SendTransaction" => pc[h] = "sent"
      BY <2>4 DEF ReplyOK, Answers, sendVars, Assigned, TypeOK
    <3> QED BY <2>1, <3>1
  <2>5. CASE ReplyErr(h)
    <3>1. /\ pc[h] \in {"call", "sent"} /\ pc'[h] \in {"rlock", "done"} /\ err'[h] = "err"
          /\ lost'[h] = lost[h] \cup {n \in {node[h]} : pc[h] = "sent"}
          /\ UNCHANGED <<accepted, node>>
      BY <2>5 DEF ReplyErr, Fails, Calling, Assigned, Advance, TypeOK
    <3> QED BY <2>1, <3>1
  <2>6. CASE HeightOK(h) \/ HeightErr(h)
    <3>1. /\ pc[h] \in {"call", "sent"} /\ pc'[h] \in {"rlock", "done"}
          /\ op[h] = "BlockNumber" /\ UNCHANGED <<accepted, lost, op>>
      BY <2>6 DEF HeightOK, HeightErr, Answers, Fails, Calling, Advance, sendVars, TypeOK
    <3>2. pc[h] = "call"
      BY <3>1 DEF LoopInv, LoopAt
    <3> QED BY <2>1, <3>1, <3>2
  <2>7. CASE LockList(h) \/ Expire(h)
    <3>1. UNCHANGED <<accepted, lost, node, op, err>>
      BY <2>7 DEF LockList, Expire, handlerVars, sendVars
    <3>2. pc'[h] = pc[h] \/ (pc[h] = "lock" /\ pc'[h] = "drain")
      BY <2>7 DEF LockList, Expire, TypeOK
    <3> QED BY <2>1, <3>1, <3>2
  <2>8. CASE Return(h)
    BY <2>8 DEF Return, TypeOK
  <2> QED
    BY <1>3, <2>2, <2>3, <2>4, <2>5, <2>6, <2>7, <2>8 DEF OwnStep, Reply
<1>4. ASSUME NEW h \in Handlers, OwnStep(h) PROVE SentInv'
  <2>1. \A g \in Handlers \ {h} : SentAt(g)'
    BY <1>4, Others DEF Locals, SentInv, SentAt
  <2> QED BY <1>3, <1>4, <2>1 DEF SentInv
<1> QED BY <1>1, <1>2, <1>4, Steps

-----------------------------------------------------------------------------
(***************************************************************************)
(* The client implements Failover.                                          *)
(***************************************************************************)

(* A step changes the abstract view of the handler that takes it, and of no *)
(* other.                                                                   *)
OtherViews(h) ==
  \A g \in Handlers \ {h} : Phase(g)' = Phase(g) /\ Server(g)' = Server(g) /\ Result(g)' = Result(g)

(* A step that changes neither the list nor the view of h is a stutter.     *)
LEMMA Stutters ==
  ASSUME NEW h \in Handlers, OtherViews(h), UNCHANGED nodes,
         Phase(h)' = Phase(h), Server(h)' = Server(h), Result(h)' = Result(h)
  PROVE  UNCHANGED F!absVars
BY DEF F!absVars, OtherViews

(* The three functions of the view change in one place.                     *)
LEMMA OnePlace ==
  ASSUME NEW h \in Handlers, OtherViews(h)
  PROVE  /\ [g \in Handlers |-> Phase(g)]' = [[g \in Handlers |-> Phase(g)] EXCEPT ![h] = Phase(h)']
         /\ [g \in Handlers |-> Server(g)]' = [[g \in Handlers |-> Server(g)] EXCEPT ![h] = Server(h)']
         /\ [g \in Handlers |-> Result(g)]' = [[g \in Handlers |-> Result(g)] EXCEPT ![h] = Result(h)']
BY DEF OtherViews

(* The initial state of the client is one of module Failover.               *)
LEMMA InitImplements == Init => F!Init
<1> SUFFICES ASSUME Init PROVE F!Init
  OBVIOUS
<1>1. nodes = [p \in F!Place |-> p]
  BY DEF Init, F!Place, Index
<1>2. \A h \in Handlers : Phase(h) = "idle" /\ Server(h) = 0 /\ Result(h) = "none"
  BY DEF Init, Phase, Server, Result, InLoop
<1> QED BY <1>1, <1>2 DEF F!Init

(* Every step of the client is a step of module Failover or a stutter.      *)
LEMMA StepImplements ==
  TypeOK /\ LoopInv /\ NoNodeLost /\ NodeStable /\ [Next]_vars => [F!Next]_F!absVars
<1> SUFFICES ASSUME TypeOK, LoopInv, NoNodeLost, NodeStable, [Next]_vars
             PROVE  F!Next \/ UNCHANGED F!absVars
  OBVIOUS
<1> USE DEF F!Step
<1>1. CASE UNCHANGED vars
  BY <1>1 DEF vars, handlerVars, F!absVars, Phase, Server, Result, InLoop
<1>2. ASSUME NEW h \in Handlers, OwnStep(h) PROVE F!Next \/ UNCHANGED F!absVars
  <2>1. UNCHANGED nodes /\ OtherViews(h)
    BY <1>2, Others DEF OtherViews, Locals, Phase, Server, Result, InLoop
  <2> DEFINE P == [g \in Handlers |-> Phase(g)]
             S == [g \in Handlers |-> Server(g)]
             R == [g \in Handlers |-> Result(g)]
  <2>2. /\ P' = [P EXCEPT ![h] = Phase(h)'] /\ P[h] = Phase(h)
        /\ S' = [S EXCEPT ![h] = Server(h)'] /\ S[h] = Server(h)
        /\ R' = [R EXCEPT ![h] = Result(h)'] /\ R[h] = Result(h)
    BY <2>1, OnePlace
  <2>3. ASSUME Server(h)' = Server(h) PROVE S' = S
    BY <2>2, <2>3
  <2>4. ASSUME Result(h)' = Result(h) PROVE R' = R
    BY <2>2, <2>4
  <2> HIDE DEF P, S, R
  <2>5. CASE Call(h)
    <3>1. PICK o \in AllOps : Enter(h, o)
      BY <2>5, OpsAssumption DEF Call, BalanceAt, TransactionByHash, TransactionReceipt,
         SendTransaction, BlockNumber, AllOps, FailoverOps, ReadOps
    <3>2. /\ pc[h] = "idle" /\ pc'[h] = "rlock" /\ err[h] = "none"
      BY <3>1 DEF Enter, LoopInv, LoopAt, TypeOK
    <3>3. /\ Phase(h) = "idle" /\ Phase(h)' \in {"open", "probing"}
          /\ Server(h)' = Server(h) /\ Result(h)' = Result(h)
      BY <3>2 DEF Phase, Server, Result, InLoop
    <3>4. F!Query(h) \/ F!Probe(h)
      BY <2>1, <2>2, <2>3, <2>4, <3>3 DEF F!Query, F!Probe, P, S, R
    <3> QED BY <3>4 DEF F!Next
  <2>6. CASE TakeReadLock(h) \/ Fetch(h) \/ Accept(h) \/ Expire(h)
    <3>1. InLoop(h) /\ InLoop(h)' /\ UNCHANGED op
      BY <2>6 DEF TakeReadLock, Fetch, Accept, Expire, handlerVars, InLoop, TypeOK
    <3> QED BY <2>1, <3>1, Stutters DEF Phase, Server, Result
  <2>7. CASE ReplyOK(h)
    <3>1. /\ InLoop(h) /\ ~InLoop(h)' /\ op[h] # "BlockNumber"
          /\ pc'[h] = (IF index[h] = 0 THEN "done" ELSE "lock")
          /\ err'[h] = "nil" /\ node'[h] = node[h]
          /\ index[h] \in Index /\ nodes[index[h]] = node[h]
      BY <2>7 DEF ReplyOK, Answers, AtHead, Assigned, InLoop, Calling, TypeOK, NodeStable,
         LoopInv, LoopAt, FailoverOps, ReadOps
    <3>2. Phase(h) = "open" /\ Server(h) = 0 /\ Result(h)' = "nil"
      BY <3>1 DEF Phase, Server, Result
    <3>3. CASE index[h] = 0
      <4>1. Phase(h)' = "closed" /\ Server(h)' = 0
        BY <3>1, <3>3 DEF Phase, Server
      <4>2. F!ServedByHead(h)
        BY <2>1, <2>2, <2>3, <3>2, <4>1 DEF F!ServedByHead, P, S, R
      <4> QED BY <4>2 DEF F!Next
    <3>4. CASE index[h] # 0
      <4>1. Phase(h)' = "served" /\ Server(h)' = node[h]
        BY <3>1, <3>4 DEF Phase, Server
      <4>2. node[h] # nodes[0] /\ node[h] \in F!Place
        BY <3>1, <3>4, Positions DEF NoNodeLost, TypeOK, F!Place, Index
      <4>3. F!ServedBy(h, node[h])
        BY <2>1, <2>2, <3>2, <4>1, <4>2 DEF F!ServedBy, P, S, R
      <4> QED BY <4>2, <4>3 DEF F!Next
    <3> QED BY <3>3, <3>4
  <2>8. CASE Reply(h) /\ ~ReplyOK(h)
    <3>1. /\ InLoop(h) /\ UNCHANGED op
          /\ pc'[h] = IF index[h] + 1 < N THEN "rlock" ELSE "done"
      BY <2>8, Advancing DEF InLoop, Calling
    <3>2. CASE pc'[h] = "rlock"
      BY <2>1, <3>1, <3>2, Stutters DEF Phase, Server, Result, InLoop
    <3>3. CASE pc'[h] = "done"
      <4>1. /\ Phase(h) \in {"open", "probing"} /\ Phase(h)' = "closed"
            /\ Server(h)' = Server(h) /\ Result(h)' = err'[h]
        BY <3>1, <3>3 DEF Phase, Server, Result, InLoop
      <4>2. CASE ReplyErr(h)
        <5>1. err'[h] = "err" /\ Phase(h) = "open"
          BY <3>1, <4>2 DEF ReplyErr, Assigned, Phase, FailoverOps, ReadOps, TypeOK
        <5>2. F!Fail(h)
          BY <2>1, <2>2, <2>3, <4>1, <5>1 DEF F!Fail, P, S, R
        <5> QED BY <5>2 DEF F!Next
      <4>3. CASE HeightOK(h) \/ HeightErr(h)
        <5>1. err'[h] \in {"nil", "err"} /\ Phase(h) = "probing"
          <6>1. op[h] = "BlockNumber" /\ err'[h] = ProbeResult(h)
                /\ (MoreNodes(NextIndex(h)) => pc'[h] = "rlock")
            BY <4>3 DEF HeightOK, HeightErr, TypeOK, Advance
          <6> QED BY <3>1, <3>3, <6>1 DEF ProbeResult, Phase
        <5>2. F!Probed(h)
          BY <2>1, <2>2, <2>3, <4>1, <5>1 DEF F!Probed, P, S, R
        <5> QED BY <5>2 DEF F!Next
      <4> QED BY <2>8, <4>2, <4>3 DEF Reply
    <3> QED BY <3>1, <3>2, <3>3
  <2>9. CASE LockList(h)
    <3>1. pc[h] = "lock" /\ pc'[h] = "drain" /\ UNCHANGED <<node, err>>
      BY <2>9 DEF LockList, handlerVars, TypeOK
    <3> QED BY <2>1, <3>1, Stutters DEF Phase, Server, Result, InLoop
  <2>10. CASE Return(h)
    <3>1. /\ pc[h] = "done" /\ pc'[h] = "idle" /\ err'[h] = "none"
      BY <2>10 DEF Return, TypeOK
    <3>2. /\ Phase(h) = "closed" /\ Phase(h)' = "idle" /\ Server(h)' = Server(h)
          /\ Result(h)' = "none"
      BY <3>1 DEF Phase, Server, Result, InLoop
    <3>3. F!Leave(h)
      BY <2>1, <2>2, <2>3, <3>2 DEF F!Leave, P, S, R
    <3> QED BY <3>3 DEF F!Next
  <2> QED
    BY <1>2, <2>5, <2>6, <2>7, <2>8, <2>9, <2>10 DEF OwnStep
<1>3. ASSUME NEW h \in Handlers, Promote(h) PROVE F!Next
  <2>1. /\ pc[h] = "drain" /\ pc' = [pc EXCEPT ![h] = "done"]
        /\ UNCHANGED <<op, node, err>>
    BY <1>3 DEF Promote, handlerVars
  <2>2. OtherViews(h)
    BY <2>1 DEF OtherViews, Phase, Server, Result, InLoop, TypeOK
  <2>3. /\ Phase(h) = "served" /\ Phase(h)' = "closed"
        /\ Server(h) = node[h] /\ Server(h)' = 0 /\ Result(h)' = Result(h)
    BY <2>1 DEF Phase, Server, Result, InLoop, TypeOK
  <2> DEFINE P == [g \in Handlers |-> Phase(g)]
             S == [g \in Handlers |-> Server(g)]
             R == [g \in Handlers |-> Result(g)]
  <2>4. /\ P' = [P EXCEPT ![h] = "closed"] /\ P[h] = "served"
        /\ S' = [S EXCEPT ![h] = 0] /\ S[h] = node[h]
        /\ R' = R
    BY <2>2, <2>3, OnePlace
  <2> HIDE DEF P, S, R
  <2>5. CASE ~StillThere(h)
    <3>1. F!Stay(h)
      BY <1>3, <2>4, <2>5 DEF Promote, F!Stay, P, S, R
    <3> QED BY <3>1 DEF F!Next
  <2>6. CASE StillThere(h)
    <3>1. index[h] \in F!Place \ {0}
      BY <2>1 DEF LoopInv, LoopAt, F!Place, Index
    <3>2. nodes' = [nodes EXCEPT ![index[h] - 1] = nodes[index[h]], ![index[h]] = nodes[index[h] - 1]]
      BY <1>3, <2>6 DEF Promote, Swapped
    <3>3. F!MoveUp(h)
      BY <2>4, <2>6, <3>1, <3>2 DEF StillThere, F!MoveUp, P, S, R
    <3> QED BY <3>3 DEF F!Next
  <2> QED BY <2>5, <2>6
<1> QED BY <1>1, <1>2, <1>3, Steps

-----------------------------------------------------------------------------
(***************************************************************************)
(* What the liveness properties rest on.                                    *)
(***************************************************************************)

(* A handler that holds the read lock can go on: a node is being called, or *)
(* its item is about to be read.                                            *)
LEMMA ReadersAreAble ==
  ASSUME TypeOK, LockDiscipline
  PROVE  \A g \in readers : Able(g) /\ pc[g] \in {"fetch", "call", "sent"}
<1> TAKE g \in readers
<1>1. g \in Handlers /\ pc[g] \in {"fetch", "call", "sent"}
  BY DEF TypeOK, LockTypeOK, LockDiscipline
<1>2. Calling(g) => node[g] \in Answering \cup Failing \/ Slow # {}
  BY <1>1, NodesAssumption DEF TypeOK
<1> QED
  BY <1>1, <1>2 DEF Able, Calling

(* As long as the lock is held or announced, somebody who has it can go on. *)
LEMMA SomebodyIsAble ==
  ASSUME TypeOK, LockDiscipline, readers # {} \/ writer # NoHandler
  PROVE  \E g \in Handlers : /\ g \in readers \cup {writer} /\ Able(g)
                             /\ g \in readers \/ readers = {}
<1>1. CASE readers # {}
  BY <1>1, ReadersAreAble DEF TypeOK, LockTypeOK
<1>2. CASE readers = {}
  <2>1. writer \in Handlers /\ pc[writer] = "drain"
    BY <1>2 DEF TypeOK, LockTypeOK, LockDiscipline
  <2> QED
    BY <1>2, <2>1 DEF Able, Drained
<1> QED
  BY <1>1, <1>2

(* Who waits, waits for somebody else who can go on.                        *)
LEMMA NobodyBlocked ==
  ASSUME TypeOK, LockDiscipline
  PROVE  LockIsPassedOn
<1> SUFFICES ASSUME NEW h \in Handlers, Busy(h), ~Able(h)
             PROVE  \E g \in Handlers \ {h} : g \in readers \cup {writer} /\ Able(g)
  BY DEF LockIsPassedOn
<1>1. pc[h] \in {"fetch", "lock", "drain"}
  <2>1. Calling(h) => node[h] \in Answering \cup Failing \/ Slow # {}
    BY NodesAssumption DEF TypeOK
  <2> QED
    BY <2>1 DEF TypeOK, Busy, Able, Calling
<1>2. readers # {} \/ writer # NoHandler
  BY <1>1, NoHandlerAssumption DEF Able, Drained, LockDiscipline
<1>3. PICK g \in Handlers : g \in readers \cup {writer} /\ Able(g)
  BY <1>2, SomebodyIsAble
<1> QED
  BY <1>3

(* Four steps for each position still ahead.                                *)
LEMMA StepsAhead ==
  ASSUME NEW k \in Index
  PROVE  /\ 4 * (N - 1 - k) \in Nat
         /\ 4 * (N - 1 - (k + 1)) + 4 = 4 * (N - 1 - k)
<1>1. N - 1 - k \in Nat /\ N - 1 - (k + 1) = (N - 1 - k) - 1
  BY NAssumption DEF Index
<1>2. \A m \in Nat : 4 * m \in Nat /\ 4 * (m - 1) + 4 = 4 * m
  OBVIOUS
<1> QED
  BY <1>1, <1>2

(* Each step of an operation brings it nearer to its return.                *)
LEMMA OwnStepShortens ==
  ASSUME TypeOK, LoopInv, NodeStable, NEW h \in Handlers, Busy(h), OwnStep(h) \/ Promote(h)
  PROVE  StepsLeft(h)' < StepsLeft(h) \/ UNCHANGED <<pc[h], index[h]>>
<1> USE DEF StepsLeft, Stage, InLoop, TypeOK
<1>1. CASE Call(h)
  BY <1>1 DEF Call, Enter, BalanceAt, TransactionByHash, TransactionReceipt, SendTransaction,
     BlockNumber, Busy
<1>2. CASE TakeReadLock(h) \/ Fetch(h) \/ Accept(h)
  <2>1. /\ \/ pc[h] = "rlock" /\ pc'[h] = "fetch"
           \/ pc[h] = "fetch" /\ pc'[h] = "call"
           \/ pc[h] = "call" /\ pc'[h] = "sent"
        /\ index' = index
    BY <1>2 DEF TakeReadLock, Fetch, Accept, handlerVars
  <2>2. 4 * (N - 1 - index[h]) \in Nat
    BY <2>1, StepsAhead DEF LoopInv, LoopAt
  <2> QED
    BY <2>1, <2>2
<1>3. CASE ReplyOK(h)
  <2>1. pc[h] \in {"call", "sent"} /\ pc'[h] \in {"lock", "done"} /\ index[h] \in Index
    BY <1>3 DEF ReplyOK, Answers, Calling, LoopInv, LoopAt
  <2>2. 4 * (N - 1 - index[h]) \in Nat
    BY <2>1, StepsAhead
  <2> QED
    BY <2>1, <2>2
<1>4. CASE Reply(h) /\ ~ReplyOK(h)
  <2>1. /\ pc[h] \in {"call", "sent"} /\ index[h] \in Index /\ index'[h] = index[h] + 1
        /\ pc'[h] \in {"rlock", "done"}
    BY <1>4, Advancing DEF Calling
  <2>2. /\ 4 * (N - 1 - index[h]) \in Nat
        /\ 4 * (N - 1 - (index[h] + 1)) + 4 = 4 * (N - 1 - index[h])
    BY <2>1, StepsAhead
  <2> QED
    BY <2>1, <2>2
<1>5. CASE LockList(h) \/ Promote(h)
  BY <1>5 DEF LockList, Promote
<1>6. CASE Return(h)
  BY <1>6 DEF Return
<1>7. CASE Expire(h)
  BY <1>7 DEF Expire
<1> QED
  BY <1>1, <1>2, <1>3, <1>4, <1>5, <1>6, <1>7 DEF OwnStep

(* A step of another handler takes no part in it.                           *)
LEMMA StepWindsDown ==
  ASSUME TypeOK, LoopInv, NodeStable, [Next]_vars, NEW g \in Handlers, Busy(g)
  PROVE  StepsLeft(g)' < StepsLeft(g) \/ UNCHANGED <<pc[g], index[g]>>
<1>1. CASE UNCHANGED vars
  BY <1>1 DEF vars, handlerVars
<1>2. ASSUME NEW h \in Handlers, h # g, OwnStep(h)
      PROVE  UNCHANGED <<pc[g], index[g]>>
  BY <1>2, Others DEF Locals
<1>3. ASSUME NEW h \in Handlers, h # g, Promote(h)
      PROVE  UNCHANGED <<pc[g], index[g]>>
  BY <1>3 DEF Promote, handlerVars
<1> QED
  BY <1>1, <1>2, <1>3, OwnStepShortens, Steps

(* Only a node that answers is moved up: the one a waiting promotion is     *)
(* about has answered its handler.                                          *)
ServedInv == \A h \in Handlers : pc[h] \in {"lock", "drain"} => node[h] \in Answering

(* Every step keeps that.                                                   *)
LEMMA ServedStep == TypeOK /\ ServedInv /\ [Next]_vars => ServedInv'
<1> SUFFICES ASSUME TypeOK, ServedInv, [Next]_vars, NEW g \in Handlers,
                    pc'[g] \in {"lock", "drain"}
             PROVE  node'[g] \in Answering
  BY DEF ServedInv
<1> USE DEF TypeOK, ServedInv
<1>1. CASE UNCHANGED vars
  BY <1>1 DEF vars, handlerVars
<1>2. ASSUME NEW h \in Handlers, h # g, OwnStep(h)
      PROVE  node'[g] \in Answering
  BY <1>2, Others DEF Locals
<1>3. ASSUME NEW h \in Handlers, Promote(h)
      PROVE  node'[g] \in Answering
  BY <1>3 DEF Promote, handlerVars
<1>4. CASE ReplyOK(g)
  BY <1>4 DEF ReplyOK, Answers
<1>5. CASE LockList(g)
  BY <1>5 DEF LockList, handlerVars
<1>6. CASE Expire(g)
  BY <1>6 DEF Expire, InLoop
<1>7. ASSUME Call(g) \/ TakeReadLock(g) \/ Fetch(g) \/ Accept(g) \/ Return(g)
             \/ ReplyErr(g) \/ HeightOK(g) \/ HeightErr(g)
      PROVE  FALSE
  BY <1>7 DEF Call, Enter, BalanceAt, TransactionByHash, TransactionReceipt, SendTransaction,
     BlockNumber, TakeReadLock, Fetch, Accept, Return, ReplyErr, HeightOK, HeightErr, Advance
<1> QED
  BY <1>1, <1>2, <1>3, <1>4, <1>5, <1>6, <1>7, Steps DEF OwnStep, Reply

(* Where a step leaves the nodes: one that answers has changed places with  *)
(* the one before it, or all are where they were.                           *)
LEMMA MovesUp ==
  ASSUME TypeOK, LoopInv, ServedInv, [Next]_vars, ~UNCHANGED nodes
  PROVE  \E p \in Index \ {0} :
           /\ p - 1 \in Index /\ nodes[p] \in Answering
           /\ nodes'[p - 1] = nodes[p] /\ nodes'[p] = nodes[p - 1]
           /\ \A i \in Index \ {p - 1, p} : nodes'[i] = nodes[i]
<1>1. PICK h \in Handlers :
        /\ Promote(h)
        /\ index[h] \in Index \ {0}
        /\ index[h] - 1 \in Index
        /\ nodes[index[h]] = node[h]
        /\ nodes' = Swapped(index[h])
  BY ListSteps
<1>2. node[h] \in Answering
  BY <1>1 DEF Promote, ServedInv
<1>3. PICK p \in Index \ {0} : p = index[h]
  BY <1>1
<1>4. p - 1 \in Index /\ p - 1 # p
  BY <1>1, <1>3 DEF Index
<1>5. /\ nodes'[p - 1] = nodes[p] /\ nodes'[p] = nodes[p - 1]
      /\ \A i \in Index \ {p - 1, p} : nodes'[i] = nodes[i]
  BY <1>1, <1>3, <1>4 DEF Swapped, TypeOK
<1> QED
  BY <1>1, <1>2, <1>3, <1>4, <1>5

(* A node that answers keeps its lead over one that does not.               *)
LEMMA LeadIsKept ==
  ASSUME TypeOK, LoopInv, ServedInv, [Next]_vars,
         NEW i \in Index, NEW j \in Index, i < j,
         nodes[i] \in Answering, nodes[j] \notin Answering
  PROVE  \E k \in Index : \E l \in Index : k < l /\ nodes'[k] = nodes[i] /\ nodes'[l] = nodes[j]
<1>1. CASE UNCHANGED nodes
  BY <1>1
<1>2. CASE ~UNCHANGED nodes
  <2>1. PICK p \in Index \ {0} :
           /\ p - 1 \in Index /\ nodes[p] \in Answering
           /\ nodes'[p - 1] = nodes[p] /\ nodes'[p] = nodes[p - 1]
           /\ \A m \in Index \ {p - 1, p} : nodes'[m] = nodes[m]
    BY <1>2, MovesUp
  <2>2. j # p /\ Index \subseteq Nat
    BY <2>1 DEF Index
  <2>3. CASE j = p - 1
    <3>1. i \notin {p - 1, p} /\ i < p
      BY <2>2, <2>3
    <3> QED
      BY <2>1, <2>3, <3>1
  <2>4. CASE j # p - 1 /\ i = p
    <3>1. p - 1 < j
      BY <2>2, <2>4
    <3> QED
      BY <2>1, <2>2, <2>4, <3>1
  <2>5. CASE j # p - 1 /\ i = p - 1
    <3>1. p < j
      BY <2>2, <2>5
    <3> QED
      BY <2>1, <2>2, <2>5, <3>1
  <2>6. CASE j # p - 1 /\ i \notin {p - 1, p}
    BY <2>1, <2>2, <2>6
  <2> QED
    BY <2>3, <2>4, <2>5, <2>6
<1> QED
  BY <1>1, <1>2

(* The place of the only node that answers, when a request it served        *)
(* promotes it and afterwards.                                              *)
Within(n, k) == \E i \in Index : nodes[i] = n /\ i <= k

PlaceAt(h) ==
  /\ pc[h] \in {"lock", "drain"} => Within(node[h], index[h])
  /\ pc[h] = "done" /\ op[h] \in FailoverOps /\ err[h] = "nil" =>
       /\ node[h] \in Answering
       /\ Within(node[h], IF index[h] = 0 THEN 0 ELSE index[h] - 1)

PlaceInv == \A h \in Handlers : PlaceAt(h)

(* The only node that answers never falls back.                             *)
LEMMA OnlyServerNeverFalls ==
  ASSUME TypeOK, LoopInv, NoNodeLost, ServedInv, [Next]_vars, NEW n \in Index,
         Answering = {n}, NEW k \in Nat, Within(n, k)
  PROVE  \E i \in Index : nodes'[i] = n /\ i <= k
<1>1. PICK i \in Index : nodes[i] = n /\ i <= k
  BY DEF Within
<1>2. CASE UNCHANGED nodes
  BY <1>1, <1>2
<1>3. CASE ~UNCHANGED nodes
  <2>1. PICK p \in Index \ {0} :
           /\ p - 1 \in Index /\ nodes[p] \in Answering
           /\ nodes'[p - 1] = nodes[p] /\ nodes'[p] = nodes[p - 1]
           /\ \A m \in Index \ {p - 1, p} : nodes'[m] = nodes[m]
    BY <1>3, MovesUp
  <2>2. i = p
    BY <1>1, <2>1 DEF NoNodeLost
  <2>3. p - 1 <= k
    BY <1>1, <2>2 DEF Index
  <2> QED
    BY <2>1, <2>3
<1> QED
  BY <1>2, <1>3

(* Every position but the first has one before it.                          *)
LEMMA Predecessors ==
  Index \subseteq Nat /\ \A p \in Index \ {0} : p - 1 \in Index /\ p > 0
BY NAssumption DEF Index

(* The two steps that decide where the node of a served request is: the     *)
(* answer, which finds it at the position of the loop, and the promotion.   *)
LEMMA ServingKeepsPlace ==
  ASSUME TypeOK, LoopInv, NodeStable, ServedInv, NEW g \in Handlers, PlaceAt(g),
         ReplyOK(g) \/ Promote(g)
  PROVE  PlaceAt(g)'
<1> USE DEF TypeOK
<1>1. CASE ReplyOK(g)
  <2>1. /\ pc[g] \in {"call", "sent"} /\ node[g] \in Answering
        /\ index[g] \in Index /\ nodes[index[g]] = node[g]
        /\ pc'[g] = (IF index[g] = 0 THEN "done" ELSE "lock")
        /\ UNCHANGED <<nodes, index, node>>
    BY <1>1 DEF ReplyOK, Answers, Calling, AtHead, LoopInv, LoopAt, InLoop, NodeStable
  <2>2. Index \subseteq Nat
    BY DEF Index
  <2>3. PICK p \in Index : p = index[g]
    BY <2>1
  <2>4. Within(node[g], index[g])'
    BY <2>1, <2>2, <2>3 DEF Within
  <2>5. CASE index[g] = 0
    BY <2>1, <2>4, <2>5 DEF PlaceAt, Within
  <2>6. CASE index[g] # 0
    BY <2>1, <2>4, <2>6 DEF PlaceAt
  <2> QED
    BY <2>5, <2>6
<1>2. CASE Promote(g)
  <2>1. /\ pc[g] = "drain" /\ pc'[g] = "done"
        /\ index[g] \in Index \ {0} /\ node[g] \in Answering
        /\ UNCHANGED <<index, node>>
    BY <1>2 DEF Promote, LoopInv, LoopAt, ServedInv, handlerVars
  <2>2. PICK p \in Index \ {0} : p = index[g]
    BY <2>1
  <2>3. p - 1 \in Index /\ p > 0 /\ Index \subseteq Nat
    BY Predecessors
  <2>4. PICK i \in Index : nodes[i] = node[g] /\ i <= p
    BY <2>1, <2>2 DEF PlaceAt, Within
  <2>5. \E k \in Index : nodes'[k] = node[g] /\ k <= p - 1
    <3>1. CASE nodes[p] = node[g]
      <4>1. nodes' = Swapped(p)
        BY <1>2, <2>2, <3>1 DEF Promote, StillThere
      <4>2. nodes'[p - 1] = node[g]
        BY <2>3, <3>1, <4>1 DEF Swapped
      <4> QED
        BY <2>3, <4>2
    <3>2. CASE nodes[p] # node[g]
      <4>1. nodes' = nodes
        BY <1>2, <2>2, <3>2 DEF Promote, StillThere
      <4>2. i <= p - 1
        BY <2>3, <2>4, <3>2
      <4> QED
        BY <2>4, <4>1, <4>2
    <3> QED
      BY <3>1, <3>2
  <2>6. Within(node[g], index[g] - 1)'
    BY <2>1, <2>2, <2>5 DEF Within
  <2> QED
    BY <2>1, <2>2, <2>3, <2>6 DEF PlaceAt
<1> QED
  BY <1>1, <1>2

(* Every step keeps the only node that answers within its place.            *)
LEMMA PlaceStep ==
  ASSUME TypeOK, LoopInv, NoNodeLost, NodeStable, ServedInv, PlaceInv, [Next]_vars,
         NEW n \in Index, Answering = {n}
  PROVE  PlaceInv'
<1> SUFFICES ASSUME NEW g \in Handlers PROVE PlaceAt(g)'
  BY DEF PlaceInv
<1>1. PlaceAt(g)
  BY DEF PlaceInv
<1>2. ASSUME UNCHANGED <<nodes, pc[g], op[g], index[g], node[g], err[g]>>
      PROVE  PlaceAt(g)'
  BY <1>1, <1>2 DEF PlaceAt, Within
<1>3. CASE UNCHANGED vars
  BY <1>2, <1>3 DEF vars, handlerVars
<1>4. ASSUME NEW h \in Handlers, h # g, OwnStep(h)
      PROVE  PlaceAt(g)'
  BY <1>2, <1>4, Others DEF Locals
<1>5. ASSUME NEW h \in Handlers, h # g, Promote(h)
      PROVE  PlaceAt(g)'
  <2>1. UNCHANGED <<pc[g], op[g], index[g], node[g], err[g]>>
    BY <1>5 DEF Promote, handlerVars
  <2>2. index[g] \in Nat /\ (index[g] > 0 => index[g] - 1 \in Nat)
    BY NAssumption DEF TypeOK
  <2>3. \A k \in Nat : Within(n, k) => \E i \in Index : nodes'[i] = n /\ i <= k
    BY OnlyServerNeverFalls
  <2>4. CASE pc[g] \in {"lock", "drain"}
    <3>1. node[g] = n /\ Within(n, index[g])
      BY <1>1, <2>4 DEF ServedInv, PlaceAt
    <3> QED
      BY <2>1, <2>2, <2>3, <2>4, <3>1 DEF PlaceAt, Within
  <2>5. CASE pc[g] = "done" /\ op[g] \in FailoverOps /\ err[g] = "nil"
    <3>1. node[g] = n
      BY <1>1, <2>5 DEF PlaceAt
    <3>2. PICK k \in Nat : /\ k = (IF index[g] = 0 THEN 0 ELSE index[g] - 1)
                           /\ Within(n, k)
      BY <1>1, <2>2, <2>5, <3>1 DEF PlaceAt
    <3>3. PICK i \in Index : nodes'[i] = n /\ i <= k
      BY <2>3, <3>2
    <3>4. Within(node[g], k)'
      BY <2>1, <3>1, <3>3 DEF Within
    <3> QED
      BY <2>1, <2>5, <3>1, <3>2, <3>4 DEF PlaceAt, Within
  <2> QED
    BY <2>1, <2>4, <2>5 DEF PlaceAt
<1>6. CASE ReplyOK(g) \/ Promote(g)
  BY <1>1, <1>6, ServingKeepsPlace
<1>7. CASE LockList(g)
  BY <1>1, <1>7 DEF LockList, handlerVars, PlaceAt, Within, TypeOK
<1>8. CASE Expire(g) \/ Call(g) \/ TakeReadLock(g) \/ Fetch(g) \/ Accept(g) \/ Return(g)
  <2>1. pc'[g] \notin {"lock", "drain", "done"}
    BY <1>8 DEF Expire, InLoop, Call, Enter, BalanceAt, TransactionByHash, TransactionReceipt,
       SendTransaction, BlockNumber, TakeReadLock, Fetch, Accept, Return, TypeOK
  <2> QED
    BY <2>1 DEF PlaceAt
<1>9. CASE ReplyErr(g)
  BY <1>9 DEF ReplyErr, Advance, Assigned, PlaceAt, TypeOK
<1>10. CASE HeightOK(g) \/ HeightErr(g)
  BY <1>10 DEF HeightOK, HeightErr, Advance, PlaceAt, FailoverOps, ReadOps, TypeOK
<1> QED
  BY <1>3, <1>4, <1>5, <1>6, <1>7, <1>8, <1>9, <1>10, Steps DEF OwnStep, Reply

-----------------------------------------------------------------------------
(***************************************************************************)
(* The theorems.                                                            *)
(***************************************************************************)

(* The inductive invariant of the specification.                            *)
IInv ==
  /\ TypeOK
  /\ LoopInv
  /\ LockDiscipline
  /\ NoNodeLost
  /\ NodeStable
  /\ NoSilentSkip
  /\ RepeatInv
  /\ HungInv
  /\ SentInv

(* The inductive invariant holds at the start ...                           *)
LEMMA InitIInv == Init => IInv
<1> SUFFICES ASSUME Init PROVE IInv
  OBVIOUS
<1> USE Positions DEF Init
<1>1. TypeOK
  <2>1. LockTypeOK /\ nodes \in [Index -> Index]
    BY DEF LockInit, LockTypeOK
  <2>2. heights \in [Handlers -> Seq(Tips)]
    OBVIOUS
  <2>3. index \in [Handlers -> 0 .. N] /\ node \in [Handlers -> Index]
    BY NAssumption
  <2> QED BY <2>1, <2>2, <2>3 DEF TypeOK, PCs, AllOps, FailoverOps, ReadOps
<1>2. LoopInv /\ LockDiscipline
  BY NoHandlerAssumption DEF LoopInv, LoopAt, InLoop, Calling, LockDiscipline, LockInit
<1>3. NoNodeLost /\ NodeStable /\ NoSilentSkip /\ RepeatInv
  BY DEF NoNodeLost, NodeStable, NoSilentSkip, RepeatInv, RepeatAt, InLoop, Calling, Failed
<1>4. HungInv /\ SentInv
  BY DEF HungInv, HungAt, SentInv, SentAt, InLoop
<1> QED BY <1>1, <1>2, <1>3, <1>4 DEF IInv

(* ... and every step keeps it.                                             *)
LEMMA StepIInv == IInv /\ [Next]_vars => IInv'
BY TypeStep, LoopStep, LockStep, PermutationStep, StableStep, SkipStep, RepeatStep,
   HungStep, SentStep
DEF IInv

(* The inductive invariant holds in every reachable state: types, position  *)
(* and lock discipline, the permutation, and what each loop has asked.      *)
THEOREM Invariance == Spec => []IInv
BY InitIInv, StepIInv, PTL DEF Spec

(* Every variable keeps its type; in particular a loop never reads past the *)
(* end of the list.                                                         *)
THEOREM TypeCorrect == Spec => []TypeOK
<1>1. IInv => TypeOK
  BY DEF IInv
<1> QED BY <1>1, Invariance, PTL

(* The read lock is held exactly while a position is read or its node is    *)
(* called, and nobody swaps while a reader is inside.                       *)
THEOREM LockUsedProperly == Spec => []LockDiscipline
<1>1. IInv => LockDiscipline
  BY DEF IInv
<1> QED BY <1>1, Invariance, PTL

(* However many handlers promote at once, the list stays a permutation of   *)
(* the connected nodes.                                                     *)
THEOREM ListStaysPermutation == Spec => []NoNodeLost
<1>1. IInv => NoNodeLost
  BY DEF IInv
<1> QED BY <1>1, Invariance, PTL

(* The node in flight is at the position its caller reads.                  *)
THEOREM NodeInFlightStable == Spec => []NodeStable
<1>1. IInv => NodeStable
  BY DEF IInv
<1> QED BY <1>1, Invariance, PTL

(* A node that an operation passes over, or fails without asking, has       *)
(* served another request meanwhile.                                        *)
THEOREM SkippedNodesHaveServed == Spec => []NoSilentSkip
<1>1. IInv => NoSilentSkip
  BY DEF IInv
<1> QED BY <1>1, Invariance, PTL

(* A node that an operation asks twice was overtaken between the two calls. *)
THEOREM RepeatedNodesWereOvertaken == Spec => []NoSilentRepeat
<1>1. IInv => NoSilentRepeat
  BY DEF IInv, RepeatInv, RepeatAt, Ahead, NoSilentRepeat, InLoop, Calling
<1> QED BY <1>1, Invariance, PTL

(* SendTransaction succeeds iff exactly one node acknowledged.              *)
THEOREM SendReportsAcknowledgement == Spec => []SentIffAcknowledged
<1>1. IInv => SentIffAcknowledged
  BY DEF IInv, SentInv, SentAt, SentIffAcknowledged
<1> QED BY <1>1, Invariance, PTL

(* A hung head is never demoted, and while it is there nothing is served.   *)
THEOREM HungHeadBlocksService == Spec => []HungHeadServesNothing
<1>1. IInv => HungHeadServesNothing
  BY DEF IInv, HungInv, HungAt, HungHeadServesNothing
<1> QED BY <1>1, Invariance, PTL

(* Every change of the list moves a node that has just served a request one *)
(* place up, past its neighbour.                                            *)
THEOREM PromotionsAreEarned == Spec => PromotionEarned
<1>1. IInv /\ [Next]_vars => [nodes' # nodes => \E h \in Handlers : PromotesServer(h)]_vars
  <2> SUFFICES ASSUME IInv, [Next]_vars, nodes' # nodes
               PROVE  \E h \in Handlers : PromotesServer(h)
    OBVIOUS
  <2>1. PICK h \in Handlers :
          /\ Promote(h)
          /\ index[h] \in Index \ {0}
          /\ nodes[index[h]] = node[h]
          /\ nodes' = Swapped(index[h])
    BY ListSteps DEF IInv
  <2>2. pc[h] = "drain" /\ err[h] = "nil"
    BY <2>1 DEF IInv, LoopInv, LoopAt, Promote
  <2> QED BY <2>1, <2>2 DEF PromotesServer, Swapped
<1> QED BY <1>1, Invariance, PTL DEF Spec, PromotionEarned

(* multiNodeClient keeps the promise of module Failover: only a request     *)
(* that was served changes the order of priority, once, by one place.       *)
THEOREM ClientImplementsFailover == Spec => ImplementsFailover
<1>1. IInv /\ [Next]_vars => [F!Next]_F!absVars
  BY StepImplements DEF IInv
<1> QED BY <1>1, InitImplements, Invariance, PTL DEF Spec, ImplementsFailover, F!Spec

(* No reader, writer or queue behind the writer waits for somebody who      *)
(* waits as well.                                                           *)
THEOREM NobodyWaitsInVain == Spec => []LockIsPassedOn
<1>1. IInv => LockIsPassedOn
  BY NobodyBlocked DEF IInv
<1> QED BY <1>1, Invariance, PTL

(* An operation is over after a number of its own steps that is fixed when  *)
(* it begins, whatever other handlers do to the list.                       *)
THEOREM OperationsAreBounded == Spec => OperationsWindDown
<1>1. IInv /\ [Next]_vars =>
        [\A h \in Handlers : Busy(h) =>
           StepsLeft(h)' < StepsLeft(h) \/ UNCHANGED <<pc[h], index[h]>>]_vars
  BY StepWindsDown DEF IInv
<1> QED BY <1>1, Invariance, PTL DEF Spec, OperationsWindDown

(* Whatever the handlers do at once, a node that never answers does not     *)
(* overtake one that may.                                                   *)
THEOREM DeadNodesNeverOvertake == Spec => ServersStayAhead
<1>1. Init => ServedInv
  BY DEF Init, ServedInv
<1>2. IInv /\ ServedInv /\ [Next]_vars => ServedInv'
  BY ServedStep DEF IInv
<1>3. IInv /\ ServedInv /\ [Next]_vars =>
        [\A i, j \in Index : i < j /\ nodes[i] \in Answering /\ nodes[j] \notin Answering =>
           \E k, l \in Index : k < l /\ nodes'[k] = nodes[i] /\ nodes'[l] = nodes[j]]_vars
  BY LeadIsKept DEF IInv
<1> QED BY <1>1, <1>2, <1>3, Invariance, PTL DEF Spec, ServersStayAhead

(* If only one node answers, every request it serves leaves it nearer to    *)
(* the head; with the theorem before, it stays there.  So N - 1 requests    *)
(* that it serves, one after the other, make it the head for good.          *)
THEOREM EveryServiceMovesUp == Spec => []ServedMovesUp
<1>1. CASE \E n \in Index : Answering = {n}
  <2>1. PICK n \in Index : Answering = {n}
    BY <1>1
  <2>2. Init => ServedInv /\ PlaceInv
    BY DEF Init, ServedInv, PlaceInv, PlaceAt
  <2>3. IInv /\ ServedInv /\ [Next]_vars => ServedInv'
    BY ServedStep DEF IInv
  <2>4. IInv /\ ServedInv /\ PlaceInv /\ [Next]_vars => PlaceInv'
    BY <2>1, PlaceStep DEF IInv
  <2>5. IInv /\ PlaceInv => ServedMovesUp
    <3> SUFFICES ASSUME IInv, NEW h \in Handlers, PlaceAt(h), pc[h] = "done",
                        op[h] \in FailoverOps, err[h] = "nil"
                 PROVE  \E i \in Index : nodes[i] = node[h] /\ (i < index[h] \/ i = 0)
      BY DEF PlaceInv, ServedMovesUp
    <3>1. index[h] \in Nat /\ Index \subseteq Nat
      BY NAssumption DEF IInv, TypeOK, Index
    <3> QED
      BY <3>1 DEF PlaceAt, Within
  <2> QED BY <2>2, <2>3, <2>4, <2>5, Invariance, PTL DEF Spec
<1>2. CASE ~\E n \in Index : Answering = {n}
  <2>1. ServedMovesUp
    BY <1>2 DEF ServedMovesUp
  <2> QED BY <2>1, PTL
<1> QED BY <1>1, <1>2
=============================================================================
