---------------------------- MODULE ProbeProofs ----------------------------
(***************************************************************************)
(* What BlockNumber's verdict says about the heights the nodes reported,    *)
(* for any number of nodes, any heights and any width of the integers.      *)
(***************************************************************************)
EXTENDS MultiNodeClientProofs, BlockHeightsProofs

(* A height is reported as differing iff it is not near the one before.     *)
LEMMA DifferingTips ==
  ASSUME NEW s \in Seq(Tips), NEW t \in Tips
  PROVE  TipsDiffer(s, t) <=> s # <<>> /\ ~Near(s[Len(s)], t)
<1>1. CASE s # <<>>
  <2>1. s[Len(s)] \in Uint /\ t \in Uint
    BY <1>1, TipsAssumption
  <2>2. absDiff(t, s[Len(s)]) > blockDiff <=> ~Near(s[Len(s)], t)
    BY <2>1, Distance, ModulusAssumption DEF Near, blockDiff, Uint
  <2> QED BY <1>1, <2>2 DEF TipsDiffer
<1>2. CASE s = <<>>
  BY <1>2 DEF TipsDiffer
<1> QED BY <1>1, <1>2

(* No two neighbours differ by more than blockDiff.                         *)
Agree(s) == \A i \in 1 .. Len(s) - 1 : Near(s[i], s[i + 1])

(* What the loop knows of the heights when the next one arrives is enough.  *)
LEMMA AgreeStep ==
  ASSUME NEW s \in Seq(Tips), NEW t \in Tips
  PROVE  Agree(Append(s, t)) <=> Agree(s) /\ ~TipsDiffer(s, t)
<1> DEFINE r == Append(s, t)
<1>1. /\ r \in Seq(Tips) /\ Len(r) = Len(s) + 1 /\ r[Len(s) + 1] = t
      /\ \A i \in 1 .. Len(s) : r[i] = s[i]
  OBVIOUS
<1>2. CASE s = <<>>
  <2>1. Len(s) = 0 /\ Len(r) = 1
    BY <1>1, <1>2
  <2>2. Agree(s) /\ Agree(r)
    <3> HIDE DEF r
    <3> QED BY <2>1 DEF Agree
  <2> QED BY <1>2, <2>2, DifferingTips
<1>3. CASE s # <<>>
  <2>1. Len(s) \in Nat \ {0} /\ r[Len(s)] = s[Len(s)]
    BY <1>1, <1>3
  <2>2. Agree(r) <=> Agree(s) /\ Near(s[Len(s)], t)
    <3> HIDE DEF r
    <3>1. \A i \in 1 .. Len(s) - 1 : r[i] = s[i] /\ r[i + 1] = s[i + 1]
      BY <1>1, <2>1
    <3>2. 1 .. Len(r) - 1 = (1 .. Len(s) - 1) \cup {Len(s)}
      BY <1>1, <2>1
    <3> QED BY <1>1, <2>1, <3>1, <3>2 DEF Agree
  <2> QED BY <1>3, <2>2, DifferingTips
<1> QED BY <1>2, <1>3

-----------------------------------------------------------------------------
(* In the loop errStr is empty iff every position so far has given a height *)
(* and the heights agree.                                                   *)
Sound(g, n) == Len(heights[g]) = n /\ Agree(heights[g])

ProbeAt(g) ==
  /\ pc[g] = "idle" => heights[g] = <<>> /\ ~errStr[g]
  /\ op[g] = "BlockNumber" /\ InLoop(g) =>
       Len(heights[g]) <= index[g] /\ (errStr[g] <=> ~Sound(g, index[g]))
  /\ op[g] = "BlockNumber" /\ pc[g] = "done" => (err[g] = "nil" <=> Sound(g, N))

ProbeInv == \A g \in Handlers : ProbeAt(g)

(* The answer to a call keeps this, and after the last position it is the   *)
(* verdict.                                                                 *)
LEMMA AnswerStep ==
  ASSUME TypeOK, TypeOK', LoopInv, NodeStable, NEW h \in Handlers, ProbeAt(h),
         HeightOK(h) \/ HeightErr(h)
  PROVE  ProbeAt(h)'
<1>1. /\ Calling(h) /\ index[h] \in Index /\ index'[h] = index[h] + 1
      /\ pc'[h] = IF index[h] + 1 < N THEN "rlock" ELSE "done"
      /\ op'[h] = op[h]
  <2>1. Reply(h) /\ ~ReplyOK(h)
    BY DEF Reply, ReplyOK, HeightOK, HeightErr, FailoverOps, ReadOps
  <2> QED BY <2>1, Advancing
<1>2. /\ op[h] = "BlockNumber" /\ InLoop(h)
      /\ heights[h] \in Seq(Tips) /\ Len(heights[h]) \in Nat
  BY <1>1 DEF HeightOK, HeightErr, InLoop, Calling, TypeOK
<1>3. Len(heights[h]) <= index[h] /\ (errStr[h] <=> ~Sound(h, index[h]))
  BY <1>2 DEF ProbeAt
<1>4. /\ Len(heights'[h]) <= index[h] + 1
      /\ errStr'[h] <=> ~(Len(heights'[h]) = index[h] + 1 /\ Agree(heights'[h]))
  <2>1. CASE HeightOK(h)
    <3>1. PICK t \in Tips : /\ heights' = [heights EXCEPT ![h] = Append(@, t)]
                            /\ errStr' = [errStr EXCEPT ![h] = @ \/ TipsDiffer(heights[h], t)]
      BY <2>1 DEF HeightOK
    <3>2. heights'[h] = Append(heights[h], t)
      BY <3>1 DEF TypeOK
    <3>3. errStr'[h] <=> errStr[h] \/ TipsDiffer(heights[h], t)
      BY <3>1 DEF TypeOK
    <3>4. Len(heights'[h]) = Len(heights[h]) + 1
      BY <1>2, <3>2
    <3>5. Agree(heights'[h]) <=> Agree(heights[h]) /\ ~TipsDiffer(heights[h], t)
      BY <1>2, <3>2, AgreeStep
    <3>6. Len(heights'[h]) = index[h] + 1 <=> Len(heights[h]) = index[h]
      BY <1>1, <1>2, <3>4 DEF Index
    <3>7. Len(heights'[h]) <= index[h] + 1
      BY <1>1, <1>2, <1>3, <3>4 DEF Index
    <3> QED BY <1>3, <3>3, <3>5, <3>6, <3>7 DEF Sound
  <2>2. CASE HeightErr(h)
    <3>1. heights'[h] = heights[h] /\ errStr'[h]
      BY <2>2 DEF HeightErr, TypeOK
    <3>2. Len(heights[h]) # index[h] + 1 /\ Len(heights[h]) <= index[h] + 1
      BY <1>1, <1>2, <1>3 DEF Index
    <3> QED BY <3>1, <3>2
  <2> QED BY <2>1, <2>2
<1>5. CASE index[h] + 1 < N
  <2>1. pc'[h] = "rlock"
    BY <1>1, <1>5
  <2> QED BY <1>1, <1>4, <2>1 DEF ProbeAt, Sound
<1>6. CASE ~(index[h] + 1 < N)
  <2>1. pc'[h] = "done" /\ index[h] + 1 = N
    BY <1>1, <1>6, NAssumption DEF Index
  <2>2. err' = [err EXCEPT ![h] = IF errStr'[h] THEN "err" ELSE "nil"]
    BY <1>6 DEF HeightOK, HeightErr, ProbeResult, MoreNodes, NextIndex
  <2>3. err'[h] = "nil" <=> ~errStr'[h]
    BY <2>2 DEF TypeOK
  <2> QED BY <1>4, <2>1, <2>3 DEF ProbeAt, Sound, InLoop
<1> QED BY <1>5, <1>6

(* Every step keeps it.                                                     *)
LEMMA ProbeStep ==
  TypeOK /\ LoopInv /\ NodeStable /\ ProbeInv /\ [Next]_vars => ProbeInv'
<1> SUFFICES ASSUME TypeOK, LoopInv, NodeStable, ProbeInv, [Next]_vars PROVE ProbeInv'
  OBVIOUS
<1>0. TypeOK'
  BY TypeStep
<1>1. CASE UNCHANGED vars
  BY <1>1 DEF vars, handlerVars, probeVars, ProbeInv, ProbeAt, Sound, InLoop
<1>2. ASSUME NEW h \in Handlers, Promote(h) PROVE ProbeInv'
  <2>1. UNCHANGED <<op, index, err, heights, errStr>> /\ pc' = [pc EXCEPT ![h] = "done"]
    BY <1>2 DEF Promote, handlerVars, probeVars
  <2>2. op[h] # "BlockNumber"
    BY <1>2 DEF Promote, LoopInv, LoopAt, FailoverOps, ReadOps
  <2>3. ASSUME NEW g \in Handlers PROVE ProbeAt(g)'
    BY <2>1, <2>2 DEF ProbeInv, ProbeAt, Sound, InLoop, TypeOK
  <2> QED BY <2>3 DEF ProbeInv
<1>3. ASSUME NEW h \in Handlers, OwnStep(h) PROVE ProbeAt(h)'
  <2>1. ProbeAt(h)
    BY DEF ProbeInv
  <2>2. CASE Call(h)
    <3>1. /\ pc[h] = "idle" /\ pc'[h] = "rlock" /\ index'[h] = 0
          /\ UNCHANGED <<heights, errStr>>
      BY <2>2 DEF Call, Enter, BalanceAt, TransactionByHash, TransactionReceipt,
         SendTransaction, BlockNumber, probeVars, TypeOK, LoopInv, LoopAt
    <3>2. heights[h] = <<>> /\ ~errStr[h]
      BY <2>1, <3>1 DEF ProbeAt
    <3>3. Len(heights'[h]) = 0 /\ Agree(heights'[h]) /\ ~errStr'[h]
      BY <3>1, <3>2 DEF Agree
    <3> QED BY <3>1, <3>3 DEF ProbeAt, Sound
  <2>3. CASE TakeReadLock(h) \/ Fetch(h) \/ Accept(h) \/ Expire(h) \/ LockList(h)
    <3>1. /\ UNCHANGED <<op, index, err, heights, errStr>> /\ (InLoop(h)' => InLoop(h))
          /\ pc'[h] \notin {"idle", "done"} \/ pc'[h] = pc[h]
      BY <2>3 DEF TakeReadLock, Fetch, Accept, Expire, LockList, handlerVars, probeVars, InLoop,
         TypeOK
    <3> QED BY <2>1, <3>1 DEF ProbeAt, Sound
  <2>4. CASE ReplyOK(h) \/ ReplyErr(h)
    <3>1. op'[h] # "BlockNumber" /\ pc'[h] # "idle"
      BY <2>4 DEF ReplyOK, ReplyErr, Advance, FailoverOps, ReadOps, TypeOK
    <3> QED BY <3>1 DEF ProbeAt
  <2>5. CASE HeightOK(h) \/ HeightErr(h)
    BY <1>0, <2>1, <2>5, AnswerStep
  <2>6. CASE Return(h)
    BY <2>6 DEF Return, ProbeAt, InLoop, TypeOK
  <2> QED BY <1>3, <2>2, <2>3, <2>4, <2>5, <2>6 DEF OwnStep, Reply
<1>4. ASSUME NEW h \in Handlers, OwnStep(h) PROVE ProbeInv'
  <2>1. \A g \in Handlers \ {h} : ProbeAt(g)'
    BY <1>4, Others DEF Locals, ProbeInv, ProbeAt, Sound, InLoop
  <2> QED BY <1>3, <1>4, <2>1 DEF ProbeInv
<1> QED BY <1>1, <1>2, <1>4, Steps

(* At first no handler is in the loop.                                      *)
LEMMA InitProbe == Init => ProbeInv
BY DEF Init, ProbeInv, ProbeAt, InLoop

(* What the loop knows at its end is the verdict.                           *)
LEMMA ProbeImplies == TypeOK /\ ProbeInv => ProbeVerdict
BY NAssumption DEF ProbeInv, ProbeAt, Sound, Agree, ProbeVerdict

(* BlockNumber succeeds iff every position gave a height and no two         *)
(* neighbouring heights lie further apart than blockDiff; so blockheights   *)
(* has a first element when line 142 reads it.                              *)
THEOREM ProbeTellsTheTruth == Spec => []ProbeVerdict
<1>1. IInv /\ ProbeInv /\ [Next]_vars => ProbeInv'
  BY ProbeStep DEF IInv
<1>2. IInv => TypeOK
  BY DEF IInv
<1> QED BY <1>1, <1>2, InitProbe, ProbeImplies, Invariance, PTL DEF Spec
=============================================================================
