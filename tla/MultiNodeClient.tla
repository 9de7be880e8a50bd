-------------------------- MODULE MultiNodeClient --------------------------
(***************************************************************************)
(* multiNodeClient (proxy/eth_client.go): the list of Ethereum nodes in     *)
(* order of priority, and the five operations that concurrent HTTP handlers *)
(* run on it.                                                               *)
(*                                                                          *)
(* BalanceAt, TransactionByHash, TransactionReceipt and SendTransaction ask *)
(* the nodes one position after the other until one answers, and then move  *)
(* the node that answered one place up.  BlockNumber asks every position    *)
(* and never moves a node.  Each position is read, and its node called,     *)
(* under the read lock; the lock is released between two positions, so the  *)
(* list may be reordered under a loop that is half way through it.          *)
(*                                                                          *)
(* Positions are counted from 0, as in the code, and an item is identified  *)
(* with its id, which is its position in the list the constructor builds.   *)
(***************************************************************************)
EXTENDS Naturals, Sequences, FiniteSets, RWMutex, BlockHeights

CONSTANTS
  N,           \* number of connected nodes
  Ops,         \* the operations the handlers may call
  Answering,   \* nodes that may answer a call
  Failing,     \* nodes that may fail a call at once
  Slow,        \* nodes that may keep a call waiting until its deadline
  Tips         \* block heights the nodes may report

Index == 0 .. N - 1

ReadOps == {"BalanceAt", "TransactionByHash", "TransactionReceipt"}
FailoverOps == ReadOps \cup {"SendTransaction"}
AllOps == FailoverOps \cup {"BlockNumber"}

(* NewMultiNodeClient returns an error instead of an empty list; a node     *)
(* does at least one of the three things a node can do with a call.         *)
ASSUME NAssumption == N \in Nat \ {0}
ASSUME OpsAssumption == Ops \subseteq AllOps
ASSUME NodesAssumption == Index = Answering \cup Failing \cup Slow
ASSUME TipsAssumption == Tips \subseteq Uint

VARIABLES
  nodes,       \* m.nodes: position -> id of the item there
  pc,          \* where each handler is
  op,          \* the operation it runs
  index,       \* loop variable i (and its copy index)
  node,        \* local variable node: id of the item it called last
  expired,     \* has the deadline of the handler's context passed?
  err,         \* the err result: "none" before the first answer, "nil", "err"
  heights,     \* BlockNumber: blockheights
  errStr,      \* BlockNumber: is errStr non-empty?
  \* history, not in the program:
  accepted,    \* SendTransaction: nodes that have the transaction, or will
  lost,        \* ... and whose answer did not arrive
  asked,       \* nodes this operation has called
  promoted,    \* nodes moved up since this operation began
  demoted      \* nodes moved down since this operation began

handlerVars == <<op, index, node, expired, err>>
probeVars == <<heights, errStr>>
sendVars == <<accepted, lost>>
moveVars == <<promoted, demoted>>
vars == <<nodes, lockVars, pc, handlerVars, probeVars, sendVars, asked, moveVars>>

PCs == {"idle", "rlock", "fetch", "call", "sent", "lock", "drain", "done"}
Busy(h) == pc[h] # "idle"
Calling(h) == pc[h] \in {"call", "sent"}

TypeOK ==
  /\ LockTypeOK
  /\ nodes \in [Index -> Index]
  /\ pc \in [Handlers -> PCs]
  /\ op \in [Handlers -> AllOps]
  /\ index \in [Handlers -> 0 .. N]
  /\ node \in [Handlers -> Index]
  /\ expired \in [Handlers -> BOOLEAN]
  /\ err \in [Handlers -> {"none", "nil", "err"}]
  /\ heights \in [Handlers -> Seq(Tips)]
  /\ errStr \in [Handlers -> BOOLEAN]
  /\ accepted \in [Handlers -> SUBSET Index]
  /\ lost \in [Handlers -> SUBSET Index]
  /\ asked \in [Handlers -> SUBSET Index]
  /\ promoted \in [Handlers -> SUBSET Index]
  /\ demoted \in [Handlers -> SUBSET Index]

(* The locals of a handler that runs no operation have one fixed value.     *)
Init ==
  /\ LockInit
  /\ nodes = [i \in Index |-> i]
  /\ pc = [h \in Handlers |-> "idle"]
  /\ op = [h \in Handlers |-> "BalanceAt"]
  /\ index = [h \in Handlers |-> 0]
  /\ node = [h \in Handlers |-> 0]
  /\ expired = [h \in Handlers |-> FALSE]
  /\ err = [h \in Handlers |-> "none"]
  /\ heights = [h \in Handlers |-> <<>>]
  /\ errStr = [h \in Handlers |-> FALSE]
  /\ accepted = [h \in Handlers |-> {}]
  /\ lost = [h \in Handlers |-> {}]
  /\ asked = [h \in Handlers |-> {}]
  /\ promoted = [h \in Handlers |-> {}]
  /\ demoted = [h \in Handlers |-> {}]

-----------------------------------------------------------------------------
(***************************************************************************)
(* Entry of the five operations.  The context was created by the HTTP       *)
(* handler just before, with one deadline for the whole loop.               *)
(***************************************************************************)

Enter(h, o) ==
  /\ pc[h] = "idle"
  /\ o \in Ops
  /\ pc' = [pc EXCEPT ![h] = "rlock"]
  /\ op' = [op EXCEPT ![h] = o]
  /\ UNCHANGED <<nodes, lockVars, index, node, expired, err, probeVars, sendVars,
                 asked, moveVars>>

BalanceAt(h) == Enter(h, "BalanceAt")
TransactionByHash(h) == Enter(h, "TransactionByHash")
TransactionReceipt(h) == Enter(h, "TransactionReceipt")
SendTransaction(h) == Enter(h, "SendTransaction")
BlockNumber(h) == Enter(h, "BlockNumber")

-----------------------------------------------------------------------------
(***************************************************************************)
(* The loop: take the read lock, read the item at the position, call it.    *)
(***************************************************************************)

TakeReadLock(h) ==
  /\ pc[h] = "rlock"
  /\ RLock(h)
  /\ pc' = [pc EXCEPT ![h] = "fetch"]
  /\ UNCHANGED <<nodes, handlerVars, probeVars, sendVars, asked, moveVars>>

Fetch(h) ==
  /\ pc[h] = "fetch"
  /\ h \in readers
  /\ node' = [node EXCEPT ![h] = nodes[index[h]]]
  /\ asked' = [asked EXCEPT ![h] = @ \cup {nodes[index[h]]}]
  /\ pc' = [pc EXCEPT ![h] = "call"]
  /\ UNCHANGED <<nodes, lockVars, op, index, expired, err, probeVars, sendVars, moveVars>>

(* The node takes the transaction into its pool, whatever kind of node it   *)
(* is.  The answer is still to come, and may never arrive.  A node may do   *)
(* so late: after the deadline, or even after the call has failed and the   *)
(* loop has gone on, while the request was still on its way.  The step then *)
(* says before the call fails what the node is going to do.                 *)
Accept(h) ==
  /\ pc[h] = "call"
  /\ op[h] = "SendTransaction"
  /\ accepted' = [accepted EXCEPT ![h] = @ \cup {node[h]}]
  /\ pc' = [pc EXCEPT ![h] = "sent"]
  /\ UNCHANGED <<nodes, lockVars, handlerVars, probeVars, lost, asked, moveVars>>

(* The node in flight returns its result.  It may refuse as known what it   *)
(* has from an earlier call; if that request is still on its way it takes   *)
(* this one.  A call whose deadline has passed returns an error.            *)
Answers(h) ==
  /\ Calling(h)
  /\ ~expired[h]
  /\ node[h] \in Answering
  /\ op[h] = "SendTransaction" <=> pc[h] = "sent"

KnownTransaction(h) ==
  pc[h] = "call" /\ node[h] \in accepted[h] \cap (Answering \cup Failing)

Fails(h) ==
  /\ Calling(h)
  /\ expired[h] \/ node[h] \in Failing \/ KnownTransaction(h)

(* Loop increment.  Mutated: the same position again after an error; or the *)
(* counter incremented in the body as well.                                 *)
SameIndex(h) == index[h]
SkipsOne(h) == index[h] + 2
NextIndex(h) == index[h] + 1

(* Loop condition.  Mutated: the last position is left out.                 *)
ForgetsLast(i) == i < N - 1
MoreNodes(i) == i < N

(* One context serves the whole loop.  Mutated: a new deadline per node.    *)
FreshDeadline(h) == [expired EXCEPT ![h] = FALSE]
SameDeadline(h) == expired

Advance(h) ==
  /\ index' = [index EXCEPT ![h] = NextIndex(h)]
  /\ expired' = SameDeadline(h)
  /\ pc' = [pc EXCEPT ![h] = IF MoreNodes(NextIndex(h)) THEN "rlock" ELSE "done"]

-----------------------------------------------------------------------------
(***************************************************************************)
(* The four failover operations after the node's answer.                    *)
(***************************************************************************)

(* increaseNodePriority returns at once for the head of the list.  Mutated: *)
(* an off-by-one that never lets a node reach the head.                     *)
NearHead(h) == index[h] <= 1
AtHead(h) == index[h] = 0

(* The loop assigns the named result err.  Mutated: err is declared again   *)
(* inside the loop, and the result keeps its zero value.                    *)
Shadowed(e) == "nil"
Assigned(e) == e

ReplyOK(h) ==
  /\ op[h] \in FailoverOps
  /\ Answers(h)
  /\ RUnlock(h)
  /\ err' = [err EXCEPT ![h] = Assigned("nil")]
  /\ lost' = [lost EXCEPT ![h] = @ \ {node[h]}]
  /\ pc' = [pc EXCEPT ![h] = IF AtHead(h) THEN "done" ELSE "lock"]
  /\ UNCHANGED <<nodes, op, index, node, expired, probeVars, accepted, asked, moveVars>>

ReplyErr(h) ==
  /\ op[h] \in FailoverOps
  /\ Fails(h)
  /\ RUnlock(h)
  /\ err' = [err EXCEPT ![h] = Assigned("err")]
  /\ lost' = [lost EXCEPT ![h] = @ \cup {n \in {node[h]} : pc[h] = "sent"}]
  /\ Advance(h)
  /\ UNCHANGED <<nodes, op, node, probeVars, accepted, asked, moveVars>>

(***************************************************************************)
(* increaseNodePriority: Lock, look again, swap, Unlock.                    *)
(***************************************************************************)

LockList(h) ==
  /\ pc[h] = "lock"
  /\ AnnounceLock(h)
  /\ pc' = [pc EXCEPT ![h] = "drain"]
  /\ UNCHANGED <<nodes, handlerVars, probeVars, sendVars, asked, moveVars>>

(* The list may have changed since the read lock was released.  Mutated:    *)
(* the position is taken on trust.                                          *)
TrustsPosition(h) == TRUE
StillThere(h) == nodes[index[h]] = node[h]

(* The parallel assignment of line 87.  Mutated: two assignments in a row,  *)
(* the second of which reads what the first wrote.                          *)
Overwritten(i) == [nodes EXCEPT ![i - 1] = nodes[i]]
Swapped(i) == [nodes EXCEPT ![i - 1] = nodes[i], ![i] = nodes[i - 1]]

(* Lock keeps the readers out.  Mutated: RLock is called in its place.      *)
SharedLock == TRUE
Exclusive == Drained

InLoop(h) == pc[h] \in {"rlock", "fetch", "call", "sent"}

Promote(h) ==
  /\ pc[h] = "drain"
  /\ Exclusive
  /\ Unlock
  /\ pc' = [pc EXCEPT ![h] = "done"]
  /\ \/ /\ StillThere(h)
        /\ nodes' = Swapped(index[h])
        /\ promoted' = [g \in Handlers |->
             promoted[g] \cup {n \in {nodes[index[h]]} : InLoop(g)}]
        /\ demoted' = [g \in Handlers |->
             demoted[g] \cup {n \in {nodes[index[h] - 1]} : InLoop(g)}]
     \/ /\ ~StillThere(h)
        /\ UNCHANGED <<nodes, moveVars>>
  /\ UNCHANGED <<handlerVars, probeVars, sendVars, asked>>

-----------------------------------------------------------------------------
(***************************************************************************)
(* The answer to a call of BlockNumber.                                     *)
(***************************************************************************)

(* After the last position the collected errors decide.                     *)
ProbeResult(h) ==
  IF MoreNodes(NextIndex(h)) THEN err[h] ELSE IF errStr'[h] THEN "err" ELSE "nil"

HeightOK(h) ==
  /\ op[h] = "BlockNumber"
  /\ Answers(h)
  /\ \E t \in Tips :
       /\ heights' = [heights EXCEPT ![h] = Append(@, t)]
       /\ errStr' = [errStr EXCEPT ![h] = @ \/ TipsDiffer(heights[h], t)]
  /\ RUnlock(h)
  /\ err' = [err EXCEPT ![h] = ProbeResult(h)]
  /\ Advance(h)
  /\ UNCHANGED <<nodes, op, node, sendVars, asked, moveVars>>

(* This path unlocks by hand before `continue`.  Mutated: it forgets to.    *)
KeepsReadLock(h) == UNCHANGED lockVars
ErrorUnlock(h) == RUnlock(h)

HeightErr(h) ==
  /\ op[h] = "BlockNumber"
  /\ Fails(h)
  /\ errStr' = [errStr EXCEPT ![h] = TRUE]
  /\ ErrorUnlock(h)
  /\ err' = [err EXCEPT ![h] = ProbeResult(h)]
  /\ Advance(h)
  /\ UNCHANGED <<nodes, op, node, heights, sendVars, asked, moveVars>>

-----------------------------------------------------------------------------
(* The operation returns to its HTTP handler.                               *)
Return(h) ==
  /\ pc[h] = "done"
  /\ pc' = [pc EXCEPT ![h] = "idle"]
  /\ op' = [op EXCEPT ![h] = "BalanceAt"]
  /\ index' = [index EXCEPT ![h] = 0]
  /\ node' = [node EXCEPT ![h] = 0]
  /\ expired' = [expired EXCEPT ![h] = FALSE]
  /\ err' = [err EXCEPT ![h] = "none"]
  /\ heights' = [heights EXCEPT ![h] = <<>>]
  /\ errStr' = [errStr EXCEPT ![h] = FALSE]
  /\ accepted' = [accepted EXCEPT ![h] = {}]
  /\ lost' = [lost EXCEPT ![h] = {}]
  /\ asked' = [asked EXCEPT ![h] = {}]
  /\ promoted' = [promoted EXCEPT ![h] = {}]
  /\ demoted' = [demoted EXCEPT ![h] = {}]
  /\ UNCHANGED <<nodes, lockVars>>

(* The deadline of the handler's context passes, at any moment of the loop. *)
(* Quick answers take no time: without a slow node no deadline is reached.  *)
Expire(h) ==
  /\ Slow # {}
  /\ InLoop(h)
  /\ ~expired[h]
  /\ expired' = [expired EXCEPT ![h] = TRUE]
  /\ UNCHANGED <<nodes, lockVars, pc, op, index, node, err, probeVars, sendVars,
                 asked, moveVars>>

-----------------------------------------------------------------------------
Call(h) ==
  \/ BalanceAt(h)
  \/ TransactionByHash(h)
  \/ TransactionReceipt(h)
  \/ SendTransaction(h)
  \/ BlockNumber(h)

Reply(h) == ReplyOK(h) \/ ReplyErr(h) \/ HeightOK(h) \/ HeightErr(h)

Next ==
  \E h \in Handlers :
    \/ Call(h)
    \/ TakeReadLock(h)
    \/ Fetch(h)
    \/ Accept(h)
    \/ Reply(h)
    \/ LockList(h)
    \/ Promote(h)
    \/ Return(h)
    \/ Expire(h)

Spec == Init /\ [][Next]_vars

(* A slow node owes nobody an answer: its calls end with the deadline.      *)
TimelyReply(h) == (node[h] \notin Slow \/ expired[h]) /\ Reply(h)

(***************************************************************************)
(* The Go scheduler runs every runnable goroutine, timers fire, and a       *)
(* goroutine that is always overtaken at Lock gets it in the end: sync.     *)
(* Mutex hands over to a waiter that has starved for a millisecond.         *)
(***************************************************************************)
Fairness ==
  \A h \in Handlers :
    /\ WF_vars(TakeReadLock(h))
    /\ WF_vars(Fetch(h))
    /\ WF_vars(node[h] \in Answering \ Slow /\ Accept(h))
    /\ WF_vars(TimelyReply(h))
    /\ SF_vars(LockList(h))
    /\ WF_vars(Promote(h))
    /\ WF_vars(Return(h))
    /\ WF_vars(Expire(h))

FairSpec == Spec /\ Fairness

(* ... and a client polls balances for ever.                                *)
LoadedSpec == FairSpec /\ \A h \in Handlers : WF_vars(BalanceAt(h))

-----------------------------------------------------------------------------
(***************************************************************************)
(* Safety properties.                                                       *)
(***************************************************************************)

(* Reordering never loses or duplicates a node: at any moment the list is a *)
(* permutation of the nodes the constructor connected (line 87).            *)
NoNodeLost ==
  /\ \A i, j \in Index : nodes[i] = nodes[j] => i = j
  /\ \A n \in Index : \E i \in Index : nodes[i] = n

(* The read lock is held from the moment a position may be read until the   *)
(* answer to the call is there, on every path of the five loops, and the    *)
(* handler that announced Lock is the one waiting to swap (lines 82-83,     *)
(* 94-97, 123-137).                                                         *)
LockDiscipline ==
  /\ readers \cap queued = {}
  /\ queued # {} => writer # NoHandler
  /\ \A h \in Handlers :
       /\ h \in readers \cup queued <=> pc[h] \in {"fetch", "call", "sent"}
       /\ h \in queued => pc[h] = "fetch"
       /\ writer = h <=> pc[h] = "drain"

(* While a node is being called the list stands still for the caller: the   *)
(* node in flight is at the position the loop reads, so what the probe      *)
(* reports about position i (lines 127, 134) is about the node it called.   *)
NodeStable == \A h \in Handlers : Calling(h) => nodes[index[h]] = node[h]

Failed(h) == pc[h] = "done" /\ err[h] = "err"

(* Concurrent promotions can move a node from ahead of a loop to behind it. *)
(* A node the loop has passed without calling it was promoted meanwhile; so *)
(* when the operation fails, a node it never asked is one that had          *)
(* just answered another request.                                           *)
NoSilentSkip ==
  \A h \in Handlers :
    /\ InLoop(h) => \A i \in Index : i < index[h] => nodes[i] \in asked[h] \cup promoted[h]
    /\ Failed(h) => asked[h] \cup promoted[h] = Index

(* An operation calls a node for the second time only if another request    *)
(* has moved the node down, to a position the loop had not reached.         *)
NoSilentRepeat ==
  \A h \in Handlers : pc[h] \in {"rlock", "fetch"} =>
    \A i \in Index : index[h] <= i /\ nodes[i] \in asked[h] => nodes[i] \in demoted[h]

(* SendTransaction tells the truth about the answers it got: it succeeds    *)
(* iff some node took the transaction and said so, and then it has stopped  *)
(* there.  Every other node that has the transaction is one whose answer    *)
(* was lost, and these the client is not told about.                        *)
SentIffAcknowledged ==
  \A h \in Handlers : pc[h] = "done" /\ op[h] = "SendTransaction" =>
    accepted[h] \ lost[h] = {n \in {node[h]} : err[h] = "nil"}

(* The probe's verdict depends on all the answers: it is healthy iff every  *)
(* position answered and no two neighbours differ by more than blockDiff.   *)
(* In particular blockheights[0] exists on line 142.                        *)
Near(a, b) == a <= b + blockDiff /\ b <= a + blockDiff
ProbeVerdict ==
  \A h \in Handlers : pc[h] = "done" /\ op[h] = "BlockNumber" =>
    (err[h] = "nil" <=>
       /\ Len(heights[h]) = N
       /\ \A i \in 1 .. N - 1 : Near(heights[h][i], heights[h][i + 1]))

(* One deadline serves the whole loop, so a node that never answers uses it *)
(* up.  With such a node at the head of the list no failover operation can  *)
(* succeed, and so nothing ever moves the node from the head.               *)
Hung == Slow \ (Answering \cup Failing)
HungHeadServesNothing ==
  0 \in Hung =>
    /\ nodes[0] = 0
    /\ \A h \in Handlers : op[h] \in FailoverOps => err[h] # "nil"

(***************************************************************************)
(* What a step may do to the list: nothing, or move one place up a node     *)
(* that has just answered a request, past the node directly before it.  The *)
(* node of a request whose position is stale stays where it is.             *)
(***************************************************************************)
PromotesServer(h) ==
  /\ pc[h] = "drain"
  /\ err[h] = "nil"
  /\ \E i \in Index \ {0} :
       /\ nodes[i] = node[h]
       /\ nodes' = [nodes EXCEPT ![i - 1] = nodes[i], ![i] = nodes[i - 1]]
PromotionEarned == [][nodes' # nodes => \E h \in Handlers : PromotesServer(h)]_vars

(***************************************************************************)
(* The client implements what module Failover promises: the order seen from *)
(* outside changes only through a query that succeeded.  A failed answer    *)
(* stays inside the loop, which is why the reply is hidden until the        *)
(* request is over.                                                         *)
(***************************************************************************)
Phase(h) ==
  IF InLoop(h) THEN IF op[h] = "BlockNumber" THEN "probing" ELSE "open"
  ELSE IF pc[h] \in {"lock", "drain"} THEN "served"
  ELSE IF pc[h] = "done" THEN "closed" ELSE "idle"

Server(h) == IF Phase(h) = "served" THEN node[h] ELSE 0
Result(h) == IF InLoop(h) THEN "none" ELSE err[h]

F == INSTANCE Failover WITH
  Nodes <- N,
  order <- nodes,
  phase <- [h \in Handlers |-> Phase(h)],
  server <- [h \in Handlers |-> Server(h)],
  reply <- [h \in Handlers |-> Result(h)]

ImplementsFailover == F!Spec

-----------------------------------------------------------------------------
(***************************************************************************)
(* What the liveness properties below rest on, as safety properties.        *)
(***************************************************************************)

(* What a handler can do next does not depend on another handler: the       *)
(* guards of its steps.  A slow node's call ends with the deadline.         *)
Able(h) ==
  \/ pc[h] \in {"rlock", "done"}
  \/ pc[h] = "fetch" /\ h \in readers
  \/ Calling(h) /\ (node[h] \in Answering \cup Failing \/ expired[h] \/ Slow # {})
  \/ pc[h] = "lock" /\ writer = NoHandler
  \/ pc[h] = "drain" /\ Drained

(* Nobody waits for the lock in vain: a handler that cannot go on waits for *)
(* one that holds the lock, or holds it announced, and that can.  So no     *)
(* circle of readers, writer and queue ever forms (lines 82-83, 94-137).    *)
LockIsPassedOn ==
  \A h \in Handlers : Busy(h) /\ ~Able(h) =>
    \E g \in Handlers \ {h} : g \in readers \cup {writer} /\ Able(g)

(* How many steps an operation has left, at most: four for each position    *)
(* and three for the promotion and the return.                              *)
Stage(h) ==
  CASE pc[h] = "rlock" -> 4 [] pc[h] = "fetch" -> 3 [] pc[h] = "call" -> 2 [] OTHER -> 1
StepsLeft(h) ==
  CASE pc[h] = "idle" -> 0
    [] InLoop(h) -> 4 * (N - 1 - index[h]) + Stage(h) + 3
    [] pc[h] = "lock" -> 3
    [] pc[h] = "drain" -> 2
    [] pc[h] = "done" -> 1

(* No step prolongs an operation that is under way, least of all one of     *)
(* another handler that reorders the list; each step of its own shortens    *)
(* it.  The deadline ends a call, and takes no step away.                   *)
OperationsWindDown ==
  [][\A h \in Handlers : Busy(h) =>
       StepsLeft(h)' < StepsLeft(h) \/ UNCHANGED <<pc[h], index[h]>>]_vars

(* A node that never answers does not overtake one that may, whatever the   *)
(* positions were when the answers came.                                    *)
ServersStayAhead ==
  [][\A i, j \in Index : i < j /\ nodes[i] \in Answering /\ nodes[j] \notin Answering =>
       \E k, l \in Index : k < l /\ nodes'[k] = nodes[i] /\ nodes'[l] = nodes[j]]_vars

(* If only one node answers, then when a request it has served returns the  *)
(* node is ahead of where the request found it, or at the head: a position  *)
(* that was stale for increaseNodePriority (line 84) costs it nothing.      *)
ServedMovesUp ==
  (\E n \in Index : Answering = {n}) =>
    \A h \in Handlers : pc[h] = "done" /\ op[h] \in FailoverOps /\ err[h] = "nil" =>
      \E i \in Index : nodes[i] = node[h] /\ (i < index[h] \/ i = 0)

-----------------------------------------------------------------------------
(***************************************************************************)
(* Liveness properties.                                                     *)
(***************************************************************************)

(* Readers, the waiting writer and the queue behind it never block each     *)
(* other for good: every operation returns, if need be with the deadline.   *)
EveryOperationReturns == \A h \in Handlers : Busy(h) ~> ~Busy(h)

(* If some nodes always answer and the others always fail at once, then     *)
(* under load the head of the list becomes, and stays, one that answers.    *)
ReliableHeadEventually == <>[](nodes[0] \in Answering)

-----------------------------------------------------------------------------
(***************************************************************************)
(* What the comments of the program say and the program does not do.        *)
(***************************************************************************)

(* Line 115: BlockNumber "will return and error if the connected Ethereum   *)
(* nodes report block heights with disparity grater then the blockDiff      *)
(* limit" -- whichever two nodes these are.                                 *)
AnyDisparityReported ==
  \A h \in Handlers : pc[h] = "done" /\ op[h] = "BlockNumber" /\ err[h] = "nil" =>
    \A i, j \in 1 .. Len(heights[h]) : Near(heights[h][i], heights[h][j])

(* proxy/api.go:67: Health, through BlockNumber, "ensures that the          *)
(* connected geth execution clients are ready": all of them are asked.      *)
HealthyMeansAllAsked ==
  \A h \in Handlers : pc[h] = "done" /\ op[h] = "BlockNumber" /\ err[h] = "nil" =>
    asked[h] = Index
=============================================================================
