------------------------------ MODULE EthProxy ------------------------------
(***************************************************************************)
(* The whole path of a call: the Go client, the handlers, and the           *)
(* multi-node client that the handlers of all requests share.  A handler    *)
(* calls the multi-node client once, and its outcome is what that returns.  *)
(***************************************************************************)
EXTENDS ProxyClient

CONSTANTS N, Answering, Failing, Slow, Tips, Modulus

VARIABLES
  nodes, writer, readers, queued, pc, op, index, node, expired, err, heights, errStr,
  accepted, lost, asked, promoted, demoted,     \* of MultiNodeClient
  taken,       \* history: nodes that took the transaction of a call that is over
  unheard,     \* history: ... and whose answer was lost
  reported     \* history: the block heights that a probe that is over was given

Ops == {"BlockNumber", "BalanceAt", "TransactionByHash", "TransactionReceipt", "SendTransaction"}

Nodes == INSTANCE MultiNodeClient WITH Handlers <- Requests, NoHandler <- Nobody

ASSUME ClusterAssumption ==
  /\ N \in Nat \ {0}
  /\ Nodes!Index = Answering \cup Failing \cup Slow
  /\ Modulus \in Nat \ {0}
  /\ Tips \subseteq Nodes!Uint

history == <<taken, unheard, reported>>
nodeVars == <<nodes, writer, readers, queued, pc, op, index, node, expired, err,
              heights, errStr, accepted, lost, asked, promoted, demoted>>
vars == <<clientVars, nodeVars, history>>

Init ==
  /\ CallInit
  /\ Nodes!Init
  /\ taken = [r \in Requests |-> {}]
  /\ unheard = [r \in Requests |-> {}]
  /\ reported = [r \in Requests |-> <<>>]

(* The operation of SimpleEthClient that the handler of an endpoint calls.  *)
Operation(e) ==
  CASE e = "Health" -> "BlockNumber"
    [] e = "Balance" -> "BalanceAt"
    [] e = "Tx" -> "TransactionByHash"
    [] e = "TxReceipt" -> "TransactionReceipt"
    [] e = "SendTx" -> "SendTransaction"

CallNodes(r) ==
  /\ Accept(r)
  /\ Nodes!Enter(r, Operation(endpoint[r]))
  /\ UNCHANGED <<callVars, history>>

(* The error of the multi-node client is the outcome of the handler's call. *)
(* Mutated: the handler of SendTx ignores it.                               *)
IgnoresError(r) == TRUE
NoErr(r) == err[r] = "nil"

NodesReturn(r) ==
  /\ ClientReturns(r)
  /\ outcome'[r] # "err" <=> NoErr(r)
  /\ Nodes!Return(r)
  /\ taken' = [taken EXCEPT ![r] = accepted[r]]
  /\ unheard' = [unheard EXCEPT ![r] = lost[r]]
  /\ reported' = [reported EXCEPT ![r] = heights[r]]
  /\ UNCHANGED callVars

(* A step of the multi-node client inside an operation.                     *)
InNodes(r) ==
  /\ \/ Nodes!TakeReadLock(r)
     \/ Nodes!Fetch(r)
     \/ Nodes!Accept(r)
     \/ Nodes!Reply(r)
     \/ Nodes!LockList(r)
     \/ Nodes!Promote(r)
     \/ Nodes!Expire(r)
  /\ UNCHANGED <<clientVars, history>>

Elsewhere(r) ==
  /\ Caller(r) \/ Network(r) \/ Server(r)
  /\ UNCHANGED <<nodeVars, history>>

Next ==
  \E r \in Requests :
    CallNodes(r) \/ InNodes(r) \/ NodesReturn(r) \/ Elsewhere(r)

Spec == Init /\ [][Next]_vars

(***************************************************************************)
(* What happens without anybody's doing.  A handler runs once its request   *)
(* has arrived, and its deadline passes; a slow node owes it no answer      *)
(* before that.  The response of an open connection arrives, and a broken   *)
(* one is noticed (TCP keeps it alive, or finds it dead).  The caller's own *)
(* context need never end.                                                  *)
(***************************************************************************)
HandlerStep(r) ==
  \/ CallNodes(r)
  \/ NodesReturn(r)
  \/ Server(r) /\ UNCHANGED <<nodeVars, history>>
  \/ /\ \/ Nodes!TakeReadLock(r)
        \/ Nodes!Fetch(r)
        \/ node[r] \in Answering \ Slow /\ Nodes!Accept(r)
        \/ Nodes!TimelyReply(r)
        \/ Nodes!LockList(r)
        \/ Nodes!Promote(r)
        \/ Nodes!Expire(r)
     /\ UNCHANGED <<clientVars, history>>

CallerStep(r) == Proceed(r) /\ UNCHANGED <<nodeVars, history>>

(* The requests of a run are finitely many and a handler's loop is bounded, *)
(* so it is enough that, as long as somebody can go on, somebody does.      *)
Progress ==
  \E r \in Requests :
    CallerStep(r) \/ ((stage[r] # "new" \/ conn[r] = "open") /\ HandlerStep(r))

Fairness == WF_vars(Progress)

FairSpec == Spec /\ Fairness

-----------------------------------------------------------------------------
(* What the caller of SendTransaction is told is the truth about the nodes, *)
(* whatever is reordered, lost or late on the way: a success means that a   *)
(* node has acknowledged the transaction; after an error of the proxy only  *)
(* nodes whose answer was lost can have it; and one that was refused before *)
(* it came to the nodes is with none.                                       *)
SendIsTold ==
  \A r \in Requests : endpoint[r] = "SendTx" =>
    /\ answer[r] = "ok" => taken[r] \ unheard[r] # {}
    /\ answer[r] = "message" => taken[r] \subseteq unheard[r] /\ pc[r] = "idle"
    /\ wire[r].code \in {400, 405} => asked[r] = {} /\ taken[r] = {}

(* What the caller of Health is told is the truth about the whole list:     *)
(* healthy iff every position of the list was asked and gave a height, and  *)
(* no two neighbours lay further apart than blockDiff.                      *)
Agreeing(s) == Len(s) = N /\ \A k \in 1 .. N - 1 : Nodes!Near(s[k], s[k + 1])
HealthIsTold ==
  \A r \in Requests : endpoint[r] = "Health" =>
    /\ answer[r] = "ok" => Agreeing(reported[r])
    /\ answer[r] = "empty" => ~Agreeing(reported[r])

(* A handler that has answered is out of the multi-node client: none of the *)
(* locks that other requests need is left with it, whether its caller is    *)
(* still there or not.                                                      *)
NothingLeftBehind ==
  \A r \in Requests : stage[r] # "client" =>
    pc[r] = "idle" /\ r \notin readers \cup queued /\ writer # r

(* Callers, handlers and the lock of the multi-node client never wait for   *)
(* each other in a circle: a call that is under way goes on, unless it      *)
(* waits for its handler; and the handler goes on, unless it waits for one  *)
(* that has the lock and goes on.  Nobody here waits for the nodes longer   *)
(* than the deadline, or for the caller's context, which may never end.     *)
CallerAble(r) ==
  \/ call[r] = "sent" /\ (ctx[r] \/ conn[r] = "gone" \/ Flushed(r))
  \/ /\ call[r] = "decoding"
     /\ \/ IsNotAllowed(wire[r].code) \/ Room(r) \/ ~Decodable(r)
        \/ ctx[r] \/ conn[r] = "gone"
  \/ call[r] = "waiting" /\ (ctx[r] \/ resp[r] # "none")

InClientAble(r) == stage[r] = "client" /\ Nodes!Able(r)
HandlerAble(r) == Delivered(r) \/ stage[r] \in {"respond", "merge", "emit"} \/ InClientAble(r)

NobodyHangs ==
  \A r \in Requests : call[r] \notin {"new", "returned"} /\ ~CallerAble(r) =>
    \/ HandlerAble(r)
    \/ \E q \in Requests \ {r} : q \in readers \cup {writer} /\ InClientAble(q)

(* How much may still happen to a request: to its call, in its handler, to  *)
(* its connection and to its caller's context.                              *)
CallLeft(r) ==
  CASE call[r] = "new" -> 4
    [] call[r] = "sent" -> 3
    [] call[r] = "decoding" -> 2
    [] call[r] = "waiting" -> 1
    [] call[r] = "returned" -> 0
HandlerLeft(r) ==
  CASE stage[r] = "new" -> 4 * N + 9
    [] stage[r] = "client" -> Nodes!StepsLeft(r) + 4 + (IF expired[r] THEN 0 ELSE 1)
    [] stage[r] = "respond" -> 3
    [] stage[r] = "merge" -> 2
    [] stage[r] = "emit" -> 1
    [] stage[r] \in {"done", "unrouted"} -> 0
OthersLeft(r) ==
  (IF ctx[r] THEN 0 ELSE 1) + (IF conn[r] = "none" THEN 2 ELSE IF conn[r] = "open" THEN 1 ELSE 0)
Left(r) == CallLeft(r) + HandlerLeft(r) + OthersLeft(r)

(* Nothing is ever tried again or put off: every step brings one request    *)
(* nearer to its end and none further from it, least of all one that        *)
(* reorders the list under a loop.                                          *)
EveryStepCounts ==
  [][\E r \in Requests : Left(r)' < Left(r) /\ \A q \in Requests \ {r} : Left(q)' = Left(q)]_vars

(* A call without a deadline of its own returns: the deadline of the        *)
(* handler covers nodes that hang, nobody waits for ever for the lock or    *)
(* for op.resp, and a broken connection is an answer too.                   *)
EveryCallReturns == \A r \in Requests : call[r] # "new" ~> call[r] = "returned"
=============================================================================
