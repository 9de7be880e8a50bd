---------------------------- MODULE ProxyClient ----------------------------
(***************************************************************************)
(* The Go client (client/client.go) and the service it calls.  Every call   *)
(* is one request: executeRequest sends it, decodes the response into a     *)
(* channel of capacity 1, and then selects between the channel and the      *)
(* caller's context.  Calls run concurrently.                               *)
(*                                                                          *)
(* executeRequest takes any path and method, as the tests use it; the six   *)
(* operations of Client only choose these and the type of the result.       *)
(***************************************************************************)
EXTENDS Api

VARIABLES
  call,        \* "new", "sent", "decoding", "waiting" or "returned"
  ctx,         \* has the caller's context been cancelled, or expired?
  resp,        \* what is in the channel op.resp: "none", "ok", "message", "empty"
  answer       \* what the call returned

callVars == <<call, ctx, resp, answer>>
clientVars == <<apiVars, callVars>>

(* A result; an error with the proxy's text; one with an empty text;        *)
(* ErrMethodNotAllowed; the context's error; an error of the connection.    *)
Answers == {"ok", "message", "empty", "method", "timeout", "failed"}

CallTypeOK ==
  /\ ApiTypeOK
  /\ call \in [Requests -> {"new", "sent", "decoding", "waiting", "returned"}]
  /\ ctx \in [Requests -> BOOLEAN]
  /\ resp \in [Requests -> {"none", "ok", "message", "empty"}]
  /\ answer \in [Requests -> Answers \cup {"none"}]

CallInit ==
  /\ ApiInit
  /\ call = [r \in Requests |-> "new"]
  /\ ctx = [r \in Requests |-> FALSE]
  /\ resp = [r \in Requests |-> "none"]
  /\ answer = [r \in Requests |-> "none"]

-----------------------------------------------------------------------------
(* The caller's context ends whenever the caller pleases, or never.         *)
ContextDone(r) ==
  /\ ~ctx[r]
  /\ call[r] # "returned"
  /\ ctx' = [ctx EXCEPT ![r] = TRUE]
  /\ UNCHANGED <<apiVars, call, resp, answer>>

Return(r, a) ==
  /\ call' = [call EXCEPT ![r] = "returned"]
  /\ answer' = [answer EXCEPT ![r] = a]
  /\ UNCHANGED <<ctx, resp>>

(***************************************************************************)
(* doRequest.  Do looks at the context before it connects, and again while  *)
(* it waits; giving up closes the connection, which no handler notices.     *)
(***************************************************************************)

Send(r) ==
  /\ call[r] = "new"
  /\ ~ctx[r]
  /\ Arrive(r)
  /\ call' = [call EXCEPT ![r] = "sent"]
  /\ UNCHANGED <<ctx, resp, answer>>

(* Do finds the context over; or the transaction cannot be encoded, or the  *)
(* proxy not be reached.                                                    *)
CannotSend(r) ==
  /\ call[r] = "new"
  /\ \/ ctx[r] /\ Return(r, "timeout")
     \/ Return(r, "failed")
  /\ UNCHANGED apiVars

(* net/http keeps a response in its buffer until the handler has returned,  *)
(* if it fits.                                                              *)
Flushed(r) ==
  /\ wire[r] # Unwritten
  /\ stage[r] \in {"done", "unrouted"} \/ Outgrows(r, wire[r].code)

Receive(r) ==
  /\ call[r] = "sent"
  /\ conn[r] = "open"
  /\ Flushed(r)
  /\ call' = [call EXCEPT ![r] = "decoding"]
  /\ UNCHANGED <<apiVars, ctx, resp, answer>>

GiveUp(r) ==
  /\ call[r] = "sent"
  /\ ctx[r]
  /\ Return(r, "timeout")
  /\ conn' = [conn EXCEPT ![r] = "gone"]
  /\ UNCHANGED <<stage, fixedVars, wire, recorder, logVars, outcome>>

ConnectionLost(r) ==
  /\ call[r] = "sent"
  /\ conn[r] = "gone"
  /\ Return(r, "failed")
  /\ UNCHANGED apiVars

-----------------------------------------------------------------------------
(***************************************************************************)
(* sendHTTP after Do: the status code decides what the body is decoded as.  *)
(* Reading the body may still fail with the context or the connection.      *)
(***************************************************************************)

(* Mutated: an off-by-one, so that 400 passes for success.                  *)
AboveBadRequest(c) == c > 400
IsError(c) == c >= 400

(* Mutated: the text of the router is taken for a JSONError.                *)
NeverRefused(c) == FALSE
IsNotAllowed(c) == c = 405

MethodNotAllowed(r) ==
  /\ call[r] = "decoding"
  /\ IsNotAllowed(wire[r].code)
  /\ Return(r, "method")
  /\ UNCHANGED apiVars

(* What a body decodes to.  Any JSON object is a JSONError to the decoder;  *)
(* one without the field `error`, as Health sends with 503, has no text.    *)
Decoded(r) ==
  IF ~IsError(wire[r].code) THEN "ok"
  ELSE IF wire[r].body = "JSONError" THEN "message" ELSE "empty"

Decodable(r) == wire[r].body # "text"

BodyLost(r) ==
  /\ call[r] = "decoding"
  /\ ~IsNotAllowed(wire[r].code)
  /\ \/ ctx[r] /\ Return(r, "timeout")
     \/ (conn[r] = "gone" \/ ~Decodable(r)) /\ Return(r, "failed")
  /\ UNCHANGED apiVars

(* op.resp <- res has room.  Mutated: the channel has no buffer, and the    *)
(* goroutine that sends is the one that would receive.                      *)
Unbuffered(r) == FALSE
Room(r) == resp[r] = "none"

Deliver(r) ==
  /\ call[r] = "decoding"
  /\ ~IsNotAllowed(wire[r].code)
  /\ Decodable(r)
  /\ Room(r)
  /\ resp' = [resp EXCEPT ![r] = Decoded(r)]
  /\ call' = [call EXCEPT ![r] = "waiting"]
  /\ UNCHANGED <<apiVars, ctx, answer>>

(***************************************************************************)
(* wait: with both channels ready, select takes either.                     *)
(***************************************************************************)

WaitTimeout(r) ==
  /\ call[r] = "waiting"
  /\ ctx[r]
  /\ Return(r, "timeout")
  /\ UNCHANGED apiVars

WaitResponse(r) ==
  /\ call[r] = "waiting"
  /\ resp[r] # "none"
  /\ call' = [call EXCEPT ![r] = "returned"]
  /\ answer' = [answer EXCEPT ![r] = resp[r]]
  /\ resp' = [resp EXCEPT ![r] = "none"]
  /\ UNCHANGED <<apiVars, ctx>>

-----------------------------------------------------------------------------
(* What the goroutine of a call does by itself, once the call is made.      *)
Proceed(r) ==
  \/ Receive(r)
  \/ GiveUp(r)
  \/ ConnectionLost(r)
  \/ MethodNotAllowed(r)
  \/ BodyLost(r)
  \/ Deliver(r)
  \/ WaitTimeout(r)
  \/ WaitResponse(r)

(* A call of one of the six operations, from its start to its return.       *)
Caller(r) == Send(r) \/ CannotSend(r) \/ ContextDone(r) \/ Proceed(r)

Network(r) == call[r] # "returned" /\ Disconnect(r) /\ UNCHANGED callVars
Server(r) == Handle(r) /\ UNCHANGED callVars

CallNext ==
  \E r \in Requests :
    \/ Caller(r)
    \/ Network(r)
    \/ Server(r)
    \/ (Accept(r) \/ ClientReturns(r)) /\ UNCHANGED callVars

CallSpec == CallInit /\ [][CallNext]_clientVars

-----------------------------------------------------------------------------
(* A call keeps what module RemoteCall promises, whatever the connection    *)
(* and the context do.  An operation is begun when a handler calls the      *)
(* Ethereum client.  An error of that client is a failure, and no more: a   *)
(* transaction may be with a node whose answer was lost.  It reaches the    *)
(* caller under a text of its own, "eth client error", unlike the refusal   *)
(* of an input.  After "timeout" and "failed" the handler may still go on.  *)
Begun(r) == stage[r] = "client" \/ outcome[r] # "none"

Settled(r) ==
  IF outcome[r] = "ok" \/ (endpoint[r] = "Status" /\ wire[r].code = 200) THEN "done"
  ELSE IF outcome[r] # "none" THEN "failed"
  ELSE IF wire[r] # Unwritten THEN "refused" ELSE "open"

Told(r) ==
  CASE answer[r] = "none" -> "nothing"
    [] answer[r] = "ok" -> "done"
    [] answer[r] = "method" -> "refused"
    [] answer[r] = "message" -> IF wire[r].code = 400 THEN "refused" ELSE "failed"
    [] answer[r] = "empty" -> "failed"
    [] answer[r] \in {"timeout", "failed"} -> "unknown"

R == INSTANCE RemoteCall WITH
  Calls <- Requests,
  begun <- [r \in Requests |-> Begun(r)],
  settled <- [r \in Requests |-> Settled(r)],
  told <- [r \in Requests |-> Told(r)]

ImplementsRemoteCall == R!Spec

(* An error of a call says what went wrong: it has a text, except that the  *)
(* failures Health lists never reach the caller, since the client decodes   *)
(* the response as a JSONError (client.go:142).                             *)
OnlyHealthIsMute ==
  \A r \in Requests :
    /\ answer[r] = "empty" => endpoint[r] = "Health" /\ wire[r].code = 503
    /\ answer[r] = "message" => wire[r].code # 503

(* A call is only ever given up for a reason of its own: the context's      *)
(* error comes from a context that has ended, and any other error without   *)
(* an answer of the proxy from a connection that was refused or lost.       *)
NoAnswerThrownAway ==
  \A r \in Requests :
    /\ answer[r] = "timeout" => ctx[r]
    /\ answer[r] = "failed" => conn[r] # "open"
=============================================================================
