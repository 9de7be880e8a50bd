------------------------- MODULE ProxyClientProofs -------------------------
(***************************************************************************)
(* The Go client tells its callers the truth, for any number of concurrent  *)
(* calls: module ProxyClient implements module RemoteCall.                  *)
(***************************************************************************)
EXTENDS ProxyClient, ApiProofs

(***************************************************************************)
(* The inductive invariant: where a call can be while its request is where  *)
(* it is, and what an answer is worth.                                      *)
(***************************************************************************)

CallAt(r) ==
  /\ call[r] = "new" => conn[r] = "none"
  /\ call[r] \notin {"new", "returned"} => conn[r] # "none"
  /\ call[r] \in {"decoding", "waiting"} => wire[r] # Unwritten
  /\ call[r] = "waiting" => resp[r] = Decoded(r) /\ ~IsNotAllowed(wire[r].code)
  /\ call[r] \in {"new", "sent", "decoding"} => resp[r] = "none"
  /\ call[r] # "returned" <=> answer[r] = "none"

AnswerIs(r) ==
  /\ answer[r] \in {"ok", "message", "empty"} =>
       wire[r] # Unwritten /\ ~IsNotAllowed(wire[r].code) /\ answer[r] = Decoded(r)
  /\ answer[r] = "method" => IsNotAllowed(wire[r].code)
  /\ answer[r] = "timeout" => ctx[r]
  /\ answer[r] = "failed" => conn[r] # "open" /\ call[r] = "returned"

CallInv == CallTypeOK /\ ApiInv /\ \A r \in Requests : CallAt(r) /\ AnswerIs(r)

(* At first no call has been made.                                          *)
LEMMA InitCall == CallInit => CallInv
<1> SUFFICES ASSUME CallInit PROVE CallInv
  OBVIOUS
<1>1. ApiInv
  BY InitApi DEF CallInit
<1>2. CallTypeOK
  BY <1>1 DEF CallInit, CallTypeOK, ApiInv, Answers
<1>3. \A r \in Requests : CallAt(r) /\ AnswerIs(r)
  BY DEF CallInit, ApiInit, CallAt, AnswerIs
<1> QED
  BY <1>1, <1>2, <1>3 DEF CallInv

(* What is on the wire once it is written, as the client sees it.           *)
LEMMA WireFacts ==
  ASSUME CallInv, NEW r \in Requests, wire[r] # Unwritten
  PROVE  /\ IsNotAllowed(wire[r].code) <=> wire[r].body = "text"
         /\ IsNotAllowed(wire[r].code) => outcome[r] = "none"
         /\ wire[r].code \in {200, 400, 404, 405, 500, 503}
         /\ ~IsNotAllowed(wire[r].code) =>
              Decoded(r) = IF wire[r].code = 200 THEN "ok"
                           ELSE IF wire[r].code = 503 THEN "empty" ELSE "message"
         /\ wire[r].code = 503 => endpoint[r] = "Health" /\ outcome[r] = "err"
         /\ wire[r].code = 200 => outcome[r] = "ok" \/ endpoint[r] = "Status"
         /\ outcome[r] = "ok" \/ (endpoint[r] = "Status" /\ ~IsNotAllowed(wire[r].code)) =>
              wire[r].code = 200
         /\ ~IsNotAllowed(wire[r].code) =>
              (wire[r].code = 400 <=> outcome[r] = "none" /\ endpoint[r] # "Status")
<1>1. Served(r) \/ stage[r] = "unrouted"
  BY DEF CallInv, ApiInv, ApiTypeOK, ServedInv, Silent, Served, Stages
<1>2. CASE stage[r] = "unrouted"
  BY <1>2 DEF CallInv, ApiInv, ServedInv, IsNotAllowed, Served
<1>3. CASE Served(r)
  BY <1>3 DEF CallInv, ApiInv, ServedInv, IsNotAllowed, IsError, Decoded
<1> QED
  BY <1>1, <1>2, <1>3

-----------------------------------------------------------------------------
(***************************************************************************)
(* The steps.  A step is one of the proxy's, or one of a caller, which      *)
(* leaves everything of the proxy alone but the connection.                 *)
(***************************************************************************)

ProxyStep(r) == (Handle(r) \/ Accept(r) \/ ClientReturns(r) \/ Network(r)) /\ UNCHANGED callVars

(* What the steps of a caller leave alone.                                  *)
LEMMA CallerFootprint ==
  ASSUME CallInv, NEW r \in Requests, Caller(r)
  PROVE  /\ UNCHANGED <<stage, endpoint, method, wire, recorder, entry, log, merged, outcome>>
         /\ [ApiNext]_apiVars
<1>1. CASE Send(r)
  BY <1>1 DEF Send, Arrive, ApiNext, fixedVars, logVars
<1>2. CASE GiveUp(r)
  <2>1. /\ UNCHANGED <<stage, endpoint, method, wire, recorder, entry, log, merged, outcome>>
        /\ conn' = [conn EXCEPT ![r] = "gone"] /\ conn[r] # "none"
    BY <1>2 DEF GiveUp, fixedVars, logVars, CallInv, CallAt
  <2>2. CASE conn[r] = "open"
    <3>1. Disconnect(r)
      BY <2>1, <2>2 DEF Disconnect, fixedVars, logVars
    <3> QED
      BY <2>1, <3>1 DEF ApiNext
  <2>3. CASE conn[r] = "gone"
    <3>1. UNCHANGED conn
      BY <2>1, <2>3 DEF CallInv, ApiInv, ApiTypeOK
    <3> QED
      BY <2>1, <3>1 DEF apiVars, fixedVars, logVars
  <2> QED
    BY <2>1, <2>2, <2>3 DEF CallInv, ApiInv, ApiTypeOK
<1>3. CASE \/ CannotSend(r) \/ ContextDone(r) \/ Receive(r) \/ ConnectionLost(r)
           \/ MethodNotAllowed(r) \/ BodyLost(r) \/ Deliver(r) \/ WaitTimeout(r) \/ WaitResponse(r)
  <2>1. UNCHANGED apiVars
    BY <1>3 DEF CannotSend, ContextDone, Receive, ConnectionLost, MethodNotAllowed, BodyLost,
                Deliver, WaitTimeout, WaitResponse
  <2> QED
    BY <2>1 DEF apiVars, fixedVars, logVars
<1> QED
  BY <1>1, <1>2, <1>3 DEF Caller, Proceed

(* Every step of the Go client is one of an HTTP client, or none.           *)
LEMMA CallStepIsApiStep ==
  ASSUME CallInv, [CallNext]_clientVars
  PROVE  [ApiNext]_apiVars
<1>1. CASE UNCHANGED clientVars
  BY <1>1 DEF clientVars
<1>2. ASSUME NEW r \in Requests, Caller(r)
      PROVE  [ApiNext]_apiVars
  BY <1>2, CallerFootprint
<1> QED
  BY <1>1, <1>2 DEF CallNext, ApiNext, Server, Network

(* What a step of the proxy does to the calls: their requests go on, and    *)
(* what the calls know already stays as it is.                              *)
LEMMA ProxyStepKeeps ==
  ASSUME CallInv, NEW p \in Requests, ProxyStep(p), ApiInv'
  PROVE  CallInv'
<1>1. UNCHANGED <<call, ctx, resp, answer, endpoint>>
  BY HandlerFootprint DEF ProxyStep, callVars, Network, Disconnect, CallInv, fixedVars
<1>2. CallTypeOK'
  BY <1>1 DEF CallInv, CallTypeOK, ApiInv
<1>3. ASSUME NEW r \in Requests
      PROVE  /\ wire[r] # Unwritten => wire'[r] = wire[r]
             /\ conn[r] = conn'[r] \/ (conn[r] = "open" /\ conn'[r] = "gone")
  <2>1. CASE Network(p)
    BY <2>1 DEF Network, Disconnect, CallInv, ApiInv, ApiTypeOK
  <2>2. CASE Handle(p) \/ Accept(p) \/ ClientReturns(p)
    BY <2>2, HandlerFootprint DEF CallInv
  <2> QED
    BY <2>1, <2>2 DEF ProxyStep
<1>4. ASSUME NEW r \in Requests
      PROVE  (CallAt(r) /\ AnswerIs(r))'
  <2>1. wire[r] # Unwritten => Decoded(r)' = Decoded(r)
    BY <1>3 DEF Decoded
  <2>2. IsNotAllowed(wire[r].code) => wire[r] # Unwritten
    BY DEF IsNotAllowed, Unwritten
  <2> QED
    BY <1>1, <1>3, <2>1, <2>2 DEF CallInv, CallAt, AnswerIs
<1> QED
  BY <1>2, <1>4 DEF CallInv

(* What a step of a caller does to its own call, and to the others.         *)
LEMMA CallerStepKeeps ==
  ASSUME CallInv, NEW p \in Requests, Caller(p), ApiInv'
  PROVE  CallInv'
<1>1. UNCHANGED <<wire, endpoint, outcome>>
  BY CallerFootprint
<1> USE DEF Return
<1>2. CallTypeOK'
  <2>1. /\ call' \in [Requests -> {"new", "sent", "decoding", "waiting", "returned"}]
        /\ ctx' \in [Requests -> BOOLEAN]
    BY DEF CallInv, CallTypeOK, Caller, Proceed, Send, CannotSend, ContextDone, Receive, GiveUp,
           ConnectionLost, MethodNotAllowed, BodyLost, Deliver, WaitTimeout, WaitResponse
  <2>2. resp' \in [Requests -> {"none", "ok", "message", "empty"}]
    BY DEF CallInv, CallTypeOK, Caller, Proceed, Send, CannotSend, ContextDone, Receive, GiveUp,
           ConnectionLost, MethodNotAllowed, BodyLost, Deliver, WaitTimeout, WaitResponse, Decoded
  <2>3. answer' \in [Requests -> Answers \cup {"none"}]
    BY DEF CallInv, CallTypeOK, Caller, Proceed, Send, CannotSend, ContextDone, Receive, GiveUp,
           ConnectionLost, MethodNotAllowed, BodyLost, Deliver, WaitTimeout, WaitResponse, Answers
  <2> QED
    BY <2>1, <2>2, <2>3 DEF CallTypeOK, ApiInv
<1>3. ASSUME NEW q \in Requests \ {p}
      PROVE  (CallAt(q) /\ AnswerIs(q))'
  <2>1. /\ call'[q] = call[q] /\ ctx'[q] = ctx[q] /\ resp'[q] = resp[q] /\ answer'[q] = answer[q]
        /\ conn'[q] = conn[q]
    BY DEF CallInv, CallTypeOK, ApiTypeOK, Caller, Proceed, Send, Arrive, CannotSend, ContextDone,
           Receive, GiveUp, ConnectionLost, MethodNotAllowed, BodyLost, Deliver, WaitTimeout,
           WaitResponse, apiVars
  <2> QED
    BY <1>1, <2>1 DEF CallInv, CallAt, AnswerIs, Decoded
<1>4. (CallAt(p) /\ AnswerIs(p))'
  <2> USE DEF CallInv, CallTypeOK, ApiTypeOK, CallAt, AnswerIs, apiVars
  <2>1. CASE Send(p)
    BY <1>1, <2>1 DEF Send, Arrive
  <2>2. CASE CannotSend(p)
    BY <1>1, <2>2 DEF CannotSend
  <2>3. CASE ContextDone(p)
    BY <1>1, <2>3 DEF ContextDone, Decoded
  <2>4. CASE Receive(p)
    BY <1>1, <2>4 DEF Receive, Flushed
  <2>5. CASE GiveUp(p)
    BY <1>1, <2>5 DEF GiveUp
  <2>6. CASE ConnectionLost(p)
    BY <1>1, <2>6 DEF ConnectionLost
  <2>7. CASE MethodNotAllowed(p)
    BY <1>1, <2>7 DEF MethodNotAllowed
  <2>8. CASE BodyLost(p)
    <3>1. Decodable(p)
      BY <2>8, WireFacts DEF BodyLost, Decodable
    <3> QED
      BY <1>1, <2>8, <3>1 DEF BodyLost
  <2>9. CASE Deliver(p)
    BY <1>1, <2>9 DEF Deliver, Decoded
  <2>10. CASE WaitTimeout(p)
    BY <1>1, <2>10 DEF WaitTimeout
  <2>11. CASE WaitResponse(p)
    BY <1>1, <2>11 DEF WaitResponse, Decoded
  <2> QED
    BY <2>1, <2>2, <2>3, <2>4, <2>5, <2>6, <2>7, <2>8, <2>9, <2>10, <2>11 DEF Caller, Proceed
<1> QED
  BY <1>2, <1>3, <1>4 DEF CallInv

(* Every step keeps the invariant of the calls.                             *)
LEMMA CallStep ==
  ASSUME CallInv, [CallNext]_clientVars
  PROVE  CallInv'
<1>1. ApiInv'
  BY CallStepIsApiStep, ApiStep DEF CallInv
<1>2. CASE UNCHANGED clientVars
  <2>1. UNCHANGED <<conn, wire, endpoint, call, ctx, resp, answer>>
    BY <1>2 DEF clientVars, apiVars, fixedVars, callVars
  <2> QED
    BY <1>1, <2>1 DEF CallInv, CallTypeOK, ApiInv, CallAt, AnswerIs, Decoded
<1>3. ASSUME NEW r \in Requests, Caller(r)
      PROVE  CallInv'
  BY <1>1, <1>3, CallerStepKeeps
<1>4. ASSUME NEW r \in Requests, ProxyStep(r)
      PROVE  CallInv'
  BY <1>1, <1>4, ProxyStepKeeps
<1> QED
  BY <1>2, <1>3, <1>4 DEF CallNext, ProxyStep, Server, Network

-----------------------------------------------------------------------------
(***************************************************************************)
(* The theorems.                                                            *)
(***************************************************************************)

(* The inductive invariant holds in every state that can be reached.        *)
THEOREM CallInvariance == CallSpec => []CallInv
<1>1. CallInv /\ [CallNext]_clientVars => CallInv'
  BY CallStep
<1> QED
  BY InitCall, <1>1, PTL DEF CallSpec

(* Seen from the proxy the Go client is one of the HTTP clients it serves.  *)
THEOREM CallersAreHTTPClients == CallSpec => ApiSpec
<1>1. CallInit => ApiInit
  BY DEF CallInit
<1>2. CallInv /\ [CallNext]_clientVars => [ApiNext]_apiVars
  BY CallStepIsApiStep
<1> QED
  BY <1>1, <1>2, CallInvariance, PTL DEF CallSpec, ApiSpec

(* The invariant implies the properties of answers.                         *)
LEMMA CallInvImplies ==
  ASSUME CallInv
  PROVE  OnlyHealthIsMute /\ NoAnswerThrownAway
<1>1. OnlyHealthIsMute
  <2> SUFFICES ASSUME NEW r \in Requests, answer[r] \in {"message", "empty"}
               PROVE  /\ answer[r] = "empty" => endpoint[r] = "Health" /\ wire[r].code = 503
                      /\ answer[r] = "message" => wire[r].code # 503
    BY DEF OnlyHealthIsMute
  <2>1. wire[r] # Unwritten /\ ~IsNotAllowed(wire[r].code) /\ answer[r] = Decoded(r)
    BY DEF CallInv, AnswerIs
  <2>2. /\ Decoded(r) = IF wire[r].code = 200 THEN "ok"
                        ELSE IF wire[r].code = 503 THEN "empty" ELSE "message"
        /\ wire[r].code = 503 => endpoint[r] = "Health"
    BY <2>1, WireFacts
  <2> QED
    BY <2>1, <2>2
<1>2. NoAnswerThrownAway
  BY DEF CallInv, AnswerIs, NoAnswerThrownAway
<1> QED
  BY <1>1, <1>2

(* Only Health can answer with an error that has no text for its caller.    *)
THEOREM ErrorsHaveTexts == CallSpec => []OnlyHealthIsMute
BY CallInvariance, CallInvImplies, PTL

(* A call is given up only because its context or its connection has ended; *)
(* in particular every response that arrives can be decoded.                *)
THEOREM NothingThrownAway == CallSpec => []NoAnswerThrownAway
BY CallInvariance, CallInvImplies, PTL

(***************************************************************************)
(* The refinement.                                                          *)
(***************************************************************************)

(* What a step of the proxy does to the operation of its own request: it    *)
(* begins it, or settles what is open, or does neither.                     *)
Advances(p) ==
  \/ Begun(p)' = Begun(p) /\ Settled(p)' = Settled(p)
  \/ ~Begun(p) /\ Begun(p)' /\ Settled(p) = "open" /\ Settled(p)' = "open"
  \/ /\ Begun(p)' = Begun(p) /\ Settled(p) = "open"
     /\ Settled(p)' \in IF Begun(p) THEN {"done", "failed"} ELSE {"done", "refused"}

(* An operation is begun when its handler calls the Ethereum client, and    *)
(* settled by what that returns, or by a handler that does not call it.     *)
LEMMA ProxySettles ==
  ASSUME CallInv, CallInv', NEW p \in Requests, ProxyStep(p)
  PROVE  /\ \A r \in Requests \ {p} : Settled(r)' = Settled(r) /\ Begun(r)' = Begun(r)
         /\ Advances(p)
         /\ \A r \in Requests : Told(r)' = Told(r)
<1>1. UNCHANGED answer
  BY DEF ProxyStep, callVars, Network
<1>2. CASE Network(p)
  <2>1. UNCHANGED <<wire, outcome, endpoint, stage>>
    BY <1>2 DEF Network, Disconnect, fixedVars
  <2> QED
    BY <1>1, <2>1 DEF Settled, Begun, Told, Advances
<1>3. CASE Handle(p) \/ Accept(p) \/ ClientReturns(p)
  <2>1. /\ UNCHANGED endpoint
        /\ \A r \in Requests :
             /\ r # p => wire'[r] = wire[r] /\ outcome'[r] = outcome[r] /\ stage'[r] = stage[r]
             /\ wire[r] # Unwritten => wire'[r] = wire[r] /\ outcome'[r] = outcome[r]
             /\ outcome[r] # "none" => outcome'[r] = outcome[r]
    BY <1>3, HandlerFootprint DEF CallInv
  <2>2. \A r \in Requests \ {p} : Settled(r)' = Settled(r) /\ Begun(r)' = Begun(r)
    BY <2>1 DEF Settled, Begun
  <2>3. \A r \in Requests : Told(r)' = Told(r)
    <3> TAKE r \in Requests
    <3>1. answer[r] = "message" => wire[r] # Unwritten
      BY DEF CallInv, AnswerIs
    <3> QED
      BY <1>1, <2>1, <3>1 DEF Told
  <2>4. outcome[p] \in {"none", "ok", "err", "nil"} /\ outcome'[p] \in {"none", "ok", "err", "nil"}
    BY DEF CallInv, CallTypeOK, ApiTypeOK
  <2>5. CASE wire[p] # Unwritten
    <3>1. /\ stage[p] # "client"
          /\ stage'[p] # "client"
      BY <2>1, <2>5 DEF CallInv, ApiInv, ServedInv, Silent
    <3> QED
      BY <2>1, <2>2, <2>3, <2>5, <3>1 DEF Settled, Begun, Advances
  <2>6. CASE outcome[p] # "none" /\ wire[p] = Unwritten
    <3>1. endpoint[p] # "Status" /\ outcome'[p] = outcome[p]
      BY <2>1, <2>6 DEF CallInv, ApiInv, ServedInv
    <3>2. Settled(p)' = Settled(p)
      BY <2>1, <2>4, <2>6, <3>1 DEF Settled
    <3> QED
      BY <2>2, <2>3, <2>6, <3>1, <3>2 DEF Begun, Advances
  <2>7. CASE outcome[p] = "none" /\ wire[p] = Unwritten
    <3>1. Settled(p) = "open"
      BY <2>7 DEF Settled, Unwritten
    <3>2. CASE Accept(p)
      <4>1. /\ stage[p] = "new" /\ stage' = [stage EXCEPT ![p] = "client"]
            /\ UNCHANGED <<wire, outcome>>
        BY <3>2 DEF Accept, Routed, Delivered, Goto
      <4>2. ~Begun(p) /\ Begun(p)'
        BY <2>7, <4>1 DEF Begun, CallInv, CallTypeOK, ApiTypeOK
      <4>3. Settled(p)' = "open"
        BY <2>1, <2>7, <4>1 DEF Settled, Unwritten
      <4> QED
        BY <2>2, <2>3, <3>1, <4>2, <4>3 DEF Advances
    <3>3. CASE ClientReturns(p)
      <4>1. stage[p] = "client" /\ outcome'[p] \in {"ok", "err", "nil"}
        BY <3>3 DEF ClientReturns, CallInv, CallTypeOK, ApiTypeOK
      <4>2. Begun(p) /\ Begun(p)' /\ Settled(p)' \in {"done", "failed"}
        BY <4>1 DEF Begun, Settled
      <4> QED
        BY <2>2, <2>3, <3>1, <4>2 DEF Advances
    <3>4. CASE Handle(p)
      <4>1. outcome'[p] = "none" /\ ~Begun(p) /\ ~Begun(p)'
        <5>1. UNCHANGED outcome
          BY <3>4 DEF Handle, NotAllowed, Status, Reject, Respond, Merge, Emit
        <5>2. stage[p] # "client" /\ stage'[p] # "client"
          <6>1. CASE NotAllowed(p) \/ Merge(p) \/ Emit(p)
            BY <6>1 DEF NotAllowed, Delivered, Merge, Emit, CallInv, CallTypeOK, ApiTypeOK
          <6>2. CASE Status(p) \/ Reject(p) \/ Respond(p)
            <7>1. stage[p] # "client"
              BY <6>2 DEF Status, Reject, Respond, Routed, Delivered
            <7>2. stage' = [stage EXCEPT ![p] = "merge"]
              BY <6>2, HandlerWrites DEF Wrote, CallInv
            <7> QED
              BY <7>1, <7>2 DEF CallInv, CallTypeOK, ApiTypeOK
          <6> QED
            BY <3>4, <6>1, <6>2 DEF Handle
        <5> QED
          BY <2>7, <5>1, <5>2 DEF Begun
      <4>2. Settled(p)' \in {"open", "done", "refused"}
        BY <4>1 DEF Settled
      <4>3. Begun(p) = FALSE /\ Begun(p)' = FALSE
        BY <4>1 DEF Begun
      <4> QED
        BY <2>2, <2>3, <3>1, <4>2, <4>3 DEF Advances
    <3> QED
      BY <1>3, <3>2, <3>3, <3>4
  <2> QED
    BY <2>5, <2>6, <2>7
<1> QED
  BY <1>2, <1>3 DEF ProxyStep

(* A caller settles nothing, and is told what is settled or "unknown".      *)
LEMMA CallerIsTold ==
  ASSUME CallInv, CallInv', NEW p \in Requests, Caller(p)
  PROVE  /\ \A r \in Requests : Settled(r)' = Settled(r) /\ Begun(r)' = Begun(r)
         /\ \A r \in Requests \ {p} : Told(r)' = Told(r)
         /\ \/ Told(p)' = Told(p)
            \/ Told(p) = "nothing" /\ Told(p)' \in {Settled(p), "unknown"} \ {"open"}
<1>1. UNCHANGED <<wire, outcome, endpoint, stage>>
  BY CallerFootprint
<1>2. \A r \in Requests : Settled(r)' = Settled(r) /\ Begun(r)' = Begun(r)
  BY <1>1 DEF Settled, Begun
<1>3. \A r \in Requests \ {p} : answer'[r] = answer[r]
  BY DEF CallInv, CallTypeOK, Caller, Proceed, Send, CannotSend, ContextDone, Receive, GiveUp, Return,
         ConnectionLost, MethodNotAllowed, BodyLost, Deliver, WaitTimeout, WaitResponse
<1>4. answer'[p] = answer[p] \/ answer[p] = "none"
  BY DEF CallInv, CallTypeOK, CallAt, Caller, Proceed, Send, CannotSend, ContextDone, Receive, GiveUp,
         Return, ConnectionLost, MethodNotAllowed, BodyLost, Deliver, WaitTimeout, WaitResponse
<1>5. Told(p)' \in {"nothing", "unknown", Settled(p)'} \ {"open"}
  <2>1. /\ answer'[p] \in Answers \cup {"none"}
        /\ outcome[p] \in {"none", "ok", "err", "nil"}
    BY DEF CallInv, CallTypeOK, ApiTypeOK
  <2>2. CASE answer'[p] \in {"none", "timeout", "failed"}
    BY <2>2 DEF Told
  <2>3. CASE answer'[p] = "method"
    <3>1. IsNotAllowed(wire[p].code)
      BY <1>1, <2>3 DEF CallInv, AnswerIs
    <3>2. wire[p] # Unwritten /\ outcome[p] = "none"
      BY <3>1, WireFacts DEF IsNotAllowed, Unwritten
    <3>3. Settled(p)' = "refused"
      BY <1>1, <3>1, <3>2 DEF Settled, IsNotAllowed
    <3> QED
      BY <2>3, <3>3 DEF Told
  <2>4. CASE answer'[p] \in {"ok", "message", "empty"}
    <3>1. wire[p] # Unwritten /\ ~IsNotAllowed(wire[p].code) /\ answer'[p] = Decoded(p)
      BY <1>1, <2>4 DEF CallInv, AnswerIs, Decoded
    <3>2. /\ Decoded(p) = IF wire[p].code = 200 THEN "ok"
                          ELSE IF wire[p].code = 503 THEN "empty" ELSE "message"
          /\ wire[p].code = 200 <=> outcome[p] = "ok" \/ endpoint[p] = "Status"
          /\ wire[p].code = 400 <=> outcome[p] = "none" /\ endpoint[p] # "Status"
      BY <3>1, WireFacts
    <3>3. Settled(p)' = IF wire[p].code = 200 THEN "done"
                        ELSE IF wire[p].code = 400 THEN "refused" ELSE "failed"
      BY <1>1, <2>1, <3>1, <3>2 DEF Settled
    <3>4. CASE wire[p].code = 200
      BY <1>1, <3>1, <3>2, <3>3, <3>4 DEF Told
    <3>5. CASE wire[p].code = 503
      BY <1>1, <3>1, <3>2, <3>3, <3>5 DEF Told
    <3>6. CASE wire[p].code \notin {200, 503}
      <4>1. answer'[p] = "message"
        BY <3>1, <3>2, <3>6
      <4>2. Told(p)' = IF wire'[p].code = 400 THEN "refused" ELSE "failed"
        BY <4>1 DEF Told
      <4> QED
        BY <1>1, <3>3, <3>6, <4>2
    <3> QED
      BY <3>4, <3>5, <3>6
  <2> QED
    BY <2>1, <2>2, <2>3, <2>4 DEF Answers
<1>6. \A r \in Requests \ {p} : Told(r)' = Told(r)
  BY <1>1, <1>3 DEF Told
<1>7. CASE answer'[p] = answer[p]
  <2>1. Told(p)' = Told(p)
    BY <1>1, <1>7 DEF Told
  <2> QED
    BY <1>2, <1>6, <2>1
<1>8. CASE answer[p] = "none"
  <2>1. Told(p) = "nothing"
    BY <1>8 DEF Told
  <2> QED
    BY <1>2, <1>5, <1>6, <2>1
<1> QED
  BY <1>4, <1>7, <1>8

(* Every step maps to a step of RemoteCall or to a stutter.                 *)
LEMMA CallStepRefines ==
  ASSUME CallInv, CallInv', [CallNext]_clientVars
  PROVE  [R!Next]_R!callsVars
<1> DEFINE begun   == [r \in Requests |-> Begun(r)]
           settled == [r \in Requests |-> Settled(r)]
           told    == [r \in Requests |-> Told(r)]
<1>1. CASE UNCHANGED clientVars
  <2>1. UNCHANGED <<stage, wire, outcome, endpoint, answer>>
    BY <1>1 DEF clientVars, apiVars, fixedVars, callVars
  <2> QED
    BY <2>1 DEF Begun, Settled, Told, R!callsVars
<1>2. ASSUME NEW p \in Requests, ProxyStep(p)
      PROVE  R!Next \/ UNCHANGED <<begun, settled, told>>
  <2>1. told' = told
    BY <1>2, ProxySettles
  <2>2. /\ begun' = [begun EXCEPT ![p] = Begun(p)']
        /\ settled' = [settled EXCEPT ![p] = Settled(p)']
    BY <1>2, ProxySettles
  <2>3. CASE Begun(p)' = Begun(p) /\ Settled(p)' = Settled(p)
    BY <2>1, <2>2, <2>3
  <2>4. CASE ~Begun(p) /\ Begun(p)' /\ Settled(p) = "open" /\ Settled(p)' = "open"
    <3>0. settled' = settled
      <4>1. settled' = [settled EXCEPT ![p] = settled[p]]
        BY <2>2, <2>4
      <4> QED
        BY <4>1
    <3>1. Begun(p)' = TRUE
      BY <2>4, Zenon DEF Begun
    <3>2. begun' = [begun EXCEPT ![p] = TRUE]
      BY <2>2, <3>1
    <3>3. ~begun[p] /\ settled[p] = "open"
      BY <2>4
    <3>4. R!Begin(p)
      BY <2>1, <3>0, <3>2, <3>3 DEF R!Begin
    <3> QED
      BY <3>4 DEF R!Next
  <2>5. CASE /\ Begun(p)' = Begun(p) /\ Settled(p) = "open"
             /\ Settled(p)' \in IF Begun(p) THEN {"done", "failed"} ELSE {"done", "refused"}
    <3>1. begun' = begun
      BY <2>2, <2>5
    <3>2. R!Settle(p)
      BY <2>1, <2>2, <2>5, <3>1 DEF R!Settle, R!Outcomes
    <3> QED
      BY <3>2 DEF R!Next
  <2> QED
    BY <1>2, <2>3, <2>4, <2>5, ProxySettles DEF Advances
<1>3. ASSUME NEW p \in Requests, Caller(p)
      PROVE  R!Next \/ UNCHANGED <<begun, settled, told>>
  <2>1. settled' = settled /\ begun' = begun
    BY <1>3, CallerIsTold
  <2>2. CASE Told(p)' = Told(p)
    BY <1>3, <2>1, <2>2, CallerIsTold
  <2>3. CASE Told(p) = "nothing" /\ Told(p)' \in {Settled(p), "unknown"} \ {"open"}
    <3>1. told' = [told EXCEPT ![p] = Told(p)']
      BY <1>3, CallerIsTold
    <3>2. R!Tell(p)
      BY <2>1, <2>3, <3>1 DEF R!Tell
    <3> QED
      BY <3>2 DEF R!Next
  <2> QED
    BY <1>3, <2>2, <2>3, CallerIsTold
<1> QED
  BY <1>1, <1>2, <1>3 DEF CallNext, ProxyStep, Server, Network, R!callsVars

(* What a caller is told of its operation is the truth, for any number of   *)
(* calls: done is done, refused was never handed to a node and never will   *)
(* be, failed was tried (client.go:96-210, api.go, http.go:174-197).        *)
THEOREM CallersAreToldTheTruth == CallSpec => ImplementsRemoteCall
<1>1. CallInit => R!Init
  <2> SUFFICES ASSUME CallInit, NEW r \in Requests
               PROVE  Begun(r) = FALSE /\ Settled(r) = "open" /\ Told(r) = "nothing"
    BY DEF R!Init
  <2>1. stage[r] = "new" /\ outcome[r] = "none" /\ wire[r] = Unwritten /\ answer[r] = "none"
    BY DEF CallInit, ApiInit
  <2>2. Begun(r) = FALSE
    BY <2>1 DEF Begun
  <2> QED
    BY <2>1, <2>2 DEF Settled, Told, Unwritten
<1>2. CallInv /\ CallInv' /\ [CallNext]_clientVars => [R!Next]_R!callsVars
  BY CallStepRefines
<1> QED
  BY <1>1, <1>2, CallInvariance, PTL DEF CallSpec, ImplementsRemoteCall, R!Spec
=============================================================================
