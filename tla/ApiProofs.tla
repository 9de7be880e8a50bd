----------------------------- MODULE ApiProofs -----------------------------
(***************************************************************************)
(* Safety of the handlers and the middleware, for any number of requests.   *)
(***************************************************************************)
EXTENDS Api, TLAPS

(***************************************************************************)
(* The inductive invariant.                                                 *)
(***************************************************************************)

(* What is on the wire and in the recorder at each stage of a request.      *)
Silent(r) == stage[r] \in {"new", "client", "respond"}
Served(r) == stage[r] \in {"merge", "emit", "done"}

ServedInv ==
  \A r \in Requests :
    /\ Silent(r) => wire[r] = Unwritten
    /\ stage[r] \in {"new", "client", "unrouted"} <=> outcome[r] = "none" /\ ~Served(r)
    /\ stage[r] = "new" \/ conn[r] # "none"
    /\ stage[r] = "unrouted" => wire[r] = [code |-> 405, body |-> "text"]
    /\ Served(r) =>
         /\ wire[r].code \in {200, 400, 404, 500, 503}
         /\ wire[r].code = 200 <=> outcome[r] = "ok" \/ endpoint[r] = "Status"
         /\ wire[r].code = 503 => endpoint[r] = "Health" /\ outcome[r] = "err"
         /\ wire[r].code = 400 <=> outcome[r] = "none" /\ endpoint[r] # "Status"
         /\ wire[r].body = IF wire[r].code \in {200, 503} THEN "payload" ELSE "JSONError"
         /\ wire[r].code > 399 => recorder[r].statusCode > 399
    /\ endpoint[r] = "Status" => outcome[r] = "none" /\ stage[r] # "client"
    /\ outcome[r] = "nil" => endpoint[r] = "TxReceipt"

(* Where the requests are whose fields an entry or a line can show.         *)
Merged(r) == \E i \in 1 .. Len(merged) : merged[i] = r
SameOrLater(r, s) == s \in Requests /\ endpoint[s] = endpoint[r] /\ (s = r \/ Before(r, s))

EntryInv ==
  /\ \A r \in Requests : stage[r] = "emit" => Merged(r) /\ SameOrLater(r, entry[endpoint[r]])
  /\ \A line \in log : SameOrLater(line.by, line.shows)

ApiInv == ApiTypeOK /\ ServedInv /\ EntryInv /\ ErrorsLoggedAsErrors

(***************************************************************************)
(* Writing a response.                                                      *)
(***************************************************************************)

(* What the code of a handler comes to, however it writes: one response     *)
(* reaches the wire, and the recorder keeps it or an error.                 *)
Recorded(c, b) == [statusCode |-> c, response |-> b]

Wrote(r, c, b) ==
  /\ wire' = [wire EXCEPT ![r] = [code |-> c, body |-> b]]
  /\ \/ recorder' = [recorder EXCEPT ![r] = Recorded(c, b)]
     \/ recorder' = [recorder EXCEPT ![r] = Recorded(500, "JSONError")]
  /\ stage' = [stage EXCEPT ![r] = "merge"]
  /\ UNCHANGED <<conn, fixedVars, logVars>>

(* A response written once is on the wire and in the recorder.              *)
LEMMA WritesOne ==
  ASSUME NEW r, NEW c \in {200, 400, 404, 500, 503}, NEW b \in {"payload", "JSONError"},
         Write(r, <<Response(c, b)>>)
  PROVE  Wrote(r, c, b)
<1>1. /\ Head(<<Response(c, b)>>) = Response(c, b)
      /\ Len(<<Response(c, b)>>) = 1
      /\ <<Response(c, b)>>[1] = Response(c, b)
  OBVIOUS
<1> QED
  BY <1>1 DEF Write, Wrote, Recorded, Response, LastCode

(* A failed write followed by an error: the wire has the first, the         *)
(* recorder the error.                                                      *)
LEMMA WritesTwo ==
  ASSUME NEW r, NEW c \in {200, 503},
         Write(r, <<Response(c, "payload"), Response(500, ErrorBody)>>)
  PROVE  Wrote(r, c, "payload")
<1> DEFINE two == <<Response(c, "payload"), Response(500, "JSONError")>>
<1>1. /\ Head(two) = Response(c, "payload")
      /\ Len(two) = 2
      /\ two[2] = Response(500, "JSONError")
  OBVIOUS
<1> QED
  BY <1>1 DEF Write, Wrote, Recorded, Response, LastCode, ErrorBody

(* These are all responses of the handlers.                                 *)
LEMMA RespondsWithError ==
  ASSUME NEW r, NEW c \in {400, 404, 500}, RespondWithError(r, c)
  PROVE  Wrote(r, c, "JSONError")
BY WritesOne DEF RespondWithError, ErrorBody

(* respondWithJSON leaves its own code on the wire.                         *)
LEMMA RespondsWithJSON ==
  ASSUME NEW r, NEW c \in {200, 503}, RespondWithJSON(r, c)
  PROVE  Wrote(r, c, "payload")
BY WritesOne, WritesTwo DEF RespondWithJSON

-----------------------------------------------------------------------------
(***************************************************************************)
(* The steps.  Each lemma says what one kind of step does to the invariant. *)
(***************************************************************************)

(* Before any request there is nothing to tell apart.                       *)
LEMMA InitApi == ApiInit => ApiInv
<1> SUFFICES ASSUME ApiInit PROVE ApiInv
  OBVIOUS
<1>1. ApiTypeOK
  BY DEF ApiInit, ApiTypeOK, Unwritten, Unrecorded, Codes, Bodies, Stages
<1>2. ServedInv
  BY DEF ApiInit, ServedInv, Silent, Served, Unwritten
<1>3. EntryInv /\ ErrorsLoggedAsErrors
  BY DEF ApiInit, EntryInv, ErrorsLoggedAsErrors
<1> QED
  BY <1>1, <1>2, <1>3 DEF ApiInv

(* A step that neither logs nor enters or leaves "emit" or "done".          *)
LEMMA QuietStep ==
  ASSUME EntryInv, ErrorsLoggedAsErrors, UNCHANGED <<endpoint, logVars>>,
         \A r \in Requests : stage'[r] \in {"emit", "done"} => stage'[r] = stage[r] /\ wire'[r] = wire[r]
  PROVE  EntryInv' /\ ErrorsLoggedAsErrors'
<1>1. UNCHANGED <<endpoint, entry, log, merged>>
  BY DEF logVars
<1>2. EntryInv'
  BY <1>1 DEF EntryInv, Merged, SameOrLater, Before
<1>3. ErrorsLoggedAsErrors'
  BY <1>1 DEF ErrorsLoggedAsErrors
<1> QED
  BY <1>2, <1>3

(* A connection that comes or goes changes nothing a handler has done.      *)
LEMMA ConnStep ==
  ASSUME ApiInv, NEW r \in Requests, Arrive(r) \/ Disconnect(r)
  PROVE  ApiInv'
<1>1. /\ UNCHANGED <<stage, endpoint, method, wire, recorder, entry, log, merged, outcome>>
      /\ conn' \in [Requests -> {"none", "open", "gone"}]
      /\ \A q \in Requests : conn[q] # "none" => conn'[q] # "none"
  BY DEF Arrive, Disconnect, fixedVars, logVars, ApiInv, ApiTypeOK
<1>2. ApiTypeOK'
  BY <1>1 DEF ApiInv, ApiTypeOK
<1>3. ServedInv'
  BY <1>1 DEF ApiInv, ServedInv, Silent, Served
<1>4. EntryInv' /\ ErrorsLoggedAsErrors'
  BY <1>1, QuietStep DEF ApiInv, logVars
<1> QED
  BY <1>2, <1>3, <1>4 DEF ApiInv

(* A handler that writes a response, having or not having called the client.*)
LEMMA WriteStep ==
  ASSUME ApiInv, NEW r \in Requests, Silent(r), conn[r] # "none",
         NEW c \in {200, 400, 404, 500, 503}, NEW b \in {"payload", "JSONError"},
         Wrote(r, c, b), UNCHANGED outcome,
         c = 200 <=> outcome[r] = "ok" \/ endpoint[r] = "Status",
         c = 503 => endpoint[r] = "Health" /\ outcome[r] = "err",
         c = 400 <=> outcome[r] = "none" /\ endpoint[r] # "Status",
         b = IF c \in {200, 503} THEN "payload" ELSE "JSONError"
  PROVE  ApiInv'
<1>1. PICK kept \in {Recorded(c, b), Recorded(500, "JSONError")} :
        recorder' = [recorder EXCEPT ![r] = kept]
  BY DEF Wrote
<1>2. /\ wire' = [wire EXCEPT ![r] = [code |-> c, body |-> b]]
      /\ stage' = [stage EXCEPT ![r] = "merge"]
      /\ UNCHANGED <<conn, endpoint, method, entry, log, merged, outcome>>
  BY DEF Wrote, fixedVars, logVars
<1>3. ApiTypeOK'
  <2>1. [code |-> c, body |-> b] \in [code : Codes, body : Bodies]
    BY DEF Codes, Bodies
  <2>2. kept \in [statusCode : Codes, response : Bodies]
    BY DEF Codes, Bodies, Recorded
  <2>3. wire' \in [Requests -> [code : Codes, body : Bodies]]
    BY <1>2, <2>1 DEF ApiInv, ApiTypeOK
  <2>4. recorder' \in [Requests -> [statusCode : Codes, response : Bodies]]
    BY <1>1, <2>2 DEF ApiInv, ApiTypeOK
  <2>5. stage' \in [Requests -> Stages]
    BY <1>2 DEF ApiInv, ApiTypeOK, Stages
  <2> QED
    BY <1>2, <2>3, <2>4, <2>5 DEF ApiInv, ApiTypeOK
<1>4. ServedInv'
  <2> SUFFICES ASSUME NEW q \in Requests
               PROVE  ServedInv!(q)'
    BY DEF ServedInv
  <2>1. CASE q = r
    <3>1. /\ stage'[r] = "merge" /\ wire'[r] = [code |-> c, body |-> b]
          /\ recorder'[r] = kept
      BY <1>1, <1>2 DEF ApiInv, ApiTypeOK
    <3> QED
      BY <1>1, <1>2, <2>1, <3>1 DEF Recorded, ApiInv, ServedInv, Silent, Served
  <2>2. CASE q # r
    <3>1. stage'[q] = stage[q] /\ wire'[q] = wire[q] /\ recorder'[q] = recorder[q]
      BY <1>1, <1>2, <2>2 DEF ApiInv, ApiTypeOK
    <3> QED
      BY <1>2, <3>1 DEF ApiInv, ServedInv, Silent, Served
  <2> QED
    BY <2>1, <2>2
<1>5. EntryInv' /\ ErrorsLoggedAsErrors'
  <2>1. \A q \in Requests : stage'[q] \in {"emit", "done"} => stage'[q] = stage[q] /\ wire'[q] = wire[q]
    BY <1>2 DEF ApiInv, ApiTypeOK
  <2> QED
    BY <1>2, <2>1, QuietStep DEF ApiInv, logVars
<1> QED
  BY <1>3, <1>4, <1>5 DEF ApiInv

(* The steps before the response: to the client and back, or to the router. *)
LEMMA GotoStep ==
  ASSUME ApiInv, NEW r \in Requests, Accept(r) \/ ClientReturns(r) \/ NotAllowed(r)
  PROVE  ApiInv'
<1>1. UNCHANGED <<conn, endpoint, method, recorder, entry, log, merged>>
  BY DEF Accept, ClientReturns, NotAllowed, Goto, fixedVars, logVars
<1>2. /\ stage[r] \in {"new", "client"} /\ conn[r] # "none"
      /\ \E s \in {"client", "respond", "unrouted"} : stage' = [stage EXCEPT ![r] = s]
  BY DEF ApiInv, ServedInv, Accept, ClientReturns, NotAllowed, Goto, Routed, Delivered
<1>3. ApiTypeOK'
  <2>1. stage' \in [Requests -> Stages]
    BY <1>2 DEF ApiInv, ApiTypeOK, Stages
  <2>2. outcome' \in [Requests -> {"none", "ok", "err", "nil"}]
    BY DEF ApiInv, ApiTypeOK, Accept, ClientReturns, NotAllowed
  <2>3. wire' \in [Requests -> [code : Codes, body : Bodies]]
    BY DEF ApiInv, ApiTypeOK, Accept, ClientReturns, NotAllowed, Goto, Codes, Bodies
  <2> QED
    BY <1>1, <2>1, <2>2, <2>3 DEF ApiInv, ApiTypeOK
<1>4. ServedInv'
  <2> SUFFICES ASSUME NEW q \in Requests
               PROVE  ServedInv!(q)'
    BY DEF ServedInv
  <2>1. CASE Accept(r)
    BY <1>1, <2>1 DEF ApiInv, ApiTypeOK, ServedInv, Silent, Served, Accept, Goto, Routed, Delivered
  <2>2. CASE ClientReturns(r)
    <3>1. endpoint[r] # "Status"
      BY <2>2 DEF ApiInv, ServedInv, ClientReturns
    <3> QED
      BY <1>1, <2>2, <3>1 DEF ApiInv, ApiTypeOK, ServedInv, Silent, Served, ClientReturns, Goto
  <2>3. CASE NotAllowed(r)
    BY <1>1, <2>3 DEF ApiInv, ApiTypeOK, ServedInv, Silent, Served, NotAllowed, Routed, Delivered
  <2> QED
    BY <2>1, <2>2, <2>3
<1>5. EntryInv' /\ ErrorsLoggedAsErrors'
  <2>1. \A q \in Requests : stage'[q] \in {"emit", "done"} => stage'[q] = stage[q] /\ wire'[q] = wire[q]
    BY <1>2 DEF ApiInv, ApiTypeOK, Accept, ClientReturns, NotAllowed, Goto
  <2> QED
    BY <1>1, <2>1, QuietStep DEF ApiInv, logVars
<1> QED
  BY <1>3, <1>4, <1>5 DEF ApiInv

(* What a handler answers, and to which outcome.                            *)
Fits(r, c, b) ==
  /\ c = 200 <=> outcome[r] = "ok" \/ endpoint[r] = "Status"
  /\ c = 503 => endpoint[r] = "Health" /\ outcome[r] = "err"
  /\ c = 400 <=> outcome[r] = "none" /\ endpoint[r] # "Status"
  /\ b = IF c \in {200, 503} THEN "payload" ELSE "JSONError"

(* These steps write one response, which fits the outcome.                  *)
LEMMA HandlerWrites ==
  ASSUME ApiInv, NEW r \in Requests, Status(r) \/ Reject(r) \/ Respond(r)
  PROVE  /\ Silent(r) /\ conn[r] # "none" /\ UNCHANGED outcome
         /\ \E c \in {200, 400, 404, 500, 503}, b \in {"payload", "JSONError"} :
              Fits(r, c, b) /\ Wrote(r, c, b)
<1>1. Silent(r) /\ conn[r] # "none" /\ UNCHANGED outcome
  BY DEF ApiInv, ServedInv, Silent, Status, Reject, Respond, Routed, Delivered
<1>2. CASE Status(r)
  <2>1. Wrote(r, 200, "payload") /\ endpoint[r] = "Status"
    BY <1>2, RespondsWithJSON DEF Status
  <2> QED
    BY <1>1, <2>1 DEF Fits
<1>3. CASE Reject(r)
  <2>1. Wrote(r, 400, "JSONError") /\ endpoint[r] # "Status" /\ outcome[r] = "none"
    BY <1>3, RespondsWithError DEF Reject, Routed, Delivered, ApiInv, ServedInv, Served
  <2> QED
    BY <1>1, <2>1 DEF Fits
<1>4. CASE Respond(r)
  <2>1. outcome[r] # "none" /\ endpoint[r] # "Status"
    BY <1>4 DEF Respond, ApiInv, ServedInv, Served
  <2>2. CASE Success(r) /\ RespondWithJSON(r, 200)
    <3>1. Wrote(r, 200, "payload") /\ outcome[r] = "ok"
      BY <2>2, RespondsWithJSON DEF Success
    <3> QED
      BY <1>1, <2>1, <3>1 DEF Fits
  <2>3. CASE outcome[r] = "nil" /\ RespondWithError(r, 404)
    <3>1. Wrote(r, 404, "JSONError")
      BY <2>3, RespondsWithError
    <3> QED
      BY <1>1, <2>1, <2>3, <3>1 DEF Fits
  <2>4. CASE outcome[r] = "err" /\ endpoint[r] = "Health" /\ RespondWithJSON(r, 503)
    <3>1. Wrote(r, 503, "payload")
      BY <2>4, RespondsWithJSON
    <3> QED
      BY <1>1, <2>1, <2>4, <3>1 DEF Fits
  <2>5. CASE outcome[r] = "err" /\ endpoint[r] # "Health" /\ Write(r, ErrorResponse)
    <3>1. Wrote(r, 500, "JSONError")
      BY <2>5, WritesOne DEF ErrorResponse, ErrorBody
    <3> QED
      BY <1>1, <2>1, <2>5, <3>1 DEF Fits
  <2> QED
    BY <1>4, <2>2, <2>3, <2>4, <2>5 DEF Respond
<1> QED
  BY <1>1, <1>2, <1>3, <1>4

(* A handler answers what the Ethereum client returned.                     *)
LEMMA RespondStep ==
  ASSUME ApiInv, NEW r \in Requests, Status(r) \/ Reject(r) \/ Respond(r)
  PROVE  ApiInv'
<1>1. Silent(r) /\ conn[r] # "none" /\ UNCHANGED outcome
  BY HandlerWrites
<1>2. PICK c \in {200, 400, 404, 500, 503}, b \in {"payload", "JSONError"} :
        Fits(r, c, b) /\ Wrote(r, c, b)
  BY HandlerWrites
<1> QED
  BY <1>1, <1>2, WriteStep DEF Fits

(* Assigning entry.  Requests that wait to log with it are overtaken.       *)
LEMMA MergeStep ==
  ASSUME ApiInv, NEW r \in Requests, Merge(r)
  PROVE  ApiInv'
<1>1. /\ stage[r] = "merge" /\ stage' = [stage EXCEPT ![r] = "emit"]
      /\ entry' = [entry EXCEPT ![endpoint[r]] = r]
      /\ merged' = Append(merged, r)
      /\ UNCHANGED <<conn, endpoint, method, wire, recorder, log, outcome>>
  BY DEF Merge, WithFields, fixedVars
<1>2. /\ merged' \in Seq(Requests) /\ Len(merged) \in Nat
      /\ Len(merged') = Len(merged) + 1 /\ merged'[Len(merged) + 1] = r
      /\ \A i \in 1 .. Len(merged) : merged'[i] = merged[i]
  BY <1>1 DEF ApiInv, ApiTypeOK
<1>3. ApiTypeOK'
  BY <1>1, <1>2 DEF ApiInv, ApiTypeOK, Stages
<1>4. ServedInv'
  BY <1>1 DEF ApiInv, ApiTypeOK, ServedInv, Silent, Served
<1>5. \A p \in Requests : Merged(p) => Merged(p)' /\ Before(p, r)'
  BY <1>2 DEF Merged, Before
<1>6. \A p \in Requests : \A q : SameOrLater(p, q) => SameOrLater(p, q)'
  BY <1>1, <1>2 DEF SameOrLater, Before
<1>7. EntryInv'
  <2>1. ASSUME NEW p \in Requests, stage'[p] = "emit"
        PROVE  (Merged(p) /\ SameOrLater(p, entry[endpoint[p]]))'
    <3>1. CASE p = r
      <4>1. entry'[endpoint[p]] = r
        BY <1>1, <3>1 DEF ApiInv, ApiTypeOK
      <4> QED
        BY <1>1, <1>2, <3>1, <4>1 DEF Merged, SameOrLater
    <3>2. CASE p # r
      <4>1. stage[p] = "emit" /\ Merged(p) /\ SameOrLater(p, entry[endpoint[p]])
        BY <1>1, <2>1, <3>2 DEF ApiInv, ApiTypeOK, EntryInv
      <4>2. CASE endpoint[p] = endpoint[r]
        <5>1. entry'[endpoint[p]] = r
          BY <1>1, <4>2 DEF ApiInv, ApiTypeOK
        <5> QED
          BY <1>1, <1>5, <4>1, <4>2, <5>1 DEF SameOrLater
      <4>3. CASE endpoint[p] # endpoint[r]
        <5>1. entry'[endpoint[p]] = entry[endpoint[p]]
          BY <1>1, <4>3 DEF ApiInv, ApiTypeOK
        <5> QED
          BY <1>1, <1>5, <1>6, <4>1, <5>1
      <4> QED
        BY <4>2, <4>3
    <3> QED
      BY <3>1, <3>2
  <2>2. (\A line \in log : SameOrLater(line.by, line.shows))'
    BY <1>1, <1>6 DEF ApiInv, ApiTypeOK, EntryInv
  <2> QED
    BY <1>1, <2>1, <2>2 DEF EntryInv
<1>8. ErrorsLoggedAsErrors'
  BY <1>1 DEF ApiInv, ApiTypeOK, ErrorsLoggedAsErrors
<1> QED
  BY <1>3, <1>4, <1>7, <1>8 DEF ApiInv

(* A line shows the request that logs it, or one merged after it.           *)
LEMMA EmitStep ==
  ASSUME ApiInv, NEW r \in Requests, Emit(r)
  PROVE  ApiInv'
<1> DEFINE new == [by |-> r, level |-> Level(r), shows |-> entry[endpoint[r]]]
<1>1. /\ stage[r] = "emit" /\ stage' = [stage EXCEPT ![r] = "done"]
      /\ log' = log \cup {new}
      /\ UNCHANGED <<conn, endpoint, method, wire, recorder, entry, merged, outcome>>
  BY DEF Emit, fixedVars
<1>2. SameOrLater(r, entry[endpoint[r]])
  BY <1>1 DEF ApiInv, EntryInv
<1>3. ApiTypeOK'
  <2>1. new \in [by : Requests, level : {"warn", "debug"}, shows : Requests \cup {Nobody}]
    BY <1>2 DEF Level, SameOrLater
  <2> QED
    BY <1>1, <2>1 DEF ApiInv, ApiTypeOK, Stages
<1>4. ServedInv'
  BY <1>1 DEF ApiInv, ApiTypeOK, ServedInv, Silent, Served
<1>5. EntryInv'
  <2>1. SameOrLater(new.by, new.shows)
    BY <1>2
  <2>2. \A p, q : SameOrLater(p, q)' <=> SameOrLater(p, q)
    BY <1>1 DEF SameOrLater, Before
  <2>3. (\A p \in Requests : stage[p] = "emit" => Merged(p) /\ SameOrLater(p, entry[endpoint[p]]))'
    BY <1>1, <2>2 DEF ApiInv, ApiTypeOK, EntryInv, Merged
  <2> QED
    BY <1>1, <2>1, <2>2, <2>3 DEF ApiInv, EntryInv
<1>6. ErrorsLoggedAsErrors'
  <2> SUFFICES ASSUME NEW p \in Requests, stage'[p] = "done", wire'[p].code > 399
               PROVE  \E line \in log' : line.by = p /\ line.level = "warn"
    BY DEF ErrorsLoggedAsErrors
  <2>1. CASE p = r
    <3>1. recorder[r].statusCode > 399
      BY <1>1, <2>1 DEF ApiInv, ServedInv, Served
    <3>2. new.by = p /\ new.level = "warn"
      BY <2>1, <3>1 DEF Level
    <3> QED
      BY <1>1, <3>2
  <2>2. CASE p # r
    BY <1>1, <2>2 DEF ApiInv, ApiTypeOK, ErrorsLoggedAsErrors
  <2> QED
    BY <2>1, <2>2
<1> QED
  BY <1>3, <1>4, <1>5, <1>6 DEF ApiInv

(* What a step of a handler leaves alone: the other requests, and all that  *)
(* has been sent to the HTTP client or returned by the Ethereum client.     *)
LEMMA HandlerFootprint ==
  ASSUME ApiInv, NEW r \in Requests, Handle(r) \/ Accept(r) \/ ClientReturns(r)
  PROVE  /\ UNCHANGED <<conn, endpoint, method>>
         /\ \A q \in Requests :
              /\ q # r => wire'[q] = wire[q] /\ outcome'[q] = outcome[q] /\ stage'[q] = stage[q]
              /\ wire[q] # Unwritten => wire'[q] = wire[q] /\ outcome'[q] = outcome[q]
              /\ outcome[q] # "none" => outcome'[q] = outcome[q]
<1>1. CASE Status(r) \/ Reject(r) \/ Respond(r)
  <2>1. Silent(r) /\ UNCHANGED outcome
    BY <1>1, HandlerWrites
  <2>2. PICK c \in {200, 400, 404, 500, 503}, b \in {"payload", "JSONError"} : Wrote(r, c, b)
    BY <1>1, HandlerWrites
  <2> QED
    BY <2>1, <2>2 DEF Wrote, fixedVars, ApiInv, ApiTypeOK, ServedInv
<1>2. CASE NotAllowed(r) \/ Accept(r) \/ ClientReturns(r)
  <2>1. /\ wire[r] = Unwritten /\ UNCHANGED <<conn, endpoint, method>>
        /\ outcome[r] = "none"
    BY <1>2 DEF NotAllowed, Accept, ClientReturns, Goto, Routed, Delivered, fixedVars,
                ApiInv, ServedInv, Silent, Served
  <2>2. \A q \in Requests \ {r} :
          wire'[q] = wire[q] /\ outcome'[q] = outcome[q] /\ stage'[q] = stage[q]
    BY <1>2 DEF NotAllowed, Accept, ClientReturns, Goto, ApiInv, ApiTypeOK
  <2> QED
    BY <2>1, <2>2
<1>3. CASE Merge(r) \/ Emit(r)
  BY <1>3 DEF Merge, Emit, fixedVars, ApiInv, ApiTypeOK
<1> QED
  BY <1>1, <1>2, <1>3 DEF Handle

(* The invariant only depends on the variables of Api.                      *)
LEMMA ApiStutter ==
  ASSUME ApiInv, UNCHANGED apiVars
  PROVE  ApiInv'
<1>1. UNCHANGED <<conn, stage, endpoint, method, wire, recorder, entry, log, merged, outcome>>
  BY DEF apiVars, fixedVars, logVars
<1> QED
  BY <1>1 DEF ApiInv, ApiTypeOK, ServedInv, Silent, Served, EntryInv, Merged, SameOrLater, Before,
              ErrorsLoggedAsErrors

(* Every step of Api keeps the invariant.                                   *)
LEMMA ApiStep ==
  ASSUME ApiInv, [ApiNext]_apiVars
  PROVE  ApiInv'
BY ConnStep, GotoStep, RespondStep, MergeStep, EmitStep, ApiStutter DEF ApiNext, Handle

-----------------------------------------------------------------------------
(***************************************************************************)
(* The theorems.                                                            *)
(***************************************************************************)

(* The inductive invariant holds in every state that can be reached.        *)
THEOREM ApiInvariance == ApiSpec => []ApiInv
<1>1. ApiInv /\ [ApiNext]_apiVars => ApiInv'
  BY ApiStep
<1> QED
  BY InitApi, <1>1, PTL DEF ApiSpec

(* What the invariant says of each property the runs check.                 *)
LEMMA ApiInvImplies ==
  ASSUME ApiInv
  PROVE  ApiTypeOK /\ CodeTellsOutcome /\ ErrorsLoggedAsErrors /\ LinesAreFresh
<1>1. CodeTellsOutcome
  BY DEF ApiInv, ApiTypeOK, ServedInv, Silent, Served, Stages, CodeTellsOutcome
<1>2. LinesAreFresh
  BY DEF ApiInv, ApiTypeOK, EntryInv, SameOrLater, LinesAreFresh
<1> QED
  BY <1>1, <1>2 DEF ApiInv

(* An operation that failed is never reported with a success code, and one  *)
(* that succeeded never with an error code (proxy/api.go).                  *)
THEOREM CodesTellOutcomes == ApiSpec => []CodeTellsOutcome
BY ApiInvariance, ApiInvImplies, PTL

(* Every error response is logged as a warning (http.go:157-161).           *)
THEOREM ErrorsAreLogged == ApiSpec => []ErrorsLoggedAsErrors
BY ApiInvariance, ApiInvImplies, PTL

(* However many requests race on entry (http.go:148), a line shows the      *)
(* fields of its own request or of one that was served later.               *)
THEOREM LogLinesAreFresh == ApiSpec => []LinesAreFresh
BY ApiInvariance, ApiInvImplies, PTL
=============================================================================
