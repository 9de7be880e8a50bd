-------------------------------- MODULE Api --------------------------------
(***************************************************************************)
(* The router, and the HTTP handlers (proxy/api.go) inside the logging      *)
(* middleware (proxy/http.go).  Requests run concurrently.  A handler       *)
(* checks its input, calls the Ethereum client, and writes one response     *)
(* through the responseRecorder; the middleware then logs what the recorder *)
(* saw.  No handler looks at the connection or at the context of its        *)
(* request: it goes on when the HTTP client has left.                       *)
(*                                                                          *)
(* logHTTPRequest runs once per endpoint, so its parameter entry is one     *)
(* variable shared by all requests of the endpoint.  Every request assigns  *)
(* it and then logs through it, without a lock.                             *)
(***************************************************************************)
EXTENDS Naturals, Sequences

CONSTANTS
  Requests,    \* requests served in a run
  Nobody,      \* fields of an entry to which no request has added any
  Endpoints    \* endpoints they may call

AllEndpoints == {"Status", "Health", "Balance", "Tx", "TxReceipt", "SendTx"}

ASSUME NobodyAssumption == Nobody \notin Requests
ASSUME EndpointsAssumption == Endpoints \subseteq AllEndpoints

Methods == {"GET", "POST"}

VARIABLES
  conn,        \* its connection: "none" yet, "open" or "gone"
  stage,       \* "new", "client", "respond", "merge", "emit", "done", "unrouted"
  endpoint,    \* what each request calls
  method,      \* ... and by which method
  wire,        \* status code and body sent to the HTTP client
  recorder,    \* statusCode and response of the responseRecorder
  entry,       \* endpoint -> request whose fields the shared entry has
  log,         \* lines logged: who logged it, level, whose fields it shows
  merged,      \* history: requests in the order of their assignments to entry
  outcome      \* history: what the Ethereum client returned

fixedVars == <<endpoint, method>>
logVars == <<entry, log, merged>>
apiVars == <<conn, stage, fixedVars, wire, recorder, logVars, outcome>>

Unwritten == [code |-> 0, body |-> "none"]
Unrecorded == [statusCode |-> 0, response |-> "none"]

Stages == {"new", "client", "respond", "merge", "emit", "done", "unrouted"}
Codes == {0, 200, 400, 404, 405, 500, 503}
Bodies == {"none", "payload", "JSONError", "text"}

ApiTypeOK ==
  /\ conn \in [Requests -> {"none", "open", "gone"}]
  /\ stage \in [Requests -> Stages]
  /\ endpoint \in [Requests -> Endpoints]
  /\ method \in [Requests -> Methods]
  /\ wire \in [Requests -> [code : Codes, body : Bodies]]
  /\ recorder \in [Requests -> [statusCode : Codes, response : Bodies]]
  /\ entry \in [Endpoints -> Requests \cup {Nobody}]
  /\ log \subseteq [by : Requests, level : {"warn", "debug"}, shows : Requests \cup {Nobody}]
  /\ merged \in Seq(Requests)
  /\ outcome \in [Requests -> {"none", "ok", "err", "nil"}]

ApiInit ==
  /\ conn = [r \in Requests |-> "none"]
  /\ stage = [r \in Requests |-> "new"]
  /\ endpoint \in [Requests -> Endpoints]
  /\ method \in [Requests -> Methods]
  /\ wire = [r \in Requests |-> Unwritten]
  /\ recorder = [r \in Requests |-> Unrecorded]
  /\ entry = [e \in Endpoints |-> Nobody]
  /\ log = {}
  /\ merged = <<>>
  /\ outcome = [r \in Requests |-> "none"]

-----------------------------------------------------------------------------
(***************************************************************************)
(* The connection, which may break at any moment.                           *)
(***************************************************************************)

Arrive(r) ==
  /\ conn[r] = "none"
  /\ conn' = [conn EXCEPT ![r] = "open"]
  /\ UNCHANGED <<stage, fixedVars, wire, recorder, logVars, outcome>>

Disconnect(r) ==
  /\ conn[r] = "open"
  /\ conn' = [conn EXCEPT ![r] = "gone"]
  /\ UNCHANGED <<stage, fixedVars, wire, recorder, logVars, outcome>>

(***************************************************************************)
(* The router knows one method per endpoint.  It answers another itself,    *)
(* past the middleware and so without a line in the log.                    *)
(***************************************************************************)

methodType(e) == IF e = "SendTx" THEN "POST" ELSE "GET"

Delivered(r) == stage[r] = "new" /\ conn[r] # "none"
Routed(r) == Delivered(r) /\ method[r] = methodType(endpoint[r])

NotAllowed(r) ==
  /\ Delivered(r)
  /\ ~Routed(r)
  /\ wire' = [wire EXCEPT ![r] = [code |-> 405, body |-> "text"]]
  /\ stage' = [stage EXCEPT ![r] = "unrouted"]
  /\ UNCHANGED <<conn, fixedVars, recorder, logVars, outcome>>

-----------------------------------------------------------------------------
(***************************************************************************)
(* Writing a response.  net/http sends the first status code and ignores    *)
(* later ones; the recorder keeps the last.                                 *)
(***************************************************************************)

Response(c, b) == [code |-> c, body |-> b]

(* responseRecorder.WriteHeader.  Mutated: not overridden, so that the code *)
(* reaches the client and the recorder keeps its zero value.                *)
NotOverridden(responses) == 0
LastCode(responses) == responses[Len(responses)].code

(* A handler returns after it has written these responses.                  *)
Write(r, responses) ==
  /\ wire' = [wire EXCEPT ![r] = Head(responses)]
  /\ recorder' = [recorder EXCEPT ![r] =
       [statusCode |-> LastCode(responses), response |-> responses[Len(responses)].body]]
  /\ stage' = [stage EXCEPT ![r] = "merge"]
  /\ UNCHANGED <<conn, fixedVars, logVars>>

(* An error travels in a JSONError.  Mutated: the error itself is encoded,  *)
(* which makes an object without the field.                                 *)
BareError == "payload"
ErrorBody == "JSONError"

RespondWithError(r, c) == Write(r, <<Response(c, ErrorBody)>>)

(* respondWithJSON.  The payloads always encode.  One that outgrows the     *)
(* server's buffer (a transaction, a receipt, the failures of Health) is    *)
(* sent at once: if the connection is gone, Write fails after WriteHeader,  *)
(* and the handler answers this with a second response.                     *)
Outgrows(r, c) == endpoint[r] \in {"Tx", "TxReceipt"} \/ c = 503

RespondWithJSON(r, c) ==
  \/ Write(r, <<Response(c, "payload")>>)
  \/ /\ Outgrows(r, c) /\ conn[r] = "gone"
     /\ Write(r, <<Response(c, "payload"), Response(500, ErrorBody)>>)

-----------------------------------------------------------------------------
Goto(r, s) ==
  /\ stage' = [stage EXCEPT ![r] = s]
  /\ UNCHANGED <<conn, fixedVars, wire, recorder, logVars>>

(* Status asks nobody.                                                      *)
Status(r) ==
  /\ Routed(r)
  /\ endpoint[r] = "Status"
  /\ RespondWithJSON(r, 200)
  /\ UNCHANGED outcome

Accept(r) ==
  /\ Routed(r)
  /\ endpoint[r] # "Status"
  /\ Goto(r, "client")
  /\ UNCHANGED outcome

(* Balance and SendTx check the form of their input.  The check of Tx and   *)
(* TxReceipt never fails: common.HexToHash pads or crops what it is given.  *)
Reject(r) ==
  /\ Routed(r)
  /\ endpoint[r] \in {"Balance", "SendTx"}
  /\ RespondWithError(r, 400)
  /\ UNCHANGED outcome

(* The Ethereum client succeeds, fails, or finds no receipt without calling *)
(* this an error.                                                           *)
ClientReturns(r) ==
  /\ stage[r] = "client"
  /\ \E o \in {"ok", "err", "nil"} :
       /\ o = "nil" => endpoint[r] = "TxReceipt"
       /\ outcome' = [outcome EXCEPT ![r] = o]
  /\ Goto(r, "respond")

(* Mutated: no return after the error, so a second response follows.        *)
FallsThrough == <<Response(500, ErrorBody), Response(200, "payload")>>
ErrorResponse == <<Response(500, ErrorBody)>>

(* TxReceipt looks at the receipt before it reports success.  Mutated: it   *)
(* only looks at the error.                                                 *)
NoError(r) == outcome[r] # "err"
Success(r) == outcome[r] = "ok"

Respond(r) ==
  /\ stage[r] = "respond"
  /\ \/ Success(r) /\ RespondWithJSON(r, 200)
     \/ outcome[r] = "nil" /\ RespondWithError(r, 404)
     \/ outcome[r] = "err" /\ endpoint[r] = "Health" /\ RespondWithJSON(r, 503)
     \/ outcome[r] = "err" /\ endpoint[r] # "Health" /\ Write(r, ErrorResponse)
  /\ UNCHANGED outcome

(* entry = entry.WithFields(...): the new entry has all five fields of this *)
(* request.  Mutated: the result of WithFields is dropped.                  *)
Dropped(r) == entry
WithFields(r) == [entry EXCEPT ![endpoint[r]] = r]

Merge(r) ==
  /\ stage[r] = "merge"
  /\ entry' = WithFields(r)
  /\ merged' = Append(merged, r)
  /\ stage' = [stage EXCEPT ![r] = "emit"]
  /\ UNCHANGED <<conn, fixedVars, wire, recorder, log, outcome>>

(* entry.Warn or entry.Debug: the level is that of the request's own code,  *)
(* the fields are those the shared entry has now.                           *)
Level(r) == IF recorder[r].statusCode > 399 THEN "warn" ELSE "debug"

Emit(r) ==
  /\ stage[r] = "emit"
  /\ log' = log \cup {[by |-> r, level |-> Level(r), shows |-> entry[endpoint[r]]]}
  /\ stage' = [stage EXCEPT ![r] = "done"]
  /\ UNCHANGED <<conn, fixedVars, wire, recorder, entry, merged, outcome>>

Handle(r) ==
  \/ NotAllowed(r)
  \/ Status(r)
  \/ Reject(r)
  \/ Respond(r)
  \/ Merge(r)
  \/ Emit(r)

ApiNext ==
  \E r \in Requests :
    Arrive(r) \/ Disconnect(r) \/ Accept(r) \/ ClientReturns(r) \/ Handle(r)

ApiSpec == ApiInit /\ [][ApiNext]_apiVars

-----------------------------------------------------------------------------
(* Every error response of a handler is logged as a warning, by the request *)
(* that got it, however the requests interleave and however often the       *)
(* handler writes.                                                          *)
ErrorsLoggedAsErrors ==
  \A r \in Requests : stage[r] = "done" /\ wire[r].code > 399 =>
    \E line \in log : line.by = r /\ line.level = "warn"

(* The race on entry (http.go:148) can put another request's fields on a    *)
(* line, but only those of a request of the same endpoint that was served   *)
(* no earlier: a line never shows what an old request left in entry.        *)
Before(r, s) == \E i, j \in 1 .. Len(merged) : i < j /\ merged[i] = r /\ merged[j] = s
LinesAreFresh ==
  \A line \in log :
    /\ line.shows \in Requests
    /\ endpoint[line.shows] = endpoint[line.by]
    /\ line.shows = line.by \/ Before(line.by, line.shows)

(* The first answer of a handler is the one the HTTP client gets: an        *)
(* operation that failed is never reported with a success code, and one     *)
(* that succeeded never with an error code.                                 *)
CodeTellsOutcome ==
  \A r \in Requests : wire[r] # Unwritten /\ stage[r] # "unrouted" =>
    (wire[r].code = 200 <=> outcome[r] = "ok" \/ endpoint[r] = "Status")

(* http.go:155: "only log full request/response data if running in debug    *)
(* mode or if the server returned an error response code": the data on a    *)
(* warning are those of the request with the error.                         *)
WarningShowsItsRequest == \A line \in log : line.level = "warn" => line.shows = line.by
=============================================================================
