------------------------------ MODULE Service ------------------------------
(***************************************************************************)
(* The process: main (cmd/eth-proxy/main.go) reads the configuration,       *)
(* connects to the nodes, starts the HTTP service and waits for a signal;   *)
(* the goroutine of hTTPService.Start (proxy/http.go) listens and serves;   *)
(* Stop shuts the server down while requests are still running.             *)
(***************************************************************************)
EXTENDS NodeSetup

CONSTANT Requests  \* connections that HTTP clients may open

Fields == {"Port", "LogLevel", "LogFormat"}

VARIABLES
  main,        \* where main is, or how the process ended
  cfg,         \* "" if not given, "given", "invalid" or "default"
  listener,    \* "none", "starting", "bound", "serving", "refused", "closed"
  shutdown,    \* has Shutdown begun? (http.Server.inShutdown)
  registered,  \* has signal.Notify been called?
  sigChan,     \* is a signal in the channel, whose capacity is 1?
  announced,   \* has "listening on port" been logged?
  stopErr,     \* did Shutdown return an error?
  request,     \* "none", "open", "answered" or "cut off" by the end of the process
  signalled    \* history: has anybody sent a signal to the process?

serverVars == <<listener, shutdown>>
signalVars == <<registered, sigChan, signalled>>
vars == <<setupVars, main, cfg, serverVars, signalVars, announced, stopErr, request>>

Ended == {"panicked", "killed", "exited"}
Alive == main \notin Ended

Init ==
  /\ SetupInit
  /\ main = "config"
  /\ cfg = [f \in Fields |-> ""]
  /\ listener = "none"
  /\ shutdown = FALSE
  /\ registered = FALSE
  /\ sigChan = FALSE
  /\ announced = FALSE
  /\ stopErr = FALSE
  /\ request = [r \in Requests |-> "none"]
  /\ signalled = FALSE

(* The end of the process ends every handler.                               *)
End(how) ==
  /\ main' = how
  /\ request' = [r \in Requests |-> IF request[r] = "open" THEN "cut off" ELSE request[r]]

-----------------------------------------------------------------------------
(***************************************************************************)
(* The main goroutine up to Start.                                          *)
(***************************************************************************)

(* parseYAMLConfig: the file, superseded by the environment.  An unreadable *)
(* file or a value of the wrong type is an error; a missing file is not.    *)
ParseConfig ==
  /\ main = "config"
  /\ \/ cfg' \in [Fields -> {"", "given", "invalid"}] /\ cfg'["Port"] # "invalid" /\ main' = "sanitize"
     \/ main' = "panicked" /\ cfg' = [cfg EXCEPT !["Port"] = "invalid"]
  /\ UNCHANGED <<setupVars, serverVars, signalVars, announced, stopErr, request>>

(* Mutated: Sanitize forgets the log format.                                *)
SomeFields == {"Port", "LogLevel"}
Defaulted == Fields

Sanitize ==
  /\ main = "sanitize"
  /\ cfg' = [f \in Fields |-> IF cfg[f] = "" /\ f \in Defaulted THEN "default" ELSE cfg[f]]
  /\ main' = "logger"
  /\ UNCHANGED <<setupVars, serverVars, signalVars, announced, stopErr, request>>

(* NewLogger accepts the known levels and formats; "" is neither.           *)
NewLogger ==
  /\ main = "logger"
  /\ main' = IF \A f \in {"LogLevel", "LogFormat"} : cfg[f] \in {"given", "default"}
             THEN "connect" ELSE "panicked"
  /\ UNCHANGED <<setupVars, cfg, serverVars, signalVars, announced, stopErr, request>>

Connect ==
  /\ main = "connect"
  /\ Connects \/ FailsToConnect \/ Construct
  /\ main' = CASE client' = "ok" -> "start" [] client' = "error" -> "panicked" [] OTHER -> main
  /\ UNCHANGED <<cfg, serverVars, signalVars, announced, stopErr, request>>

(* Service.Start: the goroutine is spawned and the port announced.          *)
Start ==
  /\ main = "start"
  /\ listener' = "starting"
  /\ main' = "announce"
  /\ UNCHANGED <<setupVars, cfg, shutdown, signalVars, announced, stopErr, request>>

Announce ==
  /\ main = "announce"
  /\ announced' = TRUE
  /\ main' = "notify"
  /\ UNCHANGED <<setupVars, cfg, serverVars, signalVars, stopErr, request>>

Notify ==
  /\ main = "notify"
  /\ registered' = TRUE
  /\ main' = "wait"
  /\ UNCHANGED <<setupVars, cfg, serverVars, sigChan, signalled, announced, stopErr, request>>

-----------------------------------------------------------------------------
(***************************************************************************)
(* The server goroutine.  http.Server looks at inShutdown before it listens *)
(* and again before it serves; then Serve returns and the goroutine ends.   *)
(***************************************************************************)

Listen ==
  /\ Alive
  /\ listener = "starting"
  /\ \/ shutdown /\ listener' = "closed"
     \/ ~shutdown /\ listener' \in {"bound", "refused"}
  /\ UNCHANGED <<setupVars, main, cfg, shutdown, signalVars, announced, stopErr, request>>

Serve ==
  /\ Alive
  /\ listener = "bound"
  /\ listener' = IF shutdown THEN "closed" ELSE "serving"
  /\ UNCHANGED <<setupVars, main, cfg, shutdown, signalVars, announced, stopErr, request>>

Open(r) ==
  /\ Alive
  /\ listener = "serving"
  /\ request[r] = "none"
  /\ request' = [request EXCEPT ![r] = "open"]
  /\ UNCHANGED <<setupVars, main, cfg, serverVars, signalVars, announced, stopErr>>

Answer(r) ==
  /\ Alive
  /\ request[r] = "open"
  /\ request' = [request EXCEPT ![r] = "answered"]
  /\ UNCHANGED <<setupVars, main, cfg, serverVars, signalVars, announced, stopErr>>

-----------------------------------------------------------------------------
(***************************************************************************)
(* Signals.  Until Notify, SIGINT ends the process, and SIGTERM always      *)
(* does.  A signal that finds the channel full is dropped.                  *)
(***************************************************************************)

(* The channel has room for one signal, so one that comes before main       *)
(* receives is kept.  Mutated: it has none, and the signal is dropped.      *)
NoBuffer == FALSE
Buffered == TRUE

Interrupt ==
  /\ Alive
  /\ IF registered
     THEN sigChan' = Buffered /\ UNCHANGED <<main, request>>
     ELSE End("killed") /\ UNCHANGED sigChan
  /\ signalled' = TRUE
  /\ UNCHANGED <<setupVars, cfg, serverVars, registered, announced, stopErr>>

Terminate ==
  /\ Alive
  /\ End("killed")
  /\ signalled' = TRUE
  /\ UNCHANGED <<setupVars, cfg, serverVars, registered, sigChan, announced, stopErr>>

ReceiveSignal ==
  /\ main = "wait"
  /\ sigChan
  /\ sigChan' = FALSE
  /\ main' = "stop"
  /\ UNCHANGED <<setupVars, cfg, serverVars, registered, signalled, announced, stopErr, request>>

(* Stop calls Shutdown, which marks the server and closes its listener.     *)
(* Mutated: Stop closes the listener there is, without a mark for one that  *)
(* is still to come.                                                        *)
Unmarked == shutdown
Marked == TRUE

BeginShutdown ==
  /\ main = "stop"
  /\ shutdown' = Marked
  /\ listener' = IF listener = "serving" THEN "closed" ELSE listener
  /\ main' = "drain"
  /\ UNCHANGED <<setupVars, cfg, signalVars, announced, stopErr, request>>

(* Shutdown waits for the requests that are running, for 5 seconds; then it *)
(* returns an error, which Stop logs, and main returns.  Mutated: Stop      *)
(* calls Close, which does not wait.                                        *)
NotAwaited == TRUE
Idle == \A r \in Requests : request[r] # "open"

Drained ==
  /\ main = "drain"
  /\ Idle
  /\ End("exited")
  /\ UNCHANGED <<setupVars, cfg, serverVars, signalVars, announced, stopErr>>

(* The context of Shutdown has a deadline.  Mutated: it has none.           *)
NoDeadline == FALSE
DeadlinePasses == ~Idle

DrainTimeout ==
  /\ main = "drain"
  /\ DeadlinePasses
  /\ stopErr' = TRUE
  /\ End("exited")
  /\ UNCHANGED <<setupVars, cfg, serverVars, signalVars, announced>>

-----------------------------------------------------------------------------
MainStep ==
  \/ ParseConfig \/ Sanitize \/ NewLogger \/ Connect \/ Start \/ Announce \/ Notify
  \/ ReceiveSignal \/ BeginShutdown \/ Drained \/ DrainTimeout

Next ==
  \/ MainStep
  \/ Listen
  \/ Serve
  \/ \E r \in Requests : Open(r) \/ Answer(r)
  \/ Interrupt
  \/ Terminate

Spec == Init /\ [][Next]_vars

(* The main goroutine runs when it can; whether requests are answered and   *)
(* signals sent is up to others.                                            *)
FairSpec == Spec /\ WF_vars(MainStep)

-----------------------------------------------------------------------------
(* A request is only ever accepted by a process with a configuration that   *)
(* is complete and a client with a usable list of nodes.                    *)
ServesOnlyWhenReady ==
  \A r \in Requests : request[r] # "none" =>
    /\ client = "ok" /\ nodes # <<>>
    /\ \A f \in Fields : cfg[f] \in {"given", "default"}

(* The process panics only for what its user got wrong, something invalid   *)
(* in the configuration or no node that can be reached; and then the panic  *)
(* names every URL, although equal ones share a key of errs.                *)
PanicsWithCause ==
  main = "panicked" =>
    \/ \E f \in Fields : cfg[f] = "invalid"
    \/ \A k \in 1 .. Len(Urls) : Urls[k] \in message

(* The process implements what module ServerLife promises.  A port that is  *)
(* refused never opens, and a goroutine of Start that comes to listen after *)
(* Stop opens nothing either.  A Stop without an error has answered every   *)
(* request the server ever accepted.                                        *)
Life ==
  IF main = "exited" /\ ~stopErr THEN "stopped"
  ELSE IF ~Alive THEN "aborted"
  ELSE IF main = "drain" THEN "closing"
  ELSE IF listener = "serving" THEN "open" ELSE "closed"

L == INSTANCE ServerLife WITH life <- Life, served <- request

ImplementsServerLife == L!Spec

(* Main never gets stuck: unless it waits for a signal that nobody has sent *)
(* it can take its next step -- it always has a configuration to go on      *)
(* with or panics, a signal sent after Notify is in the channel until main  *)
(* takes it, and a request that hangs does not keep Stop from returning.    *)
MainAble ==
  \/ main \in {"config", "sanitize", "logger", "start", "announce", "notify", "stop"}
  \/ main = "connect" /\ client = "building"
  \/ main = "wait" /\ sigChan
  \/ main = "drain" /\ (Idle \/ DeadlinePasses)
NeverStuck == Alive /\ ~MainAble => main = "wait" /\ registered /\ ~sigChan

(* A signal ends the process, whenever it comes: before main has asked for  *)
(* signals (main.go:84), after that and before main receives, or when main  *)
(* waits; and whatever the requests do.  None is lost on the way.           *)
SignalEndsProcess == signalled ~> ~Alive

(* proxy/service.go:40 logs "listening on port": the server does listen, or *)
(* is about to.                                                             *)
AnnouncedMeansListening == announced /\ main = "wait" => listener # "refused"
=============================================================================
