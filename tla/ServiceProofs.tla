--------------------------- MODULE ServiceProofs ---------------------------
(***************************************************************************)
(* Safety of the process, for any list of URLs and any number of requests.  *)
(***************************************************************************)
EXTENDS Service, TLAPS

(***************************************************************************)
(* The constructor.                                                         *)
(***************************************************************************)

Items == [id : Nat, url : 1 .. Len(Urls)]

SetupTypeOK ==
  /\ i \in 1 .. Len(Urls) + 1
  /\ nodes \in Seq(Items)
  /\ client \in {"building", "ok", "error"}

(* The list has the nodes of the URLs tried so far, in their order; every   *)
(* URL tried has left a node or an error, and without any node the message  *)
(* has all errors.                                                          *)
SetupInv ==
  /\ SetupTypeOK
  /\ \A k \in 1 .. Len(nodes) : nodes[k].id = k - 1 /\ nodes[k].url < i
  /\ \A k, l \in 1 .. Len(nodes) : k < l => nodes[k].url < nodes[l].url
  /\ client = "building" => \A k \in 1 .. Len(Urls) : k < i =>
       Urls[k] \in errs \/ \E l \in 1 .. Len(nodes) : nodes[l].url = k
  /\ client = "error" => \A k \in 1 .. Len(Urls) : Urls[k] \in message
  /\ client # "building" => i = Len(Urls) + 1 /\ (client = "error" <=> nodes = <<>>)

(* At first no URL has been tried.                                          *)
LEMMA InitSetup == SetupInit => SetupInv
BY UrlsAssumption DEF SetupInit, SetupInv, SetupTypeOK

(* An item knows the position of its URL.                                   *)
LEMMA UrlOfItem ==
  ASSUME SetupTypeOK, NEW k \in 1 .. Len(nodes)
  PROVE  nodes[k].url \in Nat
<1>1. nodes[k] \in Items
  BY DEF SetupTypeOK
<1> QED
  BY <1>1, UrlsAssumption DEF Items

(* A connected node goes to the end of the list.                            *)
LEMMA ConnectsStep ==
  ASSUME SetupInv, Connects
  PROVE  SetupInv'
<1> DEFINE item == [id |-> Len(nodes), url |-> i]
<1>1. /\ i \in 1 .. Len(Urls) /\ i' = i + 1 /\ client = "building"
      /\ nodes' = Append(nodes, item) /\ UNCHANGED <<errs, client>>
  BY UrlsAssumption DEF Connects, Trying, NextId, SetupInv, SetupTypeOK
<1>2. item \in Items /\ nodes \in Seq(Items)
  BY <1>1 DEF Items, SetupInv, SetupTypeOK
<1>3. /\ nodes' \in Seq(Items) /\ Len(nodes) \in Nat /\ Len(nodes') = Len(nodes) + 1
      /\ \A k \in 1 .. Len(nodes) : nodes'[k] = nodes[k]
      /\ nodes'[Len(nodes) + 1] = item
  BY <1>1, <1>2
<1>4. item.id = Len(nodes) /\ item.url = i
  OBVIOUS
<1> HIDE DEF item
<1>5. SetupTypeOK'
  BY <1>1, <1>3, UrlsAssumption DEF SetupInv, SetupTypeOK
<1>6. \A k \in 1 .. Len(nodes') : nodes'[k].id = k - 1 /\ nodes'[k].url < i'
  <2> TAKE k \in 1 .. Len(nodes')
  <2>1. CASE k \in 1 .. Len(nodes)
    <3>1. nodes[k].url \in Nat
      BY <2>1, UrlOfItem DEF SetupInv
    <3> QED
      BY <1>1, <1>3, <2>1, <3>1 DEF SetupInv
  <2>2. CASE k = Len(nodes) + 1
    BY <1>1, <1>3, <1>4, <2>2
  <2> QED
    BY <1>3, <2>1, <2>2
<1>7. \A k, l \in 1 .. Len(nodes') : k < l => nodes'[k].url < nodes'[l].url
  <2> SUFFICES ASSUME NEW k \in 1 .. Len(nodes'), NEW l \in 1 .. Len(nodes'), k < l
               PROVE  nodes'[k].url < nodes'[l].url
    OBVIOUS
  <2>1. CASE l \in 1 .. Len(nodes)
    BY <1>3, <2>1 DEF SetupInv
  <2>2. CASE l = Len(nodes) + 1
    BY <1>3, <1>4, <2>2 DEF SetupInv
  <2> QED
    BY <1>3, <2>1, <2>2
<1>8. \A k \in 1 .. Len(Urls) : k < i' =>
        Urls[k] \in errs' \/ \E l \in 1 .. Len(nodes') : nodes'[l].url = k
  <2> SUFFICES ASSUME NEW k \in 1 .. Len(Urls), k < i', Urls[k] \notin errs'
               PROVE  \E l \in 1 .. Len(nodes') : nodes'[l].url = k
    OBVIOUS
  <2>1. CASE k < i
    BY <1>1, <1>3, <2>1 DEF SetupInv
  <2>2. CASE k = i
    BY <1>3, <1>4, <2>2
  <2> QED
    BY <1>1, <2>1, <2>2, UrlsAssumption
<1> QED
  BY <1>1, <1>5, <1>6, <1>7, <1>8 DEF SetupInv

(* A URL that fails leaves an error.                                        *)
LEMMA FailsStep ==
  ASSUME SetupInv, FailsToConnect
  PROVE  SetupInv'
<1>1. /\ i \in 1 .. Len(Urls) /\ i' = i + 1 /\ client = "building"
      /\ errs' = errs \cup {Urls[i]} /\ UNCHANGED <<nodes, client>>
  BY UrlsAssumption DEF FailsToConnect, Trying, Noted, SetupInv, SetupTypeOK
<1>2. \A k \in 1 .. Len(nodes) : nodes[k].url \in Nat
  BY UrlOfItem DEF SetupInv
<1> QED
  BY <1>1, <1>2, UrlsAssumption DEF SetupInv, SetupTypeOK

(* The constructor is done when every URL has tried to connect; with no     *)
(* node every one of them is in the message.                                *)
LEMMA ConstructStep ==
  ASSUME SetupInv, Construct
  PROVE  SetupInv'
<1>1. /\ client = "building" /\ i = Len(Urls) + 1 /\ UNCHANGED <<i, nodes>>
      /\ client' = IF nodes = <<>> THEN "error" ELSE "ok"
      /\ message' = IF nodes = <<>> THEN errs ELSE {}
  BY UrlsAssumption DEF Construct, NoNodes, SetupInv, SetupTypeOK
<1>2. ASSUME nodes = <<>>
      PROVE  \A k \in 1 .. Len(Urls) : Urls[k] \in errs
  <2>1. Len(nodes) = 0
    BY <1>2
  <2> QED
    BY <1>1, <2>1, UrlsAssumption DEF SetupInv
<1> QED
  BY <1>1, <1>2 DEF SetupInv, SetupTypeOK

(* The invariant only depends on the variables of the constructor.          *)
LEMMA SetupStutter ==
  ASSUME SetupInv, UNCHANGED setupVars
  PROVE  SetupInv'
BY DEF setupVars, SetupInv, SetupTypeOK

-----------------------------------------------------------------------------
(***************************************************************************)
(* The process.                                                             *)
(***************************************************************************)

Mains == {"config", "sanitize", "logger", "connect", "start", "announce", "notify", "wait",
          "stop", "drain"} \cup Ended

ProcessTypeOK ==
  /\ main \in Mains
  /\ cfg \in [Fields -> {"", "given", "invalid", "default"}]
  /\ listener \in {"none", "starting", "bound", "serving", "refused", "closed"}
  /\ shutdown \in BOOLEAN
  /\ stopErr \in BOOLEAN
  /\ request \in [Requests -> {"none", "open", "answered", "cut off"}]

Complete == \A f \in Fields : cfg[f] \in {"given", "default"}
Started == main \in {"start", "announce", "notify", "wait", "stop", "drain", "exited"}

(* How far main has come, and what must be in place by then.                *)
ProgressInv ==
  /\ main = "sanitize" => cfg["Port"] # "invalid"
  /\ main = "logger" => \A f \in Fields : cfg[f] # "" /\ (f = "Port" => cfg[f] # "invalid")
  /\ main = "connect" => Complete
  /\ main \in {"config", "sanitize", "logger", "connect"} => client = "building"
  /\ Started \/ listener # "none" => Complete /\ client = "ok"
  /\ PanicsWithCause

(* What the server does while main starts and stops it.                     *)
ServerInv ==
  /\ main \in {"config", "sanitize", "logger", "connect", "start"} => listener = "none"
  /\ shutdown => main = "drain" \/ ~Alive
  /\ main = "drain" => shutdown /\ listener # "serving"
  /\ \A r \in Requests :
       /\ request[r] # "none" => listener \in {"serving", "closed"}
       /\ request[r] = "cut off" => ~Alive
  /\ main \notin {"exited"} => ~stopErr

ProcessInv == SetupInv /\ ProcessTypeOK /\ ProgressInv /\ ServerInv

(* At first main reads its configuration and nothing else is there.         *)
LEMMA InitProcess == Init => ProcessInv
BY InitSetup DEF Init, ProcessInv, ProcessTypeOK, ProgressInv, ServerInv, Mains, Ended, Alive,
   Started, PanicsWithCause, SetupInit

(* Main before the server: nothing is served yet, and no client is built.   *)
LEMMA BeforeStart ==
  ASSUME ProcessInv, ParseConfig \/ Sanitize \/ NewLogger
  PROVE  ProcessInv'
<1>1. /\ main \in {"config", "sanitize", "logger"} /\ client = "building" /\ listener = "none"
      /\ UNCHANGED <<i, nodes, errs, message, client, listener, shutdown, stopErr, request>>
  <2>1. main \in {"config", "sanitize", "logger"}
    BY DEF ParseConfig, Sanitize, NewLogger
  <2> QED
    BY <2>1 DEF ParseConfig, Sanitize, NewLogger, setupVars, serverVars, ProcessInv, ProgressInv
<1>2. SetupInv'
  BY <1>1, SetupStutter DEF ProcessInv, setupVars
<1>3. ProcessTypeOK' /\ ProgressInv'
  <2>1. CASE ParseConfig
    BY <1>1, <2>1 DEF ParseConfig, ProcessInv, ProcessTypeOK, ProgressInv, Mains, Ended, Fields,
       Started, PanicsWithCause
  <2>2. CASE Sanitize
    BY <1>1, <2>2 DEF Sanitize, Defaulted, ProcessInv, ProcessTypeOK, ProgressInv, Mains, Ended,
       Fields, Started, PanicsWithCause
  <2>3. CASE NewLogger
    BY <1>1, <2>3 DEF NewLogger, ProcessInv, ProcessTypeOK, ProgressInv, Mains, Ended, Fields,
       Started, Complete, PanicsWithCause
  <2> QED
    BY <2>1, <2>2, <2>3
<1>4. ServerInv'
  <2>1. main' \in {"sanitize", "logger", "connect", "panicked"}
    BY DEF ParseConfig, Sanitize, NewLogger
  <2> QED
    BY <1>1, <2>1 DEF ProcessInv, ServerInv, Alive, Ended
<1> QED
  BY <1>2, <1>3, <1>4 DEF ProcessInv

(* Main goes through the constructor's steps to Start, or panics.           *)
LEMMA ConnectStep ==
  ASSUME ProcessInv, Connect
  PROVE  ProcessInv'
<1>1. /\ main = "connect" /\ client = "building" /\ listener = "none" /\ Complete
      /\ UNCHANGED <<cfg, listener, shutdown, stopErr, request>>
  BY DEF Connect, serverVars, ProcessInv, ProgressInv
<1>2. SetupInv'
  BY ConnectsStep, FailsStep, ConstructStep DEF Connect, ProcessInv
<1>3. main' = CASE client' = "ok" -> "start" [] client' = "error" -> "panicked" [] OTHER -> main
  BY DEF Connect
<1>4. client' \in {"building", "ok", "error"}
  BY <1>2 DEF SetupInv, SetupTypeOK
<1>5. PanicsWithCause'
  BY <1>1, <1>2, <1>3 DEF SetupInv, PanicsWithCause
<1>6. ProcessTypeOK' /\ ProgressInv'
  BY <1>1, <1>3, <1>4, <1>5 DEF ProcessInv, ProcessTypeOK, ProgressInv, Mains, Started, Complete, Ended
<1>7. ServerInv'
  BY <1>1, <1>3, <1>4 DEF ProcessInv, ServerInv, Alive, Ended
<1> QED
  BY <1>2, <1>6, <1>7 DEF ProcessInv

(* What no step after the constructor changes.                              *)
Settled == UNCHANGED <<i, nodes, errs, message, client, cfg>>

(* So what depends on these alone is kept.                                  *)
LEMMA SettledKeeps ==
  ASSUME ProcessInv, Settled
  PROVE  /\ SetupInv' /\ Complete' = Complete
         /\ main' = main \/ main' # "panicked" => PanicsWithCause'
<1>1. SetupInv'
  BY SetupStutter DEF ProcessInv, Settled, setupVars
<1> QED
  BY <1>1 DEF Settled, Complete, ProcessInv, ProgressInv, PanicsWithCause

(* Main from Start to the end of the process, and the server goroutine.     *)
LEMMA ServingStep ==
  ASSUME ProcessInv,
         Start \/ Announce \/ Notify \/ ReceiveSignal \/ BeginShutdown \/ Listen \/ Serve
  PROVE  ProcessInv'
<1>1. Settled /\ UNCHANGED <<stopErr, request>>
  BY DEF Start, Announce, Notify, ReceiveSignal, BeginShutdown, Listen, Serve, setupVars, Settled
<1>2. main' = main \/ main' # "panicked"
  BY DEF Start, Announce, Notify, ReceiveSignal, BeginShutdown, Listen, Serve
<1>3. SetupInv' /\ PanicsWithCause'
  BY <1>1, <1>2, SettledKeeps
<1>4. ProcessTypeOK'
  BY <1>1 DEF Start, Announce, Notify, ReceiveSignal, BeginShutdown, Listen, Serve, Marked,
     serverVars, Settled, ProcessInv, ProcessTypeOK, Mains, Ended
<1>5. ProgressInv'
  BY <1>1, <1>3, SettledKeeps DEF Start, Announce, Notify, ReceiveSignal, BeginShutdown, Listen,
     Serve, serverVars, Settled, ProcessInv, ProgressInv, Started
<1>6. ServerInv'
  <2>1. request' = request /\ stopErr' = stopErr /\ main \notin Ended /\ main' \notin Ended
    BY <1>1 DEF Start, Announce, Notify, ReceiveSignal, BeginShutdown, Listen, Serve, Ended, Alive
  <2>2. ~stopErr'
    BY <2>1 DEF ProcessInv, ServerInv, Ended
  <2>3. main' \in {"config", "sanitize", "logger", "connect", "start"} => listener' = "none"
    BY DEF Start, Announce, Notify, ReceiveSignal, BeginShutdown, Listen, Serve, serverVars,
       ProcessInv, ServerInv
  <2>4. /\ shutdown' => main' = "drain" \/ ~Alive'
        /\ main' = "drain" => shutdown' /\ listener' # "serving"
    <3>1. CASE Start \/ Announce \/ Notify \/ ReceiveSignal
      <4>1. main # "drain" /\ main' # "drain" /\ shutdown' = shutdown
        BY <3>1 DEF Start, Announce, Notify, ReceiveSignal, serverVars
      <4> QED
        BY <4>1, <2>1 DEF ProcessInv, ServerInv, Alive
    <3>2. CASE BeginShutdown
      BY <3>2 DEF BeginShutdown, Marked
    <3>3. CASE Listen \/ Serve
      <4>1. main' = main /\ shutdown' = shutdown /\ (shutdown => listener' # "serving")
        BY <3>3 DEF Listen, Serve
      <4> QED
        BY <2>1, <4>1 DEF ProcessInv, ServerInv, Alive
    <3> QED
      BY <3>1, <3>2, <3>3
  <2>5. ASSUME NEW r \in Requests
        PROVE  /\ request'[r] # "none" => listener' \in {"serving", "closed"}
               /\ request'[r] = "cut off" => ~Alive'
    <3>1. listener \in {"serving", "closed"} => listener' \in {"serving", "closed"}
      BY DEF Start, Announce, Notify, ReceiveSignal, BeginShutdown, Listen, Serve, serverVars,
         ProcessInv, ServerInv
    <3> QED
      BY <2>1, <3>1 DEF ProcessInv, ServerInv, Alive
  <2> QED
    BY <2>2, <2>3, <2>4, <2>5 DEF ServerInv
<1> QED
  BY <1>3, <1>4, <1>5, <1>6 DEF ProcessInv

(* A request is opened or answered only by a server that serves.            *)
LEMMA RequestStep ==
  ASSUME ProcessInv, NEW r \in Requests, Open(r) \/ Answer(r)
  PROVE  ProcessInv'
<1>1. /\ Settled /\ UNCHANGED <<main, listener, shutdown, stopErr>> /\ Alive
      /\ \E s \in {"open", "answered"} : request' = [request EXCEPT ![r] = s]
      /\ request[r] # "none" \/ listener = "serving"
  BY DEF Open, Answer, setupVars, serverVars, Settled
<1>2. SetupInv' /\ PanicsWithCause'
  BY <1>1, SettledKeeps
<1>3. ProcessTypeOK'
  BY <1>1 DEF Settled, ProcessInv, ProcessTypeOK
<1>4. ProgressInv'
  BY <1>1, <1>2, SettledKeeps DEF Settled, ProcessInv, ProgressInv, Started
<1>5. ServerInv'
  BY <1>1 DEF ProcessInv, ProcessTypeOK, ServerInv, Alive, Ended
<1> QED
  BY <1>2, <1>3, <1>4, <1>5 DEF ProcessInv

(* The process ends, by itself or by a signal; its requests with it.        *)
LEMMA EndStep ==
  ASSUME ProcessInv, Interrupt \/ Terminate \/ Drained \/ DrainTimeout
  PROVE  ProcessInv'
<1>1. Settled /\ UNCHANGED <<listener, shutdown>>
  BY DEF Interrupt, Terminate, Drained, DrainTimeout, setupVars, serverVars, Settled
<1>2. CASE Interrupt /\ registered
  <2>1. UNCHANGED <<main, stopErr, request>>
    BY <1>2 DEF Interrupt
  <2>2. SetupInv' /\ PanicsWithCause'
    BY <1>1, <2>1, SettledKeeps
  <2>3. ProcessTypeOK' /\ ServerInv'
    BY <1>1, <2>1 DEF Settled, ProcessInv, ProcessTypeOK, ServerInv, Alive
  <2>4. ProgressInv'
    BY <1>1, <2>1, <2>2, SettledKeeps DEF Settled, ProcessInv, ProgressInv, Started
  <2> QED
    BY <2>2, <2>3, <2>4 DEF ProcessInv
<1>3. CASE (Interrupt /\ ~registered) \/ Terminate \/ Drained \/ DrainTimeout
  <2>1. \/ End("killed") /\ UNCHANGED stopErr /\ Alive
        \/ End("exited") /\ main = "drain" /\ (stopErr' \/ Idle) /\ stopErr' \in BOOLEAN
    BY <1>3 DEF Interrupt, Terminate, Drained, DrainTimeout, ProcessInv, ProcessTypeOK
  <2>2. /\ main' \in {"killed", "exited"}
        /\ request' = [r \in Requests |-> IF request[r] = "open" THEN "cut off" ELSE request[r]]
    BY <2>1 DEF End
  <2>3. SetupInv' /\ PanicsWithCause'
    BY <1>1, <2>2, SettledKeeps
  <2>4. ProcessTypeOK'
    BY <1>1, <2>1, <2>2 DEF Settled, ProcessInv, ProcessTypeOK, Mains, Ended
  <2>5. ProgressInv'
    <3>1. main' = "exited" => Started
      BY <2>1 DEF End, Started
    <3> QED
      BY <1>1, <2>2, <2>3, <3>1, SettledKeeps DEF Settled, ProcessInv, ProgressInv, Started
  <2>6. ServerInv'
    <3>1. main' = "killed" => ~stopErr'
      BY <2>1 DEF End, ProcessInv, ServerInv, Alive, Ended
    <3> QED
      BY <1>1, <2>2, <3>1 DEF ProcessInv, ServerInv, Alive, Ended
  <2> QED
    BY <2>3, <2>4, <2>5, <2>6 DEF ProcessInv
<1> QED
  BY <1>2, <1>3 

(* Every step keeps the invariant.                                          *)
LEMMA ProcessStep ==
  ASSUME ProcessInv, [Next]_vars
  PROVE  ProcessInv'
<1>1. CASE UNCHANGED vars
  <2>1. Settled /\ UNCHANGED <<main, listener, shutdown, stopErr, request>>
    BY <1>1 DEF vars, setupVars, serverVars, Settled
  <2>2. SetupInv' /\ PanicsWithCause'
    BY <2>1, SettledKeeps
  <2> QED
    BY <2>1, <2>2 DEF Settled, ProcessInv, ProcessTypeOK, ProgressInv, Started, Complete, ServerInv,
       Alive
<1> QED
  BY <1>1, BeforeStart, ConnectStep, ServingStep, RequestStep, EndStep DEF Next, MainStep

-----------------------------------------------------------------------------
(***************************************************************************)
(* The theorems.                                                            *)
(***************************************************************************)

(* The inductive invariant holds in every state that can be reached.        *)
THEOREM ProcessInvariance == Spec => []ProcessInv
<1>1. ProcessInv /\ [Next]_vars => ProcessInv'
  BY ProcessStep
<1> QED
  BY InitProcess, <1>1, PTL DEF Spec

(* The invariant implies the safety properties.                             *)
LEMMA ProcessInvImplies ==
  ASSUME ProcessInv
  PROVE  UsableList /\ ServesOnlyWhenReady /\ PanicsWithCause
<1>1. UsableList
  BY DEF ProcessInv, SetupInv, UsableList
<1>2. ServesOnlyWhenReady
  <2> SUFFICES ASSUME NEW r \in Requests, request[r] # "none"
               PROVE  client = "ok" /\ nodes # <<>> /\ Complete
    BY DEF ServesOnlyWhenReady, Complete
  <2>1. client = "ok" /\ Complete
    BY DEF ProcessInv, ServerInv, ProgressInv
  <2> QED
    BY <2>1 DEF ProcessInv, SetupInv
<1> QED
  BY <1>1, <1>2 DEF ProcessInv, ProgressInv, ServerInv

(* The list the constructor returns is in order, and ids are positions.     *)
THEOREM ListIsUsable == Spec => []UsableList
BY ProcessInvariance, ProcessInvImplies, PTL

(* A request is only accepted when configuration and client are complete.   *)
THEOREM ReadyBeforeServing == Spec => []ServesOnlyWhenReady
BY ProcessInvariance, ProcessInvImplies, PTL

(* The process panics only for what its user got wrong, and then names all  *)
(* the URLs.                                                                *)
THEOREM PanicsHaveCauses == Spec => []PanicsWithCause
BY ProcessInvariance, ProcessInvImplies, PTL

(* Once Shutdown has been called, no new request is accepted.               *)
NothingAcceptedAfterStop ==
  [][\A r \in Requests : request[r] = "none" /\ request'[r] = "open" => main # "drain"]_vars

(* No step accepts a request while main drains.                             *)
THEOREM ClosedAfterStop == Spec => NothingAcceptedAfterStop
<1>1. ProcessInv /\ [Next]_vars =>
        [\A r \in Requests : request[r] = "none" /\ request'[r] = "open" => main # "drain"]_vars
  <2> SUFFICES ASSUME ProcessInv, Next, NEW r \in Requests,
                      request[r] = "none", request'[r] = "open"
               PROVE  main # "drain"
    OBVIOUS
  <2>1. PICK q \in Requests : Open(q) \/ Answer(q)
    BY DEF Next, MainStep, ParseConfig, Sanitize, NewLogger, Connect, Start, Announce, Notify,
       ReceiveSignal, BeginShutdown, Drained, DrainTimeout, Listen, Serve, Interrupt, Terminate, End
  <2>2. Open(q)
    BY <2>1 DEF Answer, ProcessInv, ProcessTypeOK
  <2> QED
    BY <2>2 DEF Open, ProcessInv, ServerInv
<1> QED
  BY <1>1, ProcessInvariance, PTL DEF Spec, NothingAcceptedAfterStop

(* Main waits for a signal, and ends, only when it has asked for signals.   *)
Listens == main \in {"wait", "stop", "drain"} => registered

(* No step takes the registration back.                                     *)
LEMMA ListensStep == Listens /\ [Next]_vars => Listens'
BY DEF Listens, Next, vars, MainStep, ParseConfig, Sanitize, NewLogger, Connect, Start, Announce,
   Notify, ReceiveSignal, BeginShutdown, Drained, DrainTimeout, Listen, Serve, Open, Answer,
   Interrupt, Terminate, End, signalVars

(* Main can take its next step, or waits for a signal that nobody has sent. *)
THEOREM MainIsNeverStuck == Spec => []NeverStuck
<1>1. Init => Listens
  BY DEF Init, Listens
<1>2. ProcessInv /\ Listens => NeverStuck
  BY DEF ProcessInv, ProcessTypeOK, ProgressInv, Mains, Listens, NeverStuck, MainAble, Alive,
     DeadlinePasses
<1> QED
  BY <1>1, <1>2, ListensStep, ProcessInvariance, PTL DEF Spec

-----------------------------------------------------------------------------
(***************************************************************************)
(* The process implements ServerLife.                                       *)
(***************************************************************************)

(* The server goroutine and Stop close the listener for nothing else.       *)
ClosedForGood == listener = "closed" => main = "drain" \/ ~Alive

(* The listener is closed by Stop, or after it.                             *)
LEMMA ClosedStep == ProcessInv /\ ClosedForGood /\ [Next]_vars => ClosedForGood'
BY DEF ProcessInv, ServerInv, ClosedForGood, Next, vars, MainStep, ParseConfig, Sanitize,
   NewLogger, Connect, Start, Announce, Notify, ReceiveSignal, BeginShutdown, Drained,
   DrainTimeout, Listen, Serve, Open, Answer, Interrupt, Terminate, End, serverVars, Alive, Ended

(* The life of a process that has not ended.                                *)
LEMMA LifeOfAlive ==
  ASSUME Alive
  PROVE  Life = IF main = "drain" THEN "closing" ELSE IF listener = "serving" THEN "open" ELSE "closed"
BY DEF Life, Alive, Ended

(* While no server serves, the process is closed, or ends with a panic.     *)
LEMMA LifeBeforeServing ==
  ASSUME ProcessInv, ParseConfig \/ Sanitize \/ NewLogger \/ Connect
  PROVE  [L!Next]_L!lifeVars
<1>1. /\ main \in {"config", "sanitize", "logger", "connect"} /\ listener = "none"
      /\ UNCHANGED <<listener, request>>
      /\ main' \in {"config", "sanitize", "logger", "connect", "start", "panicked"}
  BY DEF ParseConfig, Sanitize, NewLogger, Connect, serverVars, ProcessInv, ServerInv
<1>2. Life = "closed" /\ Life' = IF main' = "panicked" THEN "aborted" ELSE "closed"
  BY <1>1 DEF Life, Alive, Ended
<1>3. request = [r \in Requests |-> IF request[r] = "open" THEN "cut off" ELSE request[r]]
  BY <1>1 DEF ProcessInv, ProcessTypeOK, ServerInv
<1> QED
  BY <1>1, <1>2, <1>3 DEF L!Next, L!Abort, L!lifeVars

(* Start opens nothing by itself, Serve opens the server, Stop closes it.   *)
LEMMA LifeOfServer ==
  ASSUME ProcessInv,
         Start \/ Announce \/ Notify \/ ReceiveSignal \/ BeginShutdown \/ Listen \/ Serve
  PROVE  [L!Next]_L!lifeVars
<1>1. Alive /\ Alive' /\ UNCHANGED request
  BY DEF Start, Announce, Notify, ReceiveSignal, BeginShutdown, Listen, Serve, Alive, Ended
<1>2. /\ Life = IF main = "drain" THEN "closing" ELSE IF listener = "serving" THEN "open" ELSE "closed"
      /\ Life' = IF main' = "drain" THEN "closing" ELSE IF listener' = "serving" THEN "open" ELSE "closed"
  BY <1>1, LifeOfAlive DEF Life, Alive, Ended
<1>3. CASE Start \/ Announce \/ Notify \/ ReceiveSignal \/ Listen
  <2>1. Life' = Life
    BY <1>2, <1>3 DEF Start, Announce, Notify, ReceiveSignal, Listen, serverVars, ProcessInv,
       ServerInv
  <2> QED
    BY <1>1, <2>1 DEF L!lifeVars
<1>4. CASE BeginShutdown
  <2>1. Life \in {"closed", "open"} /\ Life' = "closing"
    BY <1>2, <1>4 DEF BeginShutdown
  <2> QED
    BY <1>1, <2>1 DEF L!Next, L!Close
<1>5. CASE Serve /\ shutdown
  <2>1. Life = "closing" /\ Life' = "closing"
    BY <1>1, <1>2, <1>5 DEF Serve, ProcessInv, ServerInv
  <2> QED
    BY <1>1, <2>1 DEF L!lifeVars
<1>6. CASE Serve /\ ~shutdown
  <2>1. Life = "closed" /\ Life' = "open"
    BY <1>1, <1>2, <1>6 DEF Serve, ProcessInv, ServerInv
  <2> QED
    BY <1>1, <2>1 DEF L!Next, L!OpenUp
<1> QED
  BY <1>3, <1>4, <1>5, <1>6

(* A request is admitted by an open server, and answered by one that has    *)
(* not ended.                                                               *)
LEMMA LifeOfRequest ==
  ASSUME ProcessInv, ClosedForGood, NEW r \in Requests, Open(r) \/ Answer(r)
  PROVE  L!Next
<1>1. Alive /\ UNCHANGED <<main, listener, stopErr>>
  BY DEF Open, Answer, serverVars
<1>2. Life' = Life
  BY <1>1 DEF Life, Alive
<1>3. CASE Open(r)
  <2>1. Life = "open"
    BY <1>1, <1>3, LifeOfAlive DEF Open, ProcessInv, ServerInv
  <2> QED
    BY <1>2, <1>3, <2>1 DEF Open, L!Next, L!Admit
<1>4. CASE Answer(r)
  <2>1. listener \in {"serving", "closed"}
    BY <1>4 DEF Answer, ProcessInv, ServerInv
  <2>2. Life \in {"open", "closing"}
    BY <1>1, <2>1, LifeOfAlive DEF ClosedForGood
  <2> QED
    BY <1>2, <1>4, <2>2 DEF Answer, L!Next, L!Serve
<1> QED
  BY <1>3, <1>4

(* The process stops when no request is open, or aborts those that are.     *)
LEMMA LifeEnds ==
  ASSUME ProcessInv, Interrupt \/ Terminate \/ Drained \/ DrainTimeout
  PROVE  [L!Next]_L!lifeVars
<1>1. Alive
  BY DEF Interrupt, Terminate, Drained, DrainTimeout, Alive, Ended
<1>2. Life \in {"closed", "open", "closing"}
  BY <1>1, LifeOfAlive
<1>3. CASE Interrupt /\ registered
  BY <1>3 DEF Interrupt, serverVars, Life, Alive, L!lifeVars
<1>4. CASE (Interrupt /\ ~registered) \/ Terminate \/ DrainTimeout
  <2>1. Life' = "aborted"
    BY <1>4 DEF Interrupt, Terminate, DrainTimeout, End, Life, Alive, Ended
  <2>2. request' = [r \in Requests |-> IF request[r] = "open" THEN "cut off" ELSE request[r]]
    BY <1>4 DEF Interrupt, Terminate, DrainTimeout, End
  <2> QED
    BY <1>2, <2>1, <2>2 DEF L!Next, L!Abort
<1>5. CASE Drained
  <2>1. ~stopErr /\ stopErr' = stopErr /\ main = "drain" /\ main' = "exited"
    BY <1>1, <1>5 DEF Drained, End, ProcessInv, ServerInv, Alive, Ended
  <2>2. Life = "closing" /\ Life' = "stopped"
    BY <1>1, <2>1, LifeOfAlive DEF Life
  <2>3. \A r \in Requests : request[r] \in {"none", "answered"}
    BY <1>1, <1>5 DEF Drained, Idle, ProcessInv, ProcessTypeOK, ServerInv
  <2>4. request' = request
    BY <1>5, <2>3 DEF Drained, End, ProcessInv, ProcessTypeOK
  <2> QED
    BY <2>2, <2>3, <2>4 DEF L!Next, L!Stop
<1> QED
  BY <1>3, <1>4, <1>5

(* Every step of the process is one that ServerLife allows, or none of it.  *)
LEMMA LifeStep ==
  ASSUME ProcessInv, ClosedForGood, [Next]_vars
  PROVE  [L!Next]_L!lifeVars
<1>1. CASE UNCHANGED vars
  BY <1>1 DEF vars, serverVars, Life, Alive, L!lifeVars
<1> QED
  BY <1>1, LifeBeforeServing, LifeOfServer, LifeOfRequest, LifeEnds DEF Next, MainStep

(* The process opens and closes once, admits requests only in between, and  *)
(* stops cleanly or cuts off the requests that run.                         *)
THEOREM ProcessImplementsServerLife == Spec => ImplementsServerLife
<1>1. Init => L!Init /\ ClosedForGood
  BY DEF Init, L!Init, Life, Alive, Ended, ClosedForGood
<1>2. ProcessInv /\ ClosedForGood /\ [Next]_vars => [L!Next]_L!lifeVars
  BY LifeStep
<1> QED
  BY <1>1, <1>2, ClosedStep, ProcessInvariance, PTL DEF Spec, ImplementsServerLife, L!Spec

-----------------------------------------------------------------------------
(* What the multi-node client assumes when it starts is what the            *)
(* constructor has built: N is the length of the list, which is not 0, and  *)
(* position p holds the item with id p (NAssumption, Init there).           *)
THEOREM ClientStartsAsAssumed ==
  Spec => [](client = "ok" => LET Index == 0 .. Len(nodes) - 1 IN
               /\ Len(nodes) \in Nat \ {0}
               /\ [p \in Index |-> nodes[p + 1].id] = [p \in Index |-> p])
<1>1. ASSUME ProcessInv, client = "ok"
      PROVE  LET Index == 0 .. Len(nodes) - 1 IN
               /\ Len(nodes) \in Nat \ {0}
               /\ [p \in Index |-> nodes[p + 1].id] = [p \in Index |-> p]
  <2>1. nodes \in Seq(Items) /\ nodes # <<>>
    BY <1>1 DEF ProcessInv, SetupInv, SetupTypeOK
  <2>2. Len(nodes) \in Nat \ {0}
    BY <2>1
  <2>3. ASSUME NEW p \in 0 .. Len(nodes) - 1
        PROVE  nodes[p + 1].id = p
    <3>1. p + 1 \in 1 .. Len(nodes) /\ (p + 1) - 1 = p
      BY <2>2
    <3> QED
      BY <1>1, <3>1 DEF ProcessInv, SetupInv
  <2> QED
    BY <2>2, <2>3
<1> QED
  BY <1>1, ProcessInvariance, PTL
=============================================================================
