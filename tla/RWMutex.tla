------------------------------ MODULE RWMutex ------------------------------
(***************************************************************************)
(* Go's sync.RWMutex as multiNodeClient.mu uses it.  The type is part of    *)
(* Go's standard library, not of this repository: this module states the    *)
(* behaviour the callers in proxy/eth_client.go rely on.                    *)
(*                                                                          *)
(* A goroutine that calls Lock first becomes the announced writer (one at   *)
(* a time) and then waits until the readers of that moment have left.  From *)
(* the announcement on, a goroutine that calls RLock is queued; Unlock      *)
(* turns every queued goroutine into a reader.                              *)
(***************************************************************************)

CONSTANTS
  Handlers,    \* the goroutines that may call the lock
  NoHandler    \* "nobody", the writer when no Lock is announced

ASSUME NoHandlerAssumption == NoHandler \notin Handlers

VARIABLES
  readers,     \* goroutines holding the read lock
  queued,      \* goroutines whose RLock waits for the announced writer
  writer       \* the goroutine whose Lock is announced, or NoHandler

lockVars == <<readers, queued, writer>>

LockTypeOK ==
  /\ readers \subseteq Handlers
  /\ queued \subseteq Handlers
  /\ writer \in Handlers \cup {NoHandler}

LockInit ==
  /\ readers = {}
  /\ queued = {}
  /\ writer = NoHandler

(* RLock: granted at once, or queued behind the announced writer. *)
RLock(h) ==
  \/ /\ writer = NoHandler
     /\ readers' = readers \cup {h}
     /\ UNCHANGED <<queued, writer>>
  \/ /\ writer # NoHandler
     /\ queued' = queued \cup {h}
     /\ UNCHANGED <<readers, writer>>

RUnlock(h) ==
  /\ readers' = readers \ {h}
  /\ UNCHANGED <<queued, writer>>

(* First half of Lock: announce the writer and hold off new readers. *)
AnnounceLock(h) ==
  /\ writer = NoHandler
  /\ writer' = h
  /\ UNCHANGED <<readers, queued>>

(* Lock returns as soon as this holds for the announced writer.             *)
Drained == readers = {}

Unlock ==
  /\ writer' = NoHandler
  /\ readers' = readers \cup queued
  /\ queued' = {}
=============================================================================
