----------------------------- MODULE NodeSetup -----------------------------
(***************************************************************************)
(* NewMultiNodeClient (proxy/eth_client.go): one attempt per URL of the     *)
(* comma-separated list, in order.  URLs that cannot be connected are left  *)
(* out; with no node at all the constructor fails, with a message made of   *)
(* their errors.  Otherwise these errors are dropped: nothing tells that a  *)
(* URL was left out.                                                        *)
(***************************************************************************)
EXTENDS Naturals, Sequences

CONSTANT Urls      \* strings.Split(possibleUrls, ","): at least one, maybe equal ones

ASSUME UrlsAssumption == Len(Urls) \in Nat \ {0}

VARIABLES
  i,           \* loop variable, from 1 here
  nodes,       \* items: id, and url for what the item's client talks to
  errs,        \* keys of the local map errs: URLs that failed
  message,     \* URLs in the text of the error it returns
  client       \* "building", then "ok" or "error"

setupVars == <<i, nodes, errs, message, client>>

SetupInit ==
  /\ i = 1
  /\ nodes = <<>>
  /\ errs = {}
  /\ message = {}
  /\ client = "building"

Trying == client = "building" /\ i <= Len(Urls)

(* The id is the number of nodes so far.  Mutated: all nodes get the same   *)
(* id, that of the first.                                                   *)
SameId == 0
NextId == Len(nodes)

Connects ==
  /\ Trying
  /\ i' = i + 1
  /\ nodes' = Append(nodes, [id |-> NextId, url |-> i])
  /\ UNCHANGED <<errs, message, client>>

(* An error is noted under the URL's text.  Mutated: under a key that the   *)
(* next error overwrites.                                                   *)
Overwritten(u) == {u}
Noted(u) == errs \cup {u}

FailsToConnect ==
  /\ Trying
  /\ i' = i + 1
  /\ errs' = Noted(Urls[i])
  /\ UNCHANGED <<nodes, message, client>>

(* Mutated: the empty list is not refused.                                  *)
NotChecked == FALSE
NoNodes == nodes = <<>>

Construct ==
  /\ client = "building"
  /\ i > Len(Urls)
  /\ client' = IF NoNodes THEN "error" ELSE "ok"
  /\ message' = IF NoNodes THEN errs ELSE {}
  /\ errs' = {}
  /\ UNCHANGED <<i, nodes>>

-----------------------------------------------------------------------------
(* The list a client starts with is what module MultiNodeClient starts      *)
(* with: it is not empty, and the id of every item is its position, so that *)
(* increaseNodePriority can tell items by their ids.  The nodes have the    *)
(* order of their URLs.                                                     *)
UsableList ==
  client = "ok" =>
    /\ nodes # <<>>
    /\ \A k \in 1 .. Len(nodes) : nodes[k].id = k - 1
    /\ \A k, l \in 1 .. Len(nodes) : k < l => nodes[k].url < nodes[l].url
=============================================================================
