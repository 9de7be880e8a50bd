---------------------------- MODULE HealthProbe ----------------------------
(***************************************************************************)
(* GET /health (proxy/api.go) on top of BlockNumber (proxy/eth_client.go):  *)
(* the text in which BlockNumber collects its errors, and the list of       *)
(* failures and status code that Health makes of it.  The probe is alone    *)
(* here; module MultiNodeClient has it race with other operations.          *)
(*                                                                          *)
(* A text is modelled by what strings.Split(text, "|") returns: a sequence  *)
(* of pieces, one more than the text has bars.  The empty text is one empty *)
(* piece.                                                                   *)
(***************************************************************************)
EXTENDS SequencesExt, BlockHeights

CONSTANTS
  N,           \* number of nodes behind the multi-node client
  Tips         \* block heights they may report

ASSUME NAssumption == N \in Nat \ {0}
ASSUME TipsAssumption == Tips \subseteq Uint

VARIABLES
  pos,         \* loop variable i of BlockNumber
  heights,     \* blockheights
  from,        \* history: the position each of the heights came from
  text,        \* errStr, later the text of the error returned
  result,      \* of BlockNumber: "none", "nil" or "err"
  failures,    \* health.Failures
  code         \* status code of the response, 0 before it

probe == <<pos, heights, from>>
response == <<failures, code>>
vars == <<probe, text, result, response>>

Empty == [says |-> "nothing"]
NodeError(i) == [says |-> "error", node |-> i]
Remainder(i) == [says |-> "after the bar", node |-> i]
TipsError(i, h, j, k) == [says |-> "tips", node |-> i, height |-> h, other |-> j, otherHeight |-> k]

(* A node chooses the wording of its errors, which may contain a bar.       *)
Wordings(i) == {<<NodeError(i)>>, <<NodeError(i), Remainder(i)>>}

(* errStr += "...|", where errStr is empty or ends with a bar.  Mutated:    *)
(* the bar at the end of the message is forgotten.                          *)
Unterminated(t, pieces) == Front(t) \o pieces
Plus(t, pieces) == Front(t) \o pieces \o <<Empty>>

Init ==
  /\ pos = 0
  /\ heights = <<>>
  /\ from = <<>>
  /\ text = <<Empty>>
  /\ result = "none"
  /\ failures = <<>>
  /\ code = 0

Asking == pos < N

(* The error message names position pos - 1, whichever position the height  *)
(* before this one came from.                                               *)
NodeAnswers(h) ==
  /\ Asking
  /\ pos' = pos + 1
  /\ heights' = Append(heights, h)
  /\ from' = Append(from, pos)
  /\ text' = IF TipsDiffer(heights, h)
             THEN Plus(text, <<TipsError(pos, h, pos - 1, Last(heights))>>)
             ELSE text
  /\ UNCHANGED <<result, response>>

NodeFails ==
  /\ Asking
  /\ pos' = pos + 1
  /\ \E wording \in Wordings(pos) : text' = Plus(text, wording)
  /\ UNCHANGED <<heights, from, result, response>>

(* The loop is over; a non-empty errStr becomes the error.                  *)
Returns ==
  /\ pos = N
  /\ result = "none"
  /\ result' = IF text # <<Empty>> THEN "err" ELSE "nil"
  /\ UNCHANGED <<probe, text, response>>

(* failureArray[0 : len(failureArray)-1].  Mutated: all of it.              *)
AllPieces(t) == t
Trimmed(t) == Front(t)

Health ==
  /\ result # "none"
  /\ code = 0
  /\ failures' = IF result = "err" THEN Trimmed(text) ELSE <<>>
  /\ code' = IF Len(failures') > 0 THEN 503 ELSE 200
  /\ UNCHANGED <<probe, text, result>>

Next ==
  \/ \E h \in Tips : NodeAnswers(h)
  \/ NodeFails
  \/ Returns
  \/ Health

Spec == Init /\ [][Next]_vars

-----------------------------------------------------------------------------
Responded == code # 0
Silent == {i \in 0 .. N - 1 : \A k \in 1 .. Len(from) : from[k] # i}
Listed(f) == \E k \in 1 .. Len(failures) : failures[k] = f

(* The probe of the multi-node client loses nothing on its way through the  *)
(* text: the response is 503 iff BlockNumber failed, every node that gave   *)
(* no height is listed, and so is every pair of consecutive heights further *)
(* apart than blockDiff; a healthy response lists nothing.                  *)
HealthListsEveryFault ==
  Responded =>
    /\ code = 503 <=> result = "err"
    /\ code = 200 <=> failures = <<>>
    /\ \A i \in Silent : Listed(NodeError(i))
    /\ \A k \in 1 .. Len(heights) - 1 :
         heights[k] > heights[k + 1] + blockDiff \/ heights[k + 1] > heights[k] + blockDiff =>
           \E j \in 0 .. N : Listed(TipsError(from[k + 1], heights[k + 1], j, heights[k]))

(* A line of the response is about something that happened: an error of the *)
(* node it names, or two heights that do lie too far apart.                 *)
NothingInvented ==
  \A k \in 1 .. Len(failures) :
    LET f == failures[k] IN
    \/ f.says \in {"error", "after the bar"} /\ f.node \in Silent
    \/ /\ f.says = "tips"
       /\ \E m \in 2 .. Len(heights) :
            /\ from[m] = f.node
            /\ heights[m] = f.height /\ heights[m - 1] = f.otherHeight
            /\ f.height + blockDiff < f.otherHeight \/ f.otherHeight + blockDiff < f.height

(* eth_client.go:134: "nodes %d (height=%d) and %d (height=%d) are          *)
(* reporting different chain tips": both heights are those of the nodes     *)
(* named with them.                                                         *)
TipsNamedRight ==
  \A k \in 1 .. Len(failures) : failures[k].says = "tips" =>
    \E m \in 1 .. Len(heights) :
      from[m] = failures[k].other /\ heights[m] = failures[k].otherHeight
=============================================================================
