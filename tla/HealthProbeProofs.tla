------------------------- MODULE HealthProbeProofs -------------------------
(***************************************************************************)
(* The response of Health says what BlockNumber found, for any number of    *)
(* nodes, any heights, and error texts with or without a bar of their own.  *)
(***************************************************************************)
EXTENDS HealthProbe, BlockHeightsProofs, SequenceTheorems

(***************************************************************************)
(* Texts: a text ends with its empty piece, and says what comes before it.  *)
(***************************************************************************)

Pieces ==
  {Empty} \cup {NodeError(i) : i \in Nat} \cup {Remainder(i) : i \in Nat}
  \cup {TipsError(i, h, j, k) : i \in Nat, h \in Nat, j \in Nat, k \in Nat}

Terminated(t) == Len(t) >= 1 /\ t[Len(t)] = Empty
Said(t) == {t[k] : k \in 1 .. Len(t) - 1}

(* What Front leaves of a sequence.                                         *)
LEMMA Fronts ==
  ASSUME NEW T, NEW t \in Seq(T), Len(t) >= 1
  PROVE  /\ Front(t) \in Seq(T) /\ Len(Front(t)) = Len(t) - 1
         /\ \A k \in 1 .. Len(t) - 1 : Front(t)[k] = t[k]
<1>1. Len(t) \in Nat /\ \A k \in 1 .. Len(t) - 1 : t[k] \in T
  OBVIOUS
<1>2. /\ SubSeq(t, 1, Len(t) - 1) \in Seq(T)
      /\ Len(SubSeq(t, 1, Len(t) - 1)) = IF 1 <= Len(t) - 1 THEN Len(t) - 1 - 1 + 1 ELSE 0
      /\ \A k \in 1 .. Len(t) - 1 - 1 + 1 : SubSeq(t, 1, Len(t) - 1)[k] = t[1 + k - 1]
  BY <1>1, SubSeqProperties
<1> HIDE DEF Front
<1>3. Front(t) = SubSeq(t, 1, Len(t) - 1)
  BY DEF Front
<1>4. Len(SubSeq(t, 1, Len(t) - 1)) = Len(t) - 1
  <2> DEFINE n == Len(t) - 1
             q == Len(SubSeq(t, 1, n))
  <2>1. n \in Nat /\ q = IF 1 <= n THEN n - 1 + 1 ELSE 0
    BY <1>1, <1>2
  <2> HIDE DEF n, q
  <2>2. q = n
    BY <2>1
  <2> QED
    BY <2>2 DEF n, q
<1>5. ASSUME NEW k \in 1 .. Len(t) - 1
      PROVE  SubSeq(t, 1, Len(t) - 1)[k] = t[k]
  <2>1. k \in 1 .. Len(t) - 1 - 1 + 1 /\ 1 + k - 1 = k
    BY <1>1
  <2> QED
    BY <1>2, <2>1
<1> QED
  BY <1>2, <1>3, <1>4, <1>5

(* Only the text of nothing says nothing.                                   *)
LEMMA Speechless ==
  ASSUME NEW t \in Seq(Pieces), Terminated(t)
  PROVE  t = <<Empty>> <=> Len(Front(t)) = 0
<1>1. Len(t) \in Nat /\ Len(Front(t)) = Len(t) - 1
  BY Fronts DEF Terminated
<1>2. ASSUME Len(t) = 1
      PROVE  t = <<Empty>>
  BY <1>2 DEF Terminated
<1> QED
  BY <1>1, <1>2 DEF Terminated

(* Plus puts new pieces behind what was said, and a bar behind them.        *)
LEMMA PlusSays ==
  ASSUME NEW t \in Seq(Pieces), Terminated(t), NEW p \in Seq(Pieces)
  PROVE  /\ Plus(t, p) \in Seq(Pieces) /\ Terminated(Plus(t, p))
         /\ Said(Plus(t, p)) = Said(t) \cup {p[k] : k \in 1 .. Len(p)}
<1> DEFINE f == Front(t)
           u == f \o p \o <<Empty>>
<1>1. /\ f \in Seq(Pieces) /\ Len(f) = Len(t) - 1 /\ Len(t) \in Nat /\ Len(p) \in Nat
      /\ \A k \in 1 .. Len(t) - 1 : f[k] = t[k]
  BY Fronts DEF Terminated
<1>2. Empty \in Pieces /\ <<Empty>> \in Seq(Pieces)
  BY DEF Pieces
<1> HIDE DEF f
<1> DEFINE v == f \o p
<1>3. /\ v \in Seq(Pieces) /\ Len(v) = Len(f) + Len(p)
      /\ \A k \in 1 .. Len(f) + Len(p) : v[k] = IF k <= Len(f) THEN f[k] ELSE p[k - Len(f)]
  BY <1>1, ConcatProperties
<1>4. /\ u \in Seq(Pieces) /\ Len(u) = Len(v) + 1
      /\ \A k \in 1 .. Len(v) + 1 : u[k] = IF k <= Len(v) THEN v[k] ELSE <<Empty>>[k - Len(v)]
  <2> HIDE DEF v
  <2>1. Len(<<Empty>>) = 1
    OBVIOUS
  <2>2. /\ v \o <<Empty>> \in Seq(Pieces) /\ Len(v \o <<Empty>>) = Len(v) + Len(<<Empty>>)
        /\ \A k \in 1 .. Len(v) + Len(<<Empty>>) :
             (v \o <<Empty>>)[k] = IF k <= Len(v) THEN v[k] ELSE <<Empty>>[k - Len(v)]
    BY <1>2, <1>3, ConcatProperties
  <2>3. u = v \o <<Empty>>
    BY DEF u, v
  <2> QED
    BY <2>1, <2>2, <2>3
<1> HIDE DEF u, v
<1>5. u[Len(u)] = Empty
  <2> DEFINE l == Len(v) + 1
  <2>1. l \in 1 .. Len(v) + 1 /\ ~(l <= Len(v)) /\ l - Len(v) = 1
    BY <1>1, <1>3
  <2> HIDE DEF l
  <2>2. u[l] = <<Empty>>[l - Len(v)]
    BY <1>4, <2>1
  <2> QED
    BY <1>4, <2>1, <2>2 DEF l
<1>6. \A k \in 1 .. Len(f) : u[k] = f[k]
  <2> TAKE k \in 1 .. Len(f)
  <2>1. k \in 1 .. Len(v) /\ k \in 1 .. Len(v) + 1 /\ k \in 1 .. Len(f) + Len(p) /\ k <= Len(f)
        /\ k <= Len(v)
    BY <1>1, <1>3
  <2>2. u[k] = v[k]
    BY <1>4, <2>1
  <2>3. v[k] = f[k]
    BY <1>3, <2>1
  <2> QED
    BY <2>2, <2>3
<1>7. \A k \in 1 .. Len(p) : u[Len(f) + k] = p[k]
  <2> TAKE k \in 1 .. Len(p)
  <2> DEFINE l == Len(f) + k
  <2>1. l \in 1 .. Len(v) + 1 /\ l <= Len(v) /\ l \in 1 .. Len(f) + Len(p)
        /\ ~(l <= Len(f)) /\ l - Len(f) = k
    BY <1>1, <1>3
  <2> HIDE DEF l
  <2>2. u[l] = v[l]
    BY <1>4, <2>1
  <2>3. v[l] = p[l - Len(f)]
    BY <1>3, <2>1
  <2> QED
    BY <2>1, <2>2, <2>3 DEF l
<1>8. \A k \in 1 .. Len(u) - 1 :
        \/ k \in 1 .. Len(t) - 1 /\ u[k] = t[k]
        \/ k - Len(f) \in 1 .. Len(p) /\ u[k] = p[k - Len(f)]
  <2> TAKE k \in 1 .. Len(u) - 1
  <2>1. CASE k \in 1 .. Len(f)
    BY <1>1, <1>6, <2>1
  <2>2. CASE k \notin 1 .. Len(f)
    <3> DEFINE l == k - Len(f)
    <3>1. l \in 1 .. Len(p) /\ Len(f) + l = k
      BY <1>1, <1>3, <1>4, <2>2
    <3> QED
      BY <3>1, <1>7
  <2> QED
    BY <2>1, <2>2
<1>9. \A k \in 1 .. Len(t) - 1 : k \in 1 .. Len(u) - 1 /\ u[k] = t[k]
  BY <1>1, <1>3, <1>4, <1>6
<1>10. \A k \in 1 .. Len(p) : Len(f) + k \in 1 .. Len(u) - 1 /\ u[Len(f) + k] = p[k]
  BY <1>1, <1>3, <1>4, <1>7
<1>11. Said(u) = Said(t) \cup {p[k] : k \in 1 .. Len(p)}
  <2>1. ASSUME NEW k \in 1 .. Len(u) - 1
        PROVE  u[k] \in Said(t) \cup {p[l] : l \in 1 .. Len(p)}
    BY <1>8 DEF Said
  <2>2. ASSUME NEW x \in Said(t) \cup {p[l] : l \in 1 .. Len(p)}
        PROVE  x \in Said(u)
    <3>1. CASE x \in Said(t)
      BY <1>9, <3>1 DEF Said
    <3>2. CASE x \in {p[l] : l \in 1 .. Len(p)}
      BY <1>10, <3>2 DEF Said
    <3> QED
      BY <2>2, <3>1, <3>2
  <2>3. Said(u) = {u[k] : k \in 1 .. Len(u) - 1}
    BY DEF Said
  <2> QED
    BY <2>1, <2>2, <2>3
<1>12. u = Plus(t, p)
  BY DEF u, f, Plus
<1> QED
  BY <1>1, <1>3, <1>4, <1>11, <1>12, <1>5 DEF Terminated

-----------------------------------------------------------------------------
(***************************************************************************)
(* The inductive invariant.                                                 *)
(***************************************************************************)

(* Two neighbouring heights too far apart; the nodes that gave none so far. *)
FarApart(m) ==
  \/ heights[m - 1] > heights[m] + blockDiff
  \/ heights[m] > heights[m - 1] + blockDiff
SilentTo(n) == {i \in 0 .. n - 1 : \A k \in 1 .. Len(from) : from[k] # i}

Reports(f, m, j) == f = TipsError(from[m], heights[m], j, heights[m - 1])

Happened(f) ==
  \/ \E i \in SilentTo(pos) : f \in {NodeError(i), Remainder(i)}
  \/ \E m \in 2 .. Len(heights), j \in 0 .. N : FarApart(m) /\ Reports(f, m, j)

HealthTypeOK ==
  /\ pos \in 0 .. N
  /\ heights \in Seq(Tips)
  /\ from \in Seq(0 .. N - 1)
  /\ text \in Seq(Pieces)
  /\ result \in {"none", "nil", "err"}
  /\ code \in {0, 200, 503}

TextInv ==
  /\ Terminated(text)
  /\ \A f \in Said(text) : Happened(f)
  /\ \A i \in SilentTo(pos) : NodeError(i) \in Said(text)
  /\ \A m \in 2 .. Len(heights) : FarApart(m) =>
       \E j \in 0 .. N : \E f \in Said(text) : Reports(f, m, j)

HealthInv ==
  /\ HealthTypeOK
  /\ Len(from) = Len(heights) /\ \A k \in 1 .. Len(from) : from[k] < pos
  /\ TextInv
  /\ result # "none" => pos = N /\ (result = "nil" <=> text = <<Empty>>)
  /\ code = 0 => failures = <<>>
  /\ code # 0 =>
       /\ result # "none"
       /\ failures = IF result = "err" THEN Front(text) ELSE <<>>
       /\ code = 503 <=> Len(failures) > 0

(* Nothing has been asked and nothing been said.                            *)
LEMMA InitHealth == Init => HealthInv
<1> SUFFICES ASSUME Init PROVE HealthInv
  OBVIOUS
<1>1. Len(from) = 0 /\ Len(heights) = 0 /\ Len(text) = 1 /\ text[1] = Empty
  BY DEF Init
<1>2. HealthTypeOK
  BY NAssumption DEF Init, HealthTypeOK, Pieces
<1>3. TextInv
  BY <1>1 DEF Init, TextInv, Terminated, Said, SilentTo
<1> QED
  BY <1>1, <1>2, <1>3 DEF Init, HealthInv

(* A node that fails is silent, and said to have failed.                    *)
LEMMA FailsStep ==
  ASSUME HealthInv, NodeFails
  PROVE  HealthInv'
<1>1. /\ pos \in 0 .. N - 1 /\ pos' = pos + 1
      /\ UNCHANGED <<heights, from, result, failures, code>>
      /\ pos \in Nat
  BY NAssumption DEF NodeFails, Asking, response, HealthInv, HealthTypeOK
<1>2. result = "none" /\ code = 0
  BY <1>1, NAssumption DEF HealthInv
<1>3. PICK w \in Wordings(pos) : text' = Plus(text, w)
  BY DEF NodeFails
<1>4. /\ w \in Seq(Pieces)
      /\ NodeError(pos) \in {w[k] : k \in 1 .. Len(w)}
      /\ {w[k] : k \in 1 .. Len(w)} \subseteq {NodeError(pos), Remainder(pos)}
  <2>1. NodeError(pos) \in Pieces /\ Remainder(pos) \in Pieces
    BY <1>1 DEF Pieces
  <2>2. CASE w = <<NodeError(pos)>>
    <3>1. Len(w) = 1 /\ w[1] = NodeError(pos) /\ w \in Seq(Pieces)
      BY <2>1, <2>2
    <3> QED
      BY <3>1
  <2>3. CASE w = <<NodeError(pos), Remainder(pos)>>
    <3>1. Len(w) = 2 /\ w[1] = NodeError(pos) /\ w[2] = Remainder(pos) /\ w \in Seq(Pieces)
      BY <2>1, <2>3
    <3> QED
      BY <3>1
  <2> QED
    BY <1>3, <2>2, <2>3 DEF Wordings
<1>5. /\ text' \in Seq(Pieces) /\ Terminated(text')
      /\ Said(text') = Said(text) \cup {w[k] : k \in 1 .. Len(w)}
  BY <1>3, <1>4, PlusSays DEF HealthInv, HealthTypeOK, TextInv
<1>6. SilentTo(pos)' = SilentTo(pos) \cup {pos}
  <2>1. \A k \in 1 .. Len(from) : from[k] # pos
    BY <1>1, NAssumption DEF HealthInv, HealthTypeOK
  <2>2. 0 .. pos' - 1 = (0 .. pos - 1) \cup {pos}
    BY <1>1
  <2> QED
    BY <1>1, <2>1, <2>2 DEF SilentTo
<1>7. \A f : Happened(f) => Happened(f)'
  BY <1>1, <1>6 DEF Happened, FarApart, Reports
<1>8. TextInv'
  <2>1. \A f \in Said(text)' : Happened(f)'
    <3>1. \A f \in {NodeError(pos), Remainder(pos)} : Happened(f)'
      BY <1>6 DEF Happened
    <3>2. \A f \in Said(text) : Happened(f)'
      BY <1>7 DEF HealthInv, TextInv
    <3>3. Said(text)' = Said(text')
      BY DEF Said
    <3> QED
      BY <1>4, <1>5, <3>1, <3>2, <3>3
  <2>2. \A i \in SilentTo(pos)' : NodeError(i) \in Said(text)'
    BY <1>4, <1>5, <1>6 DEF HealthInv, TextInv
  <2>3. \A m \in 2 .. Len(heights') : FarApart(m)' =>
          \E j \in 0 .. N : \E f \in Said(text)' : Reports(f, m, j)'
    BY <1>1, <1>5 DEF HealthInv, TextInv, FarApart, Reports
  <2> QED
    BY <1>5, <2>1, <2>2, <2>3 DEF TextInv
<1>9. \A k \in 1 .. Len(from) : from[k] < pos'
  BY <1>1, NAssumption DEF HealthInv, HealthTypeOK
<1> QED
  BY <1>1, <1>2, <1>5, <1>8, <1>9, NAssumption DEF HealthInv, HealthTypeOK

(* A node that answers is not silent, and differs from the one before or    *)
(* not.                                                                     *)
LEMMA AnswersStep ==
  ASSUME HealthInv, NEW h \in Tips, NodeAnswers(h)
  PROVE  HealthInv'
<1>. PICK n : n = Len(heights)
  OBVIOUS
<1>. PICK p : p = pos
  OBVIOUS
<1>. PICK tip : tip = TipsError(p, h, p - 1, heights[n])
  OBVIOUS
<1>1. /\ pos \in 0 .. N - 1 /\ pos \in Nat /\ pos' = pos + 1
      /\ heights' = Append(heights, h) /\ from' = Append(from, pos)
      /\ UNCHANGED <<result, failures, code>>
      /\ h \in Uint /\ h \in Nat /\ n \in Nat
  BY NAssumption, TipsAssumption DEF NodeAnswers, Asking, response, HealthInv, HealthTypeOK, Uint
<1>2. result = "none" /\ code = 0
  BY <1>1, NAssumption DEF HealthInv
<1>3. /\ heights' \in Seq(Tips) /\ Len(heights') = n + 1 /\ heights'[n + 1] = h
      /\ \A k \in 1 .. n : heights'[k] = heights[k]
  BY <1>1 DEF HealthInv, HealthTypeOK
<1>4. /\ from' \in Seq(0 .. N - 1) /\ Len(from') = n + 1 /\ from'[n + 1] = pos
      /\ \A k \in 1 .. n : from'[k] = from[k]
  BY <1>1 DEF HealthInv, HealthTypeOK
<1>5. \A k \in 1 .. n : heights[k] \in Nat /\ heights[k] \in Uint
  <2>1. Tips \subseteq Uint /\ Uint \subseteq Nat
    BY TipsAssumption, ModulusAssumption DEF Uint
  <2>2. \A k \in 1 .. n : heights[k] \in Tips
    BY DEF HealthInv, HealthTypeOK
  <2> QED
    BY <2>1, <2>2
<1>6. SilentTo(pos)' = SilentTo(pos)
  <2>1. ASSUME NEW i \in SilentTo(pos)'
        PROVE  i \in SilentTo(pos)
    <3>1. i \in 0 .. pos /\ \A k \in 1 .. n + 1 : from'[k] # i
      BY <1>1, <1>4, <2>1 DEF SilentTo
    <3>2. i # pos
      BY <1>1, <1>4, <3>1
    <3> QED
      BY <1>1, <1>4, <3>1, <3>2 DEF SilentTo, HealthInv
  <2>2. ASSUME NEW i \in SilentTo(pos)
        PROVE  i \in SilentTo(pos)'
    <3>1. i \in 0 .. pos - 1 /\ \A k \in 1 .. n : from[k] # i
      BY <2>2 DEF SilentTo, HealthInv
    <3>2. \A k \in 1 .. n + 1 : from'[k] # i
      BY <1>1, <1>4, <3>1
    <3> QED
      BY <1>1, <1>4, <3>1, <3>2 DEF SilentTo
  <2> QED
    BY <2>1, <2>2
<1>7. \A m \in 2 .. n : FarApart(m)' = FarApart(m) /\ \A f, j : Reports(f, m, j)' = Reports(f, m, j)
  BY <1>1, <1>3, <1>4 DEF FarApart, Reports
<1>8. TipsDiffer(heights, h) <=> n + 1 \in 2 .. n + 1 /\ FarApart(n + 1)'
  <2>1. heights # <<>> => heights[Len(heights)] \in Uint
    BY <1>1, <1>5 DEF HealthInv, HealthTypeOK
  <2>2. TipsDiffer(heights, h) <=>
          heights # <<>> /\ (heights[n] > h + blockDiff \/ h > heights[n] + blockDiff)
    BY <1>1, <2>1, DifferingHeights
  <2>3. heights # <<>> <=> n >= 1
    BY <1>1 DEF HealthInv, HealthTypeOK
  <2>4. n >= 1 => heights'[n] = heights[n] /\ n + 1 - 1 = n
    BY <1>1, <1>3
  <2>5. n >= 1 =>
          (FarApart(n + 1)' <=> heights[n] > h + blockDiff \/ h > heights[n] + blockDiff)
    BY <1>1, <1>3, <2>4 DEF FarApart
  <2> QED
    BY <1>1, <2>2, <2>3, <2>5
<1>9. \A f : Happened(f) => Happened(f)'
  BY <1>1, <1>3, <1>6, <1>7 DEF Happened
<1>10. /\ text' \in Seq(Pieces) /\ Terminated(text')
       /\ Said(text') = IF TipsDiffer(heights, h) THEN Said(text) \cup {tip} ELSE Said(text)
       /\ TipsDiffer(heights, h) => p - 1 \in 0 .. N /\ Reports(tip, n + 1, p - 1)'
  <2>1. CASE TipsDiffer(heights, h)
    <3>1. n >= 1
      BY <1>1, <1>8, <2>1
    <3>2. p \in Nat \ {0}
      <4>1. 1 \in 1 .. Len(from)
        BY <1>1, <3>1 DEF HealthInv
      <4>2. PICK S : S = 0 .. N - 1
        OBVIOUS
      <4>3. from \in Seq(S) /\ from[1] < pos
        BY <4>1, <4>2 DEF HealthInv, HealthTypeOK
      <4>4. from[1] \in S
        BY <4>1, <4>3
      <4> QED
        BY <1>1, <4>2, <4>3, <4>4
    <3>3. tip \in Pieces
      <4>1. p \in Nat /\ h \in Nat /\ p - 1 \in Nat /\ heights[n] \in Nat
        BY <1>1, <1>5, <3>1, <3>2
      <4> QED
        BY <4>1 DEF Pieces
    <3>4. text' = Plus(text, <<tip>>)
      BY <2>1 DEF NodeAnswers, Last
    <3>5. <<tip>> \in Seq(Pieces) /\ {<<tip>>[k] : k \in 1 .. Len(<<tip>>)} = {tip}
      <4>1. Len(<<tip>>) = 1 /\ <<tip>>[1] = tip /\ <<tip>> \in Seq(Pieces)
        BY <3>3
      <4> QED
        BY <4>1
    <3>6. /\ text' \in Seq(Pieces) /\ Terminated(text')
          /\ Said(text') = Said(text) \cup {tip}
      <4>1. text \in Seq(Pieces) /\ Terminated(text)
        BY DEF HealthInv, HealthTypeOK, TextInv
      <4>2. PICK w : w = <<tip>>
        OBVIOUS
      <4>3. Said(Plus(text, w)) = Said(text) \cup {w[k] : k \in 1 .. Len(w)}
        <5>1. w \in Seq(Pieces)
          BY <3>5, <4>2
        <5> QED
          BY <4>1, <5>1, PlusSays, Zenon
      <4>4. Plus(text, w) \in Seq(Pieces) /\ Terminated(Plus(text, w))
        BY <3>5, <4>1, <4>2, PlusSays
      <4> QED
        BY <3>4, <3>5, <4>2, <4>3, <4>4
    <3>7. Reports(tip, n + 1, p - 1)'
      <4>1. n + 1 - 1 = n /\ heights'[n] = heights[n]
        BY <1>1, <1>3, <3>1
      <4> QED
        BY <1>3, <1>4, <4>1 DEF Reports
    <3> QED
      BY <1>1, <2>1, <3>2, <3>6, <3>7, NAssumption
  <2>2. CASE ~TipsDiffer(heights, h)
    <3>1. text' = text
      BY <2>2 DEF NodeAnswers
    <3> QED
      BY <2>2, <3>1 DEF HealthInv, HealthTypeOK, TextInv
  <2> QED
    BY <2>1, <2>2
<1>11. TextInv'
  <2>1. \A f \in Said(text') : Happened(f)'
    <3>1. \A f \in Said(text) : Happened(f)'
      BY <1>9 DEF HealthInv, TextInv
    <3>2. TipsDiffer(heights, h) => Happened(tip)'
      BY <1>1, <1>3, <1>8, <1>10 DEF Happened
    <3> QED
      BY <1>10, <3>1, <3>2
  <2>2. \A i \in SilentTo(pos)' : NodeError(i) \in Said(text')
    BY <1>6, <1>10 DEF HealthInv, TextInv
  <2>3. ASSUME NEW m \in 2 .. n + 1, FarApart(m)'
        PROVE  \E j \in 0 .. N : \E f \in Said(text') : Reports(f, m, j)'
    <3>1. CASE m \in 2 .. n
      <4>1. FarApart(m) /\ \A f, j : Reports(f, m, j)' = Reports(f, m, j)
        BY <1>7, <2>3, <3>1
      <4>2. PICK j \in 0 .. N : \E f \in Said(text) : Reports(f, m, j)
        BY <3>1, <4>1 DEF HealthInv, TextInv
      <4> QED
        BY <1>10, <4>1, <4>2
    <3>2. CASE m = n + 1
      BY <1>1, <1>8, <1>10, <2>3, <3>2
    <3> QED
      BY <1>1, <3>1, <3>2
  <2>4. Said(text)' = Said(text')
    BY DEF Said
  <2> QED
    BY <1>1, <1>3, <1>10, <2>1, <2>2, <2>3, <2>4 DEF TextInv
<1>12. \A k \in 1 .. Len(from') : from'[k] < pos'
  BY <1>1, <1>4, NAssumption DEF HealthInv, HealthTypeOK
<1> QED
  BY <1>1, <1>2, <1>3, <1>4, <1>10, <1>11, <1>12, NAssumption DEF HealthInv, HealthTypeOK

(* Neither the return of BlockNumber nor the response changes what was said.*)
LEMMA EndStep ==
  ASSUME HealthInv, Returns \/ Health \/ UNCHANGED vars
  PROVE  HealthInv'
<1>1. UNCHANGED <<pos, heights, from, text>>
  BY DEF Returns, Health, vars, probe
<1>2. TextInv'
  <2>1. Terminated(text)' /\ Said(text)' = Said(text) /\ SilentTo(pos)' = SilentTo(pos)
    BY <1>1 DEF HealthInv, TextInv, Terminated, Said, SilentTo
  <2>2. \A f : Happened(f)' = Happened(f)
    BY <1>1, <2>1 DEF Happened, FarApart, Reports
  <2> QED
    BY <1>1, <2>1, <2>2 DEF HealthInv, TextInv, FarApart, Reports
<1>3. CASE Returns
  BY <1>1, <1>2, <1>3 DEF Returns, response, HealthInv, HealthTypeOK
<1>4. CASE Health
  <2>1. failures' = IF result = "err" THEN Front(text) ELSE <<>>
    BY <1>4 DEF Health, Trimmed
  <2>2. code' = (IF Len(failures') > 0 THEN 503 ELSE 200) /\ result' = result /\ result # "none"
    BY <1>4 DEF Health
  <2> QED
    BY <1>1, <1>2, <2>1, <2>2 DEF HealthInv, HealthTypeOK
<1>5. CASE UNCHANGED vars
  BY <1>1, <1>2, <1>5 DEF vars, response, HealthInv, HealthTypeOK
<1> QED
  BY <1>3, <1>4, <1>5

(* Every step keeps the invariant.                                          *)
LEMMA HealthStep ==
  ASSUME HealthInv, [Next]_vars
  PROVE  HealthInv'
BY FailsStep, AnswersStep, EndStep DEF Next

-----------------------------------------------------------------------------
(***************************************************************************)
(* The theorems.                                                            *)
(***************************************************************************)

(* The inductive invariant holds in every state that can be reached.        *)
THEOREM HealthInvariance == Spec => []HealthInv
<1>1. HealthInv /\ [Next]_vars => HealthInv'
  BY HealthStep
<1> QED
  BY InitHealth, <1>1, PTL DEF Spec

(* What a response lists is what the text said.                             *)
LEMMA ListedIsSaid ==
  ASSUME HealthInv, Responded
  PROVE  /\ \A f : Listed(f) <=> f \in Said(text)
         /\ pos = N
         /\ code = 503 <=> result = "err"
         /\ code = 200 <=> failures = <<>>
<1>1. code # 0 /\ result # "none" /\ pos = N /\ (result = "nil" <=> text = <<Empty>>)
  BY DEF HealthInv, Responded
<1>2. /\ Len(Front(text)) = Len(text) - 1 /\ Len(text) \in Nat
      /\ \A k \in 1 .. Len(text) - 1 : Front(text)[k] = text[k]
      /\ Front(text) \in Seq(Pieces)
      /\ text = <<Empty>> <=> Len(Front(text)) = 0
  BY Fronts, Speechless DEF HealthInv, HealthTypeOK, TextInv, Terminated
<1>3. CASE result = "err"
  <2>1. failures = Front(text) /\ Len(failures) > 0 /\ Len(failures) = Len(text) - 1
    BY <1>1, <1>2, <1>3 DEF HealthInv, TextInv, Terminated
  <2>2. failures # <<>>
    BY <2>1
  <2>3. \A f : Listed(f) <=> f \in Said(text)
    BY <1>2, <2>1 DEF Listed, Said
  <2> QED
    BY <1>1, <1>3, <2>1, <2>2, <2>3 DEF HealthInv, HealthTypeOK
<1>4. CASE result = "nil"
  <2>1. failures = <<>> /\ Len(failures) = 0
    BY <1>1, <1>4 DEF HealthInv
  <2>2. Len(text) - 1 = 0
    BY <1>1, <1>2, <1>4
  <2>3. \A f : Listed(f) <=> f \in Said(text)
    <3>1. \A f : ~Listed(f)
      BY <2>1 DEF Listed
    <3>2. \A k \in 1 .. Len(text) - 1 : FALSE
      BY <2>2
    <3>3. Said(text) = {}
      BY <3>2 DEF Said
    <3> QED
      BY <3>1, <3>3
  <2> QED
    BY <1>1, <1>4, <2>1, <2>3 DEF HealthInv, HealthTypeOK
<1> QED
  BY <1>1, <1>3, <1>4 DEF HealthInv, HealthTypeOK

(* Nothing BlockNumber found is lost on its way through the text.           *)
THEOREM NoFaultIsLost == Spec => []HealthListsEveryFault
<1>1. HealthInv => HealthListsEveryFault
  <2> SUFFICES ASSUME HealthInv, Responded PROVE HealthListsEveryFault
    BY DEF HealthListsEveryFault
  <2>1. \A i \in Silent : Listed(NodeError(i))
    BY ListedIsSaid DEF HealthInv, TextInv, Silent, SilentTo
  <2>2. ASSUME NEW k \in 1 .. Len(heights) - 1,
               \/ heights[k] > heights[k + 1] + blockDiff
               \/ heights[k + 1] > heights[k] + blockDiff
        PROVE  \E j \in 0 .. N : Listed(TipsError(from[k + 1], heights[k + 1], j, heights[k]))
    <3>1. k + 1 \in 2 .. Len(heights) /\ k + 1 - 1 = k
      BY DEF HealthInv, HealthTypeOK
    <3>2. FarApart(k + 1)
      BY <2>2, <3>1 DEF FarApart
    <3>3. PICK j \in 0 .. N : \E f \in Said(text) : Reports(f, k + 1, j)
      BY <3>1, <3>2 DEF HealthInv, TextInv
    <3> QED
      BY <3>1, <3>3, ListedIsSaid DEF Reports
  <2> QED
    BY <2>1, <2>2, ListedIsSaid DEF HealthListsEveryFault
<1> QED
  BY <1>1, HealthInvariance, PTL

(* Every line of a response is about something that happened.               *)
THEOREM NoFaultIsInvented == Spec => []NothingInvented
<1>1. HealthInv => NothingInvented
  <2> SUFFICES ASSUME HealthInv, NEW k \in 1 .. Len(failures)
               PROVE  LET f == failures[k] IN
                      \/ f.says \in {"error", "after the bar"} /\ f.node \in Silent
                      \/ /\ f.says = "tips"
                         /\ \E m \in 2 .. Len(heights) :
                              /\ from[m] = f.node
                              /\ heights[m] = f.height /\ heights[m - 1] = f.otherHeight
                              /\ \/ f.height + blockDiff < f.otherHeight
                                 \/ f.otherHeight + blockDiff < f.height
    BY DEF NothingInvented
  <2>1. Responded
    <3>1. failures # <<>>
      OBVIOUS
    <3> QED
      BY <3>1 DEF HealthInv, Responded
  <2> DEFINE g == failures[k]
  <2>2. Listed(g) /\ pos = N
    BY <2>1, ListedIsSaid DEF Listed
  <2>3. Happened(g)
    BY <2>1, <2>2, ListedIsSaid DEF HealthInv, TextInv
  <2>4. CASE \E i \in SilentTo(pos) : g \in {NodeError(i), Remainder(i)}
    <3>1. PICK i \in Silent : g \in {NodeError(i), Remainder(i)}
      BY <2>2, <2>4 DEF SilentTo, Silent
    <3>2. g.says \in {"error", "after the bar"} /\ g.node = i
      <4>1. NodeError(i).says = "error" /\ NodeError(i).node = i
        BY DEF NodeError
      <4>2. Remainder(i).says = "after the bar" /\ Remainder(i).node = i
        BY DEF Remainder
      <4> QED
        BY <3>1, <4>1, <4>2
    <3> QED
      BY <3>2
  <2>5. CASE \E m \in 2 .. Len(heights), j \in 0 .. N : FarApart(m) /\ Reports(g, m, j)
    <3>1. PICK m \in 2 .. Len(heights), j \in 0 .. N : FarApart(m) /\ Reports(g, m, j)
      BY <2>5
    <3>2. /\ g.says = "tips" /\ g.node = from[m] /\ g.height = heights[m]
          /\ g.otherHeight = heights[m - 1]
      BY <3>1 DEF Reports, TipsError
    <3>3. heights[m] \in Nat /\ heights[m - 1] \in Nat
      <4>1. Tips \subseteq Nat
        BY TipsAssumption, ModulusAssumption DEF Uint
      <4>2. m - 1 \in 1 .. Len(heights) /\ m \in 1 .. Len(heights)
        BY DEF HealthInv, HealthTypeOK
      <4>3. heights[m] \in Tips /\ heights[m - 1] \in Tips
        BY <4>2 DEF HealthInv, HealthTypeOK
      <4> QED
        BY <4>1, <4>3
    <3> QED
      BY <3>1, <3>2, <3>3 DEF FarApart, blockDiff
  <2> QED
    BY <2>3, <2>4, <2>5 DEF Happened
<1> QED
  BY <1>1, HealthInvariance, PTL

(***************************************************************************)
(* The verdict.  A node is silent or gave one height, so that N heights     *)
(* mean that all of them spoke.                                             *)
(***************************************************************************)
Accounted == Len(heights) <= pos /\ (SilentTo(pos) = {} <=> Len(heights) = pos)

(* Every position asked adds a height or a silent node.                     *)
LEMMA AccountedStep ==
  ASSUME HealthInv, Accounted, [Next]_vars
  PROVE  Accounted'
<1>1. Len(heights) \in Nat /\ Len(from) = Len(heights) /\ pos \in Nat
  BY NAssumption DEF HealthInv, HealthTypeOK
<1>2. ASSUME NEW h \in Tips, NodeAnswers(h)
      PROVE  Accounted'
  <2>1. /\ pos' = pos + 1
        /\ Len(heights') = Len(heights) + 1
        /\ from' = Append(from, pos)
    BY <1>2 DEF NodeAnswers, HealthInv, HealthTypeOK
  <2>2. /\ Len(from') = Len(from) + 1 /\ from'[Len(from) + 1] = pos
        /\ \A k \in 1 .. Len(from) : from'[k] = from[k]
    BY <1>2, <2>1, <1>1 DEF NodeAnswers, Asking, HealthInv, HealthTypeOK
  <2>3. \A i \in SilentTo(pos) : i \in SilentTo(pos)'
    <3> SUFFICES ASSUME NEW i \in SilentTo(pos)
                 PROVE  i \in SilentTo(pos)'
      OBVIOUS
    <3>1. i \in 0 .. pos - 1 /\ \A k \in 1 .. Len(from) : from[k] # i
      BY DEF SilentTo
    <3>2. \A k \in 1 .. Len(from) + 1 : from'[k] # i
      BY <1>1, <2>2, <3>1
    <3> QED
      BY <1>1, <2>1, <2>2, <3>1, <3>2 DEF SilentTo
  <2>4. \A i \in SilentTo(pos)' : i \in SilentTo(pos)
    <3> SUFFICES ASSUME NEW i \in SilentTo(pos)'
                 PROVE  i \in SilentTo(pos)
      OBVIOUS
    <3>1. i \in 0 .. pos /\ \A k \in 1 .. Len(from) + 1 : from'[k] # i
      BY <1>1, <2>1, <2>2 DEF SilentTo
    <3>2. i # pos
      BY <1>1, <2>2, <3>1
    <3> QED
      BY <1>1, <2>2, <3>1, <3>2 DEF SilentTo
  <2>5. SilentTo(pos)' = SilentTo(pos)
    BY <2>3, <2>4
  <2> QED
    BY <1>1, <2>1, <2>5 DEF Accounted
<1>3. CASE NodeFails
  <2>1. pos' = pos + 1 /\ UNCHANGED <<heights, from>>
    BY <1>3 DEF NodeFails
  <2>2. pos \in SilentTo(pos)'
    BY <1>1, <2>1 DEF SilentTo, HealthInv
  <2>3. Len(heights) # pos + 1
    BY <1>1 DEF Accounted
  <2> QED
    BY <1>1, <2>1, <2>2, <2>3 DEF Accounted
<1>4. CASE Returns \/ Health \/ UNCHANGED vars
  <2>1. UNCHANGED <<pos, heights, from>>
    BY <1>4 DEF Returns, Health, vars, probe
  <2> QED
    BY <2>1 DEF Accounted, SilentTo
<1> QED
  BY <1>2, <1>3, <1>4 DEF Next

(* BlockNumber succeeds iff all N nodes gave a height and no two            *)
(* neighbours differ by more than blockDiff: the text stands for the        *)
(* verdict whatever the nodes wrote into it.  ProbeVerdict of               *)
(* MultiNodeClient, which knows no text, says the same of its probes.       *)
HealthyIffAllNear ==
  result # "none" =>
    (result = "nil" <=>
       /\ Len(heights) = N
       /\ \A k \in 1 .. N - 1 :
            heights[k] <= heights[k + 1] + blockDiff /\ heights[k + 1] <= heights[k] + blockDiff)

(* BlockNumber succeeds iff all nodes gave heights that are near: what      *)
(* ProbeVerdict says of the probes of MultiNodeClient, also through a text  *)
(* to which the nodes contribute.                                           *)
THEOREM VerdictSurvivesTheText == Spec => []HealthyIffAllNear
<1>1. Init => Accounted
  BY DEF Init, Accounted, SilentTo
<1>2. HealthInv /\ Accounted => HealthyIffAllNear
  <2> SUFFICES ASSUME HealthInv, Accounted, result # "none"
               PROVE  result = "nil" <=>
                        /\ Len(heights) = N
                        /\ \A k \in 1 .. N - 1 :
                             /\ heights[k] <= heights[k + 1] + blockDiff
                             /\ heights[k + 1] <= heights[k] + blockDiff
    BY DEF HealthyIffAllNear
  <2>1. /\ pos = N /\ (result = "nil" <=> text = <<Empty>>)
        /\ \A k \in 1 .. Len(heights) : heights[k] \in Nat
    <3>1. Tips \subseteq Nat
      BY TipsAssumption, ModulusAssumption DEF Uint
    <3>2. \A k \in 1 .. Len(heights) : heights[k] \in Tips
      BY DEF HealthInv, HealthTypeOK
    <3>3. pos = N /\ (result = "nil" <=> text = <<Empty>>)
      BY DEF HealthInv
    <3> QED
      BY <3>1, <3>2, <3>3
  <2>2. text = <<Empty>> <=> Said(text) = {}
    <3>1. /\ text = <<Empty>> <=> Len(Front(text)) = 0
          /\ Len(Front(text)) = Len(text) - 1 /\ Len(text) \in Nat /\ Len(text) >= 1
      BY Fronts, Speechless DEF HealthInv, HealthTypeOK, TextInv, Terminated
    <3>2. Said(text) = {} <=> Len(text) - 1 = 0
      <4>1. Len(text) - 1 = 0 => Said(text) = {}
        <5>1. \A n : n = 0 => {text[k] : k \in 1 .. n} = {}
          OBVIOUS
        <5> QED
          BY <5>1 DEF Said
      <4>2. Len(text) - 1 # 0 => text[1] \in Said(text)
        <5>1. Len(text) - 1 # 0 => 1 \in 1 .. Len(text) - 1
          BY <3>1
        <5> QED
          BY <5>1 DEF Said
      <4> QED
        BY <4>1, <4>2
    <3> QED
      BY <3>1, <3>2
  <2>3. Said(text) = {} <=> SilentTo(pos) = {} /\ \A m \in 2 .. Len(heights) : ~FarApart(m)
    BY DEF HealthInv, TextInv, Happened
  <2>4. ASSUME Len(heights) = N
        PROVE  (\A m \in 2 .. N : ~FarApart(m)) <=>
                 \A k \in 1 .. N - 1 :
                   /\ heights[k] <= heights[k + 1] + blockDiff
                   /\ heights[k + 1] <= heights[k] + blockDiff
    <3>1. ASSUME NEW k \in 1 .. N - 1
          PROVE  /\ k + 1 \in 2 .. N
                 /\ ~FarApart(k + 1) <=>
                      /\ heights[k] <= heights[k + 1] + blockDiff
                      /\ heights[k + 1] <= heights[k] + blockDiff
      <4>1. /\ k + 1 \in 2 .. N /\ k + 1 - 1 = k
            /\ k \in 1 .. Len(heights) /\ k + 1 \in 1 .. Len(heights)
        BY <2>4, NAssumption
      <4>2. heights[k] \in Nat /\ heights[k + 1] \in Nat
        BY <2>1, <4>1
      <4> QED
        BY <4>1, <4>2 DEF FarApart, blockDiff
    <3>2. \A m \in 2 .. N : m - 1 \in 1 .. N - 1 /\ m - 1 + 1 = m
      BY NAssumption
    <3> QED
      BY <3>1, <3>2
  <2> QED
    BY <2>1, <2>2, <2>3, <2>4 DEF Accounted
<1> QED
  BY <1>1, <1>2, AccountedStep, HealthInvariance, PTL DEF Spec
=============================================================================
