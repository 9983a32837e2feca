------------------------- MODULE GraphEditor_proofs -------------------------
(***************************************************************************)
(* Every drawing that the builder page can draw, whatever its size, runs   *)
(* alike once it was opened there and saved: box by box the page keeps     *)
(* what each label of each node leads to, in its order (SavedDrawing), and *)
(* of the edges the runtime reads nothing else but the rounds.             *)
(***************************************************************************)
EXTENDS GraphEditor, GraphExec_proofs, SequenceTheorems

(* Edges of one node that carry one label *)

Matching(s, id, when) == {k \in DOMAIN s : s[k].from = id /\ s[k].when = when}

\* at says where in s each target of q is drawn, K being the places there are.
InOrder(s, K, q, at) ==
    /\ at \in Seq(K) /\ Len(at) = Len(q)
    /\ \A j \in 1 .. Len(q) : q[j] = s[at[j]].to
    /\ \A i, j \in 1 .. Len(q) : i < j => at[i] < at[j]
    /\ \A k \in K : \E j \in 1 .. Len(q) : at[j] = k

\* They are listed in drawing order, each once.
LEMMA LabelledInOrder ==
    ASSUME NEW E, NEW s \in Seq(E), NEW id, NEW when
    PROVE  /\ Labelled(s, id, when) \in Seq(TargetsIn(s))
           /\ \E at : InOrder(s, Matching(s, id, when), Labelled(s, id, when), at)
<1>1. PICK len \in Nat : len = Len(s) /\ DOMAIN s = 1 .. len
  OBVIOUS
<1>2. PICK u : StepByStep(s, id, when, u)
  BY LabelledSteps, Zenon
<1> DEFINE Upto(k) == {i \in 1 .. k : s[i].from = id /\ s[i].when = when}
           Good(k) == \E at : InOrder(s, Upto(k), u[k], at)
           Done == {k \in Nat : k <= len => Good(k)}
<1>3. 0 \in Done
  <2>1. Upto(0) = {} /\ u[0] = <<>>
    BY <1>2 DEF StepByStep
  <2>2. <<>> \in Seq(Upto(0)) /\ Len(<<>>) = 0
    OBVIOUS
  <2>3. InOrder(s, Upto(0), u[0], <<>>)
    BY <2>1, <2>2 DEF InOrder
  <2> QED
    BY <2>3
<1> HIDE DEF Good
<1>4. ASSUME NEW k \in Nat, k \in Done
      PROVE  k + 1 \in Done
  <2>1. SUFFICES ASSUME k + 1 <= len PROVE Good(k + 1)
    OBVIOUS
  <2> HIDE DEF Upto
  <2>7. Good(k)
    BY <1>4, <2>1
  <2>2. PICK at : InOrder(s, Upto(k), u[k], at)
    BY <2>7, Zenon DEF Good
  <2>3. k + 1 \in 1 .. len /\ (k + 1) - 1 = k /\ k \in 0 .. len
    BY <2>1
  <2>4. u[k + 1] = Taken(s[k + 1], id, when, u[k]) /\ u[k] \in Seq(TargetsIn(s))
    BY <1>1, <1>2, <2>3 DEF StepByStep
  <2>5. CASE s[k + 1].from = id /\ s[k + 1].when = when
    <3>1. Upto(k + 1) = Upto(k) \cup {k + 1} /\ \A i \in Upto(k) : i \in Nat /\ i < k + 1
      BY <2>5 DEF Upto
    <3>2. PICK q, r, K, L, b : /\ q = u[k] /\ r = u[k + 1] /\ K = Upto(k) /\ L = Upto(k + 1)
                               /\ b = Append(at, k + 1)
      OBVIOUS
    <3>3. r = Append(q, s[k + 1].to) /\ q \in Seq(TargetsIn(s)) /\ InOrder(s, K, q, at)
      BY <2>2, <2>4, <2>5, <3>2 DEF Taken
    <3>4. L = K \cup {k + 1} /\ \A i \in K : i \in Nat /\ i < k + 1
      BY <3>1, <3>2
    <3>5. PICK n \in Nat : n = Len(q)
      BY <3>3
    <3>6. at \in Seq(K) /\ Len(at) = n
      BY <3>3, <3>5 DEF InOrder
    <3>7. /\ b \in Seq(L) /\ Len(b) = n + 1 /\ Len(r) = n + 1
          /\ b[n + 1] = k + 1 /\ \A j \in 1 .. n : b[j] = at[j] /\ at[j] \in K
          /\ r[n + 1] = s[k + 1].to /\ \A j \in 1 .. n : r[j] = q[j]
      <4>1. at \in Seq(L)
        BY <3>4, <3>6
      <4> QED
        BY <3>2, <3>3, <3>4, <3>5, <3>6, <4>1
    <3>8. \A j \in 1 .. n + 1 : r[j] = s[b[j]].to
      <4>1. \A j \in 1 .. n : q[j] = s[at[j]].to
        BY <3>3, <3>5 DEF InOrder
      <4> QED
        BY <3>7, <4>1
    <3>9. \A i, j \in 1 .. n + 1 : i < j => b[i] < b[j]
      <4>1. \A i, j \in 1 .. n : i < j => at[i] < at[j]
        BY <3>3, <3>5 DEF InOrder
      <4> TAKE i, j \in 1 .. n + 1
      <4> HAVE i < j
      <4>2. i \in 1 .. n /\ b[i] = at[i] /\ at[i] \in K
        BY <3>7
      <4>3. CASE j = n + 1
        BY <3>4, <3>7, <4>2, <4>3
      <4>4. CASE j \in 1 .. n
        BY <3>7, <4>1, <4>2, <4>4
      <4> QED
        BY <4>3, <4>4
    <3>10. \A i \in L : \E j \in 1 .. n + 1 : b[j] = i
      <4> TAKE i \in L
      <4>1. CASE i = k + 1
        BY <3>7, <4>1
      <4>2. CASE i \in K
        <5>1. PICK j \in 1 .. n : at[j] = i
          BY <3>3, <3>5, <4>2 DEF InOrder
        <5> QED
          BY <3>7, <5>1
      <4> QED
        BY <3>4, <4>1, <4>2
    <3>11. InOrder(s, L, r, b)
      BY <3>7, <3>8, <3>9, <3>10 DEF InOrder
    <3> QED
      BY <3>2, <3>11 DEF Good
  <2>6. CASE ~(s[k + 1].from = id /\ s[k + 1].when = when)
    <3>1. u[k + 1] = u[k]
      BY <2>4, <2>6 DEF Taken
    <3>2. Upto(k + 1) = Upto(k)
      BY <2>6 DEF Upto
    <3> QED
      BY <2>2, <3>1, <3>2 DEF Good
  <2> QED
    BY <2>5, <2>6
<1> HIDE DEF Done
<1>5. len \in Done
  BY <1>3, <1>4, SetInduction
<1>6. Good(len)
  BY <1>5 DEF Done
<1>7. Upto(len) = Matching(s, id, when)
  BY <1>1 DEF Matching
<1>8. u[len] = Labelled(s, id, when) /\ u[len] \in Seq(TargetsIn(s))
  BY <1>1, <1>2 DEF StepByStep
<1> HIDE DEF Upto
<1> QED
  BY <1>6, <1>7, <1>8 DEF Good

\* The targets of two runs of edges come one after the other.
LEMMA LabelledJoins ==
    ASSUME NEW E, NEW s \in Seq(E), NEW t \in Seq(E), NEW id, NEW when
    PROVE  Labelled(s \o t, id, when) = Labelled(s, id, when) \o Labelled(t, id, when)
<1>1. PICK n, m \in Nat : n = Len(s) /\ m = Len(t)
  OBVIOUS
<1>2. PICK st \in Seq(E) : /\ st = s \o t /\ Len(st) = n + m
                           /\ \A k \in 1 .. n : st[k] = s[k]
                           /\ \A k \in 1 .. m : st[n + k] = t[k]
  <2>1. s \o t \in Seq(E) /\ Len(s \o t) = Len(s) + Len(t)
    BY ConcatProperties
  <2>2. \A i \in 1 .. Len(s) + Len(t) :
           (s \o t)[i] = IF i <= Len(s) THEN s[i] ELSE t[i - Len(s)]
    BY ConcatProperties
  <2>3. PICK r : r = s \o t
    OBVIOUS
  <2>4. \A i \in 1 .. n + m : r[i] = IF i <= n THEN s[i] ELSE t[i - n]
    BY <1>1, <2>2, <2>3
  <2>5. \A k \in 1 .. m : n + k \in 1 .. n + m /\ ~(n + k <= n) /\ (n + k) - n = k
    OBVIOUS
  <2>6. \A k \in 1 .. m : r[n + k] = t[k]
    BY <2>4, <2>5
  <2>7. \A k \in 1 .. n : r[k] = s[k]
    BY <2>4
  <2>8. r \in Seq(E) /\ r = s \o t /\ Len(r) = n + m
    BY <1>1, <2>1, <2>3
  <2> QED
    BY <2>6, <2>7, <2>8, Zenon
<1>3. PICK u : StepByStep(s, id, when, u)
  BY LabelledSteps, Zenon
<1>4. PICK v : StepByStep(t, id, when, v)
  BY LabelledSteps, Zenon
<1>5. PICK w : StepByStep(st, id, when, w)
  BY <1>2, LabelledSteps, Zenon
<1> DEFINE Same == {k \in Nat : k <= n => w[k] = u[k]}
           Adds(k) == w[n + k] = u[n] \o v[k]
           Then == {k \in Nat : k <= m => Adds(k)}
<1>6. 0 \in Same
  BY <1>3, <1>5 DEF StepByStep
<1>7. ASSUME NEW k \in Nat, k \in Same
      PROVE  k + 1 \in Same
  <2>1. SUFFICES ASSUME k + 1 <= n PROVE w[k + 1] = u[k + 1]
    OBVIOUS
  <2>2. /\ w[k] = u[k] /\ k + 1 \in 1 .. n /\ k + 1 \in 1 .. n + m
        /\ (k + 1) - 1 = k /\ st[k + 1] = s[k + 1]
    BY <1>1, <1>2, <1>7, <2>1
  <2>3. u[k + 1] = Taken(s[k + 1], id, when, u[k])
    BY <1>1, <1>3, <2>2 DEF StepByStep
  <2>4. w[k + 1] = Taken(st[k + 1], id, when, w[k])
    BY <1>2, <1>5, <2>2 DEF StepByStep
  <2> QED
    BY <2>2, <2>3, <2>4
<1>8. w[n] = u[n]
  <2> HIDE DEF Same
  <2>1. n \in Same
    BY <1>6, <1>7, SetInduction
  <2> QED
    BY <2>1 DEF Same
<1>9. /\ u[n] \in Seq(TargetsIn(s)) /\ \A k \in 0 .. m : v[k] \in Seq(TargetsIn(t))
  <2>1. n \in 0 .. n
    OBVIOUS
  <2> QED
    BY <1>1, <1>3, <1>4, <2>1 DEF StepByStep
<1>10. 0 \in Then
  <2>1. v[0] = <<>> /\ n + 0 = n
    BY <1>4 DEF StepByStep
  <2>2. u[n] \o <<>> = u[n]
    BY <1>9
  <2> QED
    BY <1>8, <2>1, <2>2
<1> HIDE DEF Adds
<1>11. ASSUME NEW k \in Nat, k \in Then
       PROVE  k + 1 \in Then
  <2>1. SUFFICES ASSUME k + 1 <= m PROVE Adds(k + 1)
    OBVIOUS
  <2>2. /\ w[n + k] = u[n] \o v[k] /\ k + 1 \in 1 .. m /\ (k + 1) - 1 = k
        /\ n + (k + 1) \in 1 .. n + m /\ (n + (k + 1)) - 1 = n + k
        /\ st[n + (k + 1)] = t[k + 1]
    <3>1. Adds(k) /\ k + 1 \in 1 .. m /\ (k + 1) - 1 = k
      BY <1>11, <2>1
    <3>2. n + (k + 1) \in 1 .. n + m /\ (n + (k + 1)) - 1 = n + k
      BY <3>1
    <3> QED
      BY <1>2, <3>1, <3>2 DEF Adds
  <2>3. v[k + 1] = Taken(t[k + 1], id, when, v[k])
    BY <1>1, <1>4, <2>2 DEF StepByStep
  <2>4. w[n + (k + 1)] = Taken(st[n + (k + 1)], id, when, w[n + k])
    BY <1>2, <1>5, <2>2 DEF StepByStep
  <2>5. PICK q, r, x : q = u[n] /\ r = v[k] /\ x = t[k + 1].to
    OBVIOUS
  <2>6. Append(q \o r, x) = q \o Append(r, x)
    <3>1. PICK S : S = TargetsIn(s) \cup TargetsIn(t) \cup {x}
      OBVIOUS
    <3>2. q \in Seq(S) /\ r \in Seq(S) /\ x \in S
      <4>1. k \in 0 .. m
        BY <2>1
      <4>2. q \in Seq(TargetsIn(s)) /\ r \in Seq(TargetsIn(t))
        BY <1>9, <2>5, <4>1
      <4> QED
        BY <3>1, <4>2
    <3>3. q \o r \in Seq(S) /\ <<x>> \in Seq(S)
      BY <3>2, ConcatProperties
    <3>4. Append(q \o r, x) = (q \o r) \o <<x>> /\ Append(r, x) = r \o <<x>>
      BY <3>2, <3>3, AppendIsConcat
    <3> QED
      BY <3>2, <3>3, <3>4, ConcatAssociative
  <2> QED
    BY <2>2, <2>3, <2>4, <2>5, <2>6 DEF Taken, Adds
<1>12. w[n + m] = u[n] \o v[m]
  <2> HIDE DEF Then
  <2>1. m \in Then
    BY <1>10, <1>11, SetInduction
  <2> QED
    BY <2>1, m <= m DEF Then, Adds
<1> QED
  BY <1>1, <1>2, <1>3, <1>4, <1>5, <1>12 DEF StepByStep

LEMMA LabelledNone ==
    ASSUME NEW E, NEW s \in Seq(E), NEW id, NEW when,
           \A k \in 1 .. Len(s) : ~(s[k].from = id /\ s[k].when = when)
    PROVE  Labelled(s, id, when) = <<>>
<1>1. PICK u : StepByStep(s, id, when, u)
  BY LabelledSteps, Zenon
<1>2. PICK n \in Nat : n = Len(s)
  OBVIOUS
<1> DEFINE Done == {k \in Nat : k <= n => u[k] = <<>>}
<1>3. 0 \in Done
  BY <1>1 DEF StepByStep
<1>4. ASSUME NEW k \in Nat, k \in Done
      PROVE  k + 1 \in Done
  <2>1. SUFFICES ASSUME k + 1 <= n PROVE u[k + 1] = <<>>
    OBVIOUS
  <2>2. u[k] = <<>> /\ k + 1 \in 1 .. n /\ (k + 1) - 1 = k
    BY <1>4, <2>1
  <2>3. u[k + 1] = Taken(s[k + 1], id, when, u[k])
    BY <1>1, <1>2, <2>2 DEF StepByStep
  <2> QED
    BY <1>2, <2>2, <2>3 DEF Taken
<1> HIDE DEF Done
<1>5. n \in Done
  BY <1>3, <1>4, SetInduction
<1> QED
  BY <1>1, <1>2, <1>5 DEF StepByStep, Done

LEMMA LabelledAll ==
    ASSUME NEW E, NEW s \in Seq(E), NEW id, NEW when,
           \A k \in 1 .. Len(s) : s[k].from = id /\ s[k].when = when
    PROVE  Labelled(s, id, when) = [k \in 1 .. Len(s) |-> s[k].to]
<1>1. PICK u : StepByStep(s, id, when, u)
  BY LabelledSteps, Zenon
<1>2. PICK n \in Nat : n = Len(s)
  OBVIOUS
<1> DEFINE Firsts(k) == [j \in 1 .. k |-> s[j].to]
           Done == {k \in Nat : k <= n => u[k] = Firsts(k)}
<1>3. 0 \in Done
  <2>1. Firsts(0) = <<>>
    OBVIOUS
  <2> QED
    BY <1>1, <2>1 DEF StepByStep
<1>4. ASSUME NEW k \in Nat, k \in Done
      PROVE  k + 1 \in Done
  <2>1. SUFFICES ASSUME k + 1 <= n PROVE u[k + 1] = Firsts(k + 1)
    OBVIOUS
  <2>2. u[k] = Firsts(k) /\ k + 1 \in 1 .. n /\ (k + 1) - 1 = k /\ k \in 0 .. n
    BY <1>4, <2>1
  <2>3. u[k + 1] = Taken(s[k + 1], id, when, u[k]) /\ u[k] \in Seq(TargetsIn(s))
    BY <1>1, <1>2, <2>2 DEF StepByStep
  <2>4. u[k + 1] = Append(u[k], s[k + 1].to)
    BY <1>2, <2>2, <2>3 DEF Taken
  <2>5. PICK q, x : q = u[k] /\ x = s[k + 1].to
    OBVIOUS
  <2>6. q \in Seq(TargetsIn(s)) /\ q = [j \in 1 .. k |-> s[j].to]
    BY <2>2, <2>3, <2>5
  <2>7. Len(q) = k
    BY <2>6
  <2>8. Append(q, x) = [j \in 1 .. k + 1 |-> IF j = k + 1 THEN x ELSE q[j]]
    BY <2>6, <2>7
  <2>9. \A j \in 1 .. k + 1 : (IF j = k + 1 THEN x ELSE q[j]) = s[j].to
    BY <2>5, <2>6
  <2> QED
    BY <2>4, <2>5, <2>8, <2>9
<1> HIDE DEF Done
<1>5. n \in Done
  BY <1>3, <1>4, SetInduction
<1> QED
  BY <1>1, <1>2, <1>5 DEF StepByStep, Done

-----------------------------------------------------------------------------
(* Edges of the boxes, one box after the other *)

BoxByBox(E, b, n, f) ==
    /\ f[1] = b[1] /\ \A i \in 2 .. n : f[i] = f[i - 1] \o b[i]
    /\ \A i \in 1 .. n : f[i] \in Seq(E)
    /\ FlattenSeq(b) = f[n]

LEMMA FlattenSteps ==
    ASSUME NEW E, NEW b, NEW n \in Nat \ {0}, n = Len(b), \A i \in 1 .. n : b[i] \in Seq(E)
    PROVE  \E f : BoxByBox(E, b, n, f)
<1> DEFINE Rec(m, f) == f = [i \in 1 .. m |-> IF i = 1 THEN b[i] ELSE f[i - 1] \o b[i]]
           Good == {m \in Nat : \E f : Rec(m, f)}
<1>1. 0 \in Good
  <2>1. PICK f : f = [i \in 1 .. 0 |-> <<>>]
    OBVIOUS
  <2>2. Rec(0, f)
    BY <2>1
  <2> QED
    BY <2>2
<1>2. ASSUME NEW m \in Nat, m \in Good
      PROVE  m + 1 \in Good
  <2>1. PICK f : Rec(m, f)
    BY <1>2
  <2>2. PICK h : h = [i \in 1 .. m + 1 |-> IF i # m + 1 THEN f[i]
                                           ELSE IF i = 1 THEN b[i] ELSE f[m] \o b[i]]
    OBVIOUS
  <2>3. ASSUME NEW i \in 1 .. m + 1
        PROVE  h[i] = IF i = 1 THEN b[i] ELSE h[i - 1] \o b[i]
    <3>1. CASE i = m + 1
      <4>1. h[i] = IF i = 1 THEN b[i] ELSE f[m] \o b[i]
        BY <2>2, <3>1
      <4>2. i # 1 => i - 1 = m /\ m \in 1 .. m + 1 /\ h[m] = f[m]
        BY <2>2, <3>1
      <4> QED
        BY <4>1, <4>2
    <3>2. CASE i \in 1 .. m
      <4>1. h[i] = f[i] /\ f[i] = IF i = 1 THEN b[i] ELSE f[i - 1] \o b[i]
        <5>1. \A j \in 1 .. m : f[j] = IF j = 1 THEN b[j] ELSE f[j - 1] \o b[j]
          BY <2>1
        <5>2. h[i] = f[i]
          BY <2>2, <3>2
        <5> QED
          BY <3>2, <5>1, <5>2, Zenon
      <4>2. i # 1 => i - 1 \in 1 .. m + 1 /\ i - 1 # m + 1
        BY <3>2
      <4>3. i # 1 => h[i - 1] = f[i - 1]
        BY <2>2, <4>2
      <4> QED
        BY <4>1, <4>3
    <3> QED
      BY <3>1, <3>2
  <2>4. Rec(m + 1, h)
    BY <2>2, <2>3
  <2> HIDE DEF Rec
  <2> QED
    BY <2>4
<1> HIDE DEF Good
<1>3. Nat \subseteq Good
  BY <1>1, <1>2, SetInduction
<1>4. PICK f : Rec(n, f) /\ FlattenSeq(b) = f[n]
  <2>1. \E r : Rec(n, r)
    BY <1>3 DEF Good
  <2>2. FlattenSeq(b) = (CHOOSE r : Rec(n, r))[n]
    BY DEF FlattenSeq
  <2> QED
    BY <2>1, <2>2
<1>5. f[1] = b[1] /\ \A i \in 2 .. n : f[i] = f[i - 1] \o b[i]
  <2> HIDE DEF Rec
  <2>1. f = [i \in 1 .. n |-> IF i = 1 THEN b[i] ELSE f[i - 1] \o b[i]]
    BY <1>4 DEF Rec
  <2>2. \A i \in 1 .. n : f[i] = IF i = 1 THEN b[i] ELSE f[i - 1] \o b[i]
    BY <2>1
  <2>3. 1 \in 1 .. n /\ \A i \in 2 .. n : i \in 1 .. n /\ i # 1
    OBVIOUS
  <2> QED
    BY <2>2, <2>3, Zenon
<1> HIDE DEF Rec
<1> DEFINE Fine(k) == k + 1 <= n => f[k + 1] \in Seq(E)
           Done == {k \in Nat : Fine(k)}
<1>6. 0 \in Done
  BY <1>5
<1>7. ASSUME NEW k \in Nat, k \in Done
      PROVE  k + 1 \in Done
  <2>1. SUFFICES ASSUME (k + 1) + 1 <= n PROVE f[(k + 1) + 1] \in Seq(E)
    OBVIOUS
  <2>2. /\ f[k + 1] \in Seq(E) /\ (k + 1) + 1 \in 2 .. n
        /\ ((k + 1) + 1) - 1 = k + 1 /\ b[(k + 1) + 1] \in Seq(E)
    BY <1>7, <2>1
  <2>3. f[(k + 1) + 1] = f[k + 1] \o b[(k + 1) + 1]
    BY <1>5, <2>2
  <2> QED
    BY <2>2, <2>3, ConcatProperties
<1> HIDE DEF Done
<1>8. \A i \in 1 .. n : f[i] \in Seq(E)
  <2> TAKE i \in 1 .. n
  <2>1. i - 1 \in Nat /\ (i - 1) + 1 = i /\ i <= n
    OBVIOUS
  <2>2. i - 1 \in Done
    BY <1>6, <1>7, <2>1, SetInduction
  <2> QED
    BY <2>1, <2>2 DEF Done
<1> QED
  BY <1>4, <1>5, <1>8 DEF BoxByBox

\* If only one of them has edges of a kind, those are all there are.
OnlyBox(b, n, x, id, when) == \A i \in 1 .. n : i # x => Labelled(b[i], id, when) = <<>>

LEMMA FlattenKeeps ==
    ASSUME NEW E, NEW b, NEW n \in Nat, n = Len(b), \A i \in 1 .. n : b[i] \in Seq(E),
           NEW x \in 1 .. n, NEW id, NEW when, OnlyBox(b, n, x, id, when)
    PROVE  Labelled(FlattenSeq(b), id, when) = Labelled(b[x], id, when)
<1>0. \A i \in 1 .. n : i # x => Labelled(b[i], id, when) = <<>>
  BY DEF OnlyBox
<1>1. PICK f : /\ f[1] = b[1] /\ \A i \in 2 .. n : f[i] = f[i - 1] \o b[i]
               /\ \A i \in 1 .. n : f[i] \in Seq(E)
               /\ FlattenSeq(b) = f[n]
  <2>1. n \in Nat \ {0}
    OBVIOUS
  <2>2. \E f : BoxByBox(E, b, n, f)
    BY <2>1, FlattenSteps, Zenon
  <2> QED
    BY <2>2, Zenon DEF BoxByBox
<1>2. PICK q : q = Labelled(b[x], id, when) /\ q \in Seq(TargetsIn(b[x]))
  BY LabelledInOrder
<1> DEFINE Has(i) == Labelled(f[i], id, when) = IF i < x THEN <<>> ELSE q
           Done == {k \in Nat : k + 1 <= n => Has(k + 1)}
<1>3. 0 \in Done
  <2>1. SUFFICES ASSUME 1 <= n PROVE Has(1)
    OBVIOUS
  <2>2. Labelled(f[1], id, when) = Labelled(b[1], id, when)
    BY <1>1
  <2> QED
    BY <1>0, <1>2, <2>1, <2>2
<1>4. ASSUME NEW k \in Nat, k \in Done
      PROVE  k + 1 \in Done
  <2>1. SUFFICES ASSUME (k + 1) + 1 <= n PROVE Has((k + 1) + 1)
    OBVIOUS
  <2>2. PICK i : i = (k + 1) + 1
    OBVIOUS
  <2>3. i \in 2 .. n /\ i - 1 = k + 1 /\ Has(i - 1)
    BY <1>4, <2>1, <2>2
  <2>9. i \in 1 .. n /\ i - 1 \in 1 .. n
    BY <2>3
  <2>4. f[i] = f[i - 1] \o b[i] /\ f[i - 1] \in Seq(E) /\ b[i] \in Seq(E)
    BY <1>1, <2>3, <2>9, Zenon
  <2>5. Labelled(f[i], id, when) = Labelled(f[i - 1], id, when) \o Labelled(b[i], id, when)
    <3>1. PICK s \in Seq(E), t \in Seq(E) : s = f[i - 1] /\ t = b[i]
      BY <2>4
    <3>2. Labelled(s \o t, id, when) = Labelled(s, id, when) \o Labelled(t, id, when)
      BY LabelledJoins
    <3> QED
      BY <2>4, <3>1, <3>2
  <2>6. CASE i < x
    <3>1. Labelled(f[i - 1], id, when) = <<>> /\ Labelled(b[i], id, when) = <<>>
      BY <1>0, <2>3, <2>6, <2>9
    <3> QED
      BY <2>2, <2>5, <2>6, <3>1
  <2>7. CASE i = x
    <3>1. Labelled(f[i - 1], id, when) = <<>> /\ Labelled(b[i], id, when) = q
      BY <1>2, <2>3, <2>7
    <3> QED
      BY <1>2, <2>2, <2>5, <2>7, <3>1, ConcatEmptySeq
  <2>8. CASE i > x
    <3>1. Labelled(f[i - 1], id, when) = q /\ Labelled(b[i], id, when) = <<>>
      BY <1>0, <2>3, <2>8, <2>9
    <3> QED
      BY <1>2, <2>2, <2>5, <2>8, <3>1, ConcatEmptySeq
  <2> QED
    BY <2>3, <2>6, <2>7, <2>8
<1> HIDE DEF Done
<1>5. n - 1 \in Done /\ (n - 1) + 1 = n
  <2>1. n - 1 \in Nat /\ (n - 1) + 1 = n
    OBVIOUS
  <2> QED
    BY <1>3, <1>4, <2>1, SetInduction
<1>6. Has(n)
  BY <1>5 DEF Done
<1> QED
  BY <1>1, <1>2, <1>6

-----------------------------------------------------------------------------
(* Drawings that the page can draw *)

Drawable(g) == IsDrawing(g) /\ Compiles(g) /\ CanBeDrawn(g)

\* No two nodes share a name, so that the page finds the one that is meant.
LEMMA NamesAreUnique ==
    ASSUME NEW g, Drawable(g)
    PROVE  /\ \A i, j \in DOMAIN g.nodes : g.nodes[i].id = g.nodes[j].id => i = j
           /\ \A i \in DOMAIN g.nodes : /\ Position(g, g.nodes[i].id) = i
                                        /\ TypeOf(g, g.nodes[i].id) = g.nodes[i].type
           /\ \A id \in Ids(g) : Position(g, id) \in DOMAIN g.nodes /\ g.nodes[Position(g, id)].id = id
<1>1. PICK n \in Nat : n = Len(g.nodes) /\ DOMAIN g.nodes = 1 .. n
  BY SeqsOfDrawing DEF Drawable
<1>2. PICK names : names = [i \in 1 .. n |-> g.nodes[i].id]
  OBVIOUS
<1>3. names \in Surjection(1 .. n, Ids(g))
  BY <1>1, <1>2 DEF Surjection, Ids
<1>4. IsFiniteSet(1 .. n) /\ Cardinality(1 .. n) = n
  BY FS_Interval
<1>5. Cardinality(Ids(g)) = n
  BY <1>1 DEF Drawable, Compiles
<1>6. names \in Injection(1 .. n, Ids(g))
  BY <1>3, <1>4, <1>5, FS_SurjSameCardinalityImpliesInj
<1>7. \A i, j \in DOMAIN g.nodes : g.nodes[i].id = g.nodes[j].id => i = j
  BY <1>1, <1>2, <1>6 DEF Injection, IsInjective
<1>8. ASSUME NEW i \in DOMAIN g.nodes
      PROVE  Position(g, g.nodes[i].id) = i /\ TypeOf(g, g.nodes[i].id) = g.nodes[i].type
  <2>1. {k \in 1 .. Len(g.nodes) : g.nodes[k].id = g.nodes[i].id} = {i}
    BY <1>1, <1>7
  <2>2. Max({i}) = i
    <3>1. i \in Nat
      BY <1>1
    <3> QED
      BY <3>1 DEF Max
  <2>3. Position(g, g.nodes[i].id) = i
    BY <2>1, <2>2 DEF Position, SelectLastInSeq
  <2>4. NodeOf(g, g.nodes[i].id) = g.nodes[i]
    BY <1>7 DEF NodeOf
  <2> QED
    BY <2>3, <2>4 DEF TypeOf, Ids
<1>9. \A id \in Ids(g) : \E i \in DOMAIN g.nodes : id = g.nodes[i].id
  BY DEF Ids
<1> QED
  BY <1>7, <1>8, <1>9

\* Their edges lead from node to node, labelled where they leave a condition.
LEMMA EdgesAreNeat ==
    ASSUME NEW g, Drawable(g), NEW k \in DOMAIN g.edges
    PROVE  /\ g.edges[k].from \in Ids(g) /\ g.edges[k].to \in Ids(g)
           /\ g.edges[k].when \in Whens
           /\ TypeOf(g, g.edges[k].from) # "end"
           /\ g.edges[k].when = "none" <=> TypeOf(g, g.edges[k].from) # "condition"
<1>1. PICK e : e = g.edges[k]
  OBVIOUS
<1>2. e \in ToSet(g.edges)
  BY <1>1 DEF ToSet
<1>3. e.when \in Whens
  <2>1. PICK E : E = [from : STRING, to : STRING \ {NoNode}, when : Whens, max_loops : Nat \cup {NotGiven}]
    OBVIOUS
  <2>2. g.edges \in Seq(E)
    BY <2>1, Zenon DEF Drawable, IsDrawing
  <2>3. e \in E
    <3> HIDE <2>1
    <3> QED
      BY <1>1, <2>2
  <2> QED
    BY <2>1, <2>3
<1>4. (e.when # "none" => TypeOf(g, e.from) = "condition") /\ TypeOf(g, e.from) # "end"
  BY <1>2 DEF Drawable, CanBeDrawn
<1>5. ASSUME TypeOf(g, e.from) = "condition"
      PROVE  e.when # "none" /\ e.from \in Ids(g) /\ e.to \in Ids(g)
  <2>1. e.from \in Conditions(g) /\ k \in Branches(g, e.from)
    BY <1>1, <1>5 DEF Conditions, OfType, TypeOf, Branches
  <2>2. e.when # "none"
    BY <1>1, <2>1 DEF Drawable, CanBeDrawn, AllLabelled
  <2>3. e.to \in Ids(g)
    BY <1>1, <2>1 DEF Drawable, Compiles
  <2> QED
    BY <2>1, <2>2, <2>3 DEF Conditions, OfType
<1>6. ASSUME TypeOf(g, e.from) # "condition"
      PROVE  e.when = "none" /\ e.from \in Ids(g) /\ e.to \in Ids(g)
  <2>1. e \in Wired(g)
    BY <1>2, <1>4, <1>6 DEF Wired
  <2> QED
    BY <1>4, <1>6, <2>1 DEF Drawable, Compiles
<1> QED
  BY <1>1, <1>3, <1>4, <1>5, <1>6

-----------------------------------------------------------------------------
(* What the boxes keep *)

\* Where the connections of a port lead, as the drawing names it.
LEMMA PortsKeepTargets ==
    ASSUME NEW g, Drawable(g), NEW i \in DOMAIN g.nodes, NEW port \in Ports(g.nodes[i].type),
           NEW q, q = Labelled(g.edges, g.nodes[i].id, WhenOf(port, g.nodes[i].type))
    PROVE  /\ Connections(g, i, port) \in Seq(DOMAIN g.nodes)
           /\ Len(Connections(g, i, port)) = Len(q)
           /\ \A j \in 1 .. Len(q) : g.nodes[Connections(g, i, port)[j]].id = q[j]
<1>1. PICK E, es : es = g.edges /\ es \in Seq(E)
  BY DEF Drawable, IsDrawing
<1>2. PICK len \in Nat : len = Len(es) /\ DOMAIN es = 1 .. len
  BY <1>1
<1>3. PICK id, w : id = g.nodes[i].id /\ w = WhenOf(port, g.nodes[i].type)
  OBVIOUS
<1>4. PICK u : StepByStep(es, id, w, u)
  BY <1>1, LabelledSteps, Zenon
<1> DEFINE Fits(k) == /\ Position(g, es[k].from) = i /\ PortFor(es[k].when) = port
                      /\ Position(g, es[k].to) # 0
           Next1(k, s) == IF Fits(k) THEN Append(s, Position(g, es[k].to)) ELSE s
           Rec(m, f) == f = [k \in 0 .. m |-> IF k = 0 THEN <<>> ELSE Next1(k, f[k - 1])]
           Good == {m \in Nat : \E f : Rec(m, f)}
<1> HIDE DEF Next1
<1>5. 0 \in Good
  <2>1. PICK f : f = [k \in 0 .. 0 |-> <<>>]
    OBVIOUS
  <2>2. Rec(0, f)
    BY <2>1
  <2> QED
    BY <2>2
<1>6. ASSUME NEW m \in Nat, m \in Good
      PROVE  m + 1 \in Good
  <2>1. PICK f : Rec(m, f)
    BY <1>6
  <2>2. PICK h : h = [k \in 0 .. m + 1 |-> IF k = m + 1 THEN Next1(m + 1, f[m]) ELSE f[k]]
    OBVIOUS
  <2>3. ASSUME NEW k \in 0 .. m + 1
        PROVE  h[k] = IF k = 0 THEN <<>> ELSE Next1(k, h[k - 1])
    <3>1. CASE k = m + 1
      <4>1. h[k] = Next1(k, f[m]) /\ k - 1 = m /\ h[m] = f[m] /\ k # 0
        BY <2>2, <3>1
      <4> QED
        BY <4>1
    <3>2. CASE k \in 0 .. m
      <4>1. \A j \in 0 .. m : f[j] = IF j = 0 THEN <<>> ELSE Next1(j, f[j - 1])
        BY <2>1
      <4>2. f[k] = IF k = 0 THEN <<>> ELSE Next1(k, f[k - 1])
        BY <3>2, <4>1, Zenon
      <4>3. h[k] = f[k] /\ (k # 0 => h[k - 1] = f[k - 1])
        BY <2>2, <3>2
      <4> QED
        BY <4>2, <4>3
    <3> QED
      BY <3>1, <3>2
  <2>4. Rec(m + 1, h)
    BY <2>2, <2>3
  <2> QED
    BY <2>4
<1> HIDE DEF Good
<1>7. Nat \subseteq Good
  BY <1>5, <1>6, SetInduction
<1>8. PICK c : Rec(len, c) /\ Connections(g, i, port) = c[len]
  <2>1. \E f : Rec(len, f)
    BY <1>7 DEF Good
  <2>2. Connections(g, i, port) = (CHOOSE f : Rec(len, f))[len]
    BY <1>1, <1>2 DEF Connections, Next1
  <2> QED
    BY <2>1, <2>2
<1>9. c[0] = <<>> /\ \A k \in 1 .. len : c[k] = Next1(k, c[k - 1])
  <2> HIDE DEF Rec
  <2>1. c = [k \in 0 .. len |-> IF k = 0 THEN <<>> ELSE Next1(k, c[k - 1])]
    BY <1>8 DEF Rec
  <2> QED
    BY <2>1
<1> HIDE DEF Rec
<1>10. ASSUME NEW k \in 1 .. len
       PROVE  /\ Fits(k) <=> es[k].from = id /\ es[k].when = w
              /\ Position(g, es[k].to) \in DOMAIN g.nodes
              /\ g.nodes[Position(g, es[k].to)].id = es[k].to
  <2>1. /\ es[k].from \in Ids(g) /\ es[k].to \in Ids(g) /\ es[k].when \in Whens
        /\ TypeOf(g, es[k].from) # "end"
        /\ es[k].when = "none" <=> TypeOf(g, es[k].from) # "condition"
    BY <1>1, <1>2, EdgesAreNeat
  <2>2. /\ Position(g, es[k].to) \in DOMAIN g.nodes
        /\ g.nodes[Position(g, es[k].to)].id = es[k].to
    BY <2>1, NamesAreUnique
  <2>3. Position(g, es[k].to) # 0
    <3>1. 0 \notin DOMAIN g.nodes
      BY SeqsOfDrawing DEF Drawable
    <3> QED
      BY <2>2, <3>1
  <2>4. Position(g, es[k].from) = i <=> es[k].from = id
    BY <1>3, <2>1, NamesAreUnique
  <2>5. ASSUME es[k].from = id
        PROVE  PortFor(es[k].when) = port <=> es[k].when = w
    <3>1. PICK type, when : type = g.nodes[i].type /\ when = es[k].when
      OBVIOUS
    <3>2. TypeOf(g, id) = type
      BY <1>3, <3>1, NamesAreUnique
    <3>3. /\ when \in Whens /\ type # "end" /\ (when = "none" <=> type # "condition")
          /\ port \in Ports(type) /\ w = WhenOf(port, type)
      BY <1>3, <2>1, <2>5, <3>1, <3>2
    <3>4. PortFor(when) = port <=> when = w
      BY <3>3 DEF PortFor, WhenOf, Ports, Whens
    <3> QED
      BY <3>1, <3>4
  <2> QED
    BY <2>2, <2>3, <2>4, <2>5
<1> HIDE DEF Fits
<1> DEFINE Alike(s, r) == /\ s \in Seq(DOMAIN g.nodes) /\ Len(s) = Len(r)
                          /\ \A j \in 1 .. Len(r) : g.nodes[s[j]].id = r[j]
           Done == {k \in Nat : k <= len => Alike(c[k], u[k])}
<1>11. 0 \in Done
  <2>1. c[0] = <<>> /\ u[0] = <<>>
    BY <1>4, <1>9 DEF StepByStep
  <2>2. Alike(<<>>, <<>>)
    OBVIOUS
  <2> QED
    BY <2>1, <2>2
<1>12. ASSUME NEW k \in Nat, k \in Done
       PROVE  k + 1 \in Done
  <2>1. SUFFICES ASSUME k + 1 <= len PROVE Alike(c[k + 1], u[k + 1])
    OBVIOUS
  <2>2. Alike(c[k], u[k]) /\ k + 1 \in 1 .. len /\ (k + 1) - 1 = k /\ k \in 0 .. len
    BY <1>12, <2>1
  <2>3. u[k + 1] = Taken(es[k + 1], id, w, u[k]) /\ u[k] \in Seq(TargetsIn(es))
    BY <1>2, <1>4, <2>2 DEF StepByStep
  <2>4. c[k + 1] = Next1(k + 1, c[k])
    BY <1>9, <2>2
  <2>5. CASE es[k + 1].from = id /\ es[k + 1].when = w
    <3>1. PICK s, r, x, y : /\ s = c[k] /\ r = u[k] /\ x = es[k + 1].to /\ y = Position(g, es[k + 1].to)
      OBVIOUS
    <3>2. c[k + 1] = Append(s, y) /\ u[k + 1] = Append(r, x)
      BY <1>10, <2>2, <2>3, <2>4, <2>5, <3>1 DEF Next1, Taken
    <3>3. y \in DOMAIN g.nodes /\ g.nodes[y].id = x /\ Alike(s, r) /\ r \in Seq(TargetsIn(es))
      BY <1>10, <2>2, <2>3, <3>1
    <3>4. PICK n \in Nat : n = Len(s) /\ n = Len(r)
      BY <3>3
    <3>5. \A j \in 1 .. n : Append(s, y)[j] = s[j] /\ Append(r, x)[j] = r[j]
      BY <3>3, <3>4
    <3>6. Append(s, y)[n + 1] = y /\ Append(r, x)[n + 1] = x
      BY <3>3, <3>4
    <3>7. /\ Append(s, y) \in Seq(DOMAIN g.nodes)
          /\ Len(Append(s, y)) = n + 1 /\ Len(Append(r, x)) = n + 1
      BY <3>3, <3>4
    <3>8. \A j \in 1 .. n + 1 : g.nodes[Append(s, y)[j]].id = Append(r, x)[j]
      <4> TAKE j \in 1 .. n + 1
      <4>1. CASE j = n + 1
        BY <3>3, <3>6, <4>1
      <4>2. CASE j \in 1 .. n
        BY <3>3, <3>4, <3>5, <4>2
      <4>3. j = n + 1 \/ j \in 1 .. n
        OBVIOUS
      <4> QED
        BY <4>1, <4>2, <4>3
    <3> QED
      BY <3>2, <3>7, <3>8
  <2>6. CASE ~(es[k + 1].from = id /\ es[k + 1].when = w)
    <3>1. c[k + 1] = c[k] /\ u[k + 1] = u[k]
      BY <1>10, <2>2, <2>3, <2>4, <2>6 DEF Next1, Taken
    <3> HIDE DEF Alike
    <3> QED
      BY <2>2, <3>1
  <2> QED
    BY <2>5, <2>6
<1> HIDE DEF Done
<1>13. len \in Done
  BY <1>11, <1>12, SetInduction
<1>14. Alike(c[len], u[len])
  BY <1>13 DEF Done
<1>15. u[len] = q
  BY <1>1, <1>2, <1>3, <1>4 DEF StepByStep
<1> QED
  BY <1>8, <1>14, <1>15

Redrawn(g) == [from : Ids(g), to : Ids(g), when : Whens, max_loops : {NotGiven}]

\* One port of a box draws what the node drew with that label.
LEMMA PortsKeepEdges ==
    ASSUME NEW g, Drawable(g), NEW i \in DOMAIN g.nodes, NEW port \in {1, 2},
           NEW s, s = EdgesOf(ToCanvas(g), i, port), NEW id, NEW when
    PROVE  /\ s \in Seq(Redrawn(g))
           /\ Labelled(s, id, when) =
                IF /\ port \in Ports(g.nodes[i].type) /\ id = g.nodes[i].id
                   /\ when = WhenOf(port, g.nodes[i].type)
                THEN Labelled(g.edges, id, when) ELSE <<>>
<1>1. PICK me, type, w, C : /\ me = g.nodes[i].id /\ type = g.nodes[i].type /\ w = WhenOf(port, type)
                            /\ C = Connections(g, i, port)
  OBVIOUS
<1>2. s = [k \in DOMAIN C |->
             [from |-> me, to |-> ToCanvas(g)[C[k]].id, when |-> w, max_loops |-> NotGiven]]
  BY <1>1 DEF EdgesOf, ToCanvas
<1>3. \A x \in DOMAIN g.nodes : ToCanvas(g)[x].id = g.nodes[x].id
  BY DEF ToCanvas
<1>4. me \in Ids(g) /\ w \in Whens
  BY <1>1 DEF Ids, WhenOf, Whens
<1>5. CASE port \in Ports(type)
  <2>1. PICK q : q = Labelled(g.edges, me, w)
    OBVIOUS
  <2>2. /\ C \in Seq(DOMAIN g.nodes) /\ Len(C) = Len(q)
        /\ \A j \in 1 .. Len(q) : g.nodes[C[j]].id = q[j]
    BY <1>1, <1>5, <2>1, PortsKeepTargets
  <2>3. q \in Seq(TargetsIn(g.edges))
    <3>1. PICK E, es : es = g.edges /\ es \in Seq(E)
      BY DEF Drawable, IsDrawing
    <3> QED
      BY <2>1, <3>1, LabelledInOrder
  <2>4. PICK n \in Nat : n = Len(q) /\ DOMAIN C = 1 .. n
    BY <2>2, <2>3
  <2>5. \A k \in 1 .. n : C[k] \in DOMAIN g.nodes /\ ToCanvas(g)[C[k]].id = q[k] /\ q[k] \in Ids(g)
    BY <1>3, <2>2, <2>4 DEF Ids
  <2>6. s = [k \in 1 .. n |-> [from |-> me, to |-> q[k], when |-> w, max_loops |-> NotGiven]]
    BY <1>2, <2>4, <2>5
  <2>7. s \in Seq(Redrawn(g)) /\ Len(s) = n
    <3>1. \A k \in 1 .. n : [from |-> me, to |-> q[k], when |-> w, max_loops |-> NotGiven] \in Redrawn(g)
      BY <1>4, <2>5 DEF Redrawn
    <3>2. s \in [1 .. n -> Redrawn(g)]
      BY <2>6, <3>1
    <3> QED
      BY <3>2
  <2>8. \A k \in 1 .. n : s[k].from = me /\ s[k].when = w /\ s[k].to = q[k]
    BY <2>6
  <2>9. CASE id = me /\ when = w
    <3>1. Labelled(s, me, w) = [k \in 1 .. Len(s) |-> s[k].to]
      BY <2>7, <2>8, LabelledAll
    <3>2. [k \in 1 .. n |-> q[k]] = q
      BY <2>3, <2>4
    <3>3. Labelled(s, me, w) = q
      BY <2>7, <2>8, <3>1, <3>2
    <3> QED
      BY <1>1, <1>5, <2>1, <2>7, <2>9, <3>3
  <2>10. CASE ~(id = me /\ when = w)
    <3>1. \A k \in 1 .. Len(s) : ~(s[k].from = id /\ s[k].when = when)
      BY <2>7, <2>8, <2>10
    <3>2. Labelled(s, id, when) = <<>>
      BY <2>7, <3>1, LabelledNone
    <3> QED
      BY <1>1, <2>7, <2>10, <3>2
  <2> QED
    BY <2>9, <2>10
<1>6. CASE port \notin Ports(type)
  <2>1. C = <<>>
    BY <1>1, <1>6 DEF Connections
  <2>2. s = <<>>
    BY <1>2, <2>1
  <2>3. s \in Seq(Redrawn(g)) /\ Len(s) = 0
    BY <2>2
  <2>4. \A k \in 1 .. Len(s) : ~(s[k].from = id /\ s[k].when = when)
    BY <2>3
  <2>5. Labelled(s, id, when) = <<>>
    BY <2>3, <2>4, LabelledNone
  <2> QED
    BY <1>1, <1>6, <2>3, <2>5
<1> QED
  BY <1>5, <1>6

\* A box draws what the node drew, and nothing for another.
DrawsNode(g, i, b) ==
    /\ b \in Seq(Redrawn(g))
    /\ \A id : \A when \in Whens :
         Labelled(b, id, when) = IF id = g.nodes[i].id THEN Labelled(g.edges, id, when) ELSE <<>>

LEMMA BoxesKeepEdges ==
    ASSUME NEW g, Drawable(g), NEW i \in DOMAIN g.nodes
    PROVE  DrawsNode(g, i, EdgesOf(ToCanvas(g), i, 1) \o EdgesOf(ToCanvas(g), i, 2))
<1> DEFINE b == EdgesOf(ToCanvas(g), i, 1) \o EdgesOf(ToCanvas(g), i, 2)
<1> SUFFICES ASSUME NEW id, NEW when \in Whens
     PROVE  /\ b \in Seq(Redrawn(g))
            /\ Labelled(b, id, when) = IF id = g.nodes[i].id THEN Labelled(g.edges, id, when) ELSE <<>>
  BY DEF DrawsNode, Whens
<1>1. PICK s1, s2, me, type : /\ s1 = EdgesOf(ToCanvas(g), i, 1) /\ s2 = EdgesOf(ToCanvas(g), i, 2)
                              /\ me = g.nodes[i].id /\ type = g.nodes[i].type
  OBVIOUS
<1>2. PICK q : q = Labelled(g.edges, id, when) /\ q \in Seq(TargetsIn(g.edges))
  <2>1. PICK E, es : es = g.edges /\ es \in Seq(E)
    BY DEF Drawable, IsDrawing
  <2> QED
    BY <2>1, LabelledInOrder
<1> DEFINE Draws(port) == port \in Ports(type) /\ id = me /\ when = WhenOf(port, type)
<1>3. s1 \in Seq(Redrawn(g)) /\ Labelled(s1, id, when) = IF Draws(1) THEN q ELSE <<>>
  BY <1>1, <1>2, PortsKeepEdges
<1>4. s2 \in Seq(Redrawn(g)) /\ Labelled(s2, id, when) = IF Draws(2) THEN q ELSE <<>>
  BY <1>1, <1>2, PortsKeepEdges
<1>5. b = s1 \o s2 /\ b \in Seq(Redrawn(g))
  BY <1>1, <1>3, <1>4, ConcatProperties
<1>6. Labelled(b, id, when) = Labelled(s1, id, when) \o Labelled(s2, id, when)
  <2>1. PICK t1 \in Seq(Redrawn(g)), t2 \in Seq(Redrawn(g)) : t1 = s1 /\ t2 = s2
    BY <1>3, <1>4
  <2>2. Labelled(t1 \o t2, id, when) = Labelled(t1, id, when) \o Labelled(t2, id, when)
    BY LabelledJoins
  <2> QED
    BY <1>5, <2>1, <2>2
<1>7. Labelled(b, id, when) = IF Draws(1) \/ Draws(2) THEN q ELSE <<>>
  <2>1. ~(Draws(1) /\ Draws(2))
    BY DEF WhenOf, Ports
  <2>2. <<>> \o q = q /\ q \o <<>> = q /\ <<>> \o <<>> = <<>>
    BY <1>2, ConcatEmptySeq
  <2> HIDE DEF Draws
  <2> QED
    BY <1>3, <1>4, <1>6, <2>1, <2>2
<1>8. ASSUME id = me, ~Draws(1), ~Draws(2)
      PROVE  q = <<>>
  <2>1. PICK E, es : es = g.edges /\ es \in Seq(E)
    BY DEF Drawable, IsDrawing
  <2>2. ASSUME NEW k \in 1 .. Len(es), es[k].from = id, es[k].when = when
        PROVE  FALSE
    <3>1. k \in DOMAIN g.edges /\ TypeOf(g, me) = type
      BY <1>1, <2>1, NamesAreUnique
    <3>2. type # "end" /\ (when = "none" <=> type # "condition")
      BY <1>8, <2>1, <2>2, <3>1, EdgesAreNeat
    <3> QED
      BY <1>8, <3>2 DEF Ports, WhenOf, Whens
  <2>3. Labelled(es, id, when) = <<>>
    BY <2>1, <2>2, LabelledNone
  <2> QED
    BY <1>2, <2>1, <2>3
<1> HIDE DEF Draws
<1>9. id # me => ~Draws(1) /\ ~Draws(2)
  BY DEF Draws
<1> QED
  BY <1>1, <1>2, <1>5, <1>7, <1>8, <1>9

\* Box by box, the drawing comes back: its nodes, and for every label of every node the
\* targets in their order.
LEMMA SavedDrawing ==
    ASSUME NEW g, Drawable(g), NEW h, h = SavedUnchanged(g)
    PROVE  /\ h.nodes = g.nodes /\ h.edges \in Seq(Redrawn(g)) /\ IsDrawing(h)
           /\ \A id : \A when \in Whens : Labelled(h.edges, id, when) = Labelled(g.edges, id, when)
           /\ OfType(g, "agent") \subseteq h.linked
<1>1. PICK n \in Nat \ {0} : n = Len(g.nodes) /\ DOMAIN g.nodes = 1 .. n
  <2>1. g.nodes # <<>> /\ Len(g.nodes) \in Nat /\ DOMAIN g.nodes = 1 .. Len(g.nodes)
    BY SeqsOfDrawing DEF Drawable, Compiles
  <2>2. 1 \in DOMAIN g.nodes
    BY <2>1, SeqsOfDrawing DEF Drawable
  <2> QED
    BY <2>1, <2>2
<1>2. PICK canvas : canvas = ToCanvas(g) /\ DOMAIN canvas = 1 .. n
  <2>1. DOMAIN ToCanvas(g) = 1 .. n
    BY <1>1 DEF ToCanvas
  <2> QED
    BY <2>1
<1>3. \A i \in 1 .. n : /\ canvas[i].id = g.nodes[i].id /\ canvas[i].type = g.nodes[i].type
                        /\ canvas[i].field = g.nodes[i].field
                        /\ canvas[i].linked = (g.nodes[i].id \in g.linked)
  BY <1>1, <1>2 DEF ToCanvas
<1>4. PICK b : b = [i \in 1 .. n |-> EdgesOf(canvas, i, 1) \o EdgesOf(canvas, i, 2)]
  OBVIOUS
<1>5. /\ h.edges = FlattenSeq(b)
      /\ h.nodes =
           [i \in 1 .. n |-> [id |-> canvas[i].id, type |-> canvas[i].type, field |-> canvas[i].field]]
  BY <1>2, <1>4 DEF SavedUnchanged, FromCanvas
<1>6. h.nodes = g.nodes
  <2>1. PICK N : N = [id : STRING \ {NoNode}, type : NodeTypes, field : STRING]
    OBVIOUS
  <2>2. g.nodes \in Seq(N)
    BY <2>1, Zenon DEF Drawable, IsDrawing
  <2>3. \A i \in 1 .. n : g.nodes[i] \in N
    <3> HIDE <2>1
    <3> QED
      BY <1>1, <2>2
  <2>4. \A x \in N : x = [id |-> x.id, type |-> x.type, field |-> x.field]
    BY <2>1
  <2>5. \A i \in 1 .. n :
          [id |-> canvas[i].id, type |-> canvas[i].type, field |-> canvas[i].field] = g.nodes[i]
    BY <1>3, <2>3, <2>4
  <2>6. h.nodes = [i \in 1 .. n |-> g.nodes[i]]
    BY <1>5, <2>5
  <2>7. g.nodes = [i \in 1 .. n |-> g.nodes[i]]
    <3> HIDE <2>1
    <3> QED
      BY <1>1, <2>2
  <2> QED
    BY <2>6, <2>7
<1>7. ASSUME NEW i \in 1 .. n
      PROVE  /\ b[i] \in Seq(Redrawn(g))
             /\ \A id : \A when \in Whens :
                  Labelled(b[i], id, when) = IF id = g.nodes[i].id THEN Labelled(g.edges, id, when)
                                             ELSE <<>>
  <2>1. b[i] = EdgesOf(ToCanvas(g), i, 1) \o EdgesOf(ToCanvas(g), i, 2) /\ i \in DOMAIN g.nodes
    BY <1>1, <1>2, <1>4
  <2>2. DrawsNode(g, i, EdgesOf(ToCanvas(g), i, 1) \o EdgesOf(ToCanvas(g), i, 2))
    BY <2>1, BoxesKeepEdges, Zenon
  <2> QED
    BY <2>1, <2>2, Zenon DEF DrawsNode
<1>8. n = Len(b)
  BY <1>4
<1>9. h.edges \in Seq(Redrawn(g))
  <2>1. \E f : BoxByBox(Redrawn(g), b, n, f)
    BY <1>7, <1>8, FlattenSteps, Zenon
  <2>2. PICK f : BoxByBox(Redrawn(g), b, n, f)
    BY <2>1
  <2>3. n \in 1 .. n
    OBVIOUS
  <2> QED
    BY <1>5, <2>2, <2>3 DEF BoxByBox
<1>10. ASSUME NEW id, NEW when \in Whens
       PROVE  Labelled(h.edges, id, when) = Labelled(g.edges, id, when)
  <2>1. CASE id \in Ids(g)
    <3>1. PICK x \in 1 .. n : g.nodes[x].id = id
      BY <1>1, <2>1 DEF Ids
    <3>2. Labelled(b[x], id, when) = Labelled(g.edges, id, when)
      BY <1>7, <3>1
    <3>3. OnlyBox(b, n, x, id, when)
      <4> SUFFICES ASSUME NEW i \in 1 .. n, i # x PROVE Labelled(b[i], id, when) = <<>>
        BY DEF OnlyBox
      <4>1. g.nodes[i].id # id
        BY <1>1, <3>1, NamesAreUnique
      <4> QED
        BY <1>7, <4>1
    <3>4. \A i \in 1 .. n : b[i] \in Seq(Redrawn(g))
      BY <1>7
    <3>5. Labelled(FlattenSeq(b), id, when) = Labelled(b[x], id, when)
      BY <1>8, <3>3, <3>4, FlattenKeeps
    <3> QED
      BY <1>5, <3>2, <3>5
  <2>2. CASE id \notin Ids(g)
    <3>1. PICK E, es : es = g.edges /\ es \in Seq(E)
      BY DEF Drawable, IsDrawing
    <3>2. \A k \in 1 .. Len(es) : ~(es[k].from = id /\ es[k].when = when)
      BY <2>2, <3>1, EdgesAreNeat
    <3>3. Labelled(es, id, when) = <<>>
      BY <3>1, <3>2, LabelledNone
    <3>4. PICK hs \in Seq(Redrawn(g)) : hs = h.edges
      BY <1>9
    <3>5. \A k \in 1 .. Len(hs) : hs[k] \in Redrawn(g)
      OBVIOUS
    <3>6. \A k \in 1 .. Len(hs) : ~(hs[k].from = id /\ hs[k].when = when)
      BY <2>2, <3>5 DEF Redrawn
    <3>7. Labelled(hs, id, when) = <<>>
      BY <3>6, LabelledNone
    <3> QED
      BY <3>1, <3>3, <3>4, <3>7
  <2> QED
    BY <2>1, <2>2
<1>11. IsDrawing(h)
  <2>1. Ids(g) \subseteq STRING \ {NoNode}
    <3>1. PICK N : N = [id : STRING \ {NoNode}, type : NodeTypes, field : STRING]
      OBVIOUS
    <3>2. g.nodes \in Seq(N)
      BY <3>1, Zenon DEF Drawable, IsDrawing
    <3>3. \A i \in 1 .. n : g.nodes[i] \in N
      <4> HIDE <3>1
      <4> QED
        BY <1>1, <3>2
    <3> QED
      BY <1>1, <3>1, <3>3 DEF Ids
  <2>2. Redrawn(g) \subseteq
          [from : STRING, to : STRING \ {NoNode}, when : Whens, max_loops : Nat \cup {NotGiven}]
    BY <2>1 DEF Redrawn
  <2>3. h.edges \in
          Seq([from : STRING, to : STRING \ {NoNode}, when : Whens, max_loops : Nat \cup {NotGiven}])
    BY <1>9, <2>2, SeqMonotonic
  <2> QED
    BY <1>6, <2>3 DEF Drawable, IsDrawing
<1>12. OfType(g, "agent") \subseteq h.linked
  <2>4. h.linked =
          {canvas[i].id : i \in {j \in DOMAIN canvas : canvas[j].linked /\ canvas[j].type = "agent"}}
    BY <1>2 DEF SavedUnchanged, FromCanvas
  <2> SUFFICES ASSUME NEW id \in OfType(g, "agent") PROVE id \in h.linked
    OBVIOUS
  <2>1. id \in g.linked /\ id \in Ids(g) /\ TypeOf(g, id) = "agent"
    BY DEF Drawable, Compiles, OfType
  <2>2. PICK i \in 1 .. n : g.nodes[i].id = id
    BY <1>1, <2>1 DEF Ids
  <2>3. canvas[i].linked /\ canvas[i].type = "agent" /\ canvas[i].id = id
    <3>1. canvas[i].linked
      BY <1>3, <2>1, <2>2
    <3>2. g.nodes[i].type = "agent"
      BY <1>1, <2>1, <2>2, NamesAreUnique
    <3> QED
      BY <1>3, <2>2, <3>1, <3>2
  <2> QED
    BY <1>2, <2>3, <2>4
<1> QED
  BY <1>6, <1>9, <1>10, <1>11, <1>12

-----------------------------------------------------------------------------
(* A drawing is read by its labels *)

\* The first, the second and the last edge of a kind lead to the first, the second and the
\* last target listed.
ListedBy(s, K, q) ==
    /\ K # {} <=> Len(q) > 0
    /\ K # {} => s[Max(K)].to = q[Len(q)] /\ s[Min(K)].to = q[1]
    /\ K \ {Min(K)} # {} <=> Len(q) > 1
    /\ Len(q) > 1 => s[Min(K \ {Min(K)})].to = q[2]

LEMMA PlacesInOrder ==
    ASSUME NEW s, NEW len \in Nat, NEW K, K \subseteq 1 .. len,
           NEW T, NEW q \in Seq(T), NEW at, InOrder(s, K, q, at)
    PROVE  ListedBy(s, K, q)
<1>1. PICK n \in Nat : n = Len(q)
  OBVIOUS
<1>2. /\ \A j \in 1 .. n : at[j] \in K /\ at[j] \in Nat /\ q[j] = s[at[j]].to
      /\ \A i, j \in 1 .. n : i < j => at[i] < at[j]
      /\ \A k \in K : \E j \in 1 .. n : at[j] = k
  <2>1. at \in Seq(K) /\ Len(at) = n
    BY <1>1 DEF InOrder
  <2>2. \A j \in 1 .. n : at[j] \in K
    BY <2>1
  <2>3. /\ \A j \in 1 .. n : q[j] = s[at[j]].to
        /\ \A i, j \in 1 .. n : i < j => at[i] < at[j]
        /\ \A k \in K : \E j \in 1 .. n : at[j] = k
    BY <1>1 DEF InOrder
  <2>4. \A j \in 1 .. n : at[j] \in Nat
    <3>1. \A k \in K : k \in Nat
      OBVIOUS
    <3> QED
      BY <2>2, <3>1
  <2> QED
    BY <2>2, <2>3, <2>4, Zenon
<1>3. K # {} <=> n > 0
  <2>1. ASSUME n > 0 PROVE K # {}
    BY <1>2, <2>1
  <2>2. ASSUME NEW k \in K PROVE n > 0
    <3>1. PICK j \in 1 .. n : at[j] = k
      BY <1>2
    <3> QED
      BY <3>1
  <2> QED
    BY <2>1, <2>2
<1>4. ASSUME n > 0
      PROVE  Max(K) = at[n] /\ Min(K) = at[1]
  <2>1. 1 \in 1 .. n /\ n \in 1 .. n
    BY <1>4
  <2>2. \A j \in 1 .. n : at[1] <= at[j] /\ at[j] <= at[n]
    <3> TAKE j \in 1 .. n
    <3>1. j = 1 \/ 1 < j
      OBVIOUS
    <3>2. j = n \/ j < n
      OBVIOUS
    <3>3. at[1] <= at[j]
      BY <1>2, <2>1, <3>1
    <3>4. at[j] <= at[n]
      BY <1>2, <2>1, <3>2
    <3> QED
      BY <3>3, <3>4
  <2>3. \A k \in K : k \in Nat /\ at[1] <= k /\ k <= at[n]
    BY <1>2, <2>2
  <2>4. at[1] \in K /\ at[n] \in K /\ at[1] \in Nat /\ at[n] \in Nat
    BY <1>2, <2>1
  <2>5. \A x \in K : (\A y \in K : x >= y) => x = at[n]
    BY <2>3, <2>4
  <2>6. \A x \in K : (\A y \in K : x <= y) => x = at[1]
    BY <2>3, <2>4
  <2>7. Max(K) = at[n]
    BY <2>3, <2>4, <2>5 DEF Max
  <2>8. Min(K) = at[1]
    BY <2>3, <2>4, <2>6 DEF Min
  <2> QED
    BY <2>7, <2>8
<1>5. K \ {Min(K)} # {} <=> n > 1
  <2>1. ASSUME n > 1 PROVE K \ {Min(K)} # {}
    <3>1. 1 \in 1 .. n /\ 2 \in 1 .. n
      BY <2>1
    <3>2. at[2] \in K /\ at[2] # at[1] /\ Min(K) = at[1]
      BY <1>2, <1>4, <2>1, <3>1
    <3> QED
      BY <3>2
  <2>2. ASSUME NEW k \in K \ {Min(K)} PROVE n > 1
    <3>1. PICK j \in 1 .. n : at[j] = k
      BY <1>2
    <3>2. j # 1
      BY <1>4, <3>1
    <3> QED
      BY <3>1, <3>2
  <2> QED
    BY <2>1, <2>2
<1>6. ASSUME n > 1
      PROVE  Min(K \ {Min(K)}) = at[2]
  <2>1. 1 \in 1 .. n /\ 2 \in 1 .. n /\ Min(K) = at[1]
    BY <1>4, <1>6
  <2>2. PICK L : L = K \ {Min(K)}
    OBVIOUS
  <2>3. at[2] \in L /\ at[2] \in Nat
    BY <1>2, <2>1, <2>2
  <2>4. ASSUME NEW k \in L
        PROVE  k \in Nat /\ at[2] <= k
    <3>1. PICK j \in 1 .. n : at[j] = k
      BY <1>2, <2>2
    <3>2. j = 2 \/ 2 < j
      BY <2>1, <2>2, <3>1
    <3> QED
      BY <1>2, <2>1, <3>1, <3>2
  <2>5. \A x \in L : (\A y \in L : x <= y) => x = at[2]
    BY <2>3, <2>4
  <2>6. Min(L) = at[2]
    BY <2>3, <2>4, <2>5 DEF Min
  <2> QED
    BY <2>2, <2>6
<1>7. K # {} => /\ Max(K) \in K /\ s[Max(K)].to = q[n] /\ Min(K) \in K /\ s[Min(K)].to = q[1]
  <2> HAVE K # {}
  <2>1. n > 0 /\ 1 \in 1 .. n /\ n \in 1 .. n
    BY <1>3
  <2> QED
    BY <1>2, <1>4, <2>1
<1>8. n > 1 => s[Min(K \ {Min(K)})].to = q[2]
  <2> HAVE n > 1
  <2>1. 2 \in 1 .. n
    OBVIOUS
  <2> QED
    BY <1>2, <1>6, <2>1
<1> QED
  BY <1>1, <1>3, <1>5, <1>7, <1>8 DEF ListedBy

DrawsTo(s, id, when, x) == \E k \in DOMAIN s : s[k].from = id /\ s[k].when = when /\ s[k].to = x

LEMMA InLabelled ==
    ASSUME NEW E, NEW s \in Seq(E), NEW id, NEW when, NEW x
    PROVE  DrawsTo(s, id, when, x) <=> x \in Elems(Labelled(s, id, when))
<1>1. PICK q, at : /\ q = Labelled(s, id, when) /\ q \in Seq(TargetsIn(s))
                   /\ InOrder(s, Matching(s, id, when), q, at)
  BY LabelledInOrder
<1>2. \A j \in 1 .. Len(q) : at[j] \in Matching(s, id, when) /\ q[j] = s[at[j]].to
  <2>1. at \in Seq(Matching(s, id, when)) /\ Len(at) = Len(q)
    BY <1>1 DEF InOrder
  <2>2. \A j \in 1 .. Len(q) : at[j] \in Matching(s, id, when)
    BY <2>1
  <2> QED
    BY <1>1, <2>2 DEF InOrder
<1>3. \A k \in Matching(s, id, when) : \E j \in 1 .. Len(q) : at[j] = k
  BY <1>1 DEF InOrder
<1>4. \A k \in DOMAIN s : k \in Matching(s, id, when) <=> s[k].from = id /\ s[k].when = when
  BY DEF Matching
<1>5. Matching(s, id, when) \subseteq DOMAIN s
  BY DEF Matching
<1>6. (\E k \in Matching(s, id, when) : s[k].to = x) <=> \E j \in 1 .. Len(q) : q[j] = x
  BY <1>2, <1>3
<1>7. x \in Elems(q) <=> \E j \in 1 .. Len(q) : q[j] = x
  BY <1>1 DEF Elems
<1> QED
  BY <1>1, <1>4, <1>5, <1>6, <1>7 DEF DrawsTo

\* The branches of a condition that labels all its edges.
LEMMA BranchesByLabel ==
    ASSUME NEW g, IsDrawing(g), NEW c, \A i \in Branches(g, c) : g.edges[i].when # "none",
           NEW oks, oks = Labelled(g.edges, c, "ok"), NEW lows, lows = Labelled(g.edges, c, "low")
    PROVE  /\ OkBranch(g, c) = IF Len(oks) > 0 THEN oks[Len(oks)]
                               ELSE IF Len(lows) > 0 THEN lows[1] ELSE NoNode
           /\ LowBranch(g, c) = IF Len(lows) > 0 THEN lows[Len(lows)]
                                ELSE IF Len(oks) > 1 THEN oks[2] ELSE NoNode
<1>1. PICK s : s = g.edges
  OBVIOUS
<1>2. PICK len \in Nat : len = Len(s) /\ DOMAIN s = 1 .. len
  BY <1>1, SeqsOfDrawing
<1>3. PICK E, es : es = s /\ es \in Seq(E)
  BY <1>1 DEF IsDrawing
<1>4. PICK Ok, Low, all : /\ Ok = Matching(s, c, "ok") /\ Low = Matching(s, c, "low")
                          /\ all = Branches(g, c)
  OBVIOUS
<1>5. PICK okAt : oks \in Seq(TargetsIn(s)) /\ InOrder(s, Ok, oks, okAt)
  BY <1>1, <1>3, <1>4, LabelledInOrder
<1>6. PICK lowAt : lows \in Seq(TargetsIn(s)) /\ InOrder(s, Low, lows, lowAt)
  BY <1>1, <1>3, <1>4, LabelledInOrder
<1>7. Ok \subseteq 1 .. len /\ Low \subseteq 1 .. len
  BY <1>2, <1>4 DEF Matching
<1>8. /\ Ok # {} <=> Len(oks) > 0
      /\ Ok # {} => s[Max(Ok)].to = oks[Len(oks)]
      /\ Ok \ {Min(Ok)} # {} <=> Len(oks) > 1
      /\ Len(oks) > 1 => s[Min(Ok \ {Min(Ok)})].to = oks[2]
  <2>1. ListedBy(s, Ok, oks)
    BY <1>5, <1>7, PlacesInOrder, Zenon
  <2> QED
    BY <2>1, Zenon DEF ListedBy
<1>9. /\ Low # {} <=> Len(lows) > 0
      /\ Low # {} => s[Max(Low)].to = lows[Len(lows)] /\ s[Min(Low)].to = lows[1]
  <2>1. ListedBy(s, Low, lows)
    BY <1>6, <1>7, PlacesInOrder, Zenon
  <2> QED
    BY <2>1, Zenon DEF ListedBy
<1>10. \A i \in all : s[i].when \in Whens /\ s[i].when # "none" /\ s[i].from = c
  <2>1. PICK F : F = [from : STRING, to : STRING \ {NoNode}, when : Whens, max_loops : Nat \cup {NotGiven}]
    OBVIOUS
  <2>2. s \in Seq(F)
    BY <1>1, <2>1, Zenon DEF IsDrawing
  <2>3. \A i \in 1 .. len : s[i] \in F
    <3> HIDE <2>1
    <3> QED
      BY <1>2, <2>2
  <2>4. \A i \in 1 .. len : s[i].when \in Whens
    BY <2>1, <2>3
  <2> QED
    BY <1>1, <1>2, <1>4, <2>4 DEF Branches
<1>11. all = Ok \cup Low /\ Ok \cap Low = {}
  <2>1. \A i \in all : s[i].when = "ok" \/ s[i].when = "low"
    BY <1>10 DEF Whens
  <2>2. all = {i \in DOMAIN s : s[i].from = c}
    BY <1>1, <1>4 DEF Branches
  <2> QED
    BY <1>4, <2>1, <2>2 DEF Matching
<1>12. {i \in all : s[i].when # "low"} = Ok /\ {i \in all : s[i].when = "low"} = Low
  BY <1>4, <1>11 DEF Matching
<1>13. OkBranch(g, c) = IF Ok # {} THEN s[Max(Ok)].to ELSE IF all # {} THEN s[Min(all)].to ELSE NoNode
  BY <1>1, <1>4, <1>12 DEF OkBranch
<1>14. LowBranch(g, c) = IF Low # {} THEN s[Max(Low)].to
                         ELSE IF all # {} /\ all \ {Min(all)} # {} THEN s[Min(all \ {Min(all)})].to
                         ELSE NoNode
  BY <1>1, <1>4, <1>12 DEF LowBranch
<1>15. OkBranch(g, c) = IF Len(oks) > 0 THEN oks[Len(oks)] ELSE IF Len(lows) > 0 THEN lows[1] ELSE NoNode
  <2>1. Ok = {} => all = Low
    BY <1>11
  <2> QED
    BY <1>8, <1>9, <1>13, <2>1
<1>16. LowBranch(g, c) = IF Len(lows) > 0 THEN lows[Len(lows)] ELSE IF Len(oks) > 1 THEN oks[2] ELSE NoNode
  <2>1. Low = {} => all = Ok
    BY <1>11
  <2>2. Ok \ {Min(Ok)} # {} => Ok # {}
    OBVIOUS
  <2> QED
    BY <1>8, <1>9, <1>14, <2>1, <2>2
<1> QED
  BY <1>15, <1>16

SameLabels(g, h) ==
    /\ IsDrawing(g) /\ IsDrawing(h) /\ h.nodes = g.nodes
    /\ \A id : \A when \in Whens : Labelled(h.edges, id, when) = Labelled(g.edges, id, when)

LEMMA SameNames ==
    ASSUME NEW g, NEW h, SameLabels(g, h)
    PROVE  /\ Ids(h) = Ids(g) /\ \A id : TypeOf(h, id) = TypeOf(g, id)
           /\ \A type : OfType(h, type) = OfType(g, type)
           /\ Conditions(h) = Conditions(g)
<1>1. Ids(h) = Ids(g)
  BY DEF SameLabels, Ids
<1>2. \A id : NodeOf(h, id) = NodeOf(g, id)
  BY Zenon DEF SameLabels, NodeOf
<1>3. \A id : TypeOf(h, id) = TypeOf(g, id)
  BY <1>1, <1>2 DEF TypeOf
<1>4. \A type : OfType(h, type) = OfType(g, type)
  BY <1>1, <1>3 DEF OfType
<1> QED
  BY <1>1, <1>3, <1>4 DEF Conditions

\* An edge of one drawing is, but for its place and its rounds, an edge of the other.
LEMMA SameEdges ==
    ASSUME NEW g, NEW h, SameLabels(g, h)
    PROVE  /\ \A k \in DOMAIN g.edges : \E j \in DOMAIN h.edges :
                 /\ h.edges[j].from = g.edges[k].from /\ h.edges[j].to = g.edges[k].to
                 /\ h.edges[j].when = g.edges[k].when
           /\ \A k \in DOMAIN h.edges : \E j \in DOMAIN g.edges :
                 /\ g.edges[j].from = h.edges[k].from /\ g.edges[j].to = h.edges[k].to
                 /\ g.edges[j].when = h.edges[k].when
<1> DEFINE F == [from : STRING, to : STRING \ {NoNode}, when : Whens, max_loops : Nat \cup {NotGiven}]
<1>1. PICK E : E = F
  OBVIOUS
<1>2. \A e \in E : e.when \in Whens
  BY <1>1
<1>3. PICK s \in Seq(E), t \in Seq(E) : s = g.edges /\ t = h.edges
  <2>1. g.edges \in Seq(F) /\ h.edges \in Seq(F)
    BY Zenon DEF SameLabels, IsDrawing
  <2> HIDE DEF F
  <2> QED
    BY <1>1, <2>1
<1> HIDE <1>1 DEF F
<1>4. /\ \A k \in DOMAIN s : s[k].when \in Whens
      /\ \A k \in DOMAIN t : t[k].when \in Whens
  <2>1. (\A k \in DOMAIN s : s[k] \in E) /\ (\A k \in DOMAIN t : t[k] \in E)
    OBVIOUS
  <2> QED
    BY <1>2, <2>1
<1>5. ASSUME NEW id, NEW when \in Whens, NEW x
      PROVE  DrawsTo(s, id, when, x) <=> DrawsTo(t, id, when, x)
  <2>1. Labelled(s, id, when) = Labelled(t, id, when)
    BY <1>3 DEF SameLabels
  <2>2. DrawsTo(s, id, when, x) <=> x \in Elems(Labelled(s, id, when))
    BY InLabelled, Zenon
  <2>3. DrawsTo(t, id, when, x) <=> x \in Elems(Labelled(t, id, when))
    BY InLabelled, Zenon
  <2> QED
    BY <2>1, <2>2, <2>3
<1>6. \A k \in DOMAIN s :
        \E j \in DOMAIN t : t[j].from = s[k].from /\ t[j].to = s[k].to /\ t[j].when = s[k].when
  <2> TAKE k \in DOMAIN s
  <2>1. DrawsTo(s, s[k].from, s[k].when, s[k].to)
    BY Zenon DEF DrawsTo
  <2>2. DrawsTo(t, s[k].from, s[k].when, s[k].to)
    BY <1>4, <1>5, <2>1, Zenon
  <2> QED
    BY <2>2, Zenon DEF DrawsTo
<1>7. \A k \in DOMAIN t :
        \E j \in DOMAIN s : s[j].from = t[k].from /\ s[j].to = t[k].to /\ s[j].when = t[k].when
  <2> TAKE k \in DOMAIN t
  <2>1. DrawsTo(t, t[k].from, t[k].when, t[k].to)
    BY Zenon DEF DrawsTo
  <2>2. DrawsTo(s, t[k].from, t[k].when, t[k].to)
    BY <1>4, <1>5, <2>1, Zenon
  <2> QED
    BY <2>2, Zenon DEF DrawsTo
<1> QED
  BY <1>3, <1>6, <1>7

LEMMA SameEntry ==
    ASSUME NEW g, NEW h, SameLabels(g, h)
    PROVE  Entry(h) = Entry(g)
<1>1. h.nodes = g.nodes
  BY DEF SameLabels
<1>2. \A id : HasIncoming(h, id) = HasIncoming(g, id)
  <2>1. \A id : HasIncoming(h, id) <=> HasIncoming(g, id)
    BY SameEdges DEF HasIncoming
  <2> QED
    BY <2>1 DEF HasIncoming
<1>3. {i \in DOMAIN h.nodes : ~HasIncoming(h, h.nodes[i].id)} =
        {i \in DOMAIN g.nodes : ~HasIncoming(g, g.nodes[i].id)}
  BY <1>1, <1>2
<1> QED
  BY <1>1, <1>3, Zenon DEF Entry

LEMMA SameSuccessors ==
    ASSUME NEW g, NEW h, SameLabels(g, h), NEW n
    PROVE  Successors(h, n) = Successors(g, n)
<1> DEFINE On(d, x) == \E k \in DOMAIN d.edges :
                          /\ d.edges[k].from = n /\ d.edges[k].to = x /\ d.edges[k].when = "none"
                          /\ TypeOf(g, n) # "condition" /\ TypeOf(g, n) # "end" /\ TypeOf(g, x) # "end"
<1>1. \A x : On(g, x) <=> On(h, x)
  BY SameEdges
<1>2. \A x : x \in Successors(g, n) <=> On(g, x)
  BY DEF Successors, Wired, ToSet
<1>3. \A x : x \in Successors(h, n) <=> On(h, x)
  BY SameNames DEF Successors, Wired, ToSet
<1> HIDE DEF On
<1> QED
  BY <1>1, <1>2, <1>3

LEMMA QueueRunsDry ==
    ASSUME NEW g, IsDrawing(g)
    PROVE  Walk(g)[ChainSteps(g)].queue = <<>>
BY ChainOfDrawing

\* The walks go on alike, and one that has finished stays where it is.
LEMMA SameStep ==
    ASSUME NEW g, NEW h, SameLabels(g, h), NEW s
    PROVE  ChainStep(h, s) = ChainStep(g, s)
<1>1. \A id : Unlabelled(h, id) = Unlabelled(g, id)
  BY DEF SameLabels, Unlabelled, Whens
<1>2. \A id : TypeOf(h, id) = TypeOf(g, id)
  BY SameNames
<1> QED
  BY <1>1, <1>2 DEF ChainStep

LEMMA WalksMeet ==
    ASSUME NEW g, NEW h, SameLabels(g, h), ChainSteps(g) <= ChainSteps(h)
    PROVE  Walk(h)[ChainSteps(h)] = Walk(g)[ChainSteps(g)]
<1>1. PICK m, n \in Nat : m = ChainSteps(g) /\ n = ChainSteps(h) /\ m <= n
  BY SeqsOfDrawing DEF ChainSteps, SameLabels
<1>2. IsDrawing(g) /\ IsDrawing(h)
  BY DEF SameLabels
<1>3. PICK v, w : v = Walk(g) /\ w = Walk(h)
  OBVIOUS
<1>4. v[0] = w[0]
  <2>1. v[0] = Start(g) /\ w[0] = Start(h)
    BY <1>2, <1>3, WalkIsRecursive
  <2> QED
    BY <2>1, SameEntry DEF Start
<1> DEFINE Same == {k \in Nat : k <= m => w[k] = v[k]}
           Rest == {k \in Nat : m + k <= n => w[m + k] = v[m]}
<1>5. 0 \in Same
  BY <1>4
<1>6. ASSUME NEW k \in Nat, k \in Same
      PROVE  k + 1 \in Same
  <2>1. SUFFICES ASSUME k + 1 <= m PROVE w[k + 1] = v[k + 1]
    OBVIOUS
  <2>2. w[k] = v[k] /\ k + 1 \in 1 .. m /\ k + 1 \in 1 .. n /\ (k + 1) - 1 = k
    BY <1>1, <1>6, <2>1
  <2>3. v[k + 1] = ChainStep(g, v[k])
    BY <1>1, <1>2, <1>3, <2>2, WalkIsRecursive
  <2>4. w[k + 1] = ChainStep(h, w[k])
    BY <1>1, <1>2, <1>3, <2>2, WalkIsRecursive
  <2> QED
    BY <2>2, <2>3, <2>4, SameStep
<1>7. w[m] = v[m]
  <2> HIDE DEF Same
  <2>1. m \in Same
    BY <1>5, <1>6, SetInduction
  <2> QED
    BY <2>1 DEF Same
<1>8. v[m].queue = <<>>
  BY <1>1, <1>2, <1>3, QueueRunsDry
<1>9. 0 \in Rest
  BY <1>7
<1>10. ASSUME NEW k \in Nat, k \in Rest
       PROVE  k + 1 \in Rest
  <2>1. SUFFICES ASSUME m + (k + 1) <= n PROVE w[m + (k + 1)] = v[m]
    OBVIOUS
  <2>2. w[m + k] = v[m] /\ m + (k + 1) \in 1 .. n /\ (m + (k + 1)) - 1 = m + k
    BY <1>10, <2>1
  <2>3. w[m + (k + 1)] = ChainStep(h, w[m + k])
    BY <1>1, <1>2, <1>3, <2>2, WalkIsRecursive
  <2> QED
    BY <1>8, <2>2, <2>3 DEF ChainStep
<1>11. w[n] = v[m]
  <2> HIDE DEF Rest
  <2>1. n - m \in Nat /\ m + (n - m) = n
    BY <1>1
  <2>2. n - m \in Rest
    BY <1>9, <1>10, <2>1, SetInduction
  <2> QED
    BY <2>1, <2>2 DEF Rest
<1> QED
  BY <1>1, <1>3, <1>11

LEMMA SameChain ==
    ASSUME NEW g, NEW h, SameLabels(g, h)
    PROVE  AgentChain(h) = AgentChain(g)
<1>1. SameLabels(h, g)
  BY DEF SameLabels
<1>2. ChainSteps(g) \in Nat /\ ChainSteps(h) \in Nat
  BY SeqsOfDrawing DEF ChainSteps, SameLabels
<1>3. ChainSteps(g) <= ChainSteps(h) \/ ChainSteps(h) <= ChainSteps(g)
  BY <1>2
<1>4. Walk(h)[ChainSteps(h)] = Walk(g)[ChainSteps(g)]
  BY <1>1, <1>3, WalksMeet
<1> QED
  BY <1>4 DEF AgentChain

\* A condition that labels its branches takes the same ones.
LEMMA SameBranches ==
    ASSUME NEW g, NEW h, SameLabels(g, h), NEW c, \A i \in Branches(g, c) : g.edges[i].when # "none"
    PROVE  OkBranch(h, c) = OkBranch(g, c) /\ LowBranch(h, c) = LowBranch(g, c)
<1>1. \A i \in Branches(h, c) : h.edges[i].when # "none"
  <2> SUFFICES ASSUME NEW i \in Branches(h, c) PROVE h.edges[i].when # "none"
    OBVIOUS
  <2>1. i \in DOMAIN h.edges /\ h.edges[i].from = c
    BY DEF Branches
  <2>2. PICK j \in DOMAIN g.edges : g.edges[j].from = c /\ g.edges[j].when = h.edges[i].when
    BY <2>1, SameEdges
  <2> QED
    BY <2>2 DEF Branches
<1>2. IsDrawing(g) /\ IsDrawing(h)
  BY DEF SameLabels
<1>3. PICK oks, lows : /\ oks = Labelled(g.edges, c, "ok") /\ oks = Labelled(h.edges, c, "ok")
                       /\ lows = Labelled(g.edges, c, "low") /\ lows = Labelled(h.edges, c, "low")
  BY DEF SameLabels, Whens
<1> DEFINE Ok  == IF Len(oks) > 0 THEN oks[Len(oks)] ELSE IF Len(lows) > 0 THEN lows[1] ELSE NoNode
           Low == IF Len(lows) > 0 THEN lows[Len(lows)] ELSE IF Len(oks) > 1 THEN oks[2] ELSE NoNode
<1>4. OkBranch(g, c) = Ok /\ LowBranch(g, c) = Low
  BY <1>2, <1>3, BranchesByLabel
<1>5. OkBranch(h, c) = Ok /\ LowBranch(h, c) = Low
  BY <1>1, <1>2, <1>3, BranchesByLabel
<1> QED
  BY <1>4, <1>5

LEMMA SameNextAgent ==
    ASSUME NEW g, NEW h, SameLabels(g, h), NEW n
    PROVE  NextAgent(h, n) = NextAgent(g, n)
<1>1. AgentChain(h) = AgentChain(g)
  BY SameChain, Zenon
<1>2. PICK after : after = {i \in 2 .. Len(AgentChain(g)) : AgentChain(g)[i - 1] = n}
  OBVIOUS
<1> DEFINE Next1(d) == IF after = {} THEN NoNode ELSE AgentChain(d)[CHOOSE i \in after : TRUE]
<1>3. NextAgent(g, n) = Next1(g)
  BY <1>2 DEF NextAgent
<1>4. after = {i \in 2 .. Len(AgentChain(h)) : AgentChain(h)[i - 1] = n}
  BY <1>1, <1>2
<1>5. NextAgent(h, n) = Next1(h)
  BY <1>4 DEF NextAgent
<1> QED
  BY <1>1, <1>3, <1>5

LEMMA SavedRunsAlike ==
    ASSUME NEW g, Drawable(g)
    PROVE  RunAlike(g, SavedUnchanged(g))
<1>1. PICK h : h = SavedUnchanged(g)
  OBVIOUS
<1>2. /\ h.nodes = g.nodes /\ h.edges \in Seq(Redrawn(g)) /\ IsDrawing(h)
      /\ \A id : \A when \in Whens : Labelled(h.edges, id, when) = Labelled(g.edges, id, when)
      /\ OfType(g, "agent") \subseteq h.linked
  BY <1>1, SavedDrawing
<1>3. SameLabels(g, h) /\ IsDrawing(g) /\ Compiles(g)
  BY <1>2 DEF SameLabels, Drawable
<1>4. /\ Ids(h) = Ids(g) /\ \A id : TypeOf(h, id) = TypeOf(g, id)
      /\ \A type : OfType(h, type) = OfType(g, type)
      /\ Conditions(h) = Conditions(g) /\ Entry(h) = Entry(g)
  BY <1>3, SameNames, SameEntry
<1>5. \A c \in Conditions(g) : OkBranch(h, c) = OkBranch(g, c) /\ LowBranch(h, c) = LowBranch(g, c)
  BY <1>3, SameBranches DEF Drawable, CanBeDrawn, AllLabelled
<1>6. \A n : Successors(h, n) = Successors(g, n) /\ NextAgent(h, n) = NextAgent(g, n)
  BY <1>3, SameSuccessors, SameNextAgent
<1>7. \A k \in DOMAIN h.edges : h.edges[k].from \in Ids(g) /\ h.edges[k].to \in Ids(g)
  <2>1. \A k \in DOMAIN h.edges : h.edges[k] \in Redrawn(g)
    BY <1>2
  <2> QED
    BY <2>1 DEF Redrawn
<1>8. Compiles(h)
  <2>1. h.nodes # <<>> /\ Cardinality(Ids(h)) = Len(h.nodes) /\ TypeOf(h, Entry(h)) # "end"
    BY <1>2, <1>3, <1>4 DEF Compiles
  <2>2. OfType(h, "agent") \subseteq h.linked
    BY <1>2, <1>4
  <2>3. \A c \in Conditions(h) : /\ OkBranch(h, c) # NoNode /\ LowBranch(h, c) # NoNode
                                 /\ \A i \in Branches(h, c) : h.edges[i].to \in Ids(h)
    BY <1>3, <1>4, <1>5, <1>7 DEF Compiles, Branches
  <2>4. \A e \in Wired(h) : e.from \in Ids(h) /\ e.to \in Ids(h)
    BY <1>4, <1>7 DEF Wired, ToSet
  <2> QED
    BY <2>1, <2>2, <2>3, <2>4 DEF Compiles
<1>9. RunAlike(g, h)
  BY <1>4, <1>5, <1>6, <1>8 DEF RunAlike
<1> QED
  BY <1>1, <1>9

\* A drawing that the builder page can draw, opened there and saved unchanged, still runs the
\* way it did, however many boxes and edges it has: what a label of a node leads to is kept in
\* its order, and the runtime reads nothing else of the edges but the rounds.
THEOREM SavedDrawingsRunAlike == Spec => []EditorKeepsMeaning
<1>1. LoopInv => EditorKeepsMeaning
  <2>1. SUFFICES ASSUME LoopInv, Compiles(graph), CanBeDrawn(graph)
                 PROVE RunAlike(graph, SavedUnchanged(graph))
    BY DEF EditorKeepsMeaning
  <2>2. IsDrawing(graph)
    BY <2>1, GraphExecAssumption DEF LoopInv
  <2>3. Drawable(graph)
    BY <2>1, <2>2 DEF Drawable
  <2> QED
    BY <2>3, SavedRunsAlike
<1> QED
  BY <1>1, LoopInvInit, LoopInvNext, PTL DEF Spec
=============================================================================
