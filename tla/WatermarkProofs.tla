---------------------------- MODULE WatermarkProofs ----------------------------
(***************************************************************************)
(* Theorems about Watermark: first induction over the places of a text, as *)
(* a fact about sets of numbers, and what the recursive functions compute; *)
(* then the loop of attribute; then the codec and the bits of a text, and  *)
(* how many of its marks survive a change.                                 *)
(***************************************************************************)
EXTENDS Watermark, FiniteSetTheorems, SequenceTheorems, WellFoundedInduction, TLAPS

\* A set of numbers that is not empty has a least one.
LEMMA Least ==
  ASSUME NEW T \in SUBSET Nat, T # {}
  PROVE  \E n \in T : \A m \in T : n <= m
<1>1. IsWellFoundedOn(OpToRel(<, Nat), Nat)
  BY NatLessThanWellFounded
<1>2. PICK n \in T : \A m \in T : ~ (<<m, n>> \in OpToRel(<, Nat))
  BY <1>1, WFMin
<1>3. \A m \in T : ~ (m < n)
  BY <1>2 DEF OpToRel
<1> QED BY <1>3

\* A set that has 0 and with every number the next has all of them.
LEMMA Induction ==
  ASSUME NEW N \in Nat, NEW T, 0 \in T, \A n \in 1 .. N : n - 1 \in T => n \in T
  PROVE  \A n \in 0 .. N : n \in T
<1> SUFFICES ASSUME NEW k \in 0 .. N, k \notin T PROVE FALSE
  OBVIOUS
<1> DEFINE B == {n \in 0 .. N : n \notin T}
<1>1. B \in SUBSET Nat /\ B # {}
  OBVIOUS
<1>2. PICK n \in B : \A m \in B : n <= m
  BY <1>1, Least
<1>3. n \in 1 .. N /\ n - 1 \notin B
  BY <1>2
<1> QED BY <1>2, <1>3

\* f starts with base, and step n leads from each value to the next.
Computes(f, N, S, base, step) ==
  f \in [0 .. N -> S] /\ f[0] = base /\ \A n \in 1 .. N : f[n] = step[n][f[n - 1]]

\* What is computed step by step exists.
LEMMA Recursion ==
  ASSUME NEW N \in Nat, NEW S, NEW base \in S, NEW step \in [1 .. N -> [S -> S]]
  PROVE  \E f : Computes(f, N, S, base, step)
<1> DEFINE Upto(n, f) == f \in [0 .. n -> S] /\ f[0] = base /\ \A i \in 1 .. n : f[i] = step[i][f[i - 1]]
           T == {n \in 0 .. N : \E f : Upto(n, f)}
<1>1. 0 \in T
  <2>1. Upto(0, [i \in 0 .. 0 |-> base])
    OBVIOUS
  <2> HIDE DEF Upto
  <2> QED BY <2>1
<1>2. ASSUME NEW n \in 1 .. N, n - 1 \in T PROVE n \in T
  <2>1. PICK f : Upto(n - 1, f)
    BY <1>2
  <2> DEFINE g == [i \in 0 .. n |-> IF i = n THEN step[n][f[n - 1]] ELSE f[i]]
  <2>2. f[n - 1] \in S /\ step[n][f[n - 1]] \in S
    BY <2>1
  <2>3. g \in [0 .. n -> S]
    BY <2>1, <2>2
  <2>4. g[0] = base
    BY <2>1
  <2>5. ASSUME NEW i \in 1 .. n PROVE g[i] = step[i][g[i - 1]]
    <3>1. CASE i = n
      <4>1. n \in 0 .. n /\ n - 1 \in 0 .. n /\ n - 1 # n
        OBVIOUS
      <4>2. g[n] = step[n][f[n - 1]] /\ g[n - 1] = f[n - 1]
        BY <4>1
      <4> QED BY <3>1, <4>2
    <3>2. CASE i # n
      <4>1. i \in 1 .. (n - 1) /\ i \in 0 .. n /\ i - 1 \in 0 .. n /\ i - 1 # n
        BY <3>2
      <4>2. g[i] = f[i] /\ g[i - 1] = f[i - 1]
        BY <3>2, <4>1
      <4> QED BY <2>1, <4>1, <4>2
    <3> QED BY <3>1, <3>2
  <2>6. Upto(n, g)
    BY <2>3, <2>4, <2>5
  <2> HIDE DEF g
  <2> QED BY <2>6
<1>3. N \in T
  <2> HIDE DEF T
  <2>1. \A n \in 0 .. N : n \in T
    BY <1>1, <1>2, Induction
  <2> QED BY <2>1
<1>4. \E f : Upto(N, f)
  BY <1>3
<1> QED BY <1>4 DEF Computes

\* f holds what Pick has after each element.
Picks(f, S, q, K) ==
  /\ f \in [0 .. Len(q) -> Seq(S)]
  /\ f[0] = <<>>
  /\ \A n \in 1 .. Len(q) : f[n] = IF n \in K THEN Append(f[n - 1], q[n]) ELSE f[n - 1]
  /\ Pick(q, K) = f[Len(q)]

\* Pick satisfies its equation.
LEMMA PickFunction ==
  ASSUME NEW S, NEW q \in Seq(S), NEW K
  PROVE  \E f : Picks(f, S, q, K)
<1> DEFINE N == Len(q)
           V == Seq(S)
           base == <<>>
           Step(p, n) == IF n \in K THEN Append(p, q[n]) ELSE p
           Equation(f) == f = [n \in 0 .. N |-> IF n = 0 THEN base ELSE Step(f[n - 1], n)]
           picked == CHOOSE f : Equation(f)
<1>1. N \in Nat /\ base \in V /\ \A p \in V, n \in 1 .. N : Step(p, n) \in V
  <2>1. \A n \in 1 .. N : q[n] \in S
    OBVIOUS
  <2> QED BY <2>1
<1>2. Pick(q, K) = picked[N]
  BY DEF Pick
<1> HIDE DEF N, V, base, Step
<1>3. \E f : Equation(f)
  <2> DEFINE step == [n \in 1 .. N |-> [p \in V |-> Step(p, n)]]
  <2>1. step \in [1 .. N -> [V -> V]]
    BY <1>1
  <2>2. \A p \in V, n \in 1 .. N : step[n][p] = Step(p, n)
    OBVIOUS
  <2> HIDE DEF step
  <2>0. N \in Nat /\ base \in V
    BY <1>1
  <2>5. PICK f : Computes(f, N, V, base, step)
    BY <2>0, <2>1, Recursion
  <2>3. f \in [0 .. N -> V] /\ f[0] = base /\ \A n \in 1 .. N : f[n] = step[n][f[n - 1]]
    BY <2>5 DEF Computes
  <2>4. ASSUME NEW n \in 1 .. N PROVE f[n] = Step(f[n - 1], n)
    <3>1. n - 1 \in 0 .. N
      BY <2>0
    <3>2. f[n - 1] \in V
      BY <2>3, <3>1
    <3> QED BY <2>2, <2>3, <3>2
  <2>6. Equation(f)
    BY <1>1, <2>3, <2>4
  <2> QED BY <2>6
<1>4. Equation(picked)
  <2> HIDE DEF Equation
  <2> QED BY <1>3
<1> HIDE DEF picked
<1>5. picked[0] = base /\ \A n \in 1 .. N : picked[n] = Step(picked[n - 1], n)
  BY <1>1, <1>4
<1>6. \A n \in 0 .. N : picked[n] \in V
  <2> DEFINE T == {n \in 0 .. N : picked[n] \in V}
  <2>1. 0 \in T
    BY <1>1, <1>5
  <2>2. \A n \in 1 .. N : n - 1 \in T => n \in T
    BY <1>1, <1>5
  <2> HIDE DEF T
  <2>3. \A n \in 0 .. N : n \in T
    BY <1>1, <2>1, <2>2, Induction
  <2> QED BY <2>3 DEF T
<1>7. picked \in [0 .. N -> V]
  BY <1>4, <1>6
<1> QED BY <1>2, <1>5, <1>7 DEF N, V, base, Step, Picks

\* h lists the members of K up to n in increasing order, and p the elements of q there.
Lists(h, p, q, K, n) ==
  /\ h \in [1 .. Len(p) -> (1 .. n)]
  /\ \A i, j \in 1 .. Len(p) : i < j => h[i] < h[j]
  /\ \A i \in 1 .. Len(p) : h[i] \in K /\ p[i] = q[h[i]]
  /\ \A k \in 1 .. n : k \in K => \E i \in 1 .. Len(p) : h[i] = k

\* What Pick returns: the elements at the places K, each once and in order.
LEMMA PickFacts ==
  ASSUME NEW S, NEW q \in Seq(S), NEW K
  PROVE  /\ Pick(q, K) \in Seq(S)
         /\ \E h : Lists(h, Pick(q, K), q, K, Len(q))
<1>0. PICK f : Picks(f, S, q, K)
  BY PickFunction
<1>1. /\ f \in [0 .. Len(q) -> Seq(S)]
      /\ f[0] = <<>>
      /\ \A n \in 1 .. Len(q) : f[n] = IF n \in K THEN Append(f[n - 1], q[n]) ELSE f[n - 1]
      /\ Pick(q, K) = f[Len(q)]
  BY <1>0 DEF Picks
<1> DEFINE N == Len(q)
           T == {n \in 0 .. N : \E h : Lists(h, f[n], q, K, n)}
<1>2. N \in Nat /\ \A n \in 0 .. N : f[n] \in Seq(S) /\ Len(f[n]) \in Nat
  BY <1>1
<1>3. 0 \in T
  <2>1. Len(f[0]) = 0
    BY <1>1
  <2>2. Lists([i \in 1 .. 0 |-> i], f[0], q, K, 0)
    BY <2>1 DEF Lists
  <2> QED BY <1>2, <2>2
<1>4. ASSUME NEW n \in 1 .. N, n - 1 \in T PROVE n \in T
  <2>1. PICK h : Lists(h, f[n - 1], q, K, n - 1)
    BY <1>4
  <2>2. n - 1 \in 0 .. N /\ n \in 0 .. N /\ n - 1 \in Nat
    BY <1>2
  <2>3. CASE n \notin K
    <3>1. f[n] = f[n - 1]
      BY <1>1, <2>3
    <3> DEFINE p == f[n - 1]
               L == Len(p)
    <3>3. /\ h \in [1 .. L -> (1 .. (n - 1))]
          /\ \A i, j \in 1 .. L : i < j => h[i] < h[j]
          /\ \A i \in 1 .. L : h[i] \in K /\ p[i] = q[h[i]]
          /\ \A k \in 1 .. n - 1 : k \in K => \E i \in 1 .. L : h[i] = k
      BY <2>1 DEF Lists
    <3> HIDE DEF L, p
    <3>4. h \in [1 .. L -> 1 .. n]
      BY <2>2, <3>3
    <3>5. \A k \in 1 .. n : k \in K => \E i \in 1 .. L : h[i] = k
      BY <2>2, <2>3, <3>3
    <3>2. Lists(h, f[n], q, K, n)
      BY <3>1, <3>3, <3>4, <3>5 DEF Lists, L, p
    <3> QED BY <2>2, <3>2
  <2>4. CASE n \in K
    <3> DEFINE p == f[n - 1]
               L == Len(p)
               g == [i \in 1 .. L + 1 |-> IF i = L + 1 THEN n ELSE h[i]]
    <3>1. f[n] = Append(p, q[n]) /\ p \in Seq(S) /\ L \in Nat
      BY <1>1, <1>2, <2>2, <2>4
    <3>2. Len(f[n]) = L + 1 /\ f[n][L + 1] = q[n] /\ \A i \in 1 .. L : f[n][i] = p[i]
      BY <3>1
    <3>9. L \in Nat
      BY <3>1
    <3> HIDE DEF p
    <3>3. /\ h \in [1 .. L -> (1 .. (n - 1))]
          /\ \A i, j \in 1 .. L : i < j => h[i] < h[j]
          /\ \A i \in 1 .. L : h[i] \in K /\ p[i] = q[h[i]]
          /\ \A k \in 1 .. n - 1 : k \in K => \E i \in 1 .. L : h[i] = k
      BY <2>1 DEF Lists, p
    <3> HIDE DEF L
    <3>4. g \in [1 .. L + 1 -> 1 .. n] /\ g[L + 1] = n /\ \A i \in 1 .. L : g[i] = h[i] /\ h[i] < n
      BY <2>2, <3>1, <3>3
    <3> HIDE DEF g
    <3>5. ASSUME NEW i \in 1 .. L + 1, NEW j \in 1 .. L + 1, i < j PROVE g[i] < g[j]
      <4>1. i \in 1 .. L
        BY <3>9, <3>5
      <4>2. CASE j = L + 1
        BY <3>4, <4>1, <4>2
      <4>3. CASE j # L + 1
        <5>1. j \in 1 .. L
          BY <3>9, <4>3
        <5> QED BY <3>3, <3>4, <3>5, <4>1, <5>1
      <4> QED BY <4>2, <4>3
    <3>6. ASSUME NEW i \in 1 .. L + 1 PROVE g[i] \in K /\ f[n][i] = q[g[i]]
      <4>1. CASE i = L + 1
        BY <2>4, <3>2, <3>4, <4>1
      <4>2. CASE i # L + 1
        <5>1. i \in 1 .. L
          BY <3>9, <4>2
        <5> QED BY <3>2, <3>3, <3>4, <5>1
      <4> QED BY <4>1, <4>2
    <3>7. ASSUME NEW k \in 1 .. n, k \in K PROVE \E i \in 1 .. L + 1 : g[i] = k
      <4>1. CASE k = n
        BY <3>4, <3>9, <4>1
      <4>2. CASE k # n
        <5>1. k \in 1 .. n - 1
          BY <2>2, <4>2
        <5>2. PICK i \in 1 .. L : h[i] = k
          BY <3>3, <3>7, <5>1
        <5>3. i \in 1 .. L + 1
          BY <3>9
        <5> QED BY <3>4, <5>2, <5>3
      <4> QED BY <4>1, <4>2
    <3>8. Lists(g, f[n], q, K, n)
      BY <3>2, <3>4, <3>5, <3>6, <3>7 DEF Lists
    <3> QED BY <2>2, <3>8
  <2> QED BY <2>3, <2>4
<1>5. N \in T
  <2> HIDE DEF T
  <2>1. \A n \in 0 .. N : n \in T
    BY <1>2, <1>3, <1>4, Induction
  <2> QED BY <1>2, <2>1
<1> QED BY <1>1, <1>2, <1>5

\* What canonical_form has read: the form so far and the last code point it kept.
Readings == [form: Seq(CodePoints), previous: CodePoints]

\* f holds the reading after each code point.
Canonizes(f, text) ==
  /\ f \in [0 .. Len(text) -> Readings]
  /\ f[0] = [form |-> <<>>, previous |-> "o"]
  /\ \A n \in 1 .. Len(text) : f[n] = Keep(f[n - 1], text[n])
  /\ CanonicalForm(text) = f[Len(text)].form

\* CanonicalForm satisfies its equation.
LEMMA CanonicalFormFunction ==
  ASSUME NEW text \in Seq(CodePoints)
  PROVE  \E f : Canonizes(f, text)
<1> DEFINE N == Len(text)
           V == Readings
           base == [form |-> <<>>, previous |-> "o"]
           Step(p, n) == Keep(p, text[n])
           Equation(f) == f = [n \in 0 .. N |-> IF n = 0 THEN base ELSE Step(f[n - 1], n)]
           read == CHOOSE f : Equation(f)
<1>1. N \in Nat /\ base \in V /\ \A p \in V, n \in 1 .. N : Step(p, n) \in V
  <2>1. \A n \in 1 .. N : text[n] \in CodePoints
    OBVIOUS
  <2>2. N \in Nat /\ base \in V
    BY DEF CodePoints, Readings
  <2>3. \A p \in V, n \in 1 .. N : Step(p, n) \in V
    BY <2>1 DEF Keep, Readings
  <2> QED BY <2>2, <2>3
<1>2. CanonicalForm(text) = read[N].form
  BY DEF CanonicalForm
<1> HIDE DEF N, V, base, Step
<1>3. \E f : Equation(f)
  <2> DEFINE step == [n \in 1 .. N |-> [p \in V |-> Step(p, n)]]
  <2>1. N \in Nat /\ base \in V /\ step \in [1 .. N -> [V -> V]]
    BY <1>1
  <2>2. \A p \in V, n \in 1 .. N : step[n][p] = Step(p, n)
    OBVIOUS
  <2> HIDE DEF step
  <2>3. PICK f : Computes(f, N, V, base, step)
    BY <2>1, Recursion
  <2>4. f \in [0 .. N -> V] /\ f[0] = base /\ \A n \in 1 .. N : f[n] = step[n][f[n - 1]]
    BY <2>3 DEF Computes
  <2>5. ASSUME NEW n \in 1 .. N PROVE f[n] = Step(f[n - 1], n)
    <3>1. n - 1 \in 0 .. N
      BY <2>1
    <3>2. f[n - 1] \in V
      BY <2>4, <3>1
    <3> QED BY <2>2, <2>4, <3>2
  <2>6. Equation(f)
    BY <2>1, <2>4, <2>5
  <2> QED BY <2>6
<1>4. Equation(read)
  <2> HIDE DEF Equation
  <2> QED BY <1>3
<1> HIDE DEF read
<1>5. read[0] = base /\ \A n \in 1 .. N : read[n] = Step(read[n - 1], n)
  BY <1>1, <1>4
<1>6. \A n \in 0 .. N : read[n] \in V
  <2> DEFINE T == {n \in 0 .. N : read[n] \in V}
  <2>1. 0 \in T
    BY <1>1, <1>5
  <2>2. \A n \in 1 .. N : n - 1 \in T => n \in T
    BY <1>1, <1>5
  <2> HIDE DEF T
  <2>3. \A n \in 0 .. N : n \in T
    BY <1>1, <2>1, <2>2, Induction
  <2> QED BY <2>3 DEF T
<1>7. read \in [0 .. N -> V]
  BY <1>4, <1>6
<1> QED BY <1>2, <1>5, <1>7 DEF N, V, base, Step, Canonizes

\* A letter with nothing but marks and selectors behind it: a selector that came next would
\* belong to the channel.
Armed(text, n) ==
  \E j \in 1 .. n : text[j] \in Letters /\ \A k \in (j + 1) .. n : text[k] \in {"v", "z"}

\* The places of Bare.
Bared(text) == {i \in DOMAIN text : ~(text[i] = "z" \/ (text[i] = "v" /\ Armed(text, i - 1)))}

\* How one more code point changes whether a selector would belong to a letter.
LEMMA ArmedStep ==
  ASSUME NEW text, NEW n \in Nat \ {0}
  PROVE  Armed(text, n) <=> \/ text[n] \in Letters
                            \/ text[n] \in {"v", "z"} /\ Armed(text, n - 1)
<1>1. ASSUME text[n] \in Letters PROVE Armed(text, n)
  BY <1>1 DEF Armed
<1>2. ASSUME text[n] \in {"v", "z"}, Armed(text, n - 1) PROVE Armed(text, n)
  <2>1. PICK j \in 1 .. n - 1 : text[j] \in Letters /\ \A k \in (j + 1) .. (n - 1) : text[k] \in {"v", "z"}
    BY <1>2 DEF Armed
  <2>2. \A k \in (j + 1) .. n : k = n \/ k \in (j + 1) .. (n - 1)
    OBVIOUS
  <2>3. j \in 1 .. n /\ \A k \in (j + 1) .. n : text[k] \in {"v", "z"}
    BY <1>2, <2>1, <2>2
  <2> QED BY <2>1, <2>3 DEF Armed
<1>3. ASSUME Armed(text, n), text[n] \notin Letters PROVE text[n] \in {"v", "z"} /\ Armed(text, n - 1)
  <2>1. PICK j \in 1 .. n : text[j] \in Letters /\ \A k \in (j + 1) .. n : text[k] \in {"v", "z"}
    BY <1>3 DEF Armed
  <2>2. j \in 1 .. n - 1 /\ n \in (j + 1) .. n /\ \A k \in (j + 1) .. (n - 1) : k \in (j + 1) .. n
    BY <1>3, <2>1
  <2> QED BY <2>1, <2>2 DEF Armed
<1> QED BY <1>1, <1>2, <1>3

\* canonical_form drops exactly the mark characters and the variation selectors that belong
\* to a letter or digit, whatever stands between: for every text its result is Bare's.
THEOREM CanonicalFormIsBare ==
  ASSUME NEW text \in Seq(CodePoints)
  PROVE  CanonicalForm(text) = Bare(text)
<1> DEFINE N == Len(text)
           K == Bared(text)
<1>1. PICK f : Canonizes(f, text)
  BY CanonicalFormFunction
<1>2. PICK g : Picks(g, CodePoints, text, K)
  BY PickFunction
<1>3. Bare(text) = Pick(text, K)
  BY DEF Bare, Bared, Armed
<1>4. N \in Nat /\ DOMAIN text = 1 .. N /\ \A n \in 1 .. N : text[n] \in CodePoints
  OBVIOUS
<1>5. /\ f \in [0 .. N -> Readings]
      /\ f[0] = [form |-> <<>>, previous |-> "o"]
      /\ \A n \in 1 .. N : f[n] = Keep(f[n - 1], text[n])
      /\ CanonicalForm(text) = f[N].form
  BY <1>1 DEF Canonizes
<1>6. /\ g[0] = <<>>
      /\ \A n \in 1 .. N : g[n] = IF n \in K THEN Append(g[n - 1], text[n]) ELSE g[n - 1]
      /\ Pick(text, K) = g[N]
  BY <1>2 DEF Picks
<1> DEFINE Agree(n) == f[n].form = g[n] /\ (f[n].previous \in Letters <=> Armed(text, n))
           T == {n \in 0 .. N : Agree(n)}
<1>7. 0 \in T
  <2>1. ~Armed(text, 0)
    BY DEF Armed
  <2> QED BY <1>4, <1>5, <1>6, <2>1 DEF Letters
<1>8. ASSUME NEW n \in 1 .. N, n - 1 \in T PROVE n \in T
  <2> DEFINE c == text[n]
             p == f[n - 1]
  <2>1. n \in Nat \ {0} /\ n \in 0 .. N /\ n - 1 \in 0 .. N
    BY <1>4
  <2>2. p.form = g[n - 1] /\ (p.previous \in Letters <=> Armed(text, n - 1))
    BY <1>8
  <2>3. f[n] = Keep(p, c) /\ g[n] = IF n \in K THEN Append(g[n - 1], c) ELSE g[n - 1]
    BY <1>5, <1>6
  <2>4. Armed(text, n) <=> c \in Letters \/ (c \in {"v", "z"} /\ Armed(text, n - 1))
    BY <2>1, ArmedStep
  <2>5. n \in K <=> ~IsMarkChannel(c, p.previous)
    BY <1>4, <2>2 DEF Bared, IsMarkChannel
  <2> HIDE DEF K, c, p
  <2>6. CASE IsMarkChannel(c, p.previous)
    <3>1. f[n] = p
      BY <2>3, <2>6 DEF Keep
    <3>2. p.previous \in Letters <=> Armed(text, n)
      BY <2>2, <2>4, <2>6 DEF IsMarkChannel, Letters
    <3>3. Agree(n)
      BY <2>2, <2>3, <2>5, <2>6, <3>1, <3>2
    <3> QED BY <2>1, <3>3
  <2>7. CASE ~IsMarkChannel(c, p.previous)
    <3>1. f[n] = [form |-> Append(p.form, c), previous |-> c]
      BY <2>3, <2>7 DEF Keep
    <3>2. c \in Letters <=> Armed(text, n)
      BY <2>2, <2>4, <2>7 DEF IsMarkChannel
    <3>3. f[n].form = Append(p.form, c) /\ f[n].previous = c
      BY <3>1
    <3>4. g[n] = Append(p.form, c)
      BY <2>2, <2>3, <2>5, <2>7
    <3>5. Agree(n)
      BY <3>2, <3>3, <3>4
    <3> QED BY <2>1, <3>5
  <2> QED BY <2>6, <2>7
<1>9. N \in T
  <2> HIDE DEF T
  <2>1. \A n \in 0 .. N : n \in T
    BY <1>4, <1>7, <1>8, Induction
  <2> QED BY <1>4, <2>1
<1> QED BY <1>3, <1>5, <1>6, <1>9

\* f holds what read_bits has after each bit.
Reads(f, bits) ==
  /\ f \in [0 .. Len(bits) -> Nat]
  /\ f[0] = 0
  /\ \A n \in 1 .. Len(bits) : f[n] = 2 * f[n - 1] + bits[n]
  /\ ReadBits(bits) = f[Len(bits)]

\* ReadBits satisfies its equation.
LEMMA ReadBitsFunction ==
  ASSUME NEW bits \in Seq(Nat)
  PROVE  \E f : Reads(f, bits)
<1> DEFINE N == Len(bits)
           V == Nat
           base == 0
           Step(p, n) == 2 * p + bits[n]
           Equation(f) == f = [n \in 0 .. N |-> IF n = 0 THEN base ELSE Step(f[n - 1], n)]
           value == CHOOSE f : Equation(f)
<1>1. N \in Nat /\ base \in V /\ \A p \in V, n \in 1 .. N : Step(p, n) \in V
  <2>1. N \in Nat /\ \A n \in 1 .. N : bits[n] \in Nat
    OBVIOUS
  <2> QED BY <2>1
<1>2. ReadBits(bits) = value[N]
  BY DEF ReadBits
<1> HIDE DEF N, V, base, Step
<1>3. \E f : Equation(f)
  <2> DEFINE step == [n \in 1 .. N |-> [p \in V |-> Step(p, n)]]
  <2>1. N \in Nat /\ base \in V /\ step \in [1 .. N -> [V -> V]]
    BY <1>1
  <2>2. \A p \in V, n \in 1 .. N : step[n][p] = Step(p, n)
    OBVIOUS
  <2> HIDE DEF step
  <2>3. PICK f : Computes(f, N, V, base, step)
    BY <2>1, Recursion
  <2>4. f \in [0 .. N -> V] /\ f[0] = base /\ \A n \in 1 .. N : f[n] = step[n][f[n - 1]]
    BY <2>3 DEF Computes
  <2>5. ASSUME NEW n \in 1 .. N PROVE f[n] = Step(f[n - 1], n)
    <3>1. n - 1 \in 0 .. N
      BY <2>1
    <3>2. f[n - 1] \in V
      BY <2>4, <3>1
    <3> QED BY <2>2, <2>4, <3>2
  <2>6. Equation(f)
    BY <2>1, <2>4, <2>5
  <2> QED BY <2>6
<1>4. Equation(value)
  <2> HIDE DEF Equation
  <2> QED BY <1>3
<1> HIDE DEF value
<1>5. value[0] = base /\ \A n \in 1 .. N : value[n] = Step(value[n - 1], n)
  BY <1>1, <1>4
<1>6. \A n \in 0 .. N : value[n] \in V
  <2> DEFINE T == {n \in 0 .. N : value[n] \in V}
  <2>1. 0 \in T
    BY <1>1, <1>5
  <2>2. \A n \in 1 .. N : n - 1 \in T => n \in T
    BY <1>1, <1>5
  <2> HIDE DEF T
  <2>3. \A n \in 0 .. N : n \in T
    BY <1>1, <2>1, <2>2, Induction
  <2> QED BY <2>3 DEF T
<1>7. value \in [0 .. N -> V]
  BY <1>4, <1>6
<1> QED BY <1>2, <1>5, <1>7 DEF N, V, base, Step, Reads

\* The widths of the fields.
LEMMA BitCountFacts ==
  /\ VersionBits \in Nat /\ IdBits \in Nat /\ CodeBits \in Nat
  /\ VersionBits >= 2
  /\ BitCount \in Nat /\ BitCount = VersionBits + IdBits + CodeBits
BY WidthsAssumption DEF BitCount

\* decode_mark returns a mark.
LEMMA DecodeMarkType ==
  ASSUME NEW w \in Bits(BitCount)
  PROVE  DecodeMark(w) \in Marks
<1>1. ASSUME NEW m \in 1 .. BitCount + 1, NEW n \in (m - 1) .. BitCount
      PROVE  ReadBits(SubSeq(w, m, n)) \in Nat
  <2>1. w \in Seq({0, 1}) /\ Len(w) = BitCount
    BY BitCountFacts DEF Bits
  <2>2. SubSeq(w, m, n) \in Seq({0, 1})
    BY <2>1, BitCountFacts, SubSeqProperties
  <2>3. SubSeq(w, m, n) \in Seq(Nat)
    BY <2>2
  <2>4. PICK f : Reads(f, SubSeq(w, m, n))
    BY <2>3, ReadBitsFunction
  <2>5. Len(SubSeq(w, m, n)) \in Nat
    BY <2>3
  <2> QED BY <2>4, <2>5 DEF Reads
<1>2. ReadBits(SubSeq(w, 1, VersionBits)) \in Nat
  BY <1>1, BitCountFacts
<1>3. ReadBits(SubSeq(w, VersionBits + 1, VersionBits + IdBits)) \in Nat
  BY <1>1, BitCountFacts
<1>4. ReadBits(SubSeq(w, VersionBits + IdBits + 1, BitCount)) \in Nat
  BY <1>1, BitCountFacts
<1> QED BY <1>2, <1>3, <1>4 DEF DecodeMark, Marks

\* The positions Significant returns: those of the significant code points, in order.
LEMMA SignificantFacts ==
  ASSUME NEW text \in Seq(CodePoints)
  PROVE  LET s == Significant(text)
         IN /\ s \in Seq(1 .. Len(text))
            /\ \A i, j \in 1 .. Len(s) : i < j => s[i] < s[j]
            /\ \A i \in 1 .. Len(s) : text[s[i]] # "z"
            /\ \A k \in 1 .. Len(text) : text[k] # "z" => \E i \in 1 .. Len(s) : s[i] = k
<1> DEFINE N == Len(text)
           q == [i \in 1 .. N |-> i]
           K == {i \in DOMAIN text : text[i] # "z"}
           s == Pick(q, K)
<1>1. N \in Nat /\ DOMAIN text = 1 .. N
  OBVIOUS
<1>2. q \in Seq(1 .. N) /\ Len(q) = N /\ \A i \in 1 .. N : q[i] = i
  BY <1>1
<1>3. \A i : i \in K <=> i \in 1 .. N /\ text[i] # "z"
  BY <1>1
<1>4. Significant(text) = s
  BY DEF Significant
<1> HIDE DEF q, K, N
<1>5. s \in Seq(1 .. N) /\ \E h : Lists(h, s, q, K, N)
  BY <1>2, PickFacts
<1> HIDE DEF s
<1>6. PICK h : Lists(h, s, q, K, N)
  BY <1>5
<1>7. \A i \in 1 .. Len(s) : h[i] \in 1 .. N /\ h[i] \in K /\ s[i] = h[i]
  BY <1>2, <1>6 DEF Lists
<1>8. \A i, j \in 1 .. Len(s) : i < j => s[i] < s[j]
  BY <1>6, <1>7 DEF Lists
<1>9. \A k \in 1 .. N : text[k] # "z" => \E i \in 1 .. Len(s) : s[i] = k
  BY <1>3, <1>6, <1>7 DEF Lists
<1> QED BY <1>3, <1>4, <1>5, <1>7, <1>8, <1>9 DEF N

\* A window has the bits of a mark.
LEMMA WindowsType ==
  ASSUME NEW text \in Seq(CodePoints)
  PROVE  Windows(text) \in Seq(Bits(BitCount))
<1> DEFINE s == Significant(text)
           bits == [k \in 1 .. Len(s) |-> IF s[k] < Len(text) /\ text[s[k] + 1] = "z" THEN 1 ELSE 0]
           count == IF Len(s) < BitCount THEN 0 ELSE Len(s) - BitCount + 1
           windows == [k \in 1 .. count |-> SubSeq(bits, k, k + BitCount - 1)]
<1>1. Windows(text) = windows
  BY DEF Windows
<1>2. Len(s) \in Nat
  BY SignificantFacts
<1>3. bits \in [1 .. Len(s) -> {0, 1}]
  OBVIOUS
<1>4. count \in Nat /\ \A k \in 1 .. count : k \in Nat \ {0} /\ k + BitCount - 1 <= Len(s)
  BY <1>2, BitCountFacts
<1> HIDE DEF bits, count, s
<1>5. ASSUME NEW k \in 1 .. count PROVE SubSeq(bits, k, k + BitCount - 1) \in Bits(BitCount)
  <2>1. SubSeq(bits, k, k + BitCount - 1) = [i \in 1 .. BitCount |-> bits[k + i - 1]]
    <3>1. bits \in Seq({0, 1}) /\ Len(bits) = Len(s)
      BY <1>2, <1>3
    <3>2. k \in 1 .. Len(bits) + 1 /\ k + BitCount - 1 \in k - 1 .. Len(bits)
      BY <1>2, <1>4, <3>1, BitCountFacts
    <3>3. Len(SubSeq(bits, k, k + BitCount - 1)) = BitCount
      BY <1>4, <3>1, <3>2, BitCountFacts, SubSeqProperties
    <3>4. SubSeq(bits, k, k + BitCount - 1) \in Seq({0, 1})
      BY <3>1, <3>2, SubSeqProperties
    <3>5. \A i \in 1 .. BitCount : SubSeq(bits, k, k + BitCount - 1)[i] = bits[k + i - 1]
      BY <1>4, <3>1, <3>2, BitCountFacts, SubSeqProperties
    <3> QED BY <3>3, <3>4, <3>5
  <2>2. \A i \in 1 .. BitCount : k + i - 1 \in 1 .. Len(s)
    BY <1>2, <1>4, BitCountFacts
  <2> QED BY <1>3, <2>1, <2>2 DEF Bits
<1>6. windows \in Seq(Bits(BitCount))
  BY <1>4, <1>5
<1> QED BY <1>1, <1>6

\* The entries of the table of candidates.
Candidates == [mark: Marks, count: Nat]

\* What count_occurrence does to a table: a known mark is counted, a new one is entered if
\* there is room, and nothing else changes.
LEMMA CountOccurrenceFacts ==
  ASSUME NEW t \in Seq(Candidates), NEW m \in Marks
  PROVE  LET u == CountOccurrence(t, m)
             known == \E i \in 1 .. Len(t) : t[i].mark = m
         IN /\ u \in Seq(Candidates)
            /\ Len(u) = IF known \/ Len(t) >= MaxCandidates THEN Len(t) ELSE Len(t) + 1
            /\ \A i \in 1 .. Len(t) :
                 /\ u[i].mark = t[i].mark
                 /\ u[i].count = IF t[i].mark = m THEN t[i].count + 1 ELSE t[i].count
            /\ ~known /\ Len(t) < MaxCandidates =>
                 u[Len(t) + 1].mark = m /\ u[Len(t) + 1].count = 1
<1> DEFINE u == CountOccurrence(t, m)
           known == \E i \in 1 .. Len(t) : t[i].mark = m
<1>1. Len(t) \in Nat /\ DOMAIN t = 1 .. Len(t) /\ MaxCandidates \in Nat
  BY LimitsAssumption
<1>2. \A i \in 1 .. Len(t) : t[i] \in Candidates /\ t[i].mark \in Marks /\ t[i].count \in Nat
  <2>1. \A i \in 1 .. Len(t) : t[i] \in Candidates
    OBVIOUS
  <2> QED BY <2>1 DEF Candidates
<1>3. CASE known
  <2>1. u = [i \in 1 .. Len(t) |-> IF t[i].mark = m THEN [t[i] EXCEPT !.count = @ + 1] ELSE t[i]]
    BY <1>1, <1>3 DEF CountOccurrence
  <2>2. \A i \in 1 .. Len(t) : [t[i] EXCEPT !.count = @ + 1] = [mark |-> t[i].mark, count |-> t[i].count + 1]
    BY <1>2 DEF Candidates
  <2>3. \A i \in 1 .. Len(t) :
          /\ u[i].mark = t[i].mark
          /\ u[i].count = IF t[i].mark = m THEN t[i].count + 1 ELSE t[i].count
          /\ u[i] \in Candidates
    BY <1>2, <2>1, <2>2 DEF Candidates
  <2>4. u \in Seq(Candidates) /\ Len(u) = Len(t)
    <3> HIDE DEF u, Candidates
    <3> QED BY <1>1, <2>1, <2>3
  <2> HIDE DEF u, known
  <2> QED BY <1>3, <2>3, <2>4 DEF u, known
<1>4. CASE ~known /\ Len(t) < MaxCandidates
  <2>1. u = Append(t, [mark |-> m, count |-> 1])
    BY <1>1, <1>4 DEF CountOccurrence
  <2>2. [mark |-> m, count |-> 1] \in Candidates
    BY DEF Candidates
  <2>3. u \in Seq(Candidates) /\ Len(u) = Len(t) + 1
        /\ u[Len(t) + 1] = [mark |-> m, count |-> 1] /\ \A i \in 1 .. Len(t) : u[i] = t[i]
    <3> HIDE DEF Candidates
    <3> QED BY <2>1, <2>2
  <2>4. \A i \in 1 .. Len(t) : t[i].mark # m
    BY <1>4
  <2>5. \A i \in 1 .. Len(t) :
          u[i].mark = t[i].mark /\ u[i].count = IF t[i].mark = m THEN t[i].count + 1 ELSE t[i].count
    BY <2>3, <2>4
  <2>6. u[Len(t) + 1].mark = m /\ u[Len(t) + 1].count = 1
    BY <2>3
  <2> QED BY <1>1, <1>4, <2>3, <2>5, <2>6
<1>5. CASE ~known /\ ~(Len(t) < MaxCandidates)
  <2>1. u = t
    BY <1>1, <1>5 DEF CountOccurrence
  <2>2. \A i \in 1 .. Len(t) : t[i].mark # m
    BY <1>5
  <2>3. \A i \in 1 .. Len(t) :
          u[i].mark = t[i].mark /\ u[i].count = IF t[i].mark = m THEN t[i].count + 1 ELSE t[i].count
    BY <2>1, <2>2
  <2>4. u \in Seq(Candidates) /\ Len(u) = Len(t)
    BY <2>1
  <2> HIDE DEF u, known
  <2>5. Len(u) = IF known \/ Len(t) >= MaxCandidates THEN Len(t) ELSE Len(t) + 1
    <3>1. Len(t) >= MaxCandidates
      BY <1>1, <1>5
    <3> QED BY <2>4, <3>1
  <2> QED BY <1>5, <2>3, <2>4, <2>5 DEF u, known
<1> QED BY <1>3, <1>4, <1>5

\* f holds the table after each window.
Tables(f, windows) ==
  /\ f \in [0 .. Len(windows) -> Seq(Candidates)]
  /\ f[0] = <<>>
  /\ \A n \in 1 .. Len(windows) : f[n] = IF IsLegacyMark(windows[n]) \/ DecodeMark(windows[n]).version # Version THEN f[n - 1]
        ELSE CountOccurrence(f[n - 1], DecodeMark(windows[n]))
  /\ Table(windows) = f[Len(windows)]

\* Table satisfies its equation.
LEMMA TableFunction ==
  ASSUME NEW windows \in Seq(Bits(BitCount))
  PROVE  \E f : Tables(f, windows)
<1> DEFINE N == Len(windows)
           V == Seq(Candidates)
           base == <<>>
           Step(p, n) == IF IsLegacyMark(windows[n]) \/ DecodeMark(windows[n]).version # Version THEN p
        ELSE CountOccurrence(p, DecodeMark(windows[n]))
           Equation(f) == f = [n \in 0 .. N |-> IF n = 0 THEN base ELSE Step(f[n - 1], n)]
           table == CHOOSE f : Equation(f)
<1>1. N \in Nat /\ base \in V /\ \A p \in V, n \in 1 .. N : Step(p, n) \in V
  <2>1. N \in Nat /\ base \in V /\ \A n \in 1 .. N : windows[n] \in Bits(BitCount)
    OBVIOUS
  <2>2. ASSUME NEW p \in V, NEW n \in 1 .. N PROVE Step(p, n) \in V
    <3>1. DecodeMark(windows[n]) \in Marks
      BY <2>1, DecodeMarkType
    <3>2. CountOccurrence(p, DecodeMark(windows[n])) \in Seq(Candidates)
      BY <3>1, CountOccurrenceFacts
    <3> HIDE DEF Candidates
    <3> QED BY <3>2
  <2> QED BY <2>1, <2>2
<1>2. Table(windows) = table[N]
  BY DEF Table
<1> HIDE DEF N, V, base, Step
<1>3. \E f : Equation(f)
  <2> DEFINE step == [n \in 1 .. N |-> [p \in V |-> Step(p, n)]]
  <2>1. N \in Nat /\ base \in V /\ step \in [1 .. N -> [V -> V]]
    BY <1>1
  <2>2. \A p \in V, n \in 1 .. N : step[n][p] = Step(p, n)
    OBVIOUS
  <2> HIDE DEF step
  <2>3. PICK f : Computes(f, N, V, base, step)
    BY <2>1, Recursion
  <2>4. f \in [0 .. N -> V] /\ f[0] = base /\ \A n \in 1 .. N : f[n] = step[n][f[n - 1]]
    BY <2>3 DEF Computes
  <2>5. ASSUME NEW n \in 1 .. N PROVE f[n] = Step(f[n - 1], n)
    <3>1. n - 1 \in 0 .. N
      BY <2>1
    <3>2. f[n - 1] \in V
      BY <2>4, <3>1
    <3> QED BY <2>2, <2>4, <3>2
  <2>6. Equation(f)
    BY <2>1, <2>4, <2>5
  <2> QED BY <2>6
<1>4. Equation(table)
  <2> HIDE DEF Equation
  <2> QED BY <1>3
<1> HIDE DEF table
<1>5. table[0] = base /\ \A n \in 1 .. N : table[n] = Step(table[n - 1], n)
  BY <1>1, <1>4
<1>6. \A n \in 0 .. N : table[n] \in V
  <2> DEFINE T == {n \in 0 .. N : table[n] \in V}
  <2>1. 0 \in T
    BY <1>1, <1>5
  <2>2. \A n \in 1 .. N : n - 1 \in T => n \in T
    BY <1>1, <1>5
  <2> HIDE DEF T
  <2>3. \A n \in 0 .. N : n \in T
    BY <1>1, <2>1, <2>2, Induction
  <2> QED BY <2>3 DEF T
<1>7. table \in [0 .. N -> V]
  BY <1>4, <1>6
<1> QED BY <1>2, <1>5, <1>7 DEF N, V, base, Step, Tables

\* The windows up to n that read_marks counts for the mark m.
Occurrences(ws, n, m) == {k \in 1 .. n : ~IsLegacyMark(ws[k]) /\ DecodeMark(ws[k]) = m}

\* The table after n windows: each mark once, with all its occurrences; a mark that
\* occurred is missing only from a full table.
TableRight(t, ws, n) ==
  /\ Len(t) <= MaxCandidates
  /\ \A i, j \in 1 .. Len(t) : t[i].mark = t[j].mark => i = j
  /\ \A i \in 1 .. Len(t) :
       /\ t[i].mark.version = Version
       /\ Occurrences(ws, n, t[i].mark) # {}
       /\ t[i].count = Cardinality(Occurrences(ws, n, t[i].mark))
  /\ \A m \in Marks : m.version = Version /\ Occurrences(ws, n, m) # {} =>
       Len(t) = MaxCandidates \/ \E i \in 1 .. Len(t) : t[i].mark = m

\* How one more window changes the number of windows that read as a mark.
LEMMA OccurrencesStep ==
  ASSUME NEW ws, NEW n \in Nat \ {0}, NEW m
  PROVE  /\ IsFiniteSet(Occurrences(ws, n - 1, m))
         /\ IF ~IsLegacyMark(ws[n]) /\ DecodeMark(ws[n]) = m
              THEN /\ Occurrences(ws, n, m) # {}
                   /\ Cardinality(Occurrences(ws, n, m)) = Cardinality(Occurrences(ws, n - 1, m)) + 1
              ELSE Occurrences(ws, n, m) = Occurrences(ws, n - 1, m)
<1>1. 1 .. n = 1 .. (n - 1) \cup {n} /\ n \notin 1 .. (n - 1)
  OBVIOUS
<1>2. IsFiniteSet(1 .. (n - 1))
  BY FS_Interval
<1>3. Occurrences(ws, n - 1, m) \subseteq 1 .. (n - 1)
  BY DEF Occurrences
<1>4. IsFiniteSet(Occurrences(ws, n - 1, m))
  BY <1>2, <1>3, FS_Subset
<1>5. CASE ~IsLegacyMark(ws[n]) /\ DecodeMark(ws[n]) = m
  <2>1. Occurrences(ws, n, m) = Occurrences(ws, n - 1, m) \cup {n}
    BY <1>1, <1>5 DEF Occurrences
  <2>2. n \notin Occurrences(ws, n - 1, m)
    BY <1>1, <1>3
  <2>3. Cardinality(Occurrences(ws, n, m)) = Cardinality(Occurrences(ws, n - 1, m)) + 1
    BY <1>4, <2>1, <2>2, FS_AddElement
  <2> QED BY <1>4, <1>5, <2>1, <2>3
<1>6. CASE ~(~IsLegacyMark(ws[n]) /\ DecodeMark(ws[n]) = m)
  <2>1. Occurrences(ws, n, m) = Occurrences(ws, n - 1, m)
    BY <1>1, <1>6 DEF Occurrences
  <2> QED BY <1>4, <1>6, <2>1
<1> QED BY <1>5, <1>6

\* The table is right after one more window.
LEMMA TableStep ==
  ASSUME NEW ws, NEW n \in Nat \ {0}, NEW t \in Seq(Candidates), TableRight(t, ws, n - 1),
         ~IsLegacyMark(ws[n]), DecodeMark(ws[n]) \in Marks, DecodeMark(ws[n]).version = Version
  PROVE  TableRight(CountOccurrence(t, DecodeMark(ws[n])), ws, n)
<1> DEFINE d == DecodeMark(ws[n])
           u == CountOccurrence(t, d)
           O(m) == Occurrences(ws, n - 1, m)
           P(m) == Occurrences(ws, n, m)
           L == Len(t)
           known == \E i \in 1 .. L : t[i].mark = d
<1>1. L \in Nat /\ MaxCandidates \in Nat
  BY LimitsAssumption
<1>2. /\ Len(u) = IF known \/ L >= MaxCandidates THEN L ELSE L + 1
      /\ \A i \in 1 .. L :
           /\ u[i].mark = t[i].mark
           /\ u[i].count = IF t[i].mark = d THEN t[i].count + 1 ELSE t[i].count
      /\ ~known /\ L < MaxCandidates => u[L + 1].mark = d /\ u[L + 1].count = 1
  BY CountOccurrenceFacts
<1>3. ASSUME NEW m
      PROVE  IF d = m THEN P(m) # {} /\ Cardinality(P(m)) = Cardinality(O(m)) + 1 ELSE P(m) = O(m)
  BY OccurrencesStep
<1>4. /\ L <= MaxCandidates
      /\ \A i, j \in 1 .. L : t[i].mark = t[j].mark => i = j
      /\ \A i \in 1 .. L : t[i].mark.version = Version /\ O(t[i].mark) # {} /\ t[i].count = Cardinality(O(t[i].mark))
      /\ \A m \in Marks : m.version = Version /\ O(m) # {} =>
           L = MaxCandidates \/ \E i \in 1 .. L : t[i].mark = m
  BY DEF TableRight
<1>5. d \in Marks /\ d.version = Version
  OBVIOUS
<1> HIDE DEF d, u, O, P, L
<1>6. \A i \in 1 .. L : u[i].mark.version = Version /\ P(u[i].mark) # {} /\ u[i].count = Cardinality(P(u[i].mark))
  BY <1>2, <1>3, <1>4
<1>7. SUFFICES
        /\ Len(u) <= MaxCandidates
        /\ \A i, j \in 1 .. Len(u) : u[i].mark = u[j].mark => i = j
        /\ \A i \in 1 .. Len(u) : u[i].mark.version = Version /\ P(u[i].mark) # {} /\ u[i].count = Cardinality(P(u[i].mark))
        /\ \A m \in Marks : m.version = Version /\ P(m) # {} =>
             Len(u) = MaxCandidates \/ \E i \in 1 .. Len(u) : u[i].mark = m
  BY DEF TableRight, u, d, P
<1>8. CASE known
  <2>1. Len(u) = L
    BY <1>2, <1>8
  <2>2. \A m : m # d => P(m) = O(m)
    BY <1>3
  <2>3. ASSUME NEW m \in Marks, m.version = Version, P(m) # {}
        PROVE  L = MaxCandidates \/ \E i \in 1 .. L : u[i].mark = m
    BY <1>2, <1>4, <1>8, <2>2, <2>3
  <2>4. \A i, j \in 1 .. L : u[i].mark = u[j].mark => i = j
    BY <1>2, <1>4
  <2> QED BY <1>4, <1>6, <2>1, <2>3, <2>4
<1>9. CASE ~known /\ L < MaxCandidates
  <2>1. Len(u) = L + 1 /\ u[L + 1].mark = d /\ u[L + 1].count = 1
    BY <1>1, <1>2, <1>9
  <2>2. O(d) = {}
    BY <1>1, <1>4, <1>5, <1>9
  <2>3. P(d) # {} /\ Cardinality(P(d)) = 1
    <3>1. Cardinality(O(d)) = 0
      BY <2>2, FS_EmptySet
    <3> QED BY <1>3, <3>1
  <2>4. \A i \in 1 .. L : u[i].mark # d
    BY <1>2, <1>9
  <2>5. \A i \in 1 .. L + 1 : i = L + 1 \/ i \in 1 .. L
    BY <1>1
  <2>6. \A i, j \in 1 .. L + 1 : u[i].mark = u[j].mark => i = j
    BY <1>2, <1>4, <2>1, <2>4, <2>5
  <2>7. \A i \in 1 .. L + 1 : u[i].mark.version = Version /\ P(u[i].mark) # {} /\ u[i].count = Cardinality(P(u[i].mark))
    BY <1>5, <1>6, <2>1, <2>3, <2>5
  <2>8. ASSUME NEW m \in Marks, m.version = Version, P(m) # {}
        PROVE  \E i \in 1 .. L + 1 : u[i].mark = m
    <3>1. CASE m = d
      BY <1>1, <2>1, <3>1
    <3>2. CASE m # d
      <4>1. O(m) # {} /\ L # MaxCandidates
        BY <1>1, <1>3, <1>9, <2>8, <3>2
      <4>2. PICK i \in 1 .. L : t[i].mark = m
        BY <1>4, <2>8, <4>1
      <4>3. i \in 1 .. L + 1
        BY <1>1
      <4> QED BY <1>2, <4>2, <4>3
    <3> QED BY <3>1, <3>2
  <2> QED BY <1>1, <1>9, <2>1, <2>6, <2>7, <2>8
<1>10. CASE ~known /\ ~(L < MaxCandidates)
  <2>1. L = MaxCandidates
    BY <1>1, <1>4, <1>10
  <2>2. Len(u) = L
    BY <1>1, <1>2, <2>1
  <2>3. \A i, j \in 1 .. L : u[i].mark = u[j].mark => i = j
    BY <1>2, <1>4
  <2> QED BY <1>1, <1>6, <2>1, <2>2, <2>3
<1> QED BY <1>8, <1>9, <1>10

\* The table is right after all windows.
LEMMA TableFacts ==
  ASSUME NEW ws \in Seq(Bits(BitCount))
  PROVE  /\ Table(ws) \in Seq(Candidates)
         /\ TableRight(Table(ws), ws, Len(ws))
<1>1. PICK f : Tables(f, ws)
  BY TableFunction
<1> DEFINE N == Len(ws)
           T == {n \in 0 .. N : TableRight(f[n], ws, n)}
<1>2. /\ f \in [0 .. N -> Seq(Candidates)]
      /\ f[0] = <<>>
      /\ \A n \in 1 .. N : f[n] = IF IsLegacyMark(ws[n]) \/ DecodeMark(ws[n]).version # Version THEN f[n - 1]
                                  ELSE CountOccurrence(f[n - 1], DecodeMark(ws[n]))
      /\ Table(ws) = f[N]
  BY <1>1 DEF Tables
<1>3. N \in Nat /\ \A n \in 1 .. N : DecodeMark(ws[n]) \in Marks
  <2>1. N \in Nat /\ \A n \in 1 .. N : ws[n] \in Bits(BitCount)
    OBVIOUS
  <2> QED BY <2>1, DecodeMarkType
<1>4. 0 \in T
  <2>1. \A m : Occurrences(ws, 0, m) = {}
    BY DEF Occurrences
  <2>2. Len(f[0]) = 0
    BY <1>2
  <2>3. TableRight(f[0], ws, 0)
    BY <2>1, <2>2, LimitsAssumption DEF TableRight
  <2> QED BY <1>3, <2>3
<1>5. ASSUME NEW n \in 1 .. N, n - 1 \in T PROVE n \in T
  <2>1. n \in Nat \ {0} /\ n \in 0 .. N /\ n - 1 \in 0 .. N
    BY <1>3
  <2>2. TableRight(f[n - 1], ws, n - 1) /\ f[n - 1] \in Seq(Candidates)
    BY <1>2, <1>5, <2>1
  <2>3. CASE IsLegacyMark(ws[n]) \/ DecodeMark(ws[n]).version # Version
    <3>1. f[n] = f[n - 1]
      BY <1>2, <2>3
    <3>2. \A m : m.version = Version => Occurrences(ws, n, m) = Occurrences(ws, n - 1, m)
      BY <2>1, <2>3, OccurrencesStep
    <3>3. TableRight(f[n - 1], ws, n)
      BY <2>2, <3>2 DEF TableRight
    <3> QED BY <2>1, <3>1, <3>3
  <2>4. CASE ~(IsLegacyMark(ws[n]) \/ DecodeMark(ws[n]).version # Version)
    <3>1. f[n] = CountOccurrence(f[n - 1], DecodeMark(ws[n]))
      BY <1>2, <2>4
    <3>2. TableRight(CountOccurrence(f[n - 1], DecodeMark(ws[n])), ws, n)
      BY <1>3, <2>1, <2>2, <2>4, TableStep
    <3> QED BY <2>1, <3>1, <3>2
  <2> QED BY <2>3, <2>4
<1>6. N \in T
  <2> HIDE DEF T
  <2>1. \A n \in 0 .. N : n \in T
    BY <1>3, <1>4, <1>5, Induction
  <2> QED BY <1>3, <2>1
<1> QED BY <1>2, <1>3, <1>6

\* A sealed mark is a mark and names its context.
LEMMA MarkOfType ==
  ASSUME NEW c \in Contexts
  PROVE  MarkOf(c) \in Marks /\ MarkOf(c).version = Version /\ MarkOf(c).id = c /\ MarkOf(c).code = Code[c]
<1>1. c \in Nat /\ Code[c] \in Nat
  BY ContextsAssumption
<1> QED BY <1>1 DEF MarkOf, Marks, Version

\* The windows counted for a mark, where none looks like an old mark.
LEMMA OccurrencesAre ==
  ASSUME NEW text \in Seq(CodePoints), ~LegacyLooking(text), NEW m
  PROVE  LET ws == Windows(text)
         IN Occurrences(ws, Len(ws), m) = {k \in DOMAIN ws : DecodeMark(ws[k]) = m}
<1> DEFINE ws == Windows(text)
<1>1. ws \in Seq(Bits(BitCount))
  BY WindowsType
<1>2. \A k \in DOMAIN ws : ~IsLegacyMark(ws[k])
  BY DEF LegacyLooking
<1> HIDE DEF ws
<1>3. DOMAIN ws = 1 .. Len(ws)
  BY <1>1
<1>4. Occurrences(ws, Len(ws), m) = {k \in DOMAIN ws : DecodeMark(ws[k]) = m}
  BY <1>2, <1>3 DEF Occurrences
<1> QED BY <1>4 DEF ws

\* A table that is full without the mark of c holds as many other marks as it can.
LEMMA FullTableCrowds ==
  ASSUME NEW text \in Seq(CodePoints), NEW c \in Contexts,
         LET t == Table(Windows(text)) IN Len(t) = MaxCandidates /\ \A i \in 1 .. Len(t) : t[i].mark # MarkOf(c)
  PROVE  Crowded(text, c)
<1> DEFINE ws == Windows(text)
           t == Table(ws)
           decoded == {DecodeMark(ws[k]) : k \in DOMAIN ws}
           others == {m \in decoded : m.version = Version /\ m # MarkOf(c)}
<1>1. ws \in Seq(Bits(BitCount))
  BY WindowsType
<1>2. t \in Seq(Candidates) /\ TableRight(t, ws, Len(ws))
  BY <1>1, TableFacts
<1>3. MaxCandidates \in Nat /\ Len(t) = MaxCandidates /\ \A i \in 1 .. MaxCandidates : t[i].mark # MarkOf(c)
  BY LimitsAssumption
<1>4. Crowded(text, c) <=> Cardinality(others) >= MaxCandidates
  BY DEF Crowded
<1> HIDE DEF t
<1>5. ASSUME NEW i \in 1 .. MaxCandidates PROVE t[i].mark \in others
  <2>1. t[i].mark.version = Version /\ Occurrences(ws, Len(ws), t[i].mark) # {}
    BY <1>2, <1>3 DEF TableRight
  <2>2. PICK k \in 1 .. Len(ws) : DecodeMark(ws[k]) = t[i].mark
    BY <2>1 DEF Occurrences
  <2>3. k \in DOMAIN ws
    <3> HIDE DEF ws
    <3> QED BY <1>1
  <2> QED BY <1>3, <2>1, <2>2, <2>3
<1>6. IsFiniteSet(others)
  <2>1. IsFiniteSet(DOMAIN ws)
    <3> HIDE DEF ws
    <3>1. DOMAIN ws = 1 .. Len(ws) /\ Len(ws) \in Nat
      BY <1>1
    <3> QED BY <3>1, FS_Interval
  <2>2. IsFiniteSet(decoded)
    <3> DEFINE f == [k \in DOMAIN ws |-> DecodeMark(ws[k])]
    <3>1. f \in Surjection(DOMAIN ws, decoded)
      <4> HIDE DEF ws
      <4> QED BY DEF Surjection
    <3> HIDE DEF f, decoded, ws
    <3> QED BY <2>1, <3>1, FS_Surjection
  <2>3. others \in SUBSET decoded
    OBVIOUS
  <2> HIDE DEF others, decoded
  <2> QED BY <2>2, <2>3, FS_Subset
<1> DEFINE g == [i \in 1 .. MaxCandidates |-> t[i].mark]
<1> HIDE DEF others
<1>7. g \in Injection(1 .. MaxCandidates, others)
  <2>1. \A i, j \in 1 .. MaxCandidates : t[i].mark = t[j].mark => i = j
    BY <1>2, <1>3 DEF TableRight
  <2> QED BY <1>5, <2>1 DEF Injection, IsInjective
<1> HIDE DEF g
<1>8. Cardinality(1 .. MaxCandidates) <= Cardinality(others)
  BY <1>6, <1>7, FS_Injection
<1>9. Cardinality(1 .. MaxCandidates) = MaxCandidates
  BY <1>3, FS_Interval
<1>10. Cardinality(others) \in Nat
  BY <1>6, FS_CardinalityType
<1> QED BY <1>3, <1>4, <1>8, <1>9, <1>10

\* What read_marks returns: distinct marks of this version; without an old mark in the text
\* every mark returned occurs often enough, and a mark that does is returned unless too many
\* others are about.
ReadRight(text) ==
  LET read == ReadMarks(text)
      ms == read.marks
  IN /\ ms \in Seq(Marks)
     /\ \A i, j \in 1 .. Len(ms) : ms[i] = ms[j] => i = j
     /\ \A i \in 1 .. Len(ms) : ms[i].version = Version
     /\ read.failed \in (Errors \cup {"none"})
     /\ read.failed = "none" => ~LegacyLooking(text)
     /\ ~LegacyLooking(text) /\ ms # <<>> => read.failed = "none"
     /\ ~LegacyLooking(text) => \A c \in Contexts :
          /\ (\E i \in 1 .. Len(ms) : ms[i] = MarkOf(c)) => Often(text, c)
          /\ Often(text, c) /\ ~Crowded(text, c) => \E i \in 1 .. Len(ms) : ms[i] = MarkOf(c)

\* What read_marks returns, by the windows of the text.
LEMMA ReadMarksFacts ==
  ASSUME NEW text \in Seq(CodePoints)
  PROVE  ReadRight(text)
<1> DEFINE ws == Windows(text)
           t == Table(ws)
           K == {i \in DOMAIN t : t[i].count >= Threshold}
           p == Pick(t, K)
           ms == [i \in DOMAIN p |-> p[i].mark]
           failed == IF \E k \in DOMAIN ws : IsLegacyMark(ws[k]) THEN "mark_version_unsupported"
                     ELSE IF p # <<>> THEN "none"
                     ELSE IF \A i \in DOMAIN text : text[i] # "z" THEN "mark_not_found"
                     ELSE "mark_not_confident"
<1>1. ReadMarks(text).marks = ms /\ ReadMarks(text).failed = failed
  BY DEF ReadMarks
<1>2. LegacyLooking(text) <=> \E k \in DOMAIN ws : IsLegacyMark(ws[k])
  BY DEF LegacyLooking
<1>3. ws \in Seq(Bits(BitCount))
  BY WindowsType
<1>4. t \in Seq(Candidates) /\ TableRight(t, ws, Len(ws))
  BY <1>3, TableFacts
<1> HIDE DEF t
<1>5. p \in Seq(Candidates) /\ \E h : Lists(h, p, t, K, Len(t))
  BY <1>4, PickFacts
<1>6. \A i : i \in K <=> i \in 1 .. Len(t) /\ t[i].count >= Threshold
  BY <1>4
<1> HIDE DEF K, p
<1>7. PICK h : Lists(h, p, t, K, Len(t))
  BY <1>5
<1> DEFINE L == Len(p)
<1>8. L \in Nat /\ DOMAIN p = 1 .. L /\ \A i \in 1 .. L : p[i] \in Candidates
  BY <1>5
<1>9. /\ \A i \in 1 .. L : h[i] \in 1 .. Len(t) /\ h[i] \in K /\ p[i] = t[h[i]]
      /\ \A i, j \in 1 .. L : i < j => h[i] < h[j]
      /\ \A k \in 1 .. Len(t) : k \in K => \E i \in 1 .. L : h[i] = k
  BY <1>7 DEF Lists
<1>10. /\ \A i, j \in 1 .. Len(t) : t[i].mark = t[j].mark => i = j
       /\ \A i \in 1 .. Len(t) : t[i].mark.version = Version
                                 /\ t[i].count = Cardinality(Occurrences(ws, Len(ws), t[i].mark))
       /\ \A m \in Marks : m.version = Version /\ Occurrences(ws, Len(ws), m) # {} =>
            Len(t) = MaxCandidates \/ \E i \in 1 .. Len(t) : t[i].mark = m
  BY <1>4 DEF TableRight
<1>11. Len(t) \in Nat
  BY <1>4
<1>12. ms \in Seq(Marks) /\ Len(ms) = L /\ \A i \in 1 .. L : ms[i] = p[i].mark
  <2>1. \A i \in 1 .. L : p[i].mark \in Marks
    BY <1>8 DEF Candidates
  <2> QED BY <1>8, <2>1
<1>13. ms # <<>> => p # <<>>
  BY <1>8, <1>12
<1> HIDE DEF ms, L
<1>14. \A i, j \in 1 .. L : ms[i] = ms[j] => i = j
  <2> SUFFICES ASSUME NEW i \in 1 .. L, NEW j \in 1 .. L, ms[i] = ms[j] PROVE i = j
    OBVIOUS
  <2>4. t[h[i]].mark = t[h[j]].mark /\ h[i] \in 1 .. Len(t) /\ h[j] \in 1 .. Len(t)
    <3>1. h[i] \in 1 .. Len(t) /\ p[i] = t[h[i]] /\ h[j] \in 1 .. Len(t) /\ p[j] = t[h[j]]
      BY <1>9
    <3>2. ms[i] = p[i].mark /\ ms[j] = p[j].mark
      BY <1>12
    <3> QED BY <3>1, <3>2
  <2>1. h[i] = h[j]
    BY <1>10, <2>4
  <2>2. h[i] \in Int /\ h[j] \in Int /\ i \in Int /\ j \in Int
    BY <1>9
  <2>3. ~(i < j) /\ ~(j < i)
    BY <1>9, <2>1, <2>2
  <2> QED BY <2>2, <2>3
<1>15. \A i \in 1 .. L : ms[i].version = Version
  BY <1>9, <1>10, <1>12
<1>16. failed \in (Errors \cup {"none"}) /\ (failed = "none" => ~LegacyLooking(text))
       /\ (~LegacyLooking(text) /\ p # <<>> => failed = "none")
  <2>1. CASE LegacyLooking(text)
    <3>1. failed = "mark_version_unsupported"
      BY <1>2, <2>1
    <3> QED BY <2>1, <3>1 DEF Errors
  <2>2. CASE ~LegacyLooking(text) /\ p # <<>>
    <3>1. failed = "none"
      BY <1>2, <2>2
    <3> QED BY <2>2, <3>1
  <2>3. CASE ~LegacyLooking(text) /\ p = <<>>
    <3>1. failed \in {"mark_not_found", "mark_not_confident"}
      BY <1>2, <2>3
    <3> QED BY <2>3, <3>1 DEF Errors
  <2> QED BY <2>1, <2>2, <2>3
<1> HIDE DEF failed, ws
<1>17. ASSUME ~LegacyLooking(text), NEW c \in Contexts
       PROVE  /\ (\E i \in 1 .. L : ms[i] = MarkOf(c)) => Often(text, c)
              /\ Often(text, c) /\ ~Crowded(text, c) => \E i \in 1 .. L : ms[i] = MarkOf(c)
  <2> DEFINE O == Occurrences(ws, Len(ws), MarkOf(c))
  <2>1. Carried(text, c) = Cardinality(O)
    BY <1>17, OccurrencesAre DEF Carried, ws
  <2>2. Often(text, c) <=> Cardinality(O) >= Threshold
    BY <2>1 DEF Often
  <2>3. Threshold \in Nat \ {0}
    BY LimitsAssumption
  <2>4. MarkOf(c) \in Marks /\ MarkOf(c).version = Version
    BY MarkOfType
  <2>5. ASSUME NEW i \in 1 .. L, ms[i] = MarkOf(c) PROVE Often(text, c)
    <3>1. h[i] \in 1 .. Len(t) /\ h[i] \in K /\ p[i] = t[h[i]]
      BY <1>9
    <3>2. t[h[i]].count >= Threshold
      BY <1>6, <3>1
    <3>3. ms[i] = p[i].mark
      BY <1>12
    <3>4. t[h[i]].mark = MarkOf(c)
      BY <2>5, <3>1, <3>3
    <3>5. t[h[i]].count = Cardinality(O)
      BY <1>10, <3>1, <3>4
    <3> HIDE DEF O
    <3> QED BY <2>2, <3>2, <3>5
  <2>6. ASSUME Often(text, c), ~Crowded(text, c) PROVE \E i \in 1 .. L : ms[i] = MarkOf(c)
    <3>1. O # {}
      <4> SUFFICES ASSUME O = {} PROVE FALSE
        OBVIOUS
      <4>1. Cardinality(O) = 0
        BY FS_EmptySet
      <4> HIDE DEF O
      <4> QED BY <2>2, <2>3, <2>6, <4>1
    <3>2. PICK i \in 1 .. Len(t) : t[i].mark = MarkOf(c)
      BY <1>10, <2>4, <2>6, <3>1, FullTableCrowds DEF t, ws
    <3>3. i \in K
      BY <1>6, <1>10, <2>2, <2>6, <3>2
    <3>4. PICK j \in 1 .. L : h[j] = i
      BY <1>9, <3>3
    <3> QED BY <1>9, <1>12, <3>2, <3>4
  <2> QED BY <2>5, <2>6
<1> QED BY <1>1, <1>12, <1>13, <1>14, <1>15, <1>16, <1>17 DEF ReadRight

\* What embed_mark has written: the text so far and its number of significant code points.
Markings == [text: Seq(CodePoints), significant: Nat]

\* embed_mark keeps its types.
LEMMA PutBitType ==
  ASSUME NEW bits, NEW r \in Markings, NEW c \in CodePoints
  PROVE  PutBit(bits, r, c) \in Markings
<1>1. r.text \in Seq(CodePoints) /\ r.significant \in Nat /\ r = [text |-> r.text, significant |-> r.significant]
  BY DEF Markings
<1>2. "z" \in CodePoints
  BY DEF CodePoints
<1>3. Append(r.text, c) \in Seq(CodePoints) /\ r.text \o <<c>> \in Seq(CodePoints) /\ r.text \o <<c, "z">> \in Seq(CodePoints)
  <2> HIDE DEF CodePoints
  <2>1. <<c>> \in Seq(CodePoints) /\ <<c, "z">> \in Seq(CodePoints)
    BY <1>2
  <2> QED BY <1>1, <2>1
<1>4. CASE c = "z"
  <2>1. PutBit(bits, r, c) = [text |-> Append(r.text, c), significant |-> r.significant]
    BY <1>1, <1>4 DEF PutBit
  <2> QED BY <1>1, <1>3, <2>1 DEF Markings
<1>5. CASE c # "z"
  <2>1. \/ PutBit(bits, r, c) = [text |-> r.text \o <<c, "z">>, significant |-> r.significant + 1]
        \/ PutBit(bits, r, c) = [text |-> r.text \o <<c>>, significant |-> r.significant + 1]
    BY <1>5 DEF PutBit
  <2>2. \A q \in Seq(CodePoints) : [text |-> q, significant |-> r.significant + 1] \in Markings
    <3> HIDE DEF CodePoints
    <3> QED BY <1>1 DEF Markings
  <2> QED BY <1>3, <2>1, <2>2
<1> QED BY <1>4, <1>5

\* f holds what embed_mark has after each code point.
Embeds(f, text, m) ==
  /\ f \in [0 .. Len(text) -> Markings]
  /\ f[0] = [text |-> <<>>, significant |-> 0]
  /\ \A n \in 1 .. Len(text) : f[n] = PutBit(EncodeMark(m), f[n - 1], text[n])
  /\ EmbedMark(text, m) = f[Len(text)].text

\* EmbedMark satisfies its equation.
LEMMA EmbedMarkFunction ==
  ASSUME NEW text \in Seq(CodePoints), NEW m
  PROVE  \E f : Embeds(f, text, m)
<1> DEFINE N == Len(text)
           V == Markings
           base == [text |-> <<>>, significant |-> 0]
           Step(p, n) == PutBit(EncodeMark(m), p, text[n])
           Equation(f) == f = [n \in 0 .. N |-> IF n = 0 THEN base ELSE Step(f[n - 1], n)]
           marked == CHOOSE f : Equation(f)
<1>1. N \in Nat /\ base \in V /\ \A p \in V, n \in 1 .. N : Step(p, n) \in V
  <2>1. N \in Nat /\ \A n \in 1 .. N : text[n] \in CodePoints
    OBVIOUS
  <2>2. base \in V
    BY DEF Markings
  <2>3. \A p \in V, n \in 1 .. N : Step(p, n) \in V
    BY <2>1, PutBitType
  <2> QED BY <2>1, <2>2, <2>3
<1>2. EmbedMark(text, m) = marked[N].text
  BY DEF EmbedMark
<1> HIDE DEF N, V, base, Step
<1>3. \E f : Equation(f)
  <2> DEFINE step == [n \in 1 .. N |-> [p \in V |-> Step(p, n)]]
  <2>1. N \in Nat /\ base \in V /\ step \in [1 .. N -> [V -> V]]
    BY <1>1
  <2>2. \A p \in V, n \in 1 .. N : step[n][p] = Step(p, n)
    OBVIOUS
  <2> HIDE DEF step
  <2>3. PICK f : Computes(f, N, V, base, step)
    BY <2>1, Recursion
  <2>4. f \in [0 .. N -> V] /\ f[0] = base /\ \A n \in 1 .. N : f[n] = step[n][f[n - 1]]
    BY <2>3 DEF Computes
  <2>5. ASSUME NEW n \in 1 .. N PROVE f[n] = Step(f[n - 1], n)
    <3>1. n - 1 \in 0 .. N
      BY <2>1
    <3>2. f[n - 1] \in V
      BY <2>4, <3>1
    <3> QED BY <2>2, <2>4, <3>2
  <2>6. Equation(f)
    BY <2>1, <2>4, <2>5
  <2> QED BY <2>6
<1>4. Equation(marked)
  <2> HIDE DEF Equation
  <2> QED BY <1>3
<1> HIDE DEF marked
<1>5. marked[0] = base /\ \A n \in 1 .. N : marked[n] = Step(marked[n - 1], n)
  BY <1>1, <1>4
<1>6. \A n \in 0 .. N : marked[n] \in V
  <2> DEFINE T == {n \in 0 .. N : marked[n] \in V}
  <2>1. 0 \in T
    BY <1>1, <1>5
  <2>2. \A n \in 1 .. N : n - 1 \in T => n \in T
    BY <1>1, <1>5
  <2> HIDE DEF T
  <2>3. \A n \in 0 .. N : n \in T
    BY <1>1, <2>1, <2>2, Induction
  <2> QED BY <2>3 DEF T
<1>7. marked \in [0 .. N -> V]
  BY <1>4, <1>6
<1> QED BY <1>2, <1>5, <1>7 DEF N, V, base, Step, Embeds

\* embed_mark returns a text.
LEMMA EmbedMarkType ==
  ASSUME NEW text \in Seq(CodePoints), NEW m
  PROVE  EmbedMark(text, m) \in Seq(CodePoints)
<1>1. PICK f : Embeds(f, text, m)
  BY EmbedMarkFunction
<1>2. Len(text) \in Nat
  OBVIOUS
<1>3. f[Len(text)] \in Markings /\ EmbedMark(text, m) = f[Len(text)].text
  BY <1>1, <1>2 DEF Embeds
<1> QED BY <1>3 DEF Markings

\* canonical_form returns a text.
LEMMA CanonicalFormType ==
  ASSUME NEW text \in Seq(CodePoints)
  PROVE  CanonicalForm(text) \in Seq(CodePoints)
<1>1. PICK f : Canonizes(f, text)
  BY CanonicalFormFunction
<1>2. Len(text) \in Nat
  OBVIOUS
<1>3. f[Len(text)] \in Readings /\ CanonicalForm(text) = f[Len(text)].form
  BY <1>1, <1>2 DEF Canonizes
<1> QED BY <1>3 DEF Readings

\* A delivered copy is a text.
LEMMA CopyForType ==
  ASSUME NEW c \in Contexts
  PROVE  /\ PubOf[c] \in Pubs
         /\ Text(PubOf[c]) \in Seq(CodePoints)
         /\ CopyFor(c) \in Seq(CodePoints)
<1>1. PubOf[c] \in Pubs
  BY ContextsAssumption
<1>2. Draft[PubOf[c]] \in Seq(CodePoints)
  BY <1>1, DraftAssumption
<1>3. Text(PubOf[c]) \in Seq(CodePoints)
  BY <1>2, CanonicalFormType DEF Text
<1>4. EmbedMark(Text(PubOf[c]), MarkOf(c)) \in Seq(CodePoints)
  BY <1>3, EmbedMarkType
<1> QED BY <1>1, <1>3, <1>4 DEF CopyFor

--------------------------------------------------------------------------------
(***************************************************************************)
(* attribute: the inductive invariant.                                     *)
(***************************************************************************)
\* The marks read_marks returns for a text; the ones looked at when rest is still to come,
\* and that rest is the end of them.
Returned(text) == ReadMarks(text).marks
MarksIn(text) == {Returned(text)[i] : i \in 1 .. Len(Returned(text))}
Looked(text, rest) == {Returned(text)[i] : i \in 1 .. (Len(Returned(text)) - Len(rest))}
Rest(text, rest) ==
  /\ Len(rest) <= Len(Returned(text))
  /\ \A i \in 1 .. Len(rest) : rest[i] = Returned(text)[Len(Returned(text)) - Len(rest) + i]

\* The genuine marks of those that are on the right text.
FittingOn(text, ms) == {m \in Genuine(ms) : CanonicalForm(text) = Text(PubOf[m.id])}

\* What the variables of the loop say of the marks looked at: found is the one that fits.
\* The rest is so as long as every record could be read.
FoundFits(text, looked, found) ==
  found # None => found \in Contexts /\ MarkOf(found) \in FittingOn(text, looked)
Recorded(text, looked, found, any, other, reason) ==
  /\ FittingOn(text, looked) = IF found = None THEN {} ELSE {MarkOf(found)}
  /\ any <=> \E m \in looked : m.id \in Contexts
  /\ other <=> \E m \in Genuine(looked) : CanonicalForm(text) # Text(PubOf[m.id])
  /\ reason = "purchase_not_found"

\* The copies a leaked text was made from are of one publication.
OnePublication == \A c, d \in sources : PubOf[c] = PubOf[d]

\* Before the marks are looked at nothing is known.
Unjudged ==
  /\ pc \in {"idle", "delivered"} =>
       matched = None /\ ~resolved /\ ~mismatched /\ ~broken /\ error = "purchase_not_found"
  /\ pc # "done" => answer = "none"

\* In the loop.
Judging ==
  pc = "judge" =>
    /\ ReadMarks(leak).failed = "none"
    /\ Rest(leak, marks)
    /\ FoundFits(leak, Looked(leak, marks), matched)
    /\ ~broken => Recorded(leak, Looked(leak, marks), matched, resolved, mismatched, error)

\* A name that is given is that of a mark that fits, even if a record could not be read.
NamedFits ==
  answer = "attributed" =>
    ReadMarks(leak).failed = "none" /\ matched \in Contexts /\ MarkOf(matched) \in FittingOn(leak, MarksIn(leak))

IInv == TypeOK /\ OnePublication /\ Unjudged /\ Judging /\ NamedFits /\ VerdictExact

\* No context has its mark often enough on its own text that had no part in the leaked copy.
\* Of a code of 64 bits made with a secret key this may be supposed.
Unforged == \A c \in Contexts \ sources : CanonicalForm(leak) = Text(PubOf[c]) => ~Often(leak, c)

\* The marks returned are a sequence without repetition.
LEMMA ReturnedFacts ==
  ASSUME NEW text \in Seq(CodePoints)
  PROVE  /\ Returned(text) \in Seq(Marks)
         /\ Len(Returned(text)) \in Nat
         /\ \A i, j \in 1 .. Len(Returned(text)) : Returned(text)[i] = Returned(text)[j] => i = j
         /\ \A i \in 1 .. Len(Returned(text)) : Returned(text)[i] \in Marks /\ Returned(text)[i].version = Version
         /\ IsFiniteSet(MarksIn(text))
<1> DEFINE r == Returned(text)
           L == Len(r)
<1>1. /\ r \in Seq(Marks)
      /\ \A i, j \in 1 .. L : r[i] = r[j] => i = j
      /\ \A i \in 1 .. L : r[i].version = Version
  BY ReadMarksFacts DEF ReadRight, Returned
<1> HIDE DEF r
<1>2. L \in Nat /\ \A i \in 1 .. L : r[i] \in Marks
  BY <1>1
<1>3. IsFiniteSet({r[i] : i \in 1 .. L})
  <2> DEFINE R == {r[i] : i \in 1 .. L}
             f == [i \in 1 .. L |-> r[i]]
  <2>1. f \in Surjection(1 .. L, R)
    BY DEF Surjection
  <2>2. IsFiniteSet(1 .. L)
    BY <1>2, FS_Interval
  <2> HIDE DEF f, R
  <2>3. IsFiniteSet(R)
    BY <2>1, <2>2, FS_Surjection
  <2> QED BY <2>3 DEF R
<1> QED BY <1>1, <1>2, <1>3 DEF r, MarksIn

\* The next mark is one that was returned and not looked at before.
LEMMA LookedStep ==
  ASSUME NEW text \in Seq(CodePoints), NEW rest \in Seq(Marks), rest # <<>>, Rest(text, rest)
  PROVE  /\ Rest(text, Tail(rest))
         /\ Looked(text, Tail(rest)) = Looked(text, rest) \cup {Head(rest)}
         /\ Head(rest) \notin Looked(text, rest)
         /\ Head(rest) \in MarksIn(text)
         /\ Head(rest) \in Marks /\ Head(rest).version = Version
<1> DEFINE r == Returned(text)
           N == Len(r)
           L == Len(rest)
           t == Tail(rest)
<1>1. N \in Nat /\ (\A i, j \in 1 .. N : r[i] = r[j] => i = j)
      /\ \A i \in 1 .. N : r[i] \in Marks /\ r[i].version = Version
  BY ReturnedFacts
<1>2. L \in Nat \ {0} /\ Len(t) = L - 1 /\ Head(rest) = rest[1] /\ \A i \in 1 .. L - 1 : t[i] = rest[i + 1]
  OBVIOUS
<1>3. L <= N /\ \A i \in 1 .. L : rest[i] = r[N - L + i]
  BY DEF Rest
<1>4. Looked(text, rest) = {r[i] : i \in 1 .. N - L} /\ Looked(text, t) = {r[i] : i \in 1 .. N - Len(t)}
      /\ MarksIn(text) = {r[i] : i \in 1 .. N} /\ (Rest(text, t) <=> Len(t) <= N /\ \A i \in 1 .. Len(t) : t[i] = r[N - Len(t) + i])
  BY DEF Looked, MarksIn, Rest
<1> HIDE DEF r, N, L, t
<1>5. Head(rest) = r[N - L + 1] /\ N - L + 1 \in 1 .. N
  <2>1. 1 \in 1 .. L
    BY <1>2
  <2> QED BY <1>1, <1>2, <1>3, <2>1
<1>6. ASSUME NEW i \in 1 .. L - 1 PROVE t[i] = r[N - (L - 1) + i]
  <2>1. i + 1 \in 1 .. L /\ N - L + (i + 1) = N - (L - 1) + i
    BY <1>1, <1>2
  <2> QED BY <1>2, <1>3, <2>1
<1>7. Rest(text, t)
  BY <1>1, <1>2, <1>3, <1>4, <1>6
<1>8. 1 .. (N - Len(t)) = 1 .. (N - L) \cup {N - L + 1}
  BY <1>1, <1>2, <1>3
<1>9. Looked(text, t) = Looked(text, rest) \cup {Head(rest)}
  BY <1>4, <1>5, <1>8
<1>10. Head(rest) \notin Looked(text, rest)
  <2> SUFFICES ASSUME NEW i \in 1 .. (N - L), r[i] = r[N - L + 1] PROVE FALSE
    BY <1>4, <1>5
  <2>1. i \in 1 .. N /\ i # N - L + 1
    BY <1>1, <1>2, <1>3
  <2> QED BY <1>1, <1>5, <2>1
<1>11. Head(rest) \in MarksIn(text) /\ Head(rest) \in Marks /\ Head(rest).version = Version
  BY <1>1, <1>4, <1>5
<1> QED BY <1>7, <1>9, <1>10, <1>11 DEF t

\* A genuine mark is the mark of the context it names.
LEMMA GenuineIsMarkOf ==
  ASSUME NEW m \in Marks, m.version = Version, m.id \in Contexts, VerifyMark(m)
  PROVE  m = MarkOf(m.id)
BY DEF MarkOf, Marks, VerifyMark

\* More marks, more that fit.
LEMMA FittingGrows ==
  ASSUME NEW text, NEW S, NEW R, S \subseteq R
  PROVE  Genuine(S) \subseteq Genuine(R) /\ FittingOn(text, S) \subseteq FittingOn(text, R)
BY DEF Genuine, FittingOn

\* What has been looked at is among what was returned.
LEMMA LookedReturned ==
  ASSUME NEW text \in Seq(CodePoints), NEW rest \in Seq(Marks)
  PROVE  /\ Looked(text, rest) \subseteq MarksIn(text)
         /\ rest = <<>> => Looked(text, rest) = MarksIn(text)
         /\ rest = Returned(text) => Looked(text, rest) = {} /\ Rest(text, rest)
<1>1. Len(Returned(text)) \in Nat /\ Len(rest) \in Nat
  BY ReturnedFacts
<1>2. rest = <<>> => Len(rest) = 0
  OBVIOUS
<1>3. Looked(text, rest) \subseteq MarksIn(text)
  <2>1. 1 .. (Len(Returned(text)) - Len(rest)) \subseteq 1 .. Len(Returned(text))
    BY <1>1
  <2> QED BY <2>1 DEF Looked, MarksIn
<1>4. ASSUME rest = <<>> PROVE Looked(text, rest) = MarksIn(text)
  <2>1. Len(Returned(text)) - Len(rest) = Len(Returned(text))
    BY <1>1, <1>2, <1>4
  <2> QED BY <2>1 DEF Looked, MarksIn
<1>5. ASSUME rest = Returned(text) PROVE Looked(text, rest) = {} /\ Rest(text, rest)
  <2>1. 1 .. (Len(Returned(text)) - Len(rest)) = {} /\ Len(rest) <= Len(Returned(text))
    BY <1>1, <1>5
  <2>2. \A i \in 1 .. Len(rest) : Len(Returned(text)) - Len(rest) + i = i
    BY <1>1, <1>5
  <2> QED BY <1>5, <2>1, <2>2 DEF Looked, Rest
<1> QED BY <1>3, <1>4, <1>5

\* How one more mark changes the genuine ones.
LEMMA GenuineStep ==
  ASSUME NEW text, NEW looked, NEW m
  PROVE  /\ Genuine(looked \cup {m}) =
              IF m.id \in Contexts /\ VerifyMark(m) THEN Genuine(looked) \cup {m} ELSE Genuine(looked)
         /\ FittingOn(text, looked \cup {m}) =
              IF m.id \in Contexts /\ VerifyMark(m) /\ CanonicalForm(text) = Text(PubOf[m.id])
                THEN FittingOn(text, looked) \cup {m} ELSE FittingOn(text, looked)
BY DEF Genuine, FittingOn

\* A context that is not there leaves the records as they are.
LEMMA RecordUnresolved ==
  ASSUME NEW text, NEW looked, NEW m, NEW found, NEW any, NEW other, NEW reason,
         m.id \notin Contexts,
         Recorded(text, looked, found, any, other, reason)
  PROVE  Recorded(text, looked \cup {m}, found, any, other, "purchase_not_found")
<1>1. Genuine(looked \cup {m}) = Genuine(looked) /\ FittingOn(text, looked \cup {m}) = FittingOn(text, looked)
  BY GenuineStep
<1>2. (\E x \in looked \cup {m} : x.id \in Contexts) <=> \E x \in looked : x.id \in Contexts
  OBVIOUS
<1> QED BY <1>1, <1>2 DEF Recorded

\* A mark whose code is wrong: only that its context exists is recorded.
LEMMA RecordWrong ==
  ASSUME NEW text, NEW looked, NEW m, NEW found, NEW any, NEW other, NEW reason,
         m.id \in Contexts, ~VerifyMark(m),
         Recorded(text, looked, found, any, other, reason)
  PROVE  Recorded(text, looked \cup {m}, found, TRUE, other, reason)
<1>1. Genuine(looked \cup {m}) = Genuine(looked) /\ FittingOn(text, looked \cup {m}) = FittingOn(text, looked)
  BY GenuineStep
<1> QED BY <1>1 DEF Recorded

\* A genuine mark on another text.
LEMMA RecordMismatch ==
  ASSUME NEW text, NEW looked, NEW m, NEW found, NEW any, NEW other, NEW reason,
         m.id \in Contexts, VerifyMark(m), CanonicalForm(text) # Text(PubOf[m.id]),
         Recorded(text, looked, found, any, other, reason)
  PROVE  Recorded(text, looked \cup {m}, found, TRUE, TRUE, reason)
<1>1. Genuine(looked \cup {m}) = Genuine(looked) \cup {m} /\ FittingOn(text, looked \cup {m}) = FittingOn(text, looked)
  BY GenuineStep
<1> QED BY <1>1 DEF Recorded

\* The first mark that fits.
LEMMA RecordMatch ==
  ASSUME NEW text, NEW looked, NEW m \in Marks, NEW any, NEW other, NEW reason,
         m.version = Version, m.id \in Contexts, VerifyMark(m), CanonicalForm(text) = Text(PubOf[m.id]),
         Recorded(text, looked, None, any, other, reason)
  PROVE  Recorded(text, looked \cup {m}, m.id, TRUE, other, reason)
<1>1. Genuine(looked \cup {m}) = Genuine(looked) \cup {m}
      /\ FittingOn(text, looked \cup {m}) = FittingOn(text, looked) \cup {m}
  BY GenuineStep
<1>2. m = MarkOf(m.id) /\ m.id # None
  BY GenuineIsMarkOf, ContextsAssumption
<1>3. FittingOn(text, looked) = {}
  BY DEF Recorded
<1>4. FittingOn(text, looked \cup {m}) = {MarkOf(m.id)}
  BY <1>1, <1>2, <1>3
<1> QED BY <1>1, <1>2, <1>4 DEF Recorded

--------------------------------------------------------------------------------
(***************************************************************************)
(* Types.                                                                  *)
(***************************************************************************)
\* The number of whole marks is a number.
LEMMA WholeMarksType ==
  ASSUME NEW text \in Seq(CodePoints)
  PROVE  WholeMarks(text) \in Nat
<1>1. Len(text) \in Nat /\ BitCount \in Nat /\ BitCount > 0
  BY BitCountFacts
<1> QED BY <1>1 DEF WholeMarks

\* The pieces of a text are texts.
LEMMA PiecesType ==
  ASSUME NEW S, NEW s \in Seq(S), NEW i \in 1 .. Len(s) + 1
  PROVE  SubSeq(s, 1, i - 1) \in Seq(S) /\ SubSeq(s, i, Len(s)) \in Seq(S) /\ SubSeq(s, i + 1, Len(s)) \in Seq(S)
<1>1. Len(s) \in Nat /\ \A k \in 1 .. Len(s) : s[k] \in S
  OBVIOUS
<1>2. \A k \in 1 .. (i - 1) : s[k] \in S
  BY <1>1
<1>3. \A k \in i .. Len(s) : s[k] \in S
  BY <1>1
<1>4. \A k \in (i + 1) .. Len(s) : s[k] \in S
  BY <1>1
<1>5. i \in Int /\ i - 1 \in Int /\ i + 1 \in Int /\ Len(s) \in Int /\ 1 \in Int
  BY <1>1
<1>6. SubSeq(s, 1, i - 1) \in Seq(S)
  BY <1>2, <1>5, SubSeqProperties
<1>7. SubSeq(s, i, Len(s)) \in Seq(S)
  BY <1>3, <1>5, SubSeqProperties
<1>8. SubSeq(s, i + 1, Len(s)) \in Seq(S)
  BY <1>4, <1>5, SubSeqProperties
<1> QED BY <1>6, <1>7, <1>8

\* Every step keeps the types.
LEMMA TypeStep ==
  ASSUME TypeOK, [Next]_vars
  PROVE  TypeOK'
<1> USE DEF TypeOK
<1>1. CASE Deliver
  <2>1. PICK c \in Contexts : leak' = CopyFor(c) /\ sources' = {c} /\ whole' = WholeMarks(Text(PubOf[c]))
    BY <1>1 DEF Deliver
  <2>2. leak' \in Seq(CodePoints) /\ whole' \in Nat
    BY <2>1, CopyForType, WholeMarksType
  <2> QED BY <1>1, <2>1, <2>2 DEF Deliver, judgment
<1>2. ASSUME Change, leak' \in Seq(CodePoints), sources' \subseteq Contexts, whole' \in Nat PROVE TypeOK'
  <2>1. edits' \in 0 .. MaxEdits
    BY <1>2, LimitsAssumption DEF Change
  <2> QED BY <1>2, <2>1 DEF Change, judgment
<1>3. CASE Lose
  <2>1. PICK i \in DOMAIN leak : leak' = RemoveAt(leak, i)
    BY <1>3 DEF Lose
  <2>2. i \in 1 .. Len(leak) + 1
    OBVIOUS
  <2>3. SubSeq(leak, 1, i - 1) \in Seq(CodePoints) /\ SubSeq(leak, i + 1, Len(leak)) \in Seq(CodePoints)
    BY <2>2, PiecesType
  <2>4. leak' \in Seq(CodePoints)
    BY <2>1, <2>3 DEF RemoveAt
  <2> QED BY <1>2, <1>3, <2>4 DEF Lose
<1>4. CASE Gain
  <2>1. PICK i \in 1 .. Len(leak) + 1, c \in {"z", "v", "u"} : leak' = InsertAt(leak, i, c)
    BY <1>4 DEF Gain
  <2>2. SubSeq(leak, 1, i - 1) \in Seq(CodePoints) /\ SubSeq(leak, i, Len(leak)) \in Seq(CodePoints)
    BY PiecesType
  <2>3. c \in CodePoints
    BY DEF CodePoints
  <2>4. leak' = SubSeq(leak, 1, i - 1) \o <<c>> \o SubSeq(leak, i, Len(leak))
    BY <2>1 DEF InsertAt
  <2>5. leak' \in Seq(CodePoints)
    <3> HIDE DEF CodePoints
    <3> QED BY <2>2, <2>3, <2>4
  <2> QED BY <1>2, <1>4, <2>5 DEF Gain
<1>5. CASE Splice
  <2>1. PICK c \in Contexts \ sources : sources' = sources \cup {c} /\
          \E i \in 2 .. Len(leak), j \in 2 .. Len(CopyFor(c)) :
            leak' = SubSeq(leak, 1, i - 1) \o SubSeq(CopyFor(c), j, Len(CopyFor(c)))
    BY <1>5 DEF Splice
  <2>2. PICK i \in 2 .. Len(leak), j \in 2 .. Len(CopyFor(c)) :
            leak' = SubSeq(leak, 1, i - 1) \o SubSeq(CopyFor(c), j, Len(CopyFor(c)))
    BY <2>1
  <2>3. CopyFor(c) \in Seq(CodePoints)
    BY CopyForType
  <2>4. i \in 1 .. Len(leak) + 1 /\ j \in 1 .. Len(CopyFor(c)) + 1
    BY <2>3
  <2>5. SubSeq(leak, 1, i - 1) \in Seq(CodePoints) /\ SubSeq(CopyFor(c), j, Len(CopyFor(c))) \in Seq(CodePoints)
    BY <2>3, <2>4, PiecesType
  <2>6. leak' \in Seq(CodePoints)
    BY <2>2, <2>5
  <2> QED BY <1>2, <1>5, <2>1, <2>6 DEF Splice
<1>6. CASE Transplant
  <2>1. PICK c \in sources, p \in Pubs : leak' = EmbedMark(Text(p), MarkOf(c)) /\ whole' = WholeMarks(Text(p))
    BY <1>6 DEF Transplant
  <2>2. Text(p) \in Seq(CodePoints)
    BY DraftAssumption, CanonicalFormType DEF Text
  <2>3. leak' \in Seq(CodePoints) /\ whole' \in Nat
    BY <2>1, <2>2, EmbedMarkType, WholeMarksType
  <2> QED BY <1>2, <1>6, <2>3 DEF Transplant
<1>7. CASE Attribute
  <2>1. ReadMarks(leak).marks \in Seq(Marks) /\ ReadMarks(leak).failed \in (Errors \cup {"none"})
    BY ReadMarksFacts DEF ReadRight
  <2>2. \/ /\ ReadMarks(leak).failed # "none" /\ pc' = "done" /\ answer' = ReadMarks(leak).failed /\ marks' = marks
        \/ pc' = "judge" /\ marks' = ReadMarks(leak).marks /\ answer' = answer
    BY <1>7 DEF Attribute, Answer
  <2> QED BY <1>7, <2>1, <2>2 DEF Attribute, copy
<1>8. CASE Unresolved
  <2>1. Tail(marks) \in Seq(Marks)
    BY <1>8 DEF Unresolved
  <2> QED BY <1>8, <2>1 DEF Unresolved, copy, Errors
<1>9. CASE Judge
  <2>1. Tail(marks) \in Seq(Marks)
    BY <1>9 DEF Judge
  <2>2. pc' \in {pc, "done"} /\ answer' \in {answer, "mark_not_confident"} /\ matched' \in {matched, Head(marks).id}
        /\ mismatched' \in {mismatched, TRUE}
    BY <1>9 DEF Judge, Answer
  <2>3. /\ marks' = Tail(marks) /\ resolved' = TRUE /\ Head(marks).id \in Contexts
        /\ UNCHANGED <<leak, sources, edits, whole, error, broken>>
    BY <1>9 DEF Judge, copy
  <2>4. marks' \in Seq(Marks) /\ matched' \in Contexts \cup {None}
    BY <2>1, <2>2, <2>3
  <2>5. pc' \in {"idle", "delivered", "judge", "done"} /\ answer' \in Errors \cup {"attributed", "none"}
    BY <2>2 DEF Errors
  <2> QED BY <2>2, <2>3, <2>4, <2>5
<1>10. CASE Fail
  BY <1>10 DEF Fail, Answer, copy, Errors
<1>11. CASE Conclude
  <2>1. answer' \in {"attributed", "content_mismatch", "mark_authentication_failed", error}
    BY <1>11 DEF Conclude, Answer
  <2> QED BY <1>11, <2>1 DEF Conclude, Answer, copy, judgment, Errors
<1>12. CASE Leave
  <2>1. leak' \in Seq(CodePoints) /\ marks' \in Seq(Marks)
    BY <1>12 DEF Leave
  <2>2. edits' \in 0 .. MaxEdits /\ whole' \in Nat
    BY <1>12, LimitsAssumption DEF Leave
  <2> QED BY <1>12, <2>1, <2>2 DEF Leave, Errors
<1>13. CASE UNCHANGED vars
  BY <1>13 DEF vars
<1> QED BY <1>1, <1>3, <1>4, <1>5, <1>6, <1>7, <1>8, <1>9, <1>10, <1>11, <1>12, <1>13 DEF Next

--------------------------------------------------------------------------------
(***************************************************************************)
(* Invariance.                                                             *)
(***************************************************************************)
\* Every step keeps to one publication.
LEMMA OnePublicationStep ==
  ASSUME OnePublication, [Next]_vars
  PROVE  OnePublication'
<1>1. CASE Deliver
  BY <1>1 DEF Deliver, OnePublication
<1>2. CASE Splice
  <2>1. PICK c \in Contexts \ sources, d \in sources : PubOf[c] = PubOf[d] /\ sources' = sources \cup {c}
    BY <1>2 DEF Splice
  <2> QED BY <2>1 DEF OnePublication
<1>3. CASE Leave
  BY <1>3 DEF Leave, OnePublication
<1>4. CASE sources' = sources
  BY <1>4 DEF OnePublication
<1> QED
  BY <1>1, <1>2, <1>3, <1>4
  DEF Next, Lose, Gain, Transplant, Attribute, Unresolved, Judge, Fail, Conclude, vars, copy

\* The answer the marks of a text call for, if every record can be read.
Verdict(text) ==
  LET failed == ReadMarks(text).failed
      ms == MarksIn(text)
      fitting == FittingOn(text, ms)
  IN CASE failed # "none" -> failed
       [] failed = "none" /\ Cardinality(fitting) > 1 -> "mark_not_confident"
       [] failed = "none" /\ Cardinality(fitting) = 1 -> "attributed"
       [] failed = "none" /\ fitting = {} /\ Genuine(ms) # {} -> "content_mismatch"
       [] failed = "none" /\ Genuine(ms) = {} /\ \E m \in ms : m.id \in Contexts -> "mark_authentication_failed"
       [] OTHER -> "purchase_not_found"

\* The marks of VerdictExact are those of MarksIn.
LEMMA MarksReturned ==
  ASSUME NEW text \in Seq(CodePoints)
  PROVE  {ReadMarks(text).marks[i] : i \in DOMAIN ReadMarks(text).marks} = MarksIn(text)
<1>1. Returned(text) \in Seq(Marks)
  BY ReturnedFacts
<1>2. DOMAIN Returned(text) = 1 .. Len(Returned(text))
  BY <1>1
<1> QED BY <1>2 DEF MarksIn, Returned

\* VerdictExact in these terms, in a state and in the next.
LEMMA VerdictIs ==
  ASSUME leak \in Seq(CodePoints)
  PROVE  VerdictExact <=>
           (pc = "done" /\ ~broken =>
              /\ answer = Verdict(leak)
              /\ answer = "attributed" => \E m \in FittingOn(leak, MarksIn(leak)) : m.id = matched)
BY MarksReturned DEF VerdictExact, Verdict, Fitting, FittingOn

\* The same of the next state.
LEMMA VerdictWillBe ==
  ASSUME leak' \in Seq(CodePoints)
  PROVE  VerdictExact' <=>
           (pc' = "done" /\ ~broken' =>
              /\ answer' = Verdict(leak')
              /\ answer' = "attributed" => \E m \in FittingOn(leak', MarksIn(leak')) : m.id = matched')
BY MarksReturned DEF VerdictExact, Verdict, Fitting, FittingOn

\* Two marks that fit: nobody is named.
LEMMA VerdictTwo ==
  ASSUME NEW text \in Seq(CodePoints), ReadMarks(text).failed = "none",
         NEW m \in FittingOn(text, MarksIn(text)), NEW x \in FittingOn(text, MarksIn(text)), m # x
  PROVE  Verdict(text) = "mark_not_confident"
<1> DEFINE F == FittingOn(text, MarksIn(text))
<1>1. IsFiniteSet(MarksIn(text)) /\ F \subseteq MarksIn(text)
  BY ReturnedFacts DEF FittingOn, Genuine
<1> HIDE DEF F
<1>2. IsFiniteSet(F)
  BY <1>1, FS_Subset
<1>3. Cardinality({m}) = 1 /\ IsFiniteSet({m})
  BY FS_Singleton
<1>4. Cardinality({m} \cup {x}) = 2
  <2> DEFINE S == {m}
             both == S \cup {x}
  <2>1. x \notin S
    OBVIOUS
  <2>2. Cardinality(both) = Cardinality(S) + 1
    BY <1>3, <2>1, FS_AddElement
  <2>3. Cardinality(S) = 1
    BY <1>3
  <2> HIDE DEF S, both
  <2>4. Cardinality(both) = 2
    BY <2>2, <2>3
  <2> QED BY <2>4 DEF S, both
<1>5. {m} \cup {x} \subseteq F
  BY DEF F
<1>6. Cardinality({m} \cup {x}) <= Cardinality(F)
  BY <1>2, <1>5, FS_Subset
<1>7. Cardinality(F) \in Nat
  BY <1>2, FS_CardinalityType
<1>8. Cardinality(F) > 1 /\ Cardinality(F) # 1 /\ F # {}
  <2>1. 2 <= Cardinality(F)
    BY <1>4, <1>6
  <2>2. Cardinality(F) > 1 /\ Cardinality(F) # 1
    BY <1>7, <2>1
  <2>3. F # {}
    BY <1>5
  <2> QED BY <2>2, <2>3
<1>9. Genuine(MarksIn(text)) # {}
  BY <1>8 DEF F, FittingOn
<1> QED BY <1>8, <1>9 DEF Verdict, F

\* With all marks looked at, the variables of the loop hold the verdict.
LEMMA VerdictRecorded ==
  ASSUME NEW text \in Seq(CodePoints), ReadMarks(text).failed = "none",
         NEW found, NEW any, NEW other, NEW reason,
         Recorded(text, MarksIn(text), found, any, other, reason)
  PROVE  Verdict(text) = IF found # None THEN "attributed"
                         ELSE IF other THEN "content_mismatch"
                         ELSE IF any THEN "mark_authentication_failed" ELSE reason
<1> DEFINE ms == MarksIn(text)
           F == FittingOn(text, ms)
<1>1. /\ F = IF found = None THEN {} ELSE {MarkOf(found)}
      /\ any <=> \E m \in ms : m.id \in Contexts
      /\ other <=> \E m \in Genuine(ms) : CanonicalForm(text) # Text(PubOf[m.id])
      /\ reason = "purchase_not_found"
  BY DEF Recorded
<1>2. \A m \in Genuine(ms) : m \in F \/ CanonicalForm(text) # Text(PubOf[m.id])
  BY DEF FittingOn
<1>3. F \subseteq Genuine(ms) /\ Genuine(ms) \subseteq ms /\ \A m \in Genuine(ms) : m.id \in Contexts
  BY DEF FittingOn, Genuine
<1>4. Verdict(text) =
        CASE Cardinality(F) > 1 -> "mark_not_confident"
          [] Cardinality(F) = 1 -> "attributed"
          [] F = {} /\ Genuine(ms) # {} -> "content_mismatch"
          [] Genuine(ms) = {} /\ (\E m \in ms : m.id \in Contexts) -> "mark_authentication_failed"
          [] OTHER -> "purchase_not_found"
  BY DEF Verdict
<1> HIDE DEF ms, F
<1>5. CASE found # None
  <2>1. Cardinality(F) = 1
    BY <1>1, <1>5, FS_Singleton
  <2>2. F # {} /\ Genuine(ms) # {}
    BY <1>1, <1>3, <1>5
  <2> QED BY <1>4, <1>5, <2>1, <2>2
<1>6. CASE found = None
  <2>1. F = {} /\ Cardinality(F) = 0
    BY <1>1, <1>6, FS_EmptySet
  <2>2. CASE other
    <3>1. Genuine(ms) # {}
      BY <1>1, <2>2
    <3> QED BY <1>4, <1>6, <2>1, <2>2, <3>1
  <2>3. CASE ~other
    <3>1. Genuine(ms) = {}
      BY <1>1, <1>2, <2>1, <2>3
    <3>2. Verdict(text) = IF \E m \in ms : m.id \in Contexts THEN "mark_authentication_failed" ELSE "purchase_not_found"
      BY <1>4, <2>1, <3>1
    <3> QED BY <1>1, <1>6, <2>3, <3>2
  <2> QED BY <2>2, <2>3
<1> QED BY <1>5, <1>6

\* A mark is passed over.
LEMMA UnresolvedStep ==
  ASSUME IInv, TypeOK', Unresolved
  PROVE  Unjudged' /\ Judging' /\ NamedFits' /\ VerdictExact'
<1> DEFINE m == Head(marks)
<1>1. /\ pc = "judge" /\ pc' = "judge" /\ marks # <<>> /\ marks' = Tail(marks)
      /\ leak' = leak /\ matched' = matched /\ resolved' = resolved /\ mismatched' = mismatched /\ answer' = answer
      /\ \/ m.id \notin Contexts /\ error' = "purchase_not_found" /\ broken' = broken
         \/ broken' = TRUE
  BY DEF Unresolved, copy
<1>2. leak \in Seq(CodePoints) /\ marks \in Seq(Marks) /\ answer = "none"
  BY <1>1 DEF IInv, TypeOK, Unjudged
<1>3. /\ ReadMarks(leak).failed = "none"
      /\ Rest(leak, marks)
      /\ FoundFits(leak, Looked(leak, marks), matched)
      /\ ~broken => Recorded(leak, Looked(leak, marks), matched, resolved, mismatched, error)
  BY <1>1 DEF IInv, Judging
<1>4. Rest(leak, Tail(marks)) /\ Looked(leak, Tail(marks)) = Looked(leak, marks) \cup {m}
  BY <1>1, <1>2, <1>3, LookedStep
<1> HIDE DEF m
<1>5. FoundFits(leak, Looked(leak, Tail(marks)), matched)
  <2>1. FittingOn(leak, Looked(leak, marks)) \subseteq FittingOn(leak, Looked(leak, Tail(marks)))
    BY <1>4, FittingGrows
  <2> QED BY <1>3, <2>1 DEF FoundFits
<1>6. ASSUME ~broken'
      PROVE  Recorded(leak, Looked(leak, Tail(marks)), matched, resolved, mismatched, error')
  <2>1. m.id \notin Contexts /\ error' = "purchase_not_found" /\ ~broken
    BY <1>1, <1>6
  <2> QED BY <1>3, <1>4, <2>1, RecordUnresolved
<1>7. Judging'
  BY <1>1, <1>3, <1>4, <1>5, <1>6 DEF Judging
<1> QED BY <1>1, <1>2, <1>7 DEF Unjudged, NamedFits, VerdictExact

\* A mark is judged.
LEMMA JudgeStep ==
  ASSUME IInv, TypeOK', Judge
  PROVE  Unjudged' /\ Judging' /\ NamedFits' /\ VerdictExact'
<1> DEFINE m == Head(marks)
           same == CanonicalForm(leak) = Text(PubOf[m.id])
           looked == Looked(leak, marks)
<1>1. /\ pc = "judge" /\ marks # <<>> /\ marks' = Tail(marks) /\ m.id \in Contexts
      /\ leak' = leak /\ error' = error /\ broken' = broken /\ resolved' = TRUE
  BY DEF Judge, copy
<1>2. leak \in Seq(CodePoints) /\ marks \in Seq(Marks) /\ answer = "none"
  BY <1>1 DEF IInv, TypeOK, Unjudged
<1>3. /\ ReadMarks(leak).failed = "none"
      /\ Rest(leak, marks)
      /\ FoundFits(leak, looked, matched)
      /\ ~broken => Recorded(leak, looked, matched, resolved, mismatched, error)
  BY <1>1 DEF IInv, Judging
<1>4. /\ Rest(leak, Tail(marks)) /\ Looked(leak, Tail(marks)) = looked \cup {m}
      /\ m \notin looked /\ m \in MarksIn(leak) /\ m \in Marks /\ m.version = Version
  BY <1>1, <1>2, <1>3, LookedStep
<1>5. \/ ~VerifyMark(m) /\ pc' = pc /\ answer' = answer /\ matched' = matched /\ mismatched' = mismatched
      \/ VerifyMark(m) /\ ~same /\ mismatched' = TRUE /\ pc' = pc /\ answer' = answer /\ matched' = matched
      \/ VerifyMark(m) /\ same /\ matched # None /\ pc' = "done" /\ answer' = "mark_not_confident"
         /\ matched' = matched /\ mismatched' = mismatched
      \/ VerifyMark(m) /\ same /\ matched = None /\ matched' = m.id /\ pc' = pc /\ answer' = answer
         /\ mismatched' = mismatched
  BY DEF Judge, Answer, Second
<1>6. looked \subseteq MarksIn(leak)
  BY <1>2, LookedReturned
<1> HIDE DEF m, looked
<1>7. FittingOn(leak, looked) \subseteq FittingOn(leak, looked \cup {m})
      /\ FittingOn(leak, looked) \subseteq FittingOn(leak, MarksIn(leak))
  BY <1>6, FittingGrows
<1>8. ASSUME pc' = "judge", answer' = answer,
             FoundFits(leak, looked \cup {m}, matched'),
             ~broken => Recorded(leak, looked \cup {m}, matched', TRUE, mismatched', error)
      PROVE  Unjudged' /\ Judging' /\ NamedFits' /\ VerdictExact'
  <2>1. Judging'
    BY <1>1, <1>3, <1>4, <1>8 DEF Judging
  <2> QED BY <1>2, <1>8, <2>1 DEF Unjudged, NamedFits, VerdictExact
<1>9. matched' = matched => FoundFits(leak, looked \cup {m}, matched')
  BY <1>3, <1>7 DEF FoundFits
<1>10. CASE ~VerifyMark(m)
  <2>1. pc' = "judge" /\ answer' = answer /\ matched' = matched /\ mismatched' = mismatched
    BY <1>1, <1>5, <1>10
  <2>2. ~broken => Recorded(leak, looked \cup {m}, matched, TRUE, mismatched, error)
    BY <1>1, <1>3, <1>10, RecordWrong
  <2> QED BY <1>8, <1>9, <2>1, <2>2
<1>11. CASE VerifyMark(m) /\ ~same
  <2>1. pc' = "judge" /\ answer' = answer /\ matched' = matched /\ mismatched' = TRUE
    BY <1>1, <1>5, <1>11
  <2>2. ~broken => Recorded(leak, looked \cup {m}, matched, TRUE, TRUE, error)
    BY <1>1, <1>3, <1>11, RecordMismatch
  <2> QED BY <1>8, <1>9, <2>1, <2>2
<1>12. CASE VerifyMark(m) /\ same /\ matched = None
  <2>1. pc' = "judge" /\ answer' = answer /\ matched' = m.id /\ mismatched' = mismatched
    BY <1>1, <1>5, <1>12
  <2>2. ~broken => Recorded(leak, looked \cup {m}, m.id, TRUE, mismatched, error)
    BY <1>1, <1>3, <1>4, <1>12, RecordMatch
  <2>3. m \in FittingOn(leak, looked \cup {m}) /\ m = MarkOf(m.id)
    BY <1>1, <1>4, <1>12, GenuineIsMarkOf DEF FittingOn, Genuine
  <2>4. FoundFits(leak, looked \cup {m}, matched')
    BY <1>1, <2>1, <2>3 DEF FoundFits
  <2> QED BY <1>8, <2>1, <2>2, <2>4
<1>13. CASE VerifyMark(m) /\ same /\ matched # None
  <2>1. pc' = "done" /\ answer' = "mark_not_confident" /\ matched' = matched
    BY <1>5, <1>13
  <2>2. MarkOf(matched) \in FittingOn(leak, looked)
    BY <1>3, <1>13 DEF FoundFits
  <2>3. MarkOf(matched) \in looked
    BY <2>2 DEF FittingOn, Genuine
  <2>4. MarkOf(matched) # m
    BY <1>4, <2>3
  <2>5. m \in FittingOn(leak, MarksIn(leak)) /\ MarkOf(matched) \in FittingOn(leak, MarksIn(leak))
    BY <1>1, <1>4, <1>7, <1>13, <2>2 DEF FittingOn, Genuine
  <2>6. Verdict(leak) = "mark_not_confident"
    BY <1>2, <1>3, <2>4, <2>5, VerdictTwo
  <2>7. VerdictExact'
    BY <1>1, <1>2, <2>1, <2>6, VerdictWillBe
  <2> QED BY <2>1, <2>7 DEF Unjudged, Judging, NamedFits
<1> QED BY <1>10, <1>11, <1>12, <1>13

\* The marks have been read.
LEMMA AttributeStep ==
  ASSUME IInv, TypeOK', Attribute
  PROVE  Unjudged' /\ Judging' /\ NamedFits' /\ VerdictExact'
<1>1. /\ pc = "delivered" /\ leak' = leak /\ matched' = matched /\ resolved' = resolved
      /\ mismatched' = mismatched /\ error' = error /\ broken' = broken
  BY DEF Attribute, copy
<1>2. leak \in Seq(CodePoints) /\ matched = None /\ ~resolved /\ ~mismatched /\ ~broken
      /\ error = "purchase_not_found" /\ answer = "none" /\ resolved \in BOOLEAN /\ mismatched \in BOOLEAN
  BY <1>1 DEF IInv, TypeOK, Unjudged
<1>3. CASE ReadMarks(leak).failed # "none"
  <2>1. pc' = "done" /\ answer' = ReadMarks(leak).failed
    BY <1>3 DEF Attribute, Answer
  <2>2. answer' # "attributed"
    <3>1. ReadMarks(leak).failed \in (Errors \cup {"none"})
      BY <1>2, ReadMarksFacts DEF ReadRight
    <3> QED BY <2>1, <3>1 DEF Errors
  <2>3. Verdict(leak) = ReadMarks(leak).failed
    BY <1>3 DEF Verdict
  <2>4. VerdictExact'
    BY <1>1, <1>2, <2>1, <2>2, <2>3, VerdictWillBe
  <2> QED BY <2>1, <2>2, <2>4 DEF Unjudged, Judging, NamedFits
<1>4. CASE ReadMarks(leak).failed = "none"
  <2>1. pc' = "judge" /\ answer' = answer /\ marks' = Returned(leak)
    BY <1>4 DEF Attribute, Returned
  <2>2. marks' \in Seq(Marks)
    BY DEF TypeOK
  <2>3. Looked(leak, marks') = {} /\ Rest(leak, marks')
    BY <1>2, <2>1, <2>2, LookedReturned
  <2>4. FoundFits(leak, {}, None)
    BY DEF FoundFits
  <2>5. Recorded(leak, {}, None, FALSE, FALSE, "purchase_not_found")
    BY DEF Recorded, FittingOn, Genuine
  <2>6. Judging'
    BY <1>1, <1>2, <1>4, <2>3, <2>4, <2>5 DEF Judging
  <2> QED BY <1>2, <2>1, <2>6 DEF Unjudged, NamedFits, VerdictExact
<1> QED BY <1>3, <1>4

\* All marks have been looked at.
LEMMA ConcludeStep ==
  ASSUME IInv, TypeOK', Conclude
  PROVE  Unjudged' /\ Judging' /\ NamedFits' /\ VerdictExact'
<1>1. /\ pc = "judge" /\ marks = <<>> /\ pc' = "done" /\ leak' = leak /\ matched' = matched /\ broken' = broken
  BY DEF Conclude, Answer, copy, judgment
<1>2. leak \in Seq(CodePoints) /\ marks \in Seq(Marks) /\ resolved \in BOOLEAN /\ mismatched \in BOOLEAN /\ error \in Errors
  BY <1>1 DEF IInv, TypeOK
<1>3. answer' = IF matched # None THEN "attributed"
                ELSE IF mismatched THEN "content_mismatch"
                ELSE IF resolved THEN "mark_authentication_failed" ELSE error
  BY <1>2 DEF Conclude, Answer
<1>4. Looked(leak, marks) = MarksIn(leak)
  BY <1>1, <1>2, LookedReturned
<1>5. /\ ReadMarks(leak).failed = "none"
      /\ FoundFits(leak, MarksIn(leak), matched)
      /\ ~broken => Recorded(leak, MarksIn(leak), matched, resolved, mismatched, error)
  BY <1>1, <1>4 DEF IInv, Judging
<1>6. ASSUME answer' = "attributed" PROVE matched \in Contexts /\ MarkOf(matched) \in FittingOn(leak, MarksIn(leak))
  <2>1. matched # None
    BY <1>2, <1>3, <1>6 DEF Errors
  <2> QED BY <1>5, <2>1 DEF FoundFits
<1>7. NamedFits'
  BY <1>1, <1>5, <1>6 DEF NamedFits
<1>8. VerdictExact'
  <2>1. ASSUME ~broken PROVE answer' = Verdict(leak)
    BY <1>2, <1>3, <1>5, <2>1, VerdictRecorded
  <2>2. \A c \in Contexts : MarkOf(c).id = c
    BY MarkOfType
  <2> QED BY <1>1, <1>2, <1>6, <2>1, <2>2, VerdictWillBe
<1> QED BY <1>1, <1>7, <1>8 DEF Unjudged, Judging

\* IInv holds at the beginning.
LEMMA InvInit == Init => IInv
<1> SUFFICES ASSUME Init PROVE IInv
  OBVIOUS
<1>1. leak \in Seq(CodePoints) /\ marks \in Seq(Marks)
  BY DEF Init
<1>2. edits \in 0 .. MaxEdits /\ whole \in Nat
  BY LimitsAssumption DEF Init
<1>3. TypeOK
  BY <1>1, <1>2 DEF Init, TypeOK, Errors
<1> QED BY <1>3 DEF Init, IInv, OnePublication, Unjudged, Judging, NamedFits, VerdictExact

\* Every step keeps IInv.
LEMMA InvStep ==
  ASSUME IInv, [Next]_vars
  PROVE  IInv'
<1>1. TypeOK' /\ OnePublication'
  BY TypeStep, OnePublicationStep DEF IInv
<1> SUFFICES Unjudged' /\ Judging' /\ NamedFits' /\ VerdictExact'
  BY <1>1 DEF IInv
<1>2. CASE Deliver \/ Lose \/ Gain \/ Splice \/ Transplant
  <2>1. /\ pc \in {"idle", "delivered"} /\ pc' = "delivered" /\ answer' = answer
        /\ matched' = matched /\ resolved' = resolved /\ mismatched' = mismatched /\ error' = error /\ broken' = broken
    BY <1>2 DEF Deliver, Lose, Gain, Splice, Transplant, Change, judgment
  <2>2. answer = "none"
    BY <2>1 DEF IInv, Unjudged
  <2> QED BY <2>1, <2>2 DEF IInv, Unjudged, Judging, NamedFits, VerdictExact
<1>3. CASE Attribute
  BY <1>1, <1>3, AttributeStep
<1>4. CASE Unresolved
  BY <1>1, <1>4, UnresolvedStep
<1>5. CASE Judge
  BY <1>1, <1>5, JudgeStep
<1>6. CASE Fail
  BY <1>6 DEF Fail, Answer, Unjudged, Judging, NamedFits, VerdictExact
<1>7. CASE Conclude
  BY <1>1, <1>7, ConcludeStep
<1>8. CASE Leave
  BY <1>8 DEF Leave, Unjudged, Judging, NamedFits, VerdictExact
<1>9. CASE UNCHANGED vars
  <2>1. leak' = leak /\ pc' = pc /\ marks' = marks /\ matched' = matched /\ resolved' = resolved
        /\ mismatched' = mismatched /\ error' = error /\ broken' = broken /\ answer' = answer
    BY <1>9 DEF vars
  <2>2. leak \in Seq(CodePoints)
    BY DEF IInv, TypeOK
  <2>3. VerdictExact'
    BY <2>1, <2>2, VerdictIs, VerdictWillBe DEF IInv
  <2> QED BY <2>1, <2>3 DEF IInv, Unjudged, Judging, NamedFits
<1> QED BY <1>2, <1>3, <1>4, <1>5, <1>6, <1>7, <1>8, <1>9 DEF Next

\* IInv is an invariant of attribute: what the loop over the marks has recorded is what the
\* marks it has looked at say.
THEOREM AttributionInvariance == Spec => []IInv
<1>1. IInv /\ [Next]_vars => IInv'
  BY InvStep
<1> QED BY <1>1, InvInit, PTL DEF Spec

\* The variables of attribute keep their types: the leaked text stays a sequence of code
\* points whatever is lost, gained or put together, and what is read from it are marks.
THEOREM WatermarkTypeCorrect == Spec => []TypeOK
<1>1. IInv => TypeOK
  BY DEF IInv
<1> QED BY <1>1, AttributionInvariance, PTL

\* The answer of attribute is determined by the set of marks read, for every text, every
\* number of marks and every table size: the order in which the loop meets them does not
\* matter.
THEOREM VerdictExactCorrect == Spec => []VerdictExact
<1>1. IInv => VerdictExact
  BY DEF IInv
<1> QED BY <1>1, AttributionInvariance, PTL

--------------------------------------------------------------------------------
(***************************************************************************)
(* Who is named.                                                           *)
(***************************************************************************)
\* A mark that fits is that of a context whose publication the text is of, and occurs often.
LEMMA FittingFacts ==
  ASSUME NEW text \in Seq(CodePoints), ReadMarks(text).failed = "none",
         NEW m \in FittingOn(text, MarksIn(text))
  PROVE  /\ m.id \in Contexts /\ m = MarkOf(m.id)
         /\ CanonicalForm(text) = Text(PubOf[m.id])
         /\ Often(text, m.id)
<1>1. m \in MarksIn(text) /\ m.id \in Contexts /\ VerifyMark(m) /\ CanonicalForm(text) = Text(PubOf[m.id])
  BY DEF FittingOn, Genuine
<1>2. PICK i \in 1 .. Len(Returned(text)) : m = Returned(text)[i]
  BY <1>1 DEF MarksIn
<1>3. m \in Marks /\ m.version = Version
  BY <1>2, ReturnedFacts
<1>4. m = MarkOf(m.id)
  BY <1>1, <1>3, GenuineIsMarkOf
<1>5. Often(text, m.id)
  BY <1>1, <1>2, <1>4, ReadMarksFacts DEF ReadRight, Returned
<1> QED BY <1>1, <1>4, <1>5

\* The mark of a context that occurs often is read, unless too many others are about.
LEMMA OftenIsRead ==
  ASSUME NEW text \in Seq(CodePoints), ~LegacyLooking(text), NEW c \in Contexts, Often(text, c), ~Crowded(text, c)
  PROVE  /\ ReadMarks(text).failed = "none"
         /\ MarkOf(c) \in Genuine(MarksIn(text))
         /\ CanonicalForm(text) = Text(PubOf[c]) => MarkOf(c) \in FittingOn(text, MarksIn(text))
<1>1. PICK i \in 1 .. Len(Returned(text)) : Returned(text)[i] = MarkOf(c)
  BY ReadMarksFacts DEF ReadRight, Returned
<1>2. Returned(text) # <<>>
  <2>1. Len(Returned(text)) \in Nat
    BY ReturnedFacts
  <2>2. Len(Returned(text)) # 0
    BY <1>1, <2>1
  <2> QED BY <2>2
<1>3. ReadMarks(text).failed = "none"
  BY <1>2, ReadMarksFacts DEF ReadRight, Returned
<1>4. MarkOf(c) \in MarksIn(text)
  BY <1>1 DEF MarksIn
<1>5. MarkOf(c).id = c /\ VerifyMark(MarkOf(c))
  BY MarkOfType DEF VerifyMark
<1> QED BY <1>3, <1>4, <1>5 DEF Genuine, FittingOn

\* The text of a publication by the reference definition.
LEMMA TextIsBare ==
  ASSUME NEW c \in Contexts
  PROVE  Text(PubOf[c]) = Bare(Draft[PubOf[c]])
<1>1. Draft[PubOf[c]] \in Seq(CodePoints)
  BY CopyForType, DraftAssumption
<1> QED BY <1>1, CanonicalFormIsBare DEF Text

\* Who is named has a mark on the text often enough, and the text is the publication's.
NamedOnEvidence ==
  answer = "attributed" =>
    /\ matched \in Contexts
    /\ Bare(leak) = Bare(Draft[PubOf[matched]])
    /\ Often(leak, matched)

\* The loop names only on evidence.
LEMMA Evidence ==
  ASSUME IInv
  PROVE  NamedOnEvidence
<1> SUFFICES ASSUME answer = "attributed"
             PROVE  /\ matched \in Contexts
                    /\ Bare(leak) = Bare(Draft[PubOf[matched]])
                    /\ Often(leak, matched)
  BY DEF NamedOnEvidence
<1>1. leak \in Seq(CodePoints)
  BY DEF IInv, TypeOK
<1>2. ReadMarks(leak).failed = "none" /\ matched \in Contexts /\ MarkOf(matched) \in FittingOn(leak, MarksIn(leak))
  BY DEF IInv, NamedFits
<1>3. MarkOf(matched).id = matched
  BY <1>2, MarkOfType
<1>4. CanonicalForm(leak) = Text(PubOf[matched]) /\ Often(leak, matched)
  BY <1>1, <1>2, <1>3, FittingFacts
<1> QED BY <1>1, <1>2, <1>4, CanonicalFormIsBare, TextIsBare

\* attribute names nobody unless the text is the publication's and carries the mark of the
\* one named often enough: even if records cannot be read, and whatever the codes are.
THEOREM NamedOnEvidenceCorrect == Spec => []NamedOnEvidence
<1>1. IInv => NamedOnEvidence
  BY Evidence
<1> QED BY <1>1, AttributionInvariance, PTL

\* As long as no code is forged, who is named is one whose copy the leaked text was made
\* from, and with the marks of two of them neither is named.
THEOREM NeverFramedCorrect == Spec => [](Unforged => NeverFramed)
<1>1. ASSUME IInv, Unforged PROVE NeverFramed
  <2> SUFFICES ASSUME answer = "attributed"
               PROVE  /\ matched \in sources
                      /\ Bare(leak) = Bare(Draft[PubOf[matched]])
                      /\ Often(leak, matched)
                      /\ ~broken => \A c \in sources \ {matched} : Often(leak, c) => Crowded(leak, c)
    BY DEF NeverFramed
  <2> DEFINE F == FittingOn(leak, MarksIn(leak))
  <2>1. leak \in Seq(CodePoints) /\ sources \subseteq Contexts
    BY <1>1 DEF IInv, TypeOK
  <2>2. ReadMarks(leak).failed = "none" /\ matched \in Contexts /\ MarkOf(matched) \in F
    BY <1>1 DEF IInv, NamedFits
  <2> HIDE DEF F
  <2>3. MarkOf(matched).id = matched
    BY <2>2, MarkOfType
  <2>4. Bare(leak) = Bare(Draft[PubOf[matched]]) /\ Often(leak, matched)
    BY <1>1, Evidence DEF NamedOnEvidence
  <2>5. CanonicalForm(leak) = Text(PubOf[matched])
    BY <2>1, <2>2, <2>4, CanonicalFormIsBare, TextIsBare
  <2>6. matched \in sources
    BY <1>1, <2>2, <2>5, <2>4 DEF Unforged
  <2>7. ASSUME ~broken, NEW c \in sources \ {matched}, Often(leak, c), ~Crowded(leak, c) PROVE FALSE
    <3>1. PubOf[c] = PubOf[matched] /\ c \in Contexts
      BY <1>1, <2>1, <2>6 DEF IInv, OnePublication
    <3>2. ~LegacyLooking(leak)
      BY <2>1, <2>2, ReadMarksFacts DEF ReadRight
    <3>3. MarkOf(c) \in F
      BY <2>1, <2>5, <2>7, <3>1, <3>2, OftenIsRead DEF F
    <3>4. MarkOf(c) # MarkOf(matched)
      BY <2>3, <3>1, MarkOfType
    <3>5. Verdict(leak) = "mark_not_confident"
      BY <2>1, <2>2, <3>3, <3>4, VerdictTwo DEF F
    <3>6. pc = "done"
      BY <1>1 DEF IInv, Unjudged
    <3>7. answer = Verdict(leak)
      BY <1>1, <2>1, <2>7, <3>6, VerdictIs DEF IInv
    <3> QED BY <3>5, <3>7
  <2> QED BY <2>6, <2>4, <2>7
<1>2. IInv => (Unforged => NeverFramed)
  BY <1>1
<1> QED BY <1>2, AttributionInvariance, PTL

\* A copy with enough marks left is traced to its context, or found to have been changed, as
\* long as no code is forged and a change costs no more than a mark.
LEMMA SurvivorIsTraced ==
  ASSUME IInv, Unforged, MarksSurvive
  PROVE  CopyTraced
<1> SUFFICES ASSUME NEW c \in Contexts, pc = "done", sources = {c}, ~broken, whole - edits >= Threshold,
                    ~LegacyLooking(leak), ~Crowded(leak, c)
             PROVE  IF Bare(leak) = Bare(Draft[PubOf[c]]) THEN answer = "attributed" /\ matched = c
                                                          ELSE answer = "content_mismatch"
  BY DEF CopyTraced
<1> DEFINE ms == MarksIn(leak)
           F == FittingOn(leak, ms)
<1>1. leak \in Seq(CodePoints) /\ whole \in Nat /\ edits \in Nat
  BY LimitsAssumption DEF IInv, TypeOK
<1>2. Often(leak, c)
  <2>1. Carried(leak, c) >= whole - edits
    BY DEF MarksSurvive
  <2>2. Carried(leak, c) \in Nat
    <3> DEFINE ws == Windows(leak)
               K == {k \in DOMAIN ws : DecodeMark(ws[k]) = MarkOf(c)}
    <3>1. ws \in Seq(Bits(BitCount))
      BY <1>1, WindowsType
    <3>2. K \subseteq DOMAIN ws
      OBVIOUS
    <3>3. Carried(leak, c) = Cardinality(K)
      BY DEF Carried
    <3> HIDE DEF ws, K
    <3>4. DOMAIN ws = 1 .. Len(ws) /\ Len(ws) \in Nat
      BY <3>1
    <3>5. IsFiniteSet(DOMAIN ws)
      BY <3>4, FS_Interval
    <3>6. IsFiniteSet(K)
      BY <3>2, <3>5, FS_Subset
    <3> QED BY <3>3, <3>6, FS_CardinalityType
  <2>3. Threshold \in Nat
    BY LimitsAssumption
  <2> QED BY <1>1, <2>1, <2>2, <2>3 DEF Often
<1>3. ReadMarks(leak).failed = "none" /\ MarkOf(c) \in Genuine(ms)
      /\ (CanonicalForm(leak) = Text(PubOf[c]) => MarkOf(c) \in F)
  BY <1>1, <1>2, OftenIsRead
<1>4. \A m \in F : m = MarkOf(c) /\ CanonicalForm(leak) = Text(PubOf[c])
  <2> SUFFICES ASSUME NEW m \in F PROVE m = MarkOf(c) /\ CanonicalForm(leak) = Text(PubOf[c])
    OBVIOUS
  <2>1. m.id \in Contexts /\ m = MarkOf(m.id) /\ CanonicalForm(leak) = Text(PubOf[m.id]) /\ Often(leak, m.id)
    BY <1>1, <1>3, FittingFacts
  <2>2. m.id = c
    BY <2>1 DEF Unforged
  <2> QED BY <2>1, <2>2
<1>5. answer = Verdict(leak) /\ (answer = "attributed" => \E m \in F : m.id = matched)
  BY <1>1, VerdictIs DEF IInv
<1>6. Verdict(leak) = CASE Cardinality(F) > 1 -> "mark_not_confident"
                        [] Cardinality(F) = 1 -> "attributed"
                        [] F = {} /\ Genuine(ms) # {} -> "content_mismatch"
                        [] Genuine(ms) = {} /\ (\E m \in ms : m.id \in Contexts) -> "mark_authentication_failed"
                        [] OTHER -> "purchase_not_found"
  BY <1>3 DEF Verdict
<1>7. Bare(leak) = CanonicalForm(leak) /\ Bare(Draft[PubOf[c]]) = Text(PubOf[c])
  BY <1>1, CanonicalFormIsBare, TextIsBare
<1> HIDE DEF ms, F
<1>8. CASE CanonicalForm(leak) = Text(PubOf[c])
  <2>1. F = {MarkOf(c)}
    BY <1>3, <1>4, <1>8
  <2>2. Cardinality(F) = 1 /\ F # {}
    BY <2>1, FS_Singleton
  <2>3. answer = "attributed"
    BY <1>3, <1>5, <1>6, <2>2
  <2>4. matched = c
    BY <1>5, <2>1, <2>3, MarkOfType
  <2> QED BY <1>7, <1>8, <2>3, <2>4
<1>9. CASE CanonicalForm(leak) # Text(PubOf[c])
  <2>1. F = {} /\ Cardinality(F) = 0
    BY <1>4, <1>9, FS_EmptySet
  <2>2. answer = "content_mismatch"
    BY <1>3, <1>5, <1>6, <2>1
  <2> QED BY <1>7, <1>9, <2>2
<1> QED BY <1>8, <1>9

--------------------------------------------------------------------------------
(***************************************************************************)
(* The codec: a mark that is read back is the mark that was written.       *)
(***************************************************************************)
\* f holds the number after each shift by one.
Shifts(f, value, k) ==
  /\ f \in [0 .. k -> Nat]
  /\ f[0] = value
  /\ \A n \in 1 .. k : f[n] = f[n - 1] \div 2
  /\ Shifted(value, k) = f[k]

\* Shifted satisfies its equation.
LEMMA ShiftedFunction ==
  ASSUME NEW value \in Nat, NEW k \in Nat
  PROVE  \E f : Shifts(f, value, k)
<1> DEFINE N == k
           V == Nat
           base == value
           Step(p, n) == p \div 2
           Equation(f) == f = [n \in 0 .. N |-> IF n = 0 THEN base ELSE Step(f[n - 1], n)]
           shifted == CHOOSE f : Equation(f)
<1>1. N \in Nat /\ base \in V /\ \A p \in V, n \in 1 .. N : Step(p, n) \in V
  OBVIOUS
<1>2. Shifted(value, k) = shifted[N]
  BY DEF Shifted
<1> HIDE DEF N, V, base, Step
<1>3. \E f : Equation(f)
  <2> DEFINE step == [n \in 1 .. N |-> [p \in V |-> Step(p, n)]]
  <2>1. N \in Nat /\ base \in V /\ step \in [1 .. N -> [V -> V]]
    BY <1>1
  <2>2. \A p \in V, n \in 1 .. N : step[n][p] = Step(p, n)
    OBVIOUS
  <2> HIDE DEF step
  <2>3. PICK f : Computes(f, N, V, base, step)
    BY <2>1, Recursion
  <2>4. f \in [0 .. N -> V] /\ f[0] = base /\ \A n \in 1 .. N : f[n] = step[n][f[n - 1]]
    BY <2>3 DEF Computes
  <2>5. ASSUME NEW n \in 1 .. N PROVE f[n] = Step(f[n - 1], n)
    <3>1. n - 1 \in 0 .. N
      BY <2>1
    <3>2. f[n - 1] \in V
      BY <2>4, <3>1
    <3> QED BY <2>2, <2>4, <3>2
  <2>6. Equation(f)
    BY <2>1, <2>4, <2>5
  <2> QED BY <2>6
<1>4. Equation(shifted)
  <2> HIDE DEF Equation
  <2> QED BY <1>3
<1> HIDE DEF shifted
<1>5. shifted[0] = base /\ \A n \in 1 .. N : shifted[n] = Step(shifted[n - 1], n)
  BY <1>1, <1>4
<1>6. \A n \in 0 .. N : shifted[n] \in V
  <2> DEFINE T == {n \in 0 .. N : shifted[n] \in V}
  <2>1. 0 \in T
    BY <1>1, <1>5
  <2>2. \A n \in 1 .. N : n - 1 \in T => n \in T
    BY <1>1, <1>5
  <2> HIDE DEF T
  <2>3. \A n \in 0 .. N : n \in T
    BY <1>1, <2>1, <2>2, Induction
  <2> QED BY <2>3 DEF T
<1>7. shifted \in [0 .. N -> V]
  BY <1>4, <1>6
<1> QED BY <1>2, <1>5, <1>7 DEF N, V, base, Step, Shifts

\* A shift by one bit more is a shift by one.
LEMMA ShiftedFacts ==
  ASSUME NEW value \in Nat, NEW k \in Nat
  PROVE  /\ Shifted(value, k) \in Nat
         /\ Shifted(value, 0) = value
         /\ Shifted(value, k + 1) = Shifted(value, k) \div 2
<1>1. PICK f : Shifts(f, value, k)
  BY ShiftedFunction
<1>2. PICK g : Shifts(g, value, k + 1)
  BY ShiftedFunction
<1>3. PICK h : Shifts(h, value, 0)
  BY ShiftedFunction
<1>4. /\ f \in [0 .. k -> Nat] /\ f[0] = value /\ (\A n \in 1 .. k : f[n] = f[n - 1] \div 2)
      /\ Shifted(value, k) = f[k]
  BY <1>1 DEF Shifts
<1>5. /\ g[0] = value /\ (\A n \in 1 .. k + 1 : g[n] = g[n - 1] \div 2)
      /\ Shifted(value, k + 1) = g[k + 1]
  BY <1>2 DEF Shifts
<1>6. Shifted(value, 0) = value
  BY <1>3 DEF Shifts
<1> DEFINE T == {n \in 0 .. k : f[n] = g[n]}
<1>7. 0 \in T
  BY <1>4, <1>5
<1>8. \A n \in 1 .. k : n - 1 \in T => n \in T
  BY <1>4, <1>5
<1>9. f[k] = g[k]
  <2> HIDE DEF T
  <2>1. \A n \in 0 .. k : n \in T
    BY <1>7, <1>8, Induction
  <2> QED BY <2>1 DEF T
<1>10. g[k + 1] = g[k] \div 2
  BY <1>5
<1> QED BY <1>4, <1>5, <1>6, <1>9, <1>10

\* A number from its half and its last bit.
LEMMA Halves ==
  ASSUME NEW x \in Nat
  PROVE  x % 2 = x - 2 * (x \div 2) /\ x % 2 \in {0, 1} /\ x \div 2 \in Nat
OBVIOUS

\* read_bits undoes write_bits for a number that fits in the width.
LEMMA ReadWritten ==
  ASSUME NEW v \in Nat, NEW w \in Nat, Shifted(v, w) = 0
  PROVE  WriteBits(v, w) \in Bits(w) /\ ReadBits(WriteBits(v, w)) = v
<1> DEFINE b == WriteBits(v, w)
<1>1. \A k \in Nat : Shifted(v, k) \in Nat /\ Shifted(v, 0) = v /\ Shifted(v, k + 1) = Shifted(v, k) \div 2
  BY ShiftedFacts
<1>2. \A i \in 1 .. w : w - i \in Nat /\ b[i] = Shifted(v, w - i) % 2
  BY DEF WriteBits
<1>3. \A i \in 1 .. w : b[i] \in {0, 1} /\ b[i] \in Nat
  BY <1>1, <1>2, Halves
<1>4. b \in Bits(w) /\ b \in Seq(Nat) /\ Len(b) = w
  <2>1. b = [i \in 1 .. w |-> Shifted(v, w - i) % 2]
    BY DEF WriteBits
  <2> HIDE DEF b
  <2> QED BY <1>3, <2>1 DEF Bits
<1> HIDE DEF b
<1>5. PICK f : Reads(f, b)
  BY <1>4, ReadBitsFunction
<1>6. f[0] = 0 /\ (\A n \in 1 .. w : f[n] = 2 * f[n - 1] + b[n]) /\ ReadBits(b) = f[w]
  BY <1>4, <1>5 DEF Reads
<1> DEFINE T == {n \in 0 .. w : f[n] = Shifted(v, w - n)}
<1>7. 0 \in T
  BY <1>6
<1>8. ASSUME NEW n \in 1 .. w, n - 1 \in T PROVE n \in T
  <2> DEFINE x == Shifted(v, w - n)
  <2>1. f[n - 1] = Shifted(v, w - (n - 1)) /\ w - (n - 1) = (w - n) + 1 /\ w - n \in Nat
    BY <1>8
  <2>2. x \in Nat /\ f[n - 1] = x \div 2
    BY <1>1, <2>1
  <2>3. b[n] = x % 2
    BY <1>2
  <2> HIDE DEF x
  <2> DEFINE h == x \div 2
             r == x % 2
  <2>4. r = x - 2 * h /\ h \in Nat
    BY <2>2, Halves
  <2>6. f[n - 1] = h /\ b[n] = r
    BY <2>2, <2>3
  <2> HIDE DEF h, r
  <2>5. f[n] = x
    <3>1. f[n] = 2 * f[n - 1] + b[n]
      BY <1>6
    <3> QED BY <2>2, <2>4, <2>6, <3>1
  <2> QED BY <2>5 DEF x
<1>9. f[w] = Shifted(v, 0)
  <2> HIDE DEF T
  <2>1. \A n \in 0 .. w : n \in T
    BY <1>7, <1>8, Induction
  <2>2. w \in T
    BY <2>1
  <2>3. w - w = 0
    OBVIOUS
  <2> QED BY <2>2, <2>3 DEF T
<1> QED BY <1>1, <1>4, <1>6, <1>9 DEF b

\* The version fits its field.
LEMMA VersionFits == Shifted(Version, VersionBits) = 0
<1>1. \A k \in Nat : Shifted(2, 0) = 2 /\ Shifted(2, k + 1) = Shifted(2, k) \div 2
  BY ShiftedFacts
<1>2. Shifted(2, 1) = 1
  <2>1. Shifted(2, 0 + 1) = Shifted(2, 0) \div 2
    BY <1>1
  <2> QED BY <1>1, <2>1
<1>3. Shifted(2, 2) = 0
  <2>1. Shifted(2, 1 + 1) = Shifted(2, 1) \div 2
    BY <1>1
  <2> QED BY <1>2, <2>1
<1> DEFINE T == {n \in Nat : Shifted(2, n + 2) = 0}
<1>4. 0 \in T
  BY <1>3
<1>5. ASSUME NEW N \in Nat, NEW n \in 1 .. N, n - 1 \in T PROVE n \in T
  <2>1. Shifted(2, (n - 1) + 2) = 0 /\ (n - 1) + 2 \in Nat /\ ((n - 1) + 2) + 1 = n + 2
    BY <1>5
  <2>2. Shifted(2, n + 2) = 0 \div 2
    BY <1>1, <2>1
  <2> QED BY <2>2
<1> DEFINE N == VersionBits - 2
<1>6. N \in Nat /\ N + 2 = VersionBits
  BY BitCountFacts
<1> HIDE DEF N
<1>7. N \in T
  <2> HIDE DEF T
  <2>1. \A n \in 0 .. N : n \in T
    BY <1>4, <1>5, <1>6, Induction
  <2> QED BY <1>6, <2>1
<1> QED BY <1>6, <1>7 DEF Version

\* A part of a sequence is known by its elements.
LEMMA SubSeqIs ==
  ASSUME NEW D, NEW e \in Seq(D), NEW s \in Seq(D), NEW k \in Nat, k + Len(s) <= Len(e),
         \A i \in 1 .. Len(s) : e[k + i] = s[i]
  PROVE  SubSeq(e, k + 1, k + Len(s)) = s
<1> DEFINE m == k + 1
           n == k + Len(s)
           p == SubSeq(e, m, n)
<1>1. m \in Int /\ n \in Int /\ Len(s) \in Nat /\ Len(e) \in Nat
  OBVIOUS
<1>2. \A i \in m .. n : e[i] \in D
  BY <1>1
<1> HIDE DEF m, n
<1>3. /\ p \in Seq(D)
      /\ Len(p) = IF m <= n THEN n - m + 1 ELSE 0
      /\ \A i \in 1 .. n - m + 1 : p[i] = e[m + i - 1]
  BY <1>1, <1>2, SubSeqProperties
<1> HIDE DEF p
<1>4. Len(p) = Len(s) /\ n - m + 1 = Len(s)
  BY <1>1, <1>3 DEF m, n
<1>5. \A i \in 1 .. Len(s) : m + i - 1 = k + i
  BY <1>1 DEF m
<1>6. \A i \in 1 .. Len(s) : p[i] = s[i]
  BY <1>3, <1>4, <1>5
<1>7. p = s
  BY <1>3, <1>4, <1>6
<1> QED BY <1>7 DEF p, m, n

\* Bits are a sequence.
LEMMA BitsAreSeq ==
  ASSUME NEW n \in Nat
  PROVE  \A b : b \in Bits(n) <=> b \in Seq({0, 1}) /\ Len(b) = n
<1> SUFFICES ASSUME NEW b PROVE b \in Bits(n) <=> b \in Seq({0, 1}) /\ Len(b) = n
  OBVIOUS
<1> DEFINE D == {0, 1}
<1> HIDE DEF D
<1>1. b \in [1 .. n -> D] <=> b \in Seq(D) /\ Len(b) = n
  OBVIOUS
<1> QED BY <1>1 DEF Bits, D

\* e consists of three parts.
Parts(e, a, A, b, B, c, C) ==
  /\ e \in Bits(A + B + C)
  /\ SubSeq(e, 1, A) = a
  /\ SubSeq(e, A + 1, A + B) = b
  /\ SubSeq(e, A + B + 1, A + B + C) = c

\* The parts are found where they were put.
LEMMA CutOut ==
  ASSUME NEW A \in Nat, NEW B \in Nat, NEW C \in Nat,
         NEW a \in Bits(A), NEW b \in Bits(B), NEW c \in Bits(C)
  PROVE  Parts(a \o b \o c, a, A, b, B, c, C)
<1> DEFINE D == {0, 1}
           ab == a \o b
           e == ab \o c
<1>1. a \in Seq(D) /\ Len(a) = A /\ b \in Seq(D) /\ Len(b) = B /\ c \in Seq(D) /\ Len(c) = C
  BY BitsAreSeq
<1>2. \A x : x \in Bits(A + B + C) <=> x \in Seq(D) /\ Len(x) = A + B + C
  BY BitsAreSeq
<1> HIDE DEF D
<1>3. /\ ab \in Seq(D) /\ Len(ab) = A + B
      /\ \A i \in 1 .. A : ab[i] = a[i]
      /\ \A i \in 1 .. B : ab[A + i] = b[i]
  BY <1>1
<1> HIDE DEF ab
<1>4. /\ e \in Seq(D) /\ Len(e) = A + B + C
      /\ \A i \in 1 .. A + B : e[i] = ab[i]
      /\ \A i \in 1 .. C : e[A + B + i] = c[i]
  <2> DEFINE N == A + B
  <2>1. N \in Nat /\ ab \in Seq(D) /\ Len(ab) = N /\ c \in Seq(D) /\ Len(c) = C
    BY <1>1, <1>3
  <2> HIDE DEF N
  <2>2. e \in Seq(D) /\ Len(e) = N + C
        /\ (\A i \in 1 .. N : e[i] = ab[i]) /\ \A i \in 1 .. C : e[N + i] = c[i]
    BY <2>1
  <2> QED BY <2>2 DEF N
<1>5. e \in Bits(A + B + C)
  BY <1>2, <1>4
<1> HIDE DEF e
<1>6. SubSeq(e, 1, A) = a
  <2>1. \A i \in 1 .. A : e[0 + i] = a[i]
    BY <1>3, <1>4
  <2>2. SubSeq(e, 0 + 1, 0 + A) = a
    BY <1>1, <1>4, <2>1, SubSeqIs
  <2> QED BY <2>2
<1>7. SubSeq(e, A + 1, A + B) = b
  <2>1. \A i \in 1 .. B : e[A + i] = b[i]
    BY <1>3, <1>4
  <2> QED BY <1>1, <1>4, <2>1, SubSeqIs
<1>8. SubSeq(e, A + B + 1, A + B + C) = c
  <2> DEFINE k == A + B
  <2>1. k \in Nat /\ k + C <= Len(e) /\ \A i \in 1 .. C : e[k + i] = c[i]
    BY <1>4
  <2> HIDE DEF k
  <2>2. SubSeq(e, k + 1, k + C) = c
    BY <1>1, <1>4, <2>1, SubSeqIs
  <2> QED BY <2>2 DEF k
<1> QED BY <1>5, <1>6, <1>7, <1>8 DEF e, ab, Parts

\* The mark of a context is read back from its bits, whatever the widths of the fields.
THEOREM DecodeEncode ==
  ASSUME NEW c \in Contexts
  PROVE  /\ EncodeMark(MarkOf(c)) \in Bits(BitCount)
         /\ DecodeMark(EncodeMark(MarkOf(c))) = MarkOf(c)
<1> DEFINE v == WriteBits(Version, VersionBits)
           i == WriteBits(c, IdBits)
           k == WriteBits(Code[c], CodeBits)
<1>1. c \in Nat /\ Code[c] \in Nat /\ Shifted(c, IdBits) = 0 /\ Shifted(Code[c], CodeBits) = 0
  BY ContextsAssumption
<1>2. v \in Bits(VersionBits) /\ ReadBits(v) = Version
  BY BitCountFacts, VersionFits, ReadWritten DEF Version
<1>3. i \in Bits(IdBits) /\ ReadBits(i) = c
  BY <1>1, BitCountFacts, ReadWritten
<1>4. k \in Bits(CodeBits) /\ ReadBits(k) = Code[c]
  BY <1>1, BitCountFacts, ReadWritten
<1>5. EncodeMark(MarkOf(c)) = v \o i \o k
  BY DEF EncodeMark, MarkOf
<1> HIDE DEF v, i, k
<1>6. /\ v \o i \o k \in Bits(BitCount)
      /\ SubSeq(v \o i \o k, 1, VersionBits) = v
      /\ SubSeq(v \o i \o k, VersionBits + 1, VersionBits + IdBits) = i
      /\ SubSeq(v \o i \o k, VersionBits + IdBits + 1, BitCount) = k
  <2>1. VersionBits \in Nat /\ IdBits \in Nat /\ CodeBits \in Nat /\ BitCount = VersionBits + IdBits + CodeBits
    BY BitCountFacts
  <2>2. Parts(v \o i \o k, v, VersionBits, i, IdBits, k, CodeBits)
    BY <1>2, <1>3, <1>4, <2>1, CutOut
  <2> QED BY <2>1, <2>2 DEF Parts
<1>7. DecodeMark(v \o i \o k) = [version |-> Version, id |-> c, code |-> Code[c]]
  BY <1>2, <1>3, <1>4, <1>6 DEF DecodeMark
<1> QED BY <1>5, <1>6, <1>7 DEF MarkOf

--------------------------------------------------------------------------------
(***************************************************************************)
(* The bits of a text, and what a change of the text does to them.         *)
(***************************************************************************)
\* s lists the numbers of K in increasing order.
Enumerates(s, K) ==
  /\ s \in Seq(Nat)
  /\ \A i, j \in 1 .. Len(s) : i < j => s[i] < s[j]
  /\ \A i \in 1 .. Len(s) : s[i] \in K
  /\ \A k \in K : \E i \in 1 .. Len(s) : s[i] = k

\* The parts of the definition.
LEMMA EnumeratesFacts ==
  ASSUME NEW s, NEW K, Enumerates(s, K)
  PROVE  /\ Len(s) \in Nat
         /\ \A i \in 1 .. Len(s) : s[i] \in Nat /\ s[i] \in K
         /\ \A i, j \in 1 .. Len(s) : i < j => s[i] < s[j]
         /\ \A k \in K : \E i \in 1 .. Len(s) : s[i] = k
<1>1. s \in Seq(Nat)
  BY DEF Enumerates
<1>2. Len(s) \in Nat /\ \A i \in 1 .. Len(s) : s[i] \in Nat
  BY <1>1
<1> QED BY <1>2 DEF Enumerates

\* Where two lists of the same numbers first differ, the number of the one is missing from
\* the other.
LEMMA EnumeratesAgree ==
  ASSUME NEW s, NEW t, NEW K, Enumerates(s, K), Enumerates(t, K),
         NEW i \in Nat \ {0}, i <= Len(s), i <= Len(t), \A j \in 1 .. i - 1 : s[j] = t[j]
  PROVE  s[i] <= t[i]
<1>1. /\ Len(s) \in Nat /\ Len(t) \in Nat
      /\ \A j \in 1 .. Len(s) : s[j] \in Nat
      /\ \A j \in 1 .. Len(t) : t[j] \in Nat /\ t[j] \in K
  BY EnumeratesFacts
<1>2. i \in 1 .. Len(s) /\ i \in 1 .. Len(t)
  BY <1>1
<1>3. PICK j \in 1 .. Len(s) : s[j] = t[i]
  <2>1. t[i] \in K
    BY <1>1, <1>2
  <2>2. \A k \in K : \E j \in 1 .. Len(s) : s[j] = k
    BY EnumeratesFacts
  <2> QED BY <2>1, <2>2
<1>4. CASE j < i
  <2>1. j \in 1 .. i - 1 /\ j \in 1 .. Len(t)
    BY <1>1, <1>2, <1>4
  <2>2. t[j] = t[i]
    BY <1>3, <2>1
  <2>3. t[j] < t[i]
    BY <1>2, <1>4, <2>1, EnumeratesFacts
  <2> QED BY <1>1, <1>2, <2>2, <2>3
<1>5. CASE j = i
  BY <1>1, <1>2, <1>3, <1>5
<1>6. CASE j > i
  <2>1. s[i] < s[j]
    BY <1>1, <1>2, <1>6, EnumeratesFacts
  <2> QED BY <1>1, <1>2, <1>3, <2>1
<1> QED BY <1>1, <1>2, <1>4, <1>5, <1>6

\* A list that goes on where the other ends would repeat a number.
LEMMA EnumeratesLength ==
  ASSUME NEW s, NEW t, NEW K, Enumerates(s, K), Enumerates(t, K),
         \A j \in 1 .. Len(s) : j <= Len(t) => s[j] = t[j]
  PROVE  Len(t) <= Len(s)
<1>1. /\ Len(s) \in Nat /\ Len(t) \in Nat
      /\ \A j \in 1 .. Len(t) : t[j] \in Nat /\ t[j] \in K
  BY EnumeratesFacts
<1> SUFFICES ASSUME Len(s) < Len(t) PROVE FALSE
  BY <1>1
<1> DEFINE i == Len(s) + 1
<1>2. i \in 1 .. Len(t) /\ i \in Nat
  BY <1>1
<1>3. PICK j \in 1 .. Len(s) : s[j] = t[i]
  <2>1. t[i] \in K
    BY <1>1, <1>2
  <2>2. \A k \in K : \E j \in 1 .. Len(s) : s[j] = k
    BY EnumeratesFacts
  <2> HIDE DEF i
  <2> QED BY <2>1, <2>2
<1>4. j \in 1 .. Len(t) /\ j < i /\ j <= Len(t)
  BY <1>1
<1>5. t[j] = t[i]
  BY <1>3, <1>4
<1>6. t[j] < t[i]
  BY <1>2, <1>4, EnumeratesFacts
<1> QED BY <1>1, <1>2, <1>5, <1>6

\* There is one such list.
LEMMA EnumeratesUnique ==
  ASSUME NEW s, NEW t, NEW K, Enumerates(s, K), Enumerates(t, K)
  PROVE  s = t
<1>1. Len(s) \in Nat /\ Len(t) \in Nat /\ (\A j \in 1 .. Len(s) : s[j] \in Nat) /\ \A j \in 1 .. Len(t) : t[j] \in Nat
  BY EnumeratesFacts
<1> DEFINE D == {i \in 1 .. Len(s) : i <= Len(t) /\ s[i] # t[i]}
<1>2. D = {}
  <2> SUFFICES ASSUME D # {} PROVE FALSE
    OBVIOUS
  <2>1. D \in SUBSET Nat
    BY <1>1
  <2>2. PICK i \in D : \A j \in D : i <= j
    BY <2>1, Least
  <2>3. i \in Nat \ {0} /\ i <= Len(s) /\ i <= Len(t) /\ s[i] # t[i] /\ i \in 1 .. Len(s) /\ i \in 1 .. Len(t)
    BY <1>1, <2>2
  <2>4. \A j \in 1 .. i - 1 : j \notin D /\ j \in 1 .. Len(s) /\ j <= Len(t)
    BY <1>1, <2>2, <2>3
  <2>5. \A j \in 1 .. i - 1 : s[j] = t[j] /\ t[j] = s[j]
    BY <2>4
  <2>6. s[i] <= t[i] /\ t[i] <= s[i]
    BY <2>3, <2>5, EnumeratesAgree
  <2> QED BY <1>1, <2>3, <2>6
<1>3. \A j \in 1 .. Len(s) : j <= Len(t) => s[j] = t[j]
  BY <1>2
<1>4. \A j \in 1 .. Len(t) : j <= Len(s) => t[j] = s[j]
  BY <1>1, <1>3
<1>5. Len(t) <= Len(s) /\ Len(s) <= Len(t)
  BY <1>3, <1>4, EnumeratesLength
<1>6. Len(s) = Len(t) /\ \A j \in 1 .. Len(s) : s[j] = t[j]
  BY <1>1, <1>3, <1>5
<1> QED BY <1>6 DEF Enumerates

\* The significant places of a text; the bit behind a place, and the bits of the text.
Sig(text) == {k \in 1 .. Len(text) : text[k] # "z"}
BitAt(text, p) == IF p < Len(text) /\ text[p + 1] = "z" THEN 1 ELSE 0
BitsOf(text) == [k \in 1 .. Len(Significant(text)) |-> BitAt(text, Significant(text)[k])]

\* Significant lists the significant places.
LEMMA SignificantEnumerates ==
  ASSUME NEW text \in Seq(CodePoints)
  PROVE  Enumerates(Significant(text), Sig(text))
<1> DEFINE s == Significant(text)
           N == Len(text)
<1>1. /\ s \in Seq(1 .. N)
      /\ \A i, j \in 1 .. Len(s) : i < j => s[i] < s[j]
      /\ \A i \in 1 .. Len(s) : text[s[i]] # "z"
      /\ \A k \in 1 .. N : text[k] # "z" => \E i \in 1 .. Len(s) : s[i] = k
  BY SignificantFacts
<1>2. N \in Nat
  OBVIOUS
<1> HIDE DEF s, N
<1>3. s \in Seq(Nat) /\ \A i \in 1 .. Len(s) : s[i] \in 1 .. N
  BY <1>1, <1>2
<1>4. \A k : k \in Sig(text) <=> k \in 1 .. N /\ text[k] # "z"
  BY DEF Sig, N
<1>5. Enumerates(s, Sig(text))
  BY <1>1, <1>3, <1>4 DEF Enumerates
<1> QED BY <1>5 DEF s

\* The bits of a text from any list of its significant places.
LEMMA BitsFrom ==
  ASSUME NEW text \in Seq(CodePoints), NEW t, Enumerates(t, Sig(text))
  PROVE  /\ Significant(text) = t
         /\ BitsOf(text) \in Seq({0, 1})
         /\ Len(BitsOf(text)) = Len(t)
         /\ \A k \in 1 .. Len(t) : BitsOf(text)[k] = BitAt(text, t[k])
<1>1. Significant(text) = t
  BY SignificantEnumerates, EnumeratesUnique
<1>2. Len(t) \in Nat
  BY EnumeratesFacts
<1>3. BitsOf(text) = [k \in 1 .. Len(t) |-> BitAt(text, t[k])]
  BY <1>1 DEF BitsOf
<1>4. \A k : BitAt(text, k) \in {0, 1}
  BY DEF BitAt
<1> DEFINE D == {0, 1}
<1> HIDE DEF D
<1>5. \A k : BitAt(text, k) \in D
  BY <1>4 DEF D
<1>6. BitsOf(text) \in Seq(D) /\ Len(BitsOf(text)) = Len(t) /\ \A k \in 1 .. Len(t) : BitsOf(text)[k] = BitAt(text, t[k])
  BY <1>2, <1>3, <1>5
<1> QED BY <1>1, <1>6 DEF D

\* b and d differ at most at place p; d is b without place p.
OneOff(b, d, p) == Len(d) = Len(b) /\ \A k \in 1 .. Len(b) : k # p => d[k] = b[k]
Dropped(b, d, p) ==
  /\ p \in 1 .. Len(b)
  /\ Len(d) = Len(b) - 1
  /\ \A k \in 1 .. Len(b) - 1 : d[k] = IF k < p THEN b[k] ELSE b[k + 1]

\* What is left of a text when place i is gone, and where a place has moved.
Moved(x, i) == IF x < i THEN x ELSE x - 1

Removed(u, text, i) ==
  /\ Len(u) = Len(text) - 1
  /\ \A x \in 1 .. Len(text) : x # i => Moved(x, i) \in 1 .. Len(text) - 1 /\ u[Moved(x, i)] = text[x]
  /\ \A y \in 1 .. Len(text) - 1 : \E x \in 1 .. Len(text) : x # i /\ Moved(x, i) = y

\* What RemoveAt returns.
LEMMA RemoveFacts ==
  ASSUME NEW S, NEW text \in Seq(S), NEW i \in 1 .. Len(text)
  PROVE  RemoveAt(text, i) \in Seq(S) /\ Removed(RemoveAt(text, i), text, i)
<1> DEFINE N == Len(text)
           a == SubSeq(text, 1, i - 1)
           b == SubSeq(text, i + 1, N)
           u == a \o b
<1>1. N \in Nat /\ i \in Nat /\ 1 <= i /\ i <= N /\ \A k \in 1 .. N : text[k] \in S
  OBVIOUS
<1>2. /\ a \in Seq(S) /\ Len(a) = i - 1 /\ \A k \in 1 .. i - 1 : a[k] = text[k]
  <2>1. \A k \in 1 .. (i - 1) : text[k] \in S
    BY <1>1
  <2>2. a \in Seq(S) /\ Len(a) = (IF 1 <= i - 1 THEN i - 1 - 1 + 1 ELSE 0)
        /\ \A k \in 1 .. i - 1 - 1 + 1 : a[k] = text[1 + k - 1]
    BY <1>1, <2>1, SubSeqProperties
  <2> HIDE DEF a
  <2> QED BY <1>1, <2>2
<1>3. /\ b \in Seq(S) /\ Len(b) = N - i /\ \A k \in 1 .. N - i : b[k] = text[i + k]
  <2> DEFINE m == i + 1
  <2>1. m \in Int /\ N \in Int /\ \A k \in m .. N : text[k] \in S
    BY <1>1
  <2> HIDE DEF N
  <2>2. SubSeq(text, m, N) \in Seq(S) /\ Len(SubSeq(text, m, N)) = (IF m <= N THEN N - m + 1 ELSE 0)
        /\ \A k \in 1 .. N - m + 1 : SubSeq(text, m, N)[k] = text[m + k - 1]
    <3> HIDE DEF m
    <3> QED BY <2>1, SubSeqProperties
  <2>3. N - m + 1 = N - i /\ Len(b) = N - i /\ \A k \in 1 .. N - i : m + k - 1 = i + k
    BY <1>1, <2>2
  <2>4. ASSUME NEW k \in 1 .. N - i PROVE b[k] = text[i + k]
    <3>1. b[k] = text[m + k - 1]
      <4> HIDE DEF m
      <4> QED BY <2>2, <2>3 DEF m
    <3> QED BY <2>3, <3>1
  <2> QED BY <2>2, <2>3, <2>4
<1>4. RemoveAt(text, i) = u
  BY DEF RemoveAt
<1> HIDE DEF N, a, b
<1>5. u \in Seq(S) /\ Len(u) = N - 1 /\ \A k \in 1 .. N - 1 : u[k] = IF k <= i - 1 THEN a[k] ELSE b[k - (i - 1)]
  <2>1. /\ u \in Seq(S)
        /\ Len(u) = Len(a) + Len(b)
        /\ \A k \in 1 .. Len(a) + Len(b) : u[k] = IF k <= Len(a) THEN a[k] ELSE b[k - Len(a)]
    BY <1>2, <1>3, ConcatProperties
  <2>2. Len(a) + Len(b) = N - 1
    BY <1>1, <1>2, <1>3
  <2> HIDE DEF u
  <2> QED BY <1>2, <2>1, <2>2
<1> HIDE DEF u
<1>6. \A k \in 1 .. N - 1 : u[k] = IF k < i THEN text[k] ELSE text[k + 1]
  <2> SUFFICES ASSUME NEW k \in 1 .. N - 1 PROVE u[k] = IF k < i THEN text[k] ELSE text[k + 1]
    OBVIOUS
  <2>1. CASE k < i
    <3>1. k \in 1 .. i - 1 /\ k <= i - 1
      BY <1>1, <2>1
    <3> QED BY <1>2, <1>5, <2>1, <3>1
  <2>2. CASE ~(k < i)
    <3>1. k - (i - 1) \in 1 .. N - i /\ ~(k <= i - 1) /\ i + (k - (i - 1)) = k + 1
      BY <1>1, <2>2
    <3>2. u[k] = b[k - (i - 1)]
      BY <1>5, <3>1
    <3>3. b[k - (i - 1)] = text[i + (k - (i - 1))]
      BY <1>3, <3>1
    <3> QED BY <2>2, <3>1, <3>2, <3>3
  <2> QED BY <2>1, <2>2
<1>7. ASSUME NEW x \in 1 .. N, x # i PROVE Moved(x, i) \in 1 .. N - 1 /\ u[Moved(x, i)] = text[x]
  <2>1. CASE x < i
    <3>1. Moved(x, i) = x /\ x \in 1 .. N - 1
      BY <1>1, <2>1 DEF Moved
    <3> QED BY <1>6, <2>1, <3>1
  <2>2. CASE x > i
    <3>1. Moved(x, i) = x - 1 /\ x - 1 \in 1 .. N - 1 /\ ~(x - 1 < i) /\ (x - 1) + 1 = x
      BY <1>1, <2>2 DEF Moved
    <3>2. u[x - 1] = text[(x - 1) + 1]
      BY <1>6, <3>1
    <3> QED BY <3>1, <3>2
  <2> QED BY <1>1, <1>7, <2>1, <2>2
<1>8. ASSUME NEW y \in 1 .. N - 1 PROVE \E x \in 1 .. N : x # i /\ Moved(x, i) = y
  <2>1. CASE y < i
    BY <1>1, <2>1 DEF Moved
  <2>2. CASE ~(y < i)
    <3>1. y + 1 \in 1 .. N /\ y + 1 # i /\ Moved(y + 1, i) = y
      BY <1>1, <2>2 DEF Moved
    <3> QED BY <3>1
  <2> QED BY <2>1, <2>2
<1> QED BY <1>4, <1>5, <1>7, <1>8 DEF N, Removed

\* The bit behind a place stays, unless the place that goes is the one that tells it.
LEMMA BitMoved ==
  ASSUME NEW text \in Seq(CodePoints), NEW i \in 1 .. Len(text), NEW x \in 1 .. Len(text), x # i, x # i - 1
  PROVE  BitAt(RemoveAt(text, i), Moved(x, i)) = BitAt(text, x)
<1> DEFINE N == Len(text)
           u == RemoveAt(text, i)
<1>1. N \in Nat /\ i \in 1 .. N /\ x \in 1 .. N
  OBVIOUS
<1>2. Len(u) = N - 1 /\ \A y \in 1 .. N : y # i => u[Moved(y, i)] = text[y]
  <2>1. Removed(u, text, i)
    BY RemoveFacts
  <2> HIDE DEF u
  <2> QED BY <2>1 DEF Removed
<1> HIDE DEF u, N
<1>3. Moved(x, i) < N - 1 <=> x < N
  BY <1>1 DEF Moved
<1>4. x < N => x + 1 \in 1 .. N /\ x + 1 # i /\ Moved(x + 1, i) = Moved(x, i) + 1
  BY <1>1 DEF Moved
<1>5. x < N => u[Moved(x, i) + 1] = text[x + 1]
  BY <1>2, <1>4
<1>6. BitAt(u, Moved(x, i)) = BitAt(text, x)
  BY <1>2, <1>3, <1>5 DEF BitAt, N
<1> QED BY <1>6 DEF u

\* Places keep their order.
LEMMA MovedOrder ==
  ASSUME NEW i \in Nat, NEW x \in Nat, NEW y \in Nat, x # i, y # i, x < y
  PROVE  Moved(x, i) < Moved(y, i)
BY DEF Moved

\* A mark character that goes changes at most the bit it was.
LEMMA RemoveMark ==
  ASSUME NEW text \in Seq(CodePoints), NEW i \in 1 .. Len(text), text[i] = "z"
  PROVE  \E p \in Nat : OneOff(BitsOf(text), BitsOf(RemoveAt(text, i)), p)
<1> DEFINE N == Len(text)
           u == RemoveAt(text, i)
           s == Significant(text)
           t == [k \in 1 .. Len(s) |-> Moved(s[k], i)]
<1>1. N \in Nat /\ i \in 1 .. N /\ i \in Nat
  OBVIOUS
<1>2. /\ u \in Seq(CodePoints) /\ Len(u) = N - 1
      /\ \A x \in 1 .. N : x # i => Moved(x, i) \in 1 .. N - 1 /\ u[Moved(x, i)] = text[x]
      /\ \A y \in 1 .. N - 1 : \E x \in 1 .. N : x # i /\ Moved(x, i) = y
  <2>1. u \in Seq(CodePoints) /\ Removed(u, text, i)
    BY RemoveFacts
  <2> HIDE DEF u
  <2> QED BY <2>1 DEF Removed
<1>3. Enumerates(s, Sig(text))
  BY SignificantEnumerates
<1>4. /\ \A k : k \in Sig(text) <=> k \in 1 .. N /\ text[k] # "z"
      /\ \A k : k \in Sig(u) <=> k \in 1 .. Len(u) /\ u[k] # "z"
  BY DEF Sig
<1> HIDE DEF N, u, s
<1>5. /\ Len(s) \in Nat
      /\ \A k \in 1 .. Len(s) : s[k] \in Nat /\ s[k] \in 1 .. N /\ text[s[k]] # "z" /\ s[k] # i
      /\ \A k, l \in 1 .. Len(s) : k < l => s[k] < s[l]
      /\ \A x \in 1 .. N : text[x] # "z" => \E k \in 1 .. Len(s) : s[k] = x
  BY <1>1, <1>3, <1>4, EnumeratesFacts
<1>6. Len(t) = Len(s) /\ (\A k \in 1 .. Len(s) : t[k] = Moved(s[k], i)) /\ t \in Seq(Nat)
  <2>1. ASSUME NEW k \in 1 .. Len(s) PROVE Moved(s[k], i) \in Nat
    <3>1. Moved(s[k], i) \in 1 .. N - 1
      BY <1>2, <1>5
    <3> QED BY <1>1, <3>1
  <2> QED BY <1>5, <2>1
<1> HIDE DEF t
<1>7. Enumerates(t, Sig(u))
  <2>1. ASSUME NEW k \in 1 .. Len(s), NEW l \in 1 .. Len(s), k < l PROVE t[k] < t[l]
    <3>1. s[k] \in Nat /\ s[l] \in Nat /\ s[k] # i /\ s[l] # i /\ s[k] < s[l]
      BY <1>5, <2>1
    <3>2. Moved(s[k], i) < Moved(s[l], i)
      BY <1>1, <3>1, MovedOrder
    <3> QED BY <1>6, <3>2
  <2>2. ASSUME NEW k \in 1 .. Len(s) PROVE t[k] \in Sig(u)
    <3>1. Moved(s[k], i) \in 1 .. N - 1 /\ u[Moved(s[k], i)] = text[s[k]] /\ text[s[k]] # "z"
      BY <1>2, <1>5
    <3> QED BY <1>2, <1>4, <1>6, <3>1
  <2>3. ASSUME NEW y \in Sig(u) PROVE \E k \in 1 .. Len(s) : t[k] = y
    <3>1. y \in 1 .. N - 1 /\ u[y] # "z"
      BY <1>2, <1>4
    <3>2. PICK x \in 1 .. N : x # i /\ Moved(x, i) = y
      BY <1>2, <3>1
    <3>3. text[x] # "z"
      BY <1>2, <3>1, <3>2
    <3>4. PICK k \in 1 .. Len(s) : s[k] = x
      BY <1>5, <3>3
    <3> QED BY <1>6, <3>2, <3>4
  <2> QED BY <1>6, <2>1, <2>2, <2>3 DEF Enumerates
<1>8. Len(BitsOf(text)) = Len(s) /\ \A k \in 1 .. Len(s) : BitsOf(text)[k] = BitAt(text, s[k])
  BY <1>3, BitsFrom
<1>9. Len(BitsOf(u)) = Len(s) /\ \A k \in 1 .. Len(s) : BitsOf(u)[k] = BitAt(u, t[k])
  BY <1>2, <1>6, <1>7, BitsFrom
<1>10. ASSUME NEW k \in 1 .. Len(s), s[k] # i - 1 PROVE BitsOf(u)[k] = BitsOf(text)[k]
  <2>1. s[k] \in 1 .. Len(text) /\ s[k] # i
    BY <1>5 DEF N
  <2>2. BitAt(u, Moved(s[k], i)) = BitAt(text, s[k])
    BY <1>10, <2>1, BitMoved DEF u
  <2> QED BY <1>6, <1>8, <1>9, <2>2
<1>11. CASE \E p \in 1 .. Len(s) : s[p] = i - 1
  <2>1. PICK p \in 1 .. Len(s) : s[p] = i - 1
    BY <1>11
  <2>2. ASSUME NEW k \in 1 .. Len(s), k # p PROVE s[k] # i - 1
    <3>1. k < p \/ p < k
      BY <1>5, <2>2
    <3>2. s[k] < s[p] \/ s[p] < s[k]
      BY <1>5, <3>1
    <3> QED BY <1>1, <1>5, <2>1, <3>2
  <2>3. OneOff(BitsOf(text), BitsOf(u), p)
    BY <1>8, <1>9, <1>10, <2>2 DEF OneOff
  <2>4. p \in Nat
    BY <1>5
  <2> QED BY <2>3, <2>4 DEF u
<1>12. CASE \A p \in 1 .. Len(s) : s[p] # i - 1
  <2>1. OneOff(BitsOf(text), BitsOf(u), 0)
    BY <1>8, <1>9, <1>10, <1>12 DEF OneOff
  <2> QED BY <2>1 DEF u
<1> QED BY <1>11, <1>12

\* A significant code point that goes takes one bit with it: its own, or, if there was none
\* behind the code point before it, that one's.
LEMMA RemoveSignificant ==
  ASSUME NEW text \in Seq(CodePoints), NEW i \in 1 .. Len(text), text[i] # "z"
  PROVE  \E p \in Nat : Dropped(BitsOf(text), BitsOf(RemoveAt(text, i)), p)
<1> DEFINE N == Len(text)
           u == RemoveAt(text, i)
           s == Significant(text)
           L == Len(s)
<1>1. N \in Nat /\ i \in 1 .. N /\ i \in Nat
  OBVIOUS
<1>2. /\ u \in Seq(CodePoints) /\ Len(u) = N - 1
      /\ \A x \in 1 .. N : x # i => Moved(x, i) \in 1 .. N - 1 /\ u[Moved(x, i)] = text[x]
      /\ \A y \in 1 .. N - 1 : \E x \in 1 .. N : x # i /\ Moved(x, i) = y
  <2>1. u \in Seq(CodePoints) /\ Removed(u, text, i)
    BY RemoveFacts
  <2> HIDE DEF u
  <2> QED BY <2>1 DEF Removed
<1>3. Enumerates(s, Sig(text))
  BY SignificantEnumerates
<1>4. /\ \A k : k \in Sig(text) <=> k \in 1 .. N /\ text[k] # "z"
      /\ \A k : k \in Sig(u) <=> k \in 1 .. Len(u) /\ u[k] # "z"
  BY DEF Sig
<1> HIDE DEF N, u, s
<1>5. /\ L \in Nat
      /\ \A k \in 1 .. L : s[k] \in Nat /\ s[k] \in 1 .. N /\ text[s[k]] # "z"
      /\ \A k, l \in 1 .. L : k < l => s[k] < s[l]
      /\ \A x \in 1 .. N : text[x] # "z" => \E k \in 1 .. L : s[k] = x
  BY <1>1, <1>3, <1>4, EnumeratesFacts
<1>6. PICK q \in 1 .. L : s[q] = i
  BY <1>1, <1>5
<1> DEFINE From(k) == IF k < q THEN k ELSE k + 1
           t == [k \in 1 .. L - 1 |-> Moved(s[From(k)], i)]
<1>7. /\ L \in Nat /\ L - 1 \in Nat /\ q \in 1 .. L
      /\ \A k \in 1 .. L - 1 : From(k) \in 1 .. L /\ From(k) # q
      /\ \A k, l \in 1 .. L - 1 : k < l => From(k) < From(l)
      /\ \A l \in 1 .. L : l # q => \E k \in 1 .. L - 1 : From(k) = l
  <2>1. L \in Nat /\ L - 1 \in Nat /\ q \in 1 .. L
    BY <1>5
  <2>2. ASSUME NEW l \in 1 .. L, l # q PROVE \E k \in 1 .. L - 1 : From(k) = l
    <3>1. CASE l < q
      <4>1. l \in 1 .. L - 1 /\ From(l) = l
        BY <2>1, <3>1
      <4> QED BY <4>1
    <3>2. CASE l > q
      <4>1. l - 1 \in 1 .. L - 1 /\ From(l - 1) = l
        BY <2>1, <3>2
      <4> QED BY <4>1
    <3> QED BY <2>1, <2>2, <3>1, <3>2
  <2>3. \A k \in 1 .. L - 1 : From(k) \in 1 .. L /\ From(k) # q
    BY <2>1
  <2>4. \A k, l \in 1 .. L - 1 : k < l => From(k) < From(l)
    BY <2>1
  <2> QED BY <2>1, <2>2, <2>3, <2>4
<1>8. ASSUME NEW k \in 1 .. L, k # q PROVE s[k] # i
  <2>1. k < q \/ q < k
    BY <1>7, <1>8
  <2>2. s[k] < s[q] \/ s[q] < s[k]
    BY <1>5, <2>1
  <2> QED BY <1>1, <1>5, <1>6, <2>2
<1> HIDE DEF From, L
<1>9. Len(t) = L - 1 /\ (\A k \in 1 .. L - 1 : t[k] = Moved(s[From(k)], i)) /\ t \in Seq(Nat)
  <2>1. ASSUME NEW k \in 1 .. L - 1 PROVE Moved(s[From(k)], i) \in Nat
    <3>1. From(k) \in 1 .. L /\ s[From(k)] # i
      BY <1>7, <1>8
    <3>2. Moved(s[From(k)], i) \in 1 .. N - 1
      BY <1>2, <1>5, <3>1
    <3> QED BY <1>1, <3>2
  <2> QED BY <1>7, <2>1
<1> HIDE DEF t
<1>10. Enumerates(t, Sig(u))
  <2>1. ASSUME NEW k \in 1 .. L - 1, NEW l \in 1 .. L - 1, k < l PROVE t[k] < t[l]
    <3>1. From(k) \in 1 .. L /\ From(l) \in 1 .. L /\ From(k) < From(l) /\ s[From(k)] # i /\ s[From(l)] # i
      BY <1>7, <1>8, <2>1
    <3>2. s[From(k)] \in Nat /\ s[From(l)] \in Nat /\ s[From(k)] < s[From(l)]
      BY <1>5, <3>1
    <3> QED BY <1>1, <1>9, <3>1, <3>2, MovedOrder
  <2>2. ASSUME NEW k \in 1 .. L - 1 PROVE t[k] \in Sig(u)
    <3>1. From(k) \in 1 .. L /\ s[From(k)] # i
      BY <1>7, <1>8
    <3>2. Moved(s[From(k)], i) \in 1 .. N - 1 /\ u[Moved(s[From(k)], i)] = text[s[From(k)]] /\ text[s[From(k)]] # "z"
      BY <1>2, <1>5, <3>1
    <3> QED BY <1>2, <1>4, <1>9, <3>2
  <2>3. ASSUME NEW y \in Sig(u) PROVE \E k \in 1 .. L - 1 : t[k] = y
    <3>1. y \in 1 .. N - 1 /\ u[y] # "z"
      BY <1>2, <1>4
    <3>2. PICK x \in 1 .. N : x # i /\ Moved(x, i) = y
      BY <1>2, <3>1
    <3>3. text[x] # "z"
      BY <1>2, <3>1, <3>2
    <3>4. PICK l \in 1 .. L : s[l] = x
      BY <1>5, <3>3
    <3>5. PICK k \in 1 .. L - 1 : From(k) = l
      BY <1>6, <1>7, <3>2, <3>4
    <3> QED BY <1>9, <3>2, <3>4, <3>5
  <2> QED BY <1>9, <2>1, <2>2, <2>3 DEF Enumerates
<1> DEFINE b == BitsOf(text)
           d == BitsOf(u)
<1>11. Len(b) = L /\ \A k \in 1 .. L : b[k] = BitAt(text, s[k])
  BY <1>3, BitsFrom DEF L
<1>12. Len(d) = L - 1 /\ \A k \in 1 .. L - 1 : d[k] = BitAt(u, t[k])
  BY <1>2, <1>9, <1>10, BitsFrom
<1> HIDE DEF b, d
<1>13. ASSUME NEW k \in 1 .. L - 1, s[From(k)] # i - 1 PROVE d[k] = b[From(k)]
  <2>1. From(k) \in 1 .. L /\ s[From(k)] # i
    BY <1>7, <1>8
  <2>2. s[From(k)] \in 1 .. Len(text)
    BY <1>5, <2>1 DEF N
  <2>3. BitAt(u, Moved(s[From(k)], i)) = BitAt(text, s[From(k)])
    BY <1>13, <2>1, <2>2, BitMoved DEF u
  <2> QED BY <1>9, <1>11, <1>12, <2>1, <2>3
<1>14. CASE \E l \in 1 .. L : s[l] = i - 1
  <2>1. PICK l \in 1 .. L : s[l] = i - 1
    BY <1>14
  <2>2. l = q - 1 /\ l \in 1 .. L - 1 /\ q > 1
    <3>1. ~(q <= l)
      <4>1. q = l => s[q] = s[l]
        OBVIOUS
      <4>2. q < l => s[q] < s[l]
        BY <1>5, <1>6, <2>1 DEF L
      <4> QED BY <1>1, <1>6, <1>7, <2>1, <4>1, <4>2
    <3>2. ~(l < q - 1)
      <4> SUFFICES ASSUME l < q - 1 PROVE FALSE
        OBVIOUS
      <4>1. q - 1 \in 1 .. L /\ q - 1 < q
        BY <1>7
      <4>2. s[l] < s[q - 1] /\ s[q - 1] < s[q] /\ s[q - 1] \in Nat
        BY <1>5, <4>1 DEF L
      <4> QED BY <1>1, <1>6, <2>1, <4>2
    <3> QED BY <1>7, <3>1, <3>2
  <2>3. ASSUME NEW k \in 1 .. L - 1, k # l PROVE s[From(k)] # i - 1
    <3>1. From(k) \in 1 .. L /\ From(k) # l /\ l \in 1 .. L
      BY <1>7, <2>2, <2>3 DEF From
    <3>2. From(k) < l \/ l < From(k)
      BY <1>7, <3>1
    <3>3. s[From(k)] < s[l] \/ s[l] < s[From(k)]
      BY <1>5, <3>1, <3>2 DEF L
    <3>4. s[From(k)] \in Nat /\ s[l] \in Nat
      BY <1>5, <3>1 DEF L
    <3> QED BY <2>1, <3>3, <3>4
  <2>4. d[l] = b[l + 1]
    <3>1. From(l) = l /\ l + 1 = q
      BY <1>7, <2>2 DEF From
    <3>2. s[l] \in Nat /\ s[l] \in 1 .. N
      BY <1>5, <2>1 DEF L
    <3>3. t[l] = i - 1 /\ i - 1 \in Nat /\ i - 1 < i
      BY <1>1, <1>9, <2>1, <2>2, <3>1, <3>2 DEF Moved
    <3>4. d[l] = BitAt(u, i - 1)
      BY <1>12, <2>2, <3>3
    <3>5. b[q] = BitAt(text, i)
      BY <1>6, <1>11
    <3>6. BitAt(u, i - 1) = BitAt(text, i)
      <4>1. i < N => i + 1 \in 1 .. N /\ i + 1 # i /\ Moved(i + 1, i) = i
        BY <1>1 DEF Moved
      <4>2. i < N => u[i] = text[i + 1]
        BY <1>2, <4>1
      <4>3. (i - 1) + 1 = i /\ (i - 1 < N - 1 <=> i < N)
        BY <1>1
      <4>4. Len(u) = N - 1 /\ Len(text) = N
        BY <1>2 DEF N
      <4> QED BY <4>2, <4>3, <4>4 DEF BitAt
    <3> QED BY <3>1, <3>4, <3>5, <3>6
  <2>5. ASSUME NEW k \in 1 .. L - 1 PROVE d[k] = IF k < l THEN b[k] ELSE b[k + 1]
    <3>1. CASE k = l
      BY <2>2, <2>4, <3>1
    <3>2. CASE k # l
      <4>1. From(k) = IF k < l THEN k ELSE k + 1
        BY <1>7, <2>2, <3>2 DEF From
      <4> QED BY <1>13, <2>3, <3>2, <4>1
    <3> QED BY <3>1, <3>2
  <2>6. Dropped(b, d, l)
    BY <1>11, <1>12, <2>1, <2>5 DEF Dropped
  <2>7. l \in Nat
    BY <1>7, <2>2
  <2> QED BY <2>6, <2>7 DEF b, d, u
<1>15. CASE \A l \in 1 .. L : s[l] # i - 1
  <2>1. \A k \in 1 .. L - 1 : d[k] = b[From(k)]
    BY <1>7, <1>13, <1>15
  <2>2. Dropped(b, d, q)
    BY <1>6, <1>11, <1>12, <2>1 DEF Dropped, From, L
  <2>3. q \in Nat
    BY <1>7
  <2> QED BY <2>2, <2>3 DEF b, d, u
<1> QED BY <1>14, <1>15

--------------------------------------------------------------------------------
(***************************************************************************)
(* The whole marks of a text: separate stretches of its bits that are the  *)
(* bits E of a mark.                                                       *)
(***************************************************************************)
BlockAt(b, a, E) == a + BitCount <= Len(b) /\ \A i \in 1 .. BitCount : b[a + i] = E[i]

Blocks(A, b, E) ==
  /\ A \subseteq Nat
  /\ \A a \in A : BlockAt(b, a, E)
  /\ \A a, x \in A : a < x => a + BitCount <= x

\* There are at least n of them.
Holds(b, E, n) == \E A : Blocks(A, b, E) /\ IsFiniteSet(A) /\ Cardinality(A) >= n

\* All but one of them can be had from a set of which all but one can be moved.
LEMMA AllButOne ==
  ASSUME NEW A, IsFiniteSet(A), NEW T \in SUBSET A, \A a, x \in A : a \notin T /\ x \notin T => a = x,
         NEW S, NEW f \in [T -> S], \A a, x \in T : a # x => f[a] # f[x]
  PROVE  LET I == {f[a] : a \in T} IN IsFiniteSet(I) /\ Cardinality(I) >= Cardinality(A) - 1
<1> DEFINE I == {f[a] : a \in T}
<1>1. IsFiniteSet(T) /\ Cardinality(T) >= Cardinality(A) - 1
  <2>1. CASE A = T
    <3>1. Cardinality(A) \in Nat
      BY FS_CardinalityType
    <3> QED BY <2>1, <3>1
  <2>2. CASE A # T
    <3>1. PICK x \in A : x \notin T
      BY <2>2
    <3>2. T = A \ {x}
      BY <3>1
    <3>3. Cardinality(A) \in Nat
      BY FS_CardinalityType
    <3>4. IsFiniteSet(A \ {x}) /\ Cardinality(A \ {x}) = Cardinality(A) - 1
      BY <3>1, FS_RemoveElement
    <3>5. IsFiniteSet(T) /\ Cardinality(T) = Cardinality(A) - 1
      BY <3>2, <3>4
    <3> QED BY <3>3, <3>5
  <2> QED BY <2>1, <2>2
<1>2. f \in Surjection(T, I) /\ f \in Injection(T, I)
  BY DEF Surjection, Injection, IsInjective
<1>3. IsFiniteSet(I) /\ Cardinality(I) = Cardinality(T)
  <2> HIDE DEF I
  <2> QED BY <1>1, <1>2, FS_Surjection
<1> QED BY <1>1, <1>3

\* The blocks that can be moved, apart from each other, are blocks where they get to.
LEMMA MoveBlocks ==
  ASSUME NEW b, NEW d, NEW E, NEW n \in Int, NEW A, Blocks(A, b, E), IsFiniteSet(A), Cardinality(A) >= n,
         NEW T \in SUBSET A, \A a, x \in A : a \notin T /\ x \notin T => a = x,
         NEW f \in [T -> Nat], \A a \in T : BlockAt(d, f[a], E),
         \A a, x \in T : a < x => f[a] < f[x] /\ f[a] + BitCount <= f[x]
  PROVE  Holds(d, E, n - 1)
<1> DEFINE I == {f[a] : a \in T}
<1>1. \A a \in T : a \in Nat /\ f[a] \in Nat
  BY DEF Blocks
<1>2. \A a, x \in T : a # x => f[a] # f[x]
  BY <1>1
<1>3. IsFiniteSet(I) /\ Cardinality(I) >= Cardinality(A) - 1
  BY <1>2, AllButOne
<1>4. ASSUME NEW y \in I, NEW z \in I, y < z PROVE y + BitCount <= z
  <2>1. PICK a \in T : y = f[a]
    OBVIOUS
  <2>2. PICK x \in T : z = f[x]
    OBVIOUS
  <2>3. a < x
    <3>1. ~(x < a) /\ x # a
      BY <1>1, <1>4, <2>1, <2>2
    <3> QED BY <1>1, <3>1
  <2> QED BY <2>1, <2>2, <2>3
<1>5. Blocks(I, d, E)
  BY <1>1, <1>4 DEF Blocks
<1>6. Cardinality(A) \in Nat /\ Cardinality(I) \in Nat
  BY <1>3, FS_CardinalityType
<1>7. Cardinality(I) >= n - 1
  BY <1>3, <1>6
<1> HIDE DEF I
<1> QED BY <1>3, <1>5, <1>7 DEF Holds

\* A changed bit spoils at most the block it is in.
LEMMA HoldsOneOff ==
  ASSUME NEW b \in Seq({0, 1}), NEW d \in Seq({0, 1}), NEW E, NEW n \in Int, NEW p \in Nat,
         OneOff(b, d, p), Holds(b, E, n)
  PROVE  Holds(d, E, n - 1)
<1>1. PICK A : Blocks(A, b, E) /\ IsFiniteSet(A) /\ Cardinality(A) >= n
  BY DEF Holds
<1> DEFINE T == {a \in A : ~(a < p /\ p <= a + BitCount)}
           f == [a \in T |-> a]
<1>2. BitCount \in Nat /\ Len(b) \in Nat
  BY BitCountFacts
<1>3. /\ \A a \in A : a \in Nat /\ a + BitCount <= Len(b) /\ \A i \in 1 .. BitCount : b[a + i] = E[i]
      /\ \A a, x \in A : a < x => a + BitCount <= x
  BY <1>1 DEF Blocks, BlockAt
<1>4. ASSUME NEW a \in A, NEW x \in A, a \notin T, x \notin T PROVE a = x
  <2>1. a \in Nat /\ x \in Nat /\ (a < x => a + BitCount <= x) /\ (x < a => x + BitCount <= a)
    BY <1>3
  <2>2. a < p /\ p <= a + BitCount /\ x < p /\ p <= x + BitCount
    BY <1>4
  <2> QED BY <1>2, <2>1, <2>2
<1>5. ASSUME NEW a \in T PROVE BlockAt(d, a, E)
  <2>1. Len(d) = Len(b) /\ a + BitCount <= Len(d)
    BY <1>3 DEF OneOff
  <2>2. ASSUME NEW i \in 1 .. BitCount PROVE d[a + i] = E[i]
    <3>1. a + i \in 1 .. Len(b) /\ a + i # p
      BY <1>2, <1>3
    <3>2. d[a + i] = b[a + i]
      BY <3>1 DEF OneOff
    <3> QED BY <1>3, <3>2
  <2> QED BY <2>1, <2>2 DEF BlockAt
<1>6. \A a \in T : f[a] = a /\ f[a] \in Nat
  BY <1>3
<1>7. f \in [T -> Nat] /\ \A a \in T : BlockAt(d, f[a], E)
  BY <1>5, <1>6
<1>8. \A a, x \in T : a < x => f[a] < f[x] /\ f[a] + BitCount <= f[x]
  BY <1>3, <1>6
<1>9. T \in SUBSET A
  OBVIOUS
<1> HIDE DEF T, f
<1> QED BY <1>1, <1>4, <1>7, <1>8, <1>9, MoveBlocks

\* A bit that goes spoils at most the block it was in.
LEMMA HoldsDropped ==
  ASSUME NEW b \in Seq({0, 1}), NEW d \in Seq({0, 1}), NEW E, NEW n \in Int, NEW p \in Nat,
         Dropped(b, d, p), Holds(b, E, n)
  PROVE  Holds(d, E, n - 1)
<1>1. PICK A : Blocks(A, b, E) /\ IsFiniteSet(A) /\ Cardinality(A) >= n
  BY DEF Holds
<1> DEFINE T == {a \in A : ~(a < p /\ p <= a + BitCount)}
           g(a) == IF a >= p THEN a - 1 ELSE a
           f == [a \in T |-> g(a)]
<1>2. BitCount \in Nat /\ BitCount >= 2 /\ Len(b) \in Nat /\ p \in 1 .. Len(b) /\ Len(d) = Len(b) - 1
  BY BitCountFacts DEF Dropped
<1>3. /\ \A a \in A : a \in Nat /\ a + BitCount <= Len(b) /\ \A i \in 1 .. BitCount : b[a + i] = E[i]
      /\ \A a, x \in A : a < x => a + BitCount <= x
  BY <1>1 DEF Blocks, BlockAt
<1>4. ASSUME NEW a \in A, NEW x \in A, a \notin T, x \notin T PROVE a = x
  <2>1. a \in Nat /\ x \in Nat /\ (a < x => a + BitCount <= x) /\ (x < a => x + BitCount <= a)
    BY <1>3
  <2>2. a < p /\ p <= a + BitCount /\ x < p /\ p <= x + BitCount
    BY <1>4
  <2> QED BY <1>2, <2>1, <2>2
<1>5. ASSUME NEW a \in T PROVE BlockAt(d, g(a), E)
  <2>1. CASE a >= p
    <3>1. g(a) = a - 1 /\ a - 1 + BitCount <= Len(d)
      BY <1>2, <1>3, <2>1
    <3>2. ASSUME NEW i \in 1 .. BitCount PROVE d[a - 1 + i] = E[i]
      <4>1. a - 1 + i \in 1 .. Len(b) - 1 /\ ~(a - 1 + i < p) /\ a - 1 + i + 1 = a + i
        BY <1>2, <1>3, <2>1
      <4>2. d[a - 1 + i] = b[a - 1 + i + 1]
        BY <4>1 DEF Dropped
      <4> QED BY <1>3, <4>1, <4>2
    <3> QED BY <3>1, <3>2 DEF BlockAt
  <2>2. CASE ~(a >= p)
    <3>1. g(a) = a /\ a + BitCount < p /\ a + BitCount <= Len(d)
      BY <1>2, <1>3, <2>2
    <3>2. ASSUME NEW i \in 1 .. BitCount PROVE d[a + i] = E[i]
      <4>1. a + i \in 1 .. Len(b) - 1 /\ a + i < p
        BY <1>2, <1>3, <3>1
      <4>2. d[a + i] = b[a + i]
        BY <4>1 DEF Dropped
      <4> QED BY <1>3, <4>1, <4>2
    <3> QED BY <3>1, <3>2 DEF BlockAt
  <2> QED BY <2>1, <2>2
<1>6. \A a \in T : f[a] = g(a) /\ g(a) \in Nat
  BY <1>2, <1>3
<1>7. f \in [T -> Nat] /\ \A a \in T : BlockAt(d, f[a], E)
  BY <1>5, <1>6
<1>8. ASSUME NEW a \in T, NEW x \in T, a < x PROVE f[a] < f[x] /\ f[a] + BitCount <= f[x]
  <2>1. a \in Nat /\ x \in Nat /\ a + BitCount <= x /\ ~(a < p /\ p <= a + BitCount)
    BY <1>3, <1>8
  <2>2. g(a) < g(x) /\ g(a) + BitCount <= g(x)
    BY <1>2, <1>8, <2>1
  <2> QED BY <1>6, <2>2
<1>9. T \in SUBSET A
  OBVIOUS
<1> HIDE DEF T, f
<1> QED BY <1>1, <1>4, <1>7, <1>8, <1>9, MoveBlocks

\* A bit that comes in spoils at most the block it gets into.
LEMMA HoldsInserted ==
  ASSUME NEW b \in Seq({0, 1}), NEW d \in Seq({0, 1}), NEW E, NEW n \in Int, NEW p \in Nat,
         Dropped(b, d, p), Holds(d, E, n)
  PROVE  Holds(b, E, n - 1)
<1>1. PICK A : Blocks(A, d, E) /\ IsFiniteSet(A) /\ Cardinality(A) >= n
  BY DEF Holds
<1> DEFINE T == {a \in A : ~(a + 1 < p /\ p <= a + BitCount)}
           g(a) == IF a + 1 >= p THEN a + 1 ELSE a
           f == [a \in T |-> g(a)]
<1>2. BitCount \in Nat /\ BitCount >= 2 /\ Len(b) \in Nat /\ p \in 1 .. Len(b) /\ Len(d) = Len(b) - 1
  BY BitCountFacts DEF Dropped
<1>3. /\ \A a \in A : a \in Nat /\ a + BitCount <= Len(d) /\ \A i \in 1 .. BitCount : d[a + i] = E[i]
      /\ \A a, x \in A : a < x => a + BitCount <= x
  BY <1>1 DEF Blocks, BlockAt
<1>4. ASSUME NEW a \in A, NEW x \in A, a \notin T, x \notin T PROVE a = x
  <2>1. a \in Nat /\ x \in Nat /\ (a < x => a + BitCount <= x) /\ (x < a => x + BitCount <= a)
    BY <1>3
  <2>2. a + 1 < p /\ p <= a + BitCount /\ x + 1 < p /\ p <= x + BitCount
    BY <1>4
  <2> QED BY <1>2, <2>1, <2>2
<1>5. ASSUME NEW a \in T PROVE BlockAt(b, g(a), E)
  <2>1. CASE a + 1 >= p
    <3>1. g(a) = a + 1 /\ a + 1 + BitCount <= Len(b)
      BY <1>2, <1>3, <2>1
    <3>2. ASSUME NEW i \in 1 .. BitCount PROVE b[a + 1 + i] = E[i]
      <4> a \in Nat /\ a + BitCount <= Len(d)
        BY <1>3
      <4>1. a + i \in 1 .. Len(b) - 1 /\ ~(a + i < p) /\ a + i + 1 = a + 1 + i
        BY <1>2, <2>1
      <4>2. d[a + i] = b[a + i + 1]
        BY <4>1 DEF Dropped
      <4> QED BY <1>3, <4>1, <4>2
    <3> QED BY <3>1, <3>2 DEF BlockAt
  <2>2. CASE ~(a + 1 >= p)
    <3>1. g(a) = a /\ a + BitCount < p /\ a + BitCount <= Len(b)
      BY <1>2, <1>3, <2>2
    <3>2. ASSUME NEW i \in 1 .. BitCount PROVE b[a + i] = E[i]
      <4>1. a + i \in 1 .. Len(b) - 1 /\ a + i < p
        BY <1>2, <1>3, <3>1
      <4>2. d[a + i] = b[a + i]
        BY <4>1 DEF Dropped
      <4> QED BY <1>3, <4>1, <4>2
    <3> QED BY <3>1, <3>2 DEF BlockAt
  <2> QED BY <2>1, <2>2
<1>6. \A a \in T : f[a] = g(a) /\ g(a) \in Nat
  BY <1>2, <1>3
<1>7. f \in [T -> Nat] /\ \A a \in T : BlockAt(b, f[a], E)
  BY <1>5, <1>6
<1>8. ASSUME NEW a \in T, NEW x \in T, a < x PROVE f[a] < f[x] /\ f[a] + BitCount <= f[x]
  <2>1. a \in Nat /\ x \in Nat /\ a + BitCount <= x
    BY <1>3, <1>8
  <2>2. g(a) < g(x) /\ g(a) + BitCount <= g(x)
    BY <1>2, <1>8, <2>1
  <2> QED BY <1>6, <2>2
<1>9. T \in SUBSET A
  OBVIOUS
<1> HIDE DEF T, f
<1> QED BY <1>1, <1>4, <1>7, <1>8, <1>9, MoveBlocks

--------------------------------------------------------------------------------
(***************************************************************************)
(* The copy that is delivered.                                             *)
(***************************************************************************)
\* The text of a publication has no marks and is in the domain of the channel.
LEMMA TextIsPlain ==
  ASSUME NEW p \in Pubs
  PROVE  /\ Text(p) \in Seq(CodePoints)
         /\ \A i \in 1 .. Len(Text(p)) : Text(p)[i] # "z" /\ Text(p)[i] # "u"
<1> DEFINE q == Draft[p]
           K == Bared(q)
           r == Pick(q, K)
<1>1. q \in Seq(CodePoints) /\ IsChannelDomain(q)
  BY DraftAssumption
<1>2. \A i \in 1 .. Len(q) : q[i] # "u"
  BY <1>1 DEF IsChannelDomain
<1>3. \A i : i \in K => q[i] # "z"
  BY DEF Bared
<1>4. Text(p) = r
  <2>1. Text(p) = Bare(q)
    BY <1>1, CanonicalFormIsBare DEF Text
  <2>2. Bare(q) = r
    BY DEF Bare, Bared, Armed
  <2> QED BY <2>1, <2>2
<1> HIDE DEF q, K
<1>5. r \in Seq(CodePoints) /\ \E h : Lists(h, r, q, K, Len(q))
  BY <1>1, PickFacts
<1> HIDE DEF r
<1>6. PICK h : Lists(h, r, q, K, Len(q))
  BY <1>5
<1>7. \A i \in 1 .. Len(r) : h[i] \in 1 .. Len(q) /\ h[i] \in K /\ r[i] = q[h[i]]
  BY <1>6 DEF Lists
<1>8. \A i \in 1 .. Len(r) : r[i] # "z" /\ r[i] # "u"
  BY <1>2, <1>3, <1>7
<1> QED BY <1>4, <1>5, <1>8

\* The n significant code points of u are at s, and carry the bits E over and over.
Carries(u, s, E, n) ==
  /\ Enumerates(s, Sig(u))
  /\ Len(s) = n
  /\ \A k \in 1 .. n : BitAt(u, s[k]) = E[((k - 1) % BitCount) + 1]

\* w is u with one more significant code point and the bit behind it.
Extended(w, u, bit) ==
  /\ w \in Seq(CodePoints)
  /\ Len(w) = Len(u) + (IF bit = 1 THEN 2 ELSE 1)
  /\ \A k \in 1 .. Len(u) : w[k] = u[k]
  /\ w[Len(u) + 1] # "z"
  /\ bit = 1 => w[Len(u) + 2] = "z"

\* embed_mark adds a code point and its bit.
LEMMA PutBitExtends ==
  ASSUME NEW bits, NEW r \in Markings, NEW c \in CodePoints, c # "z"
  PROVE  /\ PutBit(bits, r, c).significant = r.significant + 1
         /\ Extended(PutBit(bits, r, c).text, r.text, bits[(r.significant % BitCount) + 1])
<1> DEFINE bit == bits[(r.significant % BitCount) + 1]
           u == r.text
           added == IF bit = 1 THEN <<c, "z">> ELSE <<c>>
           w == u \o added
<1>1. PutBit(bits, r, c).significant = r.significant + 1 /\ PutBit(bits, r, c).text = w
  BY DEF PutBit
<1>2. u \in Seq(CodePoints)
  BY DEF Markings
<1>3. /\ added \in Seq(CodePoints) /\ Len(added) = (IF bit = 1 THEN 2 ELSE 1)
      /\ added[1] = c /\ (bit = 1 => added[2] = "z")
  <2>1. "z" \in CodePoints
    BY DEF CodePoints
  <2> HIDE DEF bit
  <2> DEFINE S == CodePoints
  <2> HIDE DEF S
  <2>2. c \in S /\ "z" \in S
    BY <2>1 DEF S
  <2>3. added \in Seq(S) /\ Len(added) = (IF bit = 1 THEN 2 ELSE 1)
        /\ added[1] = c /\ (bit = 1 => added[2] = "z")
    BY <2>2
  <2> QED BY <2>3 DEF S
<1> HIDE DEF bit, u, added
<1>4. /\ w \in Seq(CodePoints)
      /\ Len(w) = Len(u) + Len(added)
      /\ \A k \in 1 .. Len(u) + Len(added) : w[k] = IF k <= Len(u) THEN u[k] ELSE added[k - Len(u)]
  BY <1>2, <1>3, ConcatProperties
<1>5. Len(u) \in Nat
  BY <1>2
<1> HIDE DEF w
<1>6. \A k \in 1 .. Len(u) : w[k] = u[k]
  BY <1>3, <1>4, <1>5
<1>7. w[Len(u) + 1] = c
  BY <1>3, <1>4, <1>5
<1>8. bit = 1 => w[Len(u) + 2] = "z"
  BY <1>3, <1>4, <1>5
<1>9. Extended(w, u, bit)
  BY <1>3, <1>4, <1>6, <1>7, <1>8 DEF Extended
<1> QED BY <1>1, <1>9 DEF bit, u

\* One more code point with its bit.
LEMMA CarriesStep ==
  ASSUME NEW u \in Seq(CodePoints), NEW E \in Bits(BitCount), NEW n \in Nat, NEW s, Carries(u, s, E, n),
         NEW w, Extended(w, u, E[(n % BitCount) + 1])
  PROVE  \E t : Carries(w, t, E, n + 1)
<1> DEFINE N == Len(u)
           bit == E[(n % BitCount) + 1]
           t == [k \in 1 .. n + 1 |-> IF k = n + 1 THEN N + 1 ELSE s[k]]
<1>1. N \in Nat /\ Enumerates(s, Sig(u)) /\ Len(s) = n
  BY DEF Carries
<1>2. bit \in {0, 1}
  <2>1. BitCount \in Nat /\ BitCount >= 2
    BY BitCountFacts
  <2>2. (n % BitCount) + 1 \in 1 .. BitCount
    BY <2>1
  <2> QED BY <2>2 DEF Bits
<1>3. /\ w \in Seq(CodePoints)
      /\ Len(w) = N + (IF bit = 1 THEN 2 ELSE 1)
      /\ \A k \in 1 .. N : w[k] = u[k]
      /\ w[N + 1] # "z"
      /\ bit = 1 => w[N + 2] = "z"
  BY DEF Extended
<1>4. \A k : k \in Sig(u) <=> k \in 1 .. N /\ u[k] # "z"
  BY DEF Sig
<1>5. \A k : k \in Sig(w) <=> k \in 1 .. Len(w) /\ w[k] # "z"
  BY DEF Sig
<1>6. \A k \in 1 .. n : BitAt(u, s[k]) = E[((k - 1) % BitCount) + 1]
  BY DEF Carries
<1> HIDE DEF bit
<1>7. /\ \A k \in 1 .. n : s[k] \in 1 .. N /\ s[k] \in Nat /\ u[s[k]] # "z"
      /\ \A k, l \in 1 .. n : k < l => s[k] < s[l]
      /\ \A x \in 1 .. N : u[x] # "z" => \E k \in 1 .. n : s[k] = x
  BY <1>1, <1>4, EnumeratesFacts
<1>8. \A k : k \in Sig(w) <=> k \in Sig(u) \/ k = N + 1
  <2> SUFFICES ASSUME NEW k PROVE k \in Sig(w) <=> k \in Sig(u) \/ k = N + 1
    OBVIOUS
  <2>1. CASE k \in 1 .. N
    <3>1. k \in 1 .. Len(w) /\ w[k] = u[k] /\ k # N + 1
      BY <1>1, <1>3, <2>1
    <3> QED BY <1>4, <1>5, <2>1, <3>1
  <2>2. CASE k = N + 1
    <3>1. k \in 1 .. Len(w)
      BY <1>1, <1>3, <2>2
    <3> QED BY <1>3, <1>5, <2>2, <3>1
  <2>3. CASE k \notin 1 .. N /\ k # N + 1
    <3>1. k \notin Sig(u)
      BY <1>4, <2>3
    <3>2. k \in 1 .. Len(w) => bit = 1 /\ k = N + 2
      BY <1>1, <1>3, <2>3
    <3> QED BY <1>3, <1>5, <2>3, <3>1, <3>2
  <2> QED BY <2>1, <2>2, <2>3
<1>9. /\ t \in Seq(Nat) /\ Len(t) = n + 1
      /\ \A k \in 1 .. n : t[k] = s[k] /\ k \in 1 .. n + 1
      /\ t[n + 1] = N + 1
  BY <1>1, <1>7
<1> HIDE DEF t
<1>10. Enumerates(t, Sig(w))
  <2>1. ASSUME NEW k \in 1 .. n + 1, NEW l \in 1 .. n + 1, k < l PROVE t[k] < t[l]
    <3>1. k \in 1 .. n
      BY <2>1
    <3>2. CASE l = n + 1
      BY <1>1, <1>7, <1>9, <3>1, <3>2
    <3>3. CASE l # n + 1
      <4>1. l \in 1 .. n
        BY <3>3
      <4> QED BY <1>7, <1>9, <2>1, <3>1, <4>1
    <3> QED BY <3>2, <3>3
  <2>2. ASSUME NEW k \in 1 .. n + 1 PROVE t[k] \in Sig(w)
    <3>1. CASE k = n + 1
      BY <1>8, <1>9, <3>1
    <3>2. CASE k # n + 1
      <4>1. k \in 1 .. n
        BY <3>2
      <4> QED BY <1>4, <1>7, <1>8, <1>9, <4>1
    <3> QED BY <3>1, <3>2
  <2>3. ASSUME NEW y \in Sig(w) PROVE \E k \in 1 .. n + 1 : t[k] = y
    <3>1. CASE y = N + 1
      <4>1. n + 1 \in 1 .. n + 1
        OBVIOUS
      <4> QED BY <1>9, <3>1, <4>1
    <3>2. CASE y \in Sig(u)
      <4>1. PICK k \in 1 .. n : s[k] = y
        BY <1>4, <1>7, <3>2
      <4> QED BY <1>9, <4>1
    <3> QED BY <1>8, <3>1, <3>2
  <2> QED BY <1>9, <2>1, <2>2, <2>3 DEF Enumerates
<1>11. ASSUME NEW k \in 1 .. n PROVE BitAt(w, s[k]) = BitAt(u, s[k])
  <2>1. CASE s[k] < N
    <3>1. s[k] + 1 \in 1 .. N /\ s[k] < Len(w)
      BY <1>1, <1>3, <1>7, <2>1
    <3> QED BY <1>3, <2>1, <3>1 DEF BitAt
  <2>2. CASE s[k] = N
    <3>1. BitAt(u, s[k]) = 0
      BY <1>1, <2>2 DEF BitAt
    <3>2. BitAt(w, s[k]) = 0
      BY <1>3, <2>2 DEF BitAt
    <3> QED BY <3>1, <3>2
  <2> QED BY <1>1, <1>7, <2>1, <2>2
<1>12. BitAt(w, N + 1) = bit
  <2>1. CASE bit = 1
    <3>1. N + 1 < Len(w) /\ N + 1 + 1 = N + 2
      BY <1>1, <1>3, <2>1
    <3> QED BY <1>3, <2>1, <3>1 DEF BitAt
  <2>2. CASE bit = 0
    <3>1. ~(N + 1 < Len(w))
      BY <1>1, <1>3, <2>2
    <3> QED BY <2>2, <3>1 DEF BitAt
  <2> QED BY <1>2, <2>1, <2>2
<1>13. ASSUME NEW k \in 1 .. n + 1 PROVE BitAt(w, t[k]) = E[((k - 1) % BitCount) + 1]
  <2>1. CASE k = n + 1
    <3>1. k - 1 = n
      BY <2>1
    <3> QED BY <1>9, <1>12, <2>1, <3>1 DEF bit
  <2>2. CASE k # n + 1
    <3>1. k \in 1 .. n
      BY <2>2
    <3> QED BY <1>6, <1>9, <1>11, <3>1
  <2> QED BY <2>1, <2>2
<1> QED BY <1>9, <1>10, <1>13 DEF Carries

\* embed_mark puts the bits of the mark behind the code points of a text over and over.
LEMMA EmbedCarries ==
  ASSUME NEW text \in Seq(CodePoints), \A i \in 1 .. Len(text) : text[i] # "z",
         NEW m, EncodeMark(m) \in Bits(BitCount)
  PROVE  \E s : Carries(EmbedMark(text, m), s, EncodeMark(m), Len(text))
<1> DEFINE N == Len(text)
           E == EncodeMark(m)
<1>1. N \in Nat /\ \A n \in 1 .. N : text[n] \in CodePoints /\ text[n] # "z"
  OBVIOUS
<1>2. PICK f : Embeds(f, text, m)
  BY EmbedMarkFunction
<1>3. /\ f \in [0 .. N -> Markings]
      /\ f[0] = [text |-> <<>>, significant |-> 0]
      /\ \A n \in 1 .. N : f[n] = PutBit(E, f[n - 1], text[n])
      /\ EmbedMark(text, m) = f[N].text
  BY <1>2 DEF Embeds
<1>4. E \in Bits(BitCount)
  OBVIOUS
<1> HIDE DEF N, E
<1> DEFINE T == {n \in 0 .. N : f[n].significant = n /\ \E s : Carries(f[n].text, s, E, n)}
<1>5. 0 \in T
  <2>1. f[0].significant = 0 /\ f[0].text = <<>>
    BY <1>3
  <2>2. Sig(<<>>) = {}
    BY DEF Sig
  <2>3. Enumerates(<<>>, {})
    BY DEF Enumerates
  <2>4. Carries(<<>>, <<>>, E, 0)
    <3>1. Len(<<>>) = 0 /\ \A k \in 1 .. 0 : FALSE
      OBVIOUS
    <3> QED BY <2>2, <2>3, <3>1 DEF Carries
  <2> QED BY <1>1, <2>1, <2>4
<1>6. ASSUME NEW n \in 1 .. N, n - 1 \in T PROVE n \in T
  <2> DEFINE r == f[n - 1]
             c == text[n]
  <2>1. n - 1 \in 0 .. N /\ n - 1 \in Nat /\ (n - 1) + 1 = n
    BY <1>1
  <2>2. r \in Markings /\ c \in CodePoints /\ c # "z" /\ f[n] = PutBit(E, r, c)
    BY <1>1, <1>3, <2>1
  <2>3. r.text \in Seq(CodePoints)
    BY <2>2 DEF Markings
  <2>4. r.significant = n - 1
    BY <1>6
  <2>5. PICK s : Carries(r.text, s, E, n - 1)
    BY <1>6
  <2> HIDE DEF r, c
  <2>6. f[n].significant = r.significant + 1 /\ Extended(f[n].text, r.text, E[(r.significant % BitCount) + 1])
    BY <2>2, PutBitExtends
  <2>7. f[n].significant = n /\ Extended(f[n].text, r.text, E[((n - 1) % BitCount) + 1])
    BY <2>1, <2>4, <2>6
  <2>8. \E t : Carries(f[n].text, t, E, (n - 1) + 1)
    <3> DEFINE k == n - 1
    <3>1. k \in Nat /\ Carries(r.text, s, E, k) /\ Extended(f[n].text, r.text, E[(k % BitCount) + 1])
      BY <2>1, <2>5, <2>7
    <3> HIDE DEF k
    <3>2. \E t : Carries(f[n].text, t, E, k + 1)
      BY <1>4, <2>3, <3>1, CarriesStep
    <3> QED BY <3>2 DEF k
  <2>9. n \in 0 .. N
    BY <1>1
  <2> QED BY <2>1, <2>7, <2>8, <2>9
<1> HIDE DEF T
<1>7. \A n \in 0 .. N : n \in T
  BY <1>1, <1>5, <1>6, Induction
<1>8. N \in T
  BY <1>1, <1>7
<1> QED BY <1>3, <1>8 DEF N, E, T

\* The multiples of the length of a mark, and where a bit stands in it.
LEMMA Multiples ==
  ASSUME NEW w \in Nat, w >= 2
  PROVE  /\ \A k \in Nat, i \in 1 .. w : (((k * w + i) - 1) % w) + 1 = i
         /\ \A k, l \in Nat : k < l => k * w < l * w /\ k * w + w <= l * w
         /\ \A k \in Nat : k * w \in Nat
         /\ \A x \in Nat : x \div w \in Nat /\ (x \div w) * w <= x
<1>1. ASSUME NEW k \in Nat, NEW i \in 1 .. w PROVE (((k * w + i) - 1) % w) + 1 = i
  <2>1. i - 1 \in 0 .. w - 1 /\ (k * w + i) - 1 = k * w + (i - 1)
    OBVIOUS
  <2> DEFINE j == i - 1
  <2>2. (k * w + j) % w = j
    <3>1. j \in 0 .. w - 1
      BY <2>1
    <3> HIDE DEF j
    <3> QED BY <3>1
  <2> QED BY <2>1, <2>2
<1>2. \A k, l \in Nat : k < l => k * w < l * w /\ k * w + w <= l * w
  OBVIOUS
<1>3. \A k \in Nat : k * w \in Nat
  OBVIOUS
<1>4. \A x \in Nat : x \div w \in Nat /\ (x \div w) * w <= x
  OBVIOUS
<1> QED BY <1>1, <1>2, <1>3, <1>4

\* So it holds the mark as often as it fits.
LEMMA EmbedHolds ==
  ASSUME NEW text \in Seq(CodePoints), \A i \in 1 .. Len(text) : text[i] # "z",
         NEW m, EncodeMark(m) \in Bits(BitCount)
  PROVE  Holds(BitsOf(EmbedMark(text, m)), EncodeMark(m), WholeMarks(text))
<1> DEFINE N == Len(text)
           E == EncodeMark(m)
           u == EmbedMark(text, m)
           b == BitsOf(u)
           w == BitCount
           W == N \div w
           A == {k * w : k \in 0 .. W - 1}
<1>1. N \in Nat /\ w \in Nat /\ w >= 2 /\ u \in Seq(CodePoints) /\ WholeMarks(text) = W
  BY BitCountFacts, EmbedMarkType DEF WholeMarks
<1>2. PICK s : Carries(u, s, E, N)
  BY EmbedCarries
<1>3. Len(b) = N /\ \A k \in 1 .. N : b[k] = E[((k - 1) % w) + 1]
  <2>1. Enumerates(s, Sig(u)) /\ Len(s) = N /\ \A k \in 1 .. N : BitAt(u, s[k]) = E[((k - 1) % w) + 1]
    BY <1>2 DEF Carries
  <2> HIDE DEF N, u, E
  <2>2. Len(b) = N /\ \A k \in 1 .. N : b[k] = BitAt(u, s[k])
    BY <1>1, <2>1, BitsFrom
  <2> QED BY <2>1, <2>2
<1> HIDE DEF N, E, u, b, w
<1>4. /\ \A k \in Nat, i \in 1 .. w : (((k * w + i) - 1) % w) + 1 = i
      /\ \A k, l \in Nat : k < l => k * w < l * w /\ k * w + w <= l * w
      /\ \A k \in Nat : k * w \in Nat
      /\ W \in Nat /\ W * w <= N
  BY <1>1, Multiples
<1> HIDE DEF W
<1>5. \A k \in 0 .. W - 1 : k \in Nat /\ k < W
  BY <1>4
<1>6. ASSUME NEW k \in 0 .. W - 1 PROVE BlockAt(b, k * w, E)
  <2>1. k * w \in Nat /\ k * w + w <= N
    <3>1. k * w \in Nat /\ W * w \in Nat /\ k * w + w <= W * w
      BY <1>4, <1>5
    <3> QED BY <1>1, <1>4, <3>1
  <2>2. ASSUME NEW i \in 1 .. w PROVE b[k * w + i] = E[i]
    <3> DEFINE j == k * w + i
    <3>1. j \in 1 .. N
      <4> DEFINE kw == k * w
      <4>1. kw \in Nat /\ kw + w <= N
        BY <2>1
      <4> HIDE DEF kw
      <4>2. kw + i \in 1 .. N
        BY <1>1, <4>1
      <4> QED BY <4>2 DEF kw
    <3>2. ((j - 1) % w) + 1 = i
      BY <1>4, <1>5
    <3> HIDE DEF j
    <3>3. b[j] = E[((j - 1) % w) + 1]
      BY <1>3, <3>1
    <3> QED BY <3>2, <3>3 DEF j
  <2> QED BY <1>3, <2>1, <2>2 DEF BlockAt, w
<1>7. ASSUME NEW a \in A, NEW x \in A, a < x PROVE a + w <= x
  <2>1. PICK k \in 0 .. W - 1 : a = k * w
    OBVIOUS
  <2>2. PICK l \in 0 .. W - 1 : x = l * w
    OBVIOUS
  <2>3. k < l
    <3>1. k \in Nat /\ l \in Nat /\ a \in Nat /\ x \in Nat
      BY <1>4, <1>5, <2>1, <2>2
    <3>2. ~(l < k) /\ l # k
      <4>1. l < k => x < a
        BY <1>4, <2>1, <2>2, <3>1
      <4>2. l = k => x = a
        BY <2>1, <2>2
      <4> QED BY <1>7, <3>1, <4>1, <4>2
    <3> QED BY <3>1, <3>2
  <2> QED BY <1>4, <1>5, <2>1, <2>2, <2>3
<1>8. A \subseteq Nat
  BY <1>4, <1>5
<1>9. Blocks(A, b, E)
  BY <1>6, <1>7, <1>8 DEF Blocks, w
<1>10. IsFiniteSet(A) /\ Cardinality(A) = W
  <2> DEFINE K == 0 .. W - 1
             f == [k \in K |-> k * w]
  <2>1. IsFiniteSet(K) /\ Cardinality(K) = W
    <3> DEFINE z == W - 1
    <3>1. 0 \in Int /\ z \in Int /\ (IF 0 > z THEN 0 ELSE z - 0 + 1) = W
      BY <1>4
    <3> HIDE DEF z
    <3>2. IsFiniteSet(0 .. z) /\ Cardinality(0 .. z) = W
      BY <3>1, FS_Interval
    <3> QED BY <3>2 DEF z
  <2>2. ASSUME NEW k \in K, NEW l \in K, k # l PROVE k * w # l * w
    <3>1. k \in Nat /\ l \in Nat /\ k * w \in Nat /\ l * w \in Nat
      BY <1>4, <1>5
    <3>2. k < l \/ l < k
      BY <2>2, <3>1
    <3>3. k * w < l * w \/ l * w < k * w
      BY <1>4, <3>1, <3>2
    <3> QED BY <3>1, <3>3
  <2>3. f \in Surjection(K, A) /\ f \in Injection(K, A)
    BY <2>2 DEF Surjection, Injection, IsInjective
  <2> HIDE DEF f, A, K
  <2> QED BY <2>1, <2>3, FS_Surjection
<1>11. Holds(b, E, W)
  <2> HIDE DEF A
  <2> QED BY <1>4, <1>9, <1>10 DEF Holds
<1> QED BY <1>1, <1>11 DEF b, u, E

\* A delivered copy holds its mark as often as it fits; not at all where there is no room.
LEMMA CopyHolds ==
  ASSUME NEW c \in Contexts
  PROVE  Holds(BitsOf(CopyFor(c)), EncodeMark(MarkOf(c)), WholeMarks(Text(PubOf[c])))
<1> DEFINE text == Text(PubOf[c])
<1>1. text \in Seq(CodePoints) /\ \A i \in 1 .. Len(text) : text[i] # "z" /\ text[i] # "u"
  BY CopyForType, TextIsPlain
<1>2. EncodeMark(MarkOf(c)) \in Bits(BitCount)
  BY DecodeEncode
<1>3. CopyFor(c) = IF HasMarkChannel(text) THEN EmbedMark(text, MarkOf(c)) ELSE text
  BY DEF CopyFor
<1> HIDE DEF text
<1>4. CASE HasMarkChannel(text)
  BY <1>1, <1>2, <1>3, <1>4, EmbedHolds DEF text
<1>5. CASE ~HasMarkChannel(text)
  <2>1. IsChannelDomain(text)
    BY <1>1 DEF IsChannelDomain
  <2>2. Len(text) \in Nat
    BY <1>1
  <2>3. Len(Significant(text)) = Len(text)
    <3> DEFINE t == [k \in 1 .. Len(text) |-> k]
    <3>1. t \in Seq(Nat) /\ Len(t) = Len(text) /\ \A k \in 1 .. Len(text) : t[k] = k
      BY <2>2
    <3>2. \A k : k \in Sig(text) <=> k \in 1 .. Len(text)
      BY <1>1 DEF Sig
    <3> HIDE DEF t
    <3>3. Enumerates(t, Sig(text))
      BY <2>2, <3>1, <3>2 DEF Enumerates
    <3> QED BY <1>1, <3>1, <3>3, BitsFrom
  <2>4. Len(text) < BitCount
    BY <1>5, <2>1, <2>2, <2>3, BitCountFacts DEF HasMarkChannel
  <2>5. WholeMarks(text) = 0
    BY <2>2, <2>4, BitCountFacts DEF WholeMarks
  <2>6. Blocks({}, BitsOf(CopyFor(c)), EncodeMark(MarkOf(c)))
    BY DEF Blocks
  <2>7. IsFiniteSet({}) /\ Cardinality({}) = 0
    BY FS_EmptySet
  <2> QED BY <2>5, <2>6, <2>7 DEF Holds, text
<1> QED BY <1>4, <1>5

--------------------------------------------------------------------------------
(***************************************************************************)
(* The marks that survive.                                                 *)
(***************************************************************************)
\* A copy that was made from one context's holds its mark as often as it fitted, less one
\* for each change.
MarksHeld ==
  \A c \in Contexts : sources = {c} => Holds(BitsOf(leak), EncodeMark(MarkOf(c)), whole - edits)

\* What came in at place i is what can be taken out there again.
LEMMA InsertFacts ==
  ASSUME NEW text \in Seq(CodePoints), NEW i \in 1 .. Len(text) + 1, NEW c \in CodePoints
  PROVE  /\ InsertAt(text, i, c) \in Seq(CodePoints)
         /\ i \in 1 .. Len(InsertAt(text, i, c))
         /\ InsertAt(text, i, c)[i] = c
         /\ RemoveAt(InsertAt(text, i, c), i) = text
<1> DEFINE N == Len(text)
           S == CodePoints
           a == SubSeq(text, 1, i - 1)
           b == SubSeq(text, i, N)
           ac == a \o <<c>>
           u == ac \o b
           d == RemoveAt(u, i)
<1>1. N \in Nat /\ i \in Nat /\ 1 <= i /\ i <= N + 1 /\ c \in S /\ text \in Seq(S) /\ \A k \in 1 .. N : text[k] \in S
  OBVIOUS
<1>2. InsertAt(text, i, c) = u
  BY DEF InsertAt
<1> HIDE DEF S, N
<1>3. a \in Seq(S) /\ Len(a) = i - 1 /\ \A k \in 1 .. i - 1 : a[k] = text[k]
  <2>1. \A k \in 1 .. (i - 1) : text[k] \in S
    BY <1>1
  <2>2. a \in Seq(S) /\ Len(a) = (IF 1 <= i - 1 THEN i - 1 - 1 + 1 ELSE 0)
        /\ \A k \in 1 .. i - 1 - 1 + 1 : a[k] = text[1 + k - 1]
    BY <1>1, <2>1, SubSeqProperties
  <2> HIDE DEF a
  <2> QED BY <1>1, <2>2
<1>4. b \in Seq(S) /\ Len(b) = N - i + 1 /\ \A k \in 1 .. N - i + 1 : b[k] = text[i + k - 1]
  <2>1. \A k \in i .. N : text[k] \in S
    BY <1>1
  <2>2. b \in Seq(S) /\ Len(b) = (IF i <= N THEN N - i + 1 ELSE 0)
        /\ \A k \in 1 .. N - i + 1 : b[k] = text[i + k - 1]
    BY <1>1, <2>1, SubSeqProperties
  <2> HIDE DEF b
  <2> QED BY <1>1, <2>2
<1> HIDE DEF a, b
<1>5. ac \in Seq(S) /\ Len(ac) = i /\ (\A k \in 1 .. i - 1 : ac[k] = text[k]) /\ ac[i] = c
  <2>1. <<c>> \in Seq(S) /\ Len(<<c>>) = 1 /\ <<c>>[1] = c
    BY <1>1
  <2>2. /\ ac \in Seq(S)
        /\ Len(ac) = Len(a) + 1
        /\ \A k \in 1 .. Len(a) + 1 : ac[k] = IF k <= Len(a) THEN a[k] ELSE <<c>>[k - Len(a)]
    BY <1>3, <2>1, ConcatProperties
  <2> HIDE DEF ac
  <2>3. ASSUME NEW k \in 1 .. i - 1 PROVE ac[k] = text[k]
    <3>1. k \in 1 .. Len(a) + 1 /\ k <= Len(a)
      BY <1>1, <1>3
    <3> QED BY <1>3, <2>2, <3>1
  <2>4. ac[i] = c
    <3>1. i \in 1 .. Len(a) + 1 /\ ~(i <= Len(a)) /\ i - Len(a) = 1
      BY <1>1, <1>3
    <3> QED BY <2>1, <2>2, <3>1
  <2>5. Len(ac) = i
    BY <1>1, <1>3, <2>2
  <2> QED BY <2>2, <2>3, <2>4, <2>5
<1> HIDE DEF ac
<1>6. /\ u \in Seq(S) /\ Len(u) = N + 1
      /\ \A k \in 1 .. N + 1 : u[k] = IF k <= i THEN ac[k] ELSE b[k - i]
  <2>1. /\ u \in Seq(S)
        /\ Len(u) = Len(ac) + Len(b)
        /\ \A k \in 1 .. Len(ac) + Len(b) : u[k] = IF k <= Len(ac) THEN ac[k] ELSE b[k - Len(ac)]
    BY <1>4, <1>5, ConcatProperties
  <2>2. Len(ac) + Len(b) = N + 1
    BY <1>1, <1>4, <1>5
  <2> HIDE DEF u
  <2> QED BY <1>5, <2>1, <2>2
<1> HIDE DEF u
<1>7. u[i] = c /\ i \in 1 .. Len(u)
  BY <1>1, <1>5, <1>6
<1>8. d \in Seq(S) /\ Removed(d, u, i)
  BY <1>6, <1>7, RemoveFacts
<1> HIDE DEF d
<1>9. Len(d) = N
  BY <1>1, <1>6, <1>8 DEF Removed
<1>10. ASSUME NEW k \in 1 .. N PROVE d[k] = text[k]
  <2>1. CASE k < i
    <3>1. k \in 1 .. Len(u) /\ k # i /\ Moved(k, i) = k /\ k \in 1 .. i - 1 /\ k \in 1 .. N + 1 /\ k <= i
      BY <1>1, <1>6, <2>1 DEF Moved
    <3>2. d[k] = u[k]
      BY <1>8, <3>1 DEF Removed
    <3>3. u[k] = text[k]
      BY <1>5, <1>6, <3>1
    <3> QED BY <3>2, <3>3
  <2>2. CASE ~(k < i)
    <3> DEFINE l == k + 1
    <3>1. l \in 1 .. Len(u) /\ l # i /\ Moved(l, i) = k /\ l \in 1 .. N + 1 /\ ~(l <= i)
          /\ l - i \in 1 .. N - i + 1 /\ i + (l - i) - 1 = k
      BY <1>1, <1>6, <2>2 DEF Moved
    <3> HIDE DEF l
    <3>2. d[k] = u[l]
      BY <1>8, <3>1 DEF Removed
    <3>3. u[l] = b[l - i]
      BY <1>6, <3>1
    <3>4. b[l - i] = text[i + (l - i) - 1]
      BY <1>4, <3>1
    <3> QED BY <3>1, <3>2, <3>3, <3>4
  <2> QED BY <2>1, <2>2
<1>11. d = text
  <2>1. Len(text) = N
    BY DEF N
  <2> QED BY <1>1, <1>8, <1>9, <1>10, <2>1
<1> QED BY <1>2, <1>6, <1>7, <1>11 DEF S, d

\* The bits of a text are a sequence of bits.
LEMMA BitsType ==
  ASSUME NEW text \in Seq(CodePoints)
  PROVE  BitsOf(text) \in Seq({0, 1})
BY SignificantEnumerates, BitsFrom

\* Whatever is lost from a text or gets in costs at most one of the marks it holds.
LEMMA HoldsRemoved ==
  ASSUME NEW text \in Seq(CodePoints), NEW i \in 1 .. Len(text), NEW E, NEW n \in Int
  PROVE  /\ Holds(BitsOf(text), E, n) => Holds(BitsOf(RemoveAt(text, i)), E, n - 1)
         /\ Holds(BitsOf(RemoveAt(text, i)), E, n) => Holds(BitsOf(text), E, n - 1)
<1> DEFINE u == RemoveAt(text, i)
           b == BitsOf(text)
           d == BitsOf(u)
<1>1. u \in Seq(CodePoints)
  BY RemoveFacts
<1>2. b \in Seq({0, 1}) /\ d \in Seq({0, 1})
  BY <1>1, BitsType
<1>3. CASE text[i] = "z"
  <2>1. PICK p \in Nat : OneOff(b, d, p)
    BY <1>3, RemoveMark
  <2>2. OneOff(d, b, p)
    BY <2>1 DEF OneOff
  <2> HIDE DEF b, d
  <2>3. Holds(b, E, n) => Holds(d, E, n - 1)
    BY <1>2, <2>1, HoldsOneOff
  <2>4. Holds(d, E, n) => Holds(b, E, n - 1)
    BY <1>2, <2>2, HoldsOneOff
  <2> QED BY <2>3, <2>4 DEF b, d
<1>4. CASE text[i] # "z"
  <2>1. PICK p \in Nat : Dropped(b, d, p)
    BY <1>4, RemoveSignificant
  <2> HIDE DEF b, d
  <2>3. Holds(b, E, n) => Holds(d, E, n - 1)
    BY <1>2, <2>1, HoldsDropped
  <2>4. Holds(d, E, n) => Holds(b, E, n - 1)
    BY <1>2, <2>1, HoldsInserted
  <2> QED BY <2>3, <2>4 DEF b, d
<1> QED BY <1>3, <1>4

\* At least n is at least fewer than n.
LEMMA HoldsFewer ==
  ASSUME NEW b, NEW E, NEW n \in Nat, NEW e \in Nat, Holds(b, E, n)
  PROVE  Holds(b, E, n - e)
<1>1. PICK A : Blocks(A, b, E) /\ IsFiniteSet(A) /\ Cardinality(A) >= n
  BY DEF Holds
<1>2. Cardinality(A) \in Nat
  BY <1>1, FS_CardinalityType
<1>3. Cardinality(A) >= n - e
  BY <1>1, <1>2
<1> QED BY <1>1, <1>3 DEF Holds

\* Every step keeps MarksHeld.
LEMMA MarksHeldStep ==
  ASSUME TypeOK, MarksHeld, [Next]_vars
  PROVE  MarksHeld'
<1> DEFINE E(c) == EncodeMark(MarkOf(c))
<1>1. leak \in Seq(CodePoints) /\ whole \in Nat /\ edits \in Nat /\ whole - edits \in Int
  BY LimitsAssumption DEF TypeOK
<1> SUFFICES ASSUME NEW c \in Contexts, sources' = {c}
             PROVE  Holds(BitsOf(leak'), E(c), whole' - edits')
  BY DEF MarksHeld
<1>2. CASE Deliver
  <2>1. PICK d \in Contexts : leak' = CopyFor(d) /\ sources' = {d} /\ whole' = WholeMarks(Text(PubOf[d]))
    BY <1>2 DEF Deliver
  <2>2. d = c /\ edits' = edits
    BY <1>2, <2>1 DEF Deliver
  <2>3. Holds(BitsOf(leak'), E(c), whole')
    BY <2>1, <2>2, CopyHolds
  <2>4. whole' \in Nat
    BY <2>1, CopyForType, WholeMarksType
  <2> QED BY <1>1, <2>2, <2>3, <2>4, HoldsFewer
<1>3. CASE Lose
  <2>1. PICK i \in 1 .. Len(leak) : leak' = RemoveAt(leak, i)
    BY <1>1, <1>3 DEF Lose
  <2>2. sources = {c} /\ whole' - edits' = (whole - edits) - 1
    BY <1>1, <1>3 DEF Lose, Change
  <2>3. Holds(BitsOf(leak), E(c), whole - edits)
    BY <2>2 DEF MarksHeld
  <2>4. Holds(BitsOf(leak'), E(c), (whole - edits) - 1)
    BY <1>1, <2>1, <2>3, HoldsRemoved
  <2> QED BY <2>2, <2>4
<1>4. CASE Gain
  <2>1. PICK i \in 1 .. Len(leak) + 1, x \in {"z", "v", "u"} : leak' = InsertAt(leak, i, x)
    BY <1>4 DEF Gain
  <2>2. sources = {c} /\ whole' - edits' = (whole - edits) - 1
    BY <1>1, <1>4 DEF Gain, Change
  <2>3. x \in CodePoints
    BY DEF CodePoints
  <2>4. leak' \in Seq(CodePoints) /\ i \in 1 .. Len(leak') /\ RemoveAt(leak', i) = leak
    BY <1>1, <2>1, <2>3, InsertFacts
  <2>5. Holds(BitsOf(RemoveAt(leak', i)), E(c), whole - edits)
    BY <2>2, <2>4 DEF MarksHeld
  <2>6. Holds(BitsOf(leak'), E(c), (whole - edits) - 1)
    BY <1>1, <2>4, <2>5, HoldsRemoved
  <2> QED BY <2>2, <2>6
<1>5. CASE Splice
  <2>1. PICK x \in Contexts \ sources, d \in sources : sources' = sources \cup {x}
    BY <1>5 DEF Splice
  <2>2. x \in {c} /\ d \in {c} /\ x # d
    BY <2>1
  <2> QED BY <2>2
<1>6. CASE Transplant
  <2>1. PICK d \in sources, p \in Pubs : leak' = EmbedMark(Text(p), MarkOf(d)) /\ whole' = WholeMarks(Text(p))
    BY <1>6 DEF Transplant
  <2>2. d = c /\ edits' \in Nat
    BY <1>1, <1>6, <2>1 DEF Transplant, Change
  <2>3. Text(p) \in Seq(CodePoints) /\ \A i \in 1 .. Len(Text(p)) : Text(p)[i] # "z"
    BY TextIsPlain
  <2>4. EncodeMark(MarkOf(c)) \in Bits(BitCount)
    BY DecodeEncode
  <2>5. Holds(BitsOf(leak'), E(c), whole')
    BY <2>1, <2>2, <2>3, <2>4, EmbedHolds
  <2>6. whole' \in Nat
    BY <2>1, <2>3, WholeMarksType
  <2> QED BY <2>2, <2>5, <2>6, HoldsFewer
<1>7. CASE Leave
  BY <1>7 DEF Leave
<1>8. ASSUME UNCHANGED copy PROVE Holds(BitsOf(leak'), E(c), whole' - edits')
  BY <1>8 DEF copy, MarksHeld
<1>9. CASE Attribute \/ Unresolved \/ Judge \/ Fail \/ Conclude
  BY <1>8, <1>9 DEF Attribute, Unresolved, Judge, Fail, Conclude
<1>10. CASE UNCHANGED vars
  BY <1>8, <1>10 DEF vars, copy
<1> QED BY <1>2, <1>3, <1>4, <1>5, <1>6, <1>7, <1>9, <1>10 DEF Next

\* The marks a text holds are read from it.
LEMMA HoldsCarried ==
  ASSUME NEW text \in Seq(CodePoints), NEW c \in Contexts, NEW n \in Int,
         Holds(BitsOf(text), EncodeMark(MarkOf(c)), n)
  PROVE  Carried(text, c) >= n
<1> DEFINE b == BitsOf(text)
           E == EncodeMark(MarkOf(c))
           ws == Windows(text)
           K == {k \in DOMAIN ws : DecodeMark(ws[k]) = MarkOf(c)}
<1>1. b \in Seq({0, 1}) /\ Len(b) \in Nat
  BY BitsType
<1>2. E \in Bits(BitCount) /\ DecodeMark(E) = MarkOf(c)
  BY DecodeEncode
<1>3. BitCount \in Nat /\ BitCount >= 2
  BY BitCountFacts
<1>4. E \in Seq({0, 1}) /\ Len(E) = BitCount
  BY <1>2, <1>3, BitsAreSeq
<1>5. ws = [k \in 1 .. (IF Len(b) < BitCount THEN 0 ELSE Len(b) - BitCount + 1) |-> SubSeq(b, k, k + BitCount - 1)]
  <2>1. Len(Significant(text)) \in Nat
    BY SignificantFacts
  <2>2. Len(b) = Len(Significant(text))
    BY SignificantEnumerates, BitsFrom
  <2> QED BY <2>1, <2>2 DEF Windows, BitsOf, BitAt
<1>6. Carried(text, c) = Cardinality(K)
  BY DEF Carried
<1>7. PICK A : Blocks(A, b, E) /\ IsFiniteSet(A) /\ Cardinality(A) >= n
  BY DEF Holds
<1> HIDE DEF b, E, ws
<1> DEFINE count == IF Len(b) < BitCount THEN 0 ELSE Len(b) - BitCount + 1
<1>8. count \in Nat
  BY <1>1, <1>3
<1>9. DOMAIN ws = 1 .. count
  BY <1>5
<1>10. ASSUME NEW a \in A PROVE a \in Nat /\ a + 1 \in K
  <2>1. a \in Nat /\ a + BitCount <= Len(b) /\ \A i \in 1 .. BitCount : b[a + i] = E[i]
    BY <1>7 DEF Blocks, BlockAt
  <2>2. a + 1 \in 1 .. count /\ (a + 1) + BitCount - 1 = a + BitCount
    BY <1>1, <1>3, <2>1
  <2>3. ws[a + 1] = SubSeq(b, a + 1, (a + 1) + BitCount - 1)
    BY <1>5, <2>2
  <2>4. SubSeq(b, a + 1, a + BitCount) = E
    BY <1>1, <1>4, <2>1, SubSeqIs
  <2>5. DecodeMark(ws[a + 1]) = MarkOf(c)
    BY <1>2, <2>2, <2>3, <2>4
  <2> QED BY <1>9, <2>1, <2>2, <2>5
<1>11. IsFiniteSet(K)
  <2>1. IsFiniteSet(1 .. count)
    BY <1>8, FS_Interval
  <2>2. K \in SUBSET (1 .. count)
    BY <1>9
  <2> QED BY <2>1, <2>2, FS_Subset
<1> HIDE DEF K, count
<1> DEFINE f == [a \in A |-> a + 1]
<1>12. f \in Injection(A, K)
  <2>1. \A a, x \in A : f[a] = f[x] => a = x
    BY <1>10
  <2>2. f \in [A -> K]
    BY <1>10
  <2> HIDE DEF f
  <2> QED BY <2>1, <2>2 DEF Injection, IsInjective
<1>13. Cardinality(A) <= Cardinality(K)
  <2> HIDE DEF f
  <2> QED BY <1>11, <1>12, FS_Injection
<1>14. Cardinality(A) \in Nat /\ Cardinality(K) \in Nat
  BY <1>7, <1>11, FS_CardinalityType
<1> QED BY <1>6, <1>7, <1>13, <1>14

\* What a copy still holds of its marks, step by step.
LEMMA MarksHeldInvariance == Spec => [](TypeOK /\ MarksHeld)
<1>1. Init => TypeOK /\ MarksHeld
  <2>1. Init => TypeOK
    BY InvInit DEF IInv
  <2>2. Init => MarksHeld
    BY DEF Init, MarksHeld
  <2> QED BY <2>1, <2>2
<1>2. TypeOK /\ MarksHeld /\ [Next]_vars => (TypeOK /\ MarksHeld)'
  BY TypeStep, MarksHeldStep
<1> QED BY <1>1, <1>2, PTL DEF Spec

\* Each change costs a copy at most one of its marks, wherever in the text it is and
\* whatever the widths of the fields: a mark character lost or gained turns at most one
\* bit, a code point lost or gained shifts the ones behind it, and read_marks looks at
\* every place.
THEOREM MarksSurviveCorrect == Spec => []MarksSurvive
<1>1. ASSUME TypeOK, MarksHeld PROVE MarksSurvive
  <2>1. leak \in Seq(CodePoints) /\ whole - edits \in Int
    BY <1>1, LimitsAssumption DEF TypeOK
  <2>2. ASSUME NEW c \in Contexts, sources = {c} PROVE Carried(leak, c) >= whole - edits
    <3>1. Holds(BitsOf(leak), EncodeMark(MarkOf(c)), whole - edits)
      BY <1>1, <2>2 DEF MarksHeld
    <3> QED BY <2>1, <3>1, HoldsCarried
  <2> QED BY <2>2 DEF MarksSurvive
<1>2. TypeOK /\ MarksHeld => MarksSurvive
  BY <1>1
<1> QED BY <1>2, MarksHeldInvariance, PTL

\* A copy with enough marks left for the threshold is traced to its context, or found to
\* have been changed, as long as no code is forged: for every text, every number of changes
\* and every size of the table of candidates.
THEOREM CopyTracedCorrect == Spec => [](Unforged => CopyTraced)
<1>1. IInv /\ Unforged /\ MarksSurvive => CopyTraced
  BY SurvivorIsTraced
<1> QED BY <1>1, AttributionInvariance, MarksSurviveCorrect, PTL
================================================================================
