----------------------------- MODULE CliParseProofs -----------------------------
(***************************************************************************)
(* Proofs about CliParse, for every set of commands that are trees of      *)
(* options with their keys in order, and for every list of arguments.      *)
(***************************************************************************)
EXTENDS CliParse, FoldProofs, FiniteSetTheorems


-----------------------------------------------------------------------------
(* A ladder: n given steps taken one after another.                        *)
Ladder(f, V, base, n, step) ==
  /\ f \in [0 .. n -> V]
  /\ f[0] = base
  /\ \A i \in 1 .. n : f[i] = step[i][f[i - 1]]

(* Every ladder can be climbed.                                            *)
LEMMA LadderExists ==
  ASSUME NEW V, NEW base \in V, NEW n \in Nat, NEW step \in [1 .. n -> [V -> V]]
  PROVE  \E f : Ladder(f, V, base, n, step)
<1> DEFINE A == {k \in 0 .. n : \E f : Ladder(f, V, base, k, step)}
<1>1. 0 \in A
  <2> DEFINE f == [i \in 0 .. 0 |-> base]
  <2>1. Ladder(f, V, base, 0, step)
    BY DEF Ladder
  <2>2. \E h : Ladder(h, V, base, 0, step)
    <3> HIDE DEF f
    <3>. QED
      BY <2>1
  <2>. QED
    BY <2>2
<1>2. ASSUME NEW k \in 0 .. n - 1, k \in A PROVE k + 1 \in A
  <2>1. PICK f : Ladder(f, V, base, k, step)
    BY <1>2
  <2> DEFINE h == [i \in 0 .. (k + 1) |-> IF i = k + 1 THEN step[k + 1][f[k]] ELSE f[i]]
  <2>2. k \in Nat /\ k + 1 \in 1 .. n /\ k + 1 \in 0 .. n
    OBVIOUS
  <2>3. f[k] \in V /\ step[k + 1][f[k]] \in V
    BY <2>1, <2>2 DEF Ladder
  <2>4. h \in [0 .. (k + 1) -> V]
    <3>1. \A i \in 0 .. (k + 1) : i # k + 1 => i \in 0 .. k
      BY <2>2
    <3>. QED
      BY <2>1, <2>3, <3>1 DEF Ladder
  <2>5. h[0] = base
    BY <2>1, <2>2 DEF Ladder
  <2>6. ASSUME NEW i \in 1 .. (k + 1) PROVE h[i] = step[i][h[i - 1]]
    <3>1. i - 1 \in 0 .. (k + 1) /\ i - 1 # k + 1 /\ i \in 0 .. (k + 1)
      BY <2>2
    <3>2. CASE i = k + 1
      BY <2>2, <3>1, <3>2
    <3>3. CASE i # k + 1
      <4>1. i \in 1 .. k
        BY <2>2, <3>3
      <4>. QED
        BY <2>1, <3>1, <3>3, <4>1 DEF Ladder
    <3>. QED
      BY <3>2, <3>3
  <2>7. Ladder(h, V, base, k + 1, step)
    <3> HIDE DEF h
    <3>. QED
      BY <2>4, <2>5, <2>6 DEF Ladder
  <2>. QED
    <3> HIDE DEF h
    <3>. QED
      BY <2>2, <2>7
<1>3. 0 .. n \subseteq A
  <2> HIDE DEF A
  <2>. QED
    BY <1>1, <1>2, IntervalInduct
<1>. QED
  BY <1>3

(* Two ladders of the same steps go the same way.                          *)
LEMMA LadderSame ==
  ASSUME NEW V, NEW base, NEW n \in Nat, NEW m \in Nat, n <= m, NEW step, NEW next, NEW f, NEW g,
         Ladder(f, V, base, n, step), Ladder(g, V, base, m, next),
         \A i \in 1 .. n : step[i] = next[i]
  PROVE  \A i \in 0 .. n : f[i] = g[i]
<1> DEFINE A == {i \in 0 .. n : f[i] = g[i]}
<1>1. 0 \in A
  BY DEF Ladder
<1>2. ASSUME NEW k \in 0 .. n - 1, k \in A PROVE k + 1 \in A
  <2>1. k + 1 \in 1 .. n /\ k + 1 \in 1 .. m /\ (k + 1) - 1 = k /\ k + 1 \in 0 .. n
    OBVIOUS
  <2>2. f[k + 1] = step[k + 1][f[k]] /\ g[k + 1] = next[k + 1][g[k]]
    BY <2>1 DEF Ladder
  <2>. QED
    BY <1>2, <2>1, <2>2
<1>3. 0 .. n \subseteq A
  <2> HIDE DEF A
  <2>. QED
    BY <1>1, <1>2, IntervalInduct
<1>. QED
  BY <1>3

-----------------------------------------------------------------------------
(* Picked is a ladder over the calls.                                      *)
PickStep(s, C, by) ==
  [i \in 1 .. Len(s) |-> [v \in Seq(C) |-> IF s[i].by \in by THEN Append(v, s[i]) ELSE v]]

(* What is picked is where that ladder ends.                               *)
LEMMA PickedIs ==
  ASSUME NEW C, NEW by, NEW s \in Seq(C)
  PROVE  \E f : /\ Ladder(f, Seq(C), <<>>, Len(s), PickStep(s, C, by))
                /\ Picked(s, by) = f[Len(s)]
<1> DEFINE v == <<>>
           n == Len(s)
           Solves(h) == h = [i \in 0 .. n |-> IF i = 0 THEN v
                                              ELSE IF s[i].by \in by THEN Append(h[i - 1], s[i]) ELSE h[i - 1]]
           f == CHOOSE h : Solves(h)
<1>a. v \in Seq(C)
  OBVIOUS
<1>1. Picked(s, by) = f[n]
  BY DEF Picked
<1> HIDE DEF v
<1>2. n \in Nat /\ \A k \in 1 .. n : s[k] \in C
  OBVIOUS
<1> HIDE DEF n
<1>3. PickStep(s, C, by) \in [1 .. n -> [Seq(C) -> Seq(C)]]
  BY <1>2 DEF PickStep, n
<1>4. PICK g : Ladder(g, Seq(C), v, n, PickStep(s, C, by))
  <2> DEFINE step == PickStep(s, C, by)
  <2>1. step \in [1 .. n -> [Seq(C) -> Seq(C)]]
    BY <1>3
  <2> HIDE DEF step
  <2>2. \E g : Ladder(g, Seq(C), v, n, step)
    BY <1>a, <1>2, <2>1, LadderExists
  <2>. QED
    BY <2>2 DEF step
<1>5. Solves(g)
  <2>1. g = [i \in 0 .. n |-> g[i]] /\ g[0] = v
    BY <1>4 DEF Ladder
  <2>2. ASSUME NEW i \in 0 .. n, i # 0
        PROVE  g[i] = IF s[i].by \in by THEN Append(g[i - 1], s[i]) ELSE g[i - 1]
    <3>1. i \in 1 .. n /\ i - 1 \in 0 .. n
      BY <1>2, <2>2
    <3>2. g[i] = PickStep(s, C, by)[i][g[i - 1]] /\ g[i - 1] \in Seq(C)
      BY <1>4, <3>1 DEF Ladder
    <3>. QED
      BY <3>1, <3>2 DEF PickStep, n
  <2>. QED
    BY <2>1, <2>2
<1>6. Solves(f)
  <2>1. \E h : Solves(h)
    <3> HIDE DEF Solves
    <3>. QED
      BY <1>5
  <2>. QED
    <3> HIDE DEF Solves
    <3>. QED
      BY <2>1
<1>7. f = g
  <2> DEFINE A == {i \in 0 .. n : f[i] = g[i]}
  <2> HIDE DEF f
  <2>1. 0 \in A
    BY <1>2, <1>5, <1>6
  <2>2. ASSUME NEW k \in 0 .. n - 1, k \in A PROVE k + 1 \in A
    <3>1. k + 1 \in 0 .. n /\ k + 1 # 0 /\ (k + 1) - 1 = k
      BY <1>2
    <3>2. /\ f[k + 1] = IF s[k + 1].by \in by THEN Append(f[k], s[k + 1]) ELSE f[k]
          /\ g[k + 1] = IF s[k + 1].by \in by THEN Append(g[k], s[k + 1]) ELSE g[k]
      BY <1>5, <1>6, <3>1
    <3>. QED
      BY <2>2, <3>1, <3>2
  <2>3. 0 .. n \subseteq A
    <3> HIDE DEF A
    <3>. QED
      BY <1>2, <2>1, <2>2, IntervalInduct
  <2>. QED
    BY <1>5, <1>6, <2>3
<1>. QED
  BY <1>1, <1>4, <1>7 DEF v, n

(* What is picked of nothing, and of a call more.                          *)
LEMMA PickedEmpty ==
  ASSUME NEW by
  PROVE  Picked(<<>>, by) = <<>>
<1> DEFINE s == <<>>
           C == {}
<1>1. s \in Seq(C) /\ Len(s) = 0
  OBVIOUS
<1> HIDE DEF s, C
<1>2. PICK f : Ladder(f, Seq(C), <<>>, Len(s), PickStep(s, C, by)) /\ Picked(s, by) = f[Len(s)]
  BY <1>1, PickedIs
<1>3. Picked(s, by) = <<>>
  BY <1>1, <1>2 DEF Ladder
<1>. QED
  BY <1>3 DEF s

(* One call more is picked, or it is not.                                  *)
LEMMA PickedAppend ==
  ASSUME NEW C, NEW by, NEW s \in Seq(C), NEW x \in C
  PROVE  /\ Picked(s, by) \in Seq(C)
         /\ x.by \in by => Picked(Append(s, x), by) = Append(Picked(s, by), x)
         /\ x.by \notin by => Picked(Append(s, x), by) = Picked(s, by)
<1> DEFINE u == Append(s, x)
           v == <<>>
           V == Seq(C)
           n == Len(s)
           step == PickStep(s, C, by)
           next == PickStep(u, C, by)
<1>1. u \in Seq(C) /\ Len(u) = n + 1 /\ n \in Nat /\ u[n + 1] = x /\ \A i \in 1 .. n : u[i] = s[i]
  OBVIOUS
<1> HIDE DEF u
<1>2. PICK f : Ladder(f, V, v, n, step) /\ Picked(s, by) = f[n]
  BY PickedIs
<1>3. PICK g : Ladder(g, V, v, n + 1, next) /\ Picked(u, by) = g[n + 1]
  BY <1>1, PickedIs
<1> HIDE DEF v
<1>4. ASSUME NEW i \in 1 .. n PROVE step[i] = next[i]
  <2>1. i \in 1 .. Len(u) /\ i \in 1 .. Len(s) /\ u[i] = s[i]
    BY <1>1
  <2> HIDE DEF n
  <2>. QED
    BY <2>1 DEF PickStep
<1>5. next[n + 1] = [w \in Seq(C) |-> IF x.by \in by THEN Append(w, x) ELSE w]
  <2>1. n + 1 \in 1 .. Len(u)
    BY <1>1
  <2> HIDE DEF n
  <2>. QED
    BY <1>1, <2>1 DEF PickStep
<1> HIDE DEF n, step, next, V
<1>6. f[n] = g[n] /\ f[n] \in V /\ g[n + 1] = next[n + 1][g[n]]
  <2>1. n + 1 \in Nat /\ n <= n + 1 /\ n \in 0 .. n /\ n + 1 \in 1 .. (n + 1) /\ (n + 1) - 1 = n
    BY <1>1
  <2>2. Ladder(f, V, v, n, step) /\ Ladder(g, V, v, n + 1, next)
    BY <1>2, <1>3
  <2>3. \A i \in 1 .. n : step[i] = next[i]
    BY <1>4
  <2>4. \A i \in 0 .. n : f[i] = g[i]
    <3> DEFINE m == n + 1
    <3>1. n \in Nat /\ m \in Nat /\ n <= m /\ Ladder(f, V, v, n, step) /\ Ladder(g, V, v, m, next)
      BY <1>1, <2>1, <2>2
    <3> HIDE DEF m
    <3>. QED
      BY <2>3, <3>1, LadderSame
  <2>. QED
    BY <2>1, <2>2, <2>4 DEF Ladder
<1>7. g[n + 1] = IF x.by \in by THEN Append(f[n], x) ELSE f[n]
  BY <1>5, <1>6 DEF V
<1>. QED
  BY <1>2, <1>3, <1>6, <1>7 DEF u, V

-----------------------------------------------------------------------------
(* The texts of calls.                                                     *)
HaveTexts(C, D) == \A c \in C : c.text \in D

(* The texts of a sequence of records are as many, in the same order.      *)
LEMMA TextsAre ==
  ASSUME NEW D, NEW C, HaveTexts(C, D), NEW s \in Seq(C)
  PROVE  /\ TextsOf(s) \in Seq(D) /\ Len(TextsOf(s)) = Len(s)
         /\ \A i \in 1 .. Len(s) : TextsOf(s)[i] = s[i].text
<1>1. DOMAIN s = 1 .. Len(s) /\ Len(s) \in Nat /\ \A i \in 1 .. Len(s) : s[i] \in C
  OBVIOUS
<1>2. \A i \in 1 .. Len(s) : s[i].text \in D
  BY <1>1 DEF HaveTexts
<1>. QED
  BY <1>1, <1>2 DEF TextsOf

(* Those of one call more.                                                 *)
LEMMA TextsAppend ==
  ASSUME NEW D, NEW C, HaveTexts(C, D), NEW s \in Seq(C), NEW x \in C
  PROVE  TextsOf(Append(s, x)) = Append(TextsOf(s), x.text)
<1> DEFINE u == Append(s, x)
           a == TextsOf(u)
           b == Append(TextsOf(s), x.text)
           n == Len(s) + 1
<1>1. u \in Seq(C) /\ Len(u) = n /\ n \in Nat /\ u[n] = x /\ \A i \in 1 .. Len(s) : u[i] = s[i]
  OBVIOUS
<1>a. TextsOf(s) \in Seq(D) /\ Len(TextsOf(s)) = Len(s) /\ \A i \in 1 .. Len(s) : TextsOf(s)[i] = s[i].text
  BY TextsAre
<1>b. HaveTexts(C, D)
  OBVIOUS
<1>c. x.text \in D
  BY DEF HaveTexts
<1> HIDE DEF u
<1>2. a \in Seq(D) /\ Len(a) = n /\ \A i \in 1 .. n : a[i] = u[i].text
  <2>1. /\ TextsOf(u) \in Seq(D) /\ Len(TextsOf(u)) = Len(u)
        /\ \A i \in 1 .. Len(u) : TextsOf(u)[i] = u[i].text
    <3>1. u \in Seq(C)
      BY <1>1
    <3>. QED
      BY ONLY <1>b, <3>1, TextsAre
  <2>. QED
    BY <1>1, <2>1
<1>3. b \in Seq(D) /\ Len(b) = n /\ b[n] = x.text /\ \A i \in 1 .. Len(s) : b[i] = s[i].text
  <2> DEFINE t == TextsOf(s)
  <2>1. t \in Seq(D) /\ Len(t) = Len(s) /\ \A i \in 1 .. Len(s) : t[i] = s[i].text
    BY <1>a
  <2>2. b = Append(t, x.text)
    OBVIOUS
  <2> HIDE DEF t, b
  <2>. QED
    BY <1>c, <2>1, <2>2
<1> HIDE DEF a, b
<1>4. \A i \in 1 .. n : a[i] = b[i]
  <2>1. ASSUME NEW i \in 1 .. n PROVE a[i] = b[i]
    <3>1. i = n \/ i \in 1 .. Len(s)
      BY <1>1
    <3>. QED
      BY <1>1, <1>2, <1>3, <3>1
  <2>. QED
    BY <2>1
<1>5. a = b
  BY <1>1, <1>2, <1>3, <1>4
<1>. QED
  BY <1>5 DEF a, b, u

-----------------------------------------------------------------------------
(* FlattenSeq is a ladder over the sequences.                              *)
FlatStep(ss, D) == [i \in 1 .. Len(ss) |-> [v \in Seq(D) |-> v \o ss[i]]]

(* What a sequence of texts flattens to is where a ladder ends.            *)
LEMMA FlattenIs ==
  ASSUME NEW D, NEW ss \in Seq(Seq(D))
  PROVE  \E f : /\ Ladder(f, Seq(D), <<>>, Len(ss), FlatStep(ss, D))
                /\ FlattenSeq(ss) = f[Len(ss)]
<1> DEFINE v == <<>>
           n == Len(ss)
           step == FlatStep(ss, D)
           Solves(h) == h = [i \in 1 .. n |-> IF i = 1 THEN ss[i] ELSE h[i - 1] \o ss[i]]
           f == CHOOSE h : Solves(h)
<1>a. v \in Seq(D)
  OBVIOUS
<1>1. FlattenSeq(ss) = IF n = 0 THEN ss ELSE f[n]
  BY DEF FlattenSeq
<1>b. n = 0 => ss = v
  OBVIOUS
<1>c. \A u \in Seq(D) : v \o u = u
  OBVIOUS
<1> HIDE DEF v
<1>2. n \in Nat /\ \A k \in 1 .. n : ss[k] \in Seq(D)
  OBVIOUS
<1>3. step \in [1 .. n -> [Seq(D) -> Seq(D)]]
  <2>1. \A i \in 1 .. n : \A w \in Seq(D) : w \o ss[i] \in Seq(D)
    BY <1>2
  <2>. QED
    BY <2>1 DEF FlatStep
<1>4. \A i \in 1 .. n, w \in Seq(D) : step[i][w] = w \o ss[i]
  BY DEF FlatStep
<1> HIDE DEF n, step
<1>5. PICK g : Ladder(g, Seq(D), v, n, step)
  BY <1>a, <1>2, <1>3, LadderExists
<1>d. \A i \in 1 .. n : g[i] = g[i - 1] \o ss[i] /\ g[i - 1] \in Seq(D)
  <2>1. ASSUME NEW i \in 1 .. n PROVE g[i] = g[i - 1] \o ss[i] /\ g[i - 1] \in Seq(D)
    <3>1. i - 1 \in 0 .. n
      BY <1>2
    <3>2. g[i] = step[i][g[i - 1]] /\ g[i - 1] \in Seq(D)
      BY <1>5, <3>1 DEF Ladder
    <3>. QED
      BY <1>4, <3>2
  <2>. QED
    BY <2>1
<1>6. Solves([i \in 1 .. n |-> g[i]])
  <2> DEFINE h == [i \in 1 .. n |-> g[i]]
  <2>1. ASSUME NEW i \in 1 .. n PROVE h[i] = IF i = 1 THEN ss[i] ELSE h[i - 1] \o ss[i]
    <3>1. CASE i = 1
      <4>1. g[i] = v \o ss[i]
        <5>1. g[0] = v /\ 1 - 1 = 0
          BY <1>5 DEF Ladder
        <5>2. g[i] = g[i - 1] \o ss[i] /\ i - 1 = 0
          BY <1>d, <3>1, <5>1
        <5>. QED
          BY <5>1, <5>2
      <4>. QED
        BY <1>2, <1>c, <3>1, <4>1
    <3>2. CASE i # 1
      <4>1. i - 1 \in 1 .. n
        BY <1>2, <3>2
      <4>. QED
        BY <1>d, <3>2, <4>1
    <3>. QED
      BY <3>1, <3>2
  <2>2. h = [i \in 1 .. n |-> h[i]]
    OBVIOUS
  <2> HIDE DEF h
  <2>3. Solves(h)
    BY <2>1, <2>2
  <2>. QED
    BY <2>3 DEF h
<1>7. Solves(f)
  <2>1. \E h : Solves(h)
    <3> HIDE DEF Solves
    <3>. QED
      BY <1>6
  <2>. QED
    <3> HIDE DEF Solves
    <3>. QED
      BY <2>1
<1> HIDE DEF f
<1>8. \A i \in 0 .. n : i # 0 => f[i] = g[i]
  <2> DEFINE A == {i \in 0 .. n : i # 0 => f[i] = g[i]}
  <2>1. 0 \in A
    BY <1>2
  <2>2. ASSUME NEW k \in 0 .. n - 1, k \in A PROVE k + 1 \in A
    <3>1. k + 1 \in 1 .. n /\ k + 1 \in 0 .. n /\ (k + 1) - 1 = k
      BY <1>2
    <3>2. f[k + 1] = IF k + 1 = 1 THEN ss[k + 1] ELSE f[k] \o ss[k + 1]
      BY <1>7, <3>1
    <3>3. g[k + 1] = g[k] \o ss[k + 1]
      BY <1>d, <3>1
    <3>4. CASE k = 0
      <4>1. g[k + 1] = v \o ss[k + 1]
        BY <1>5, <3>3, <3>4 DEF Ladder
      <4>2. v \o ss[k + 1] = ss[k + 1]
        BY <1>2, <1>c, <3>1
      <4>. QED
        BY <3>1, <3>2, <3>4, <4>1, <4>2
    <3>5. CASE k # 0
      <4>1. k + 1 # 1 /\ k \in 0 .. n
        BY <1>2, <3>5
      <4>2. f[k] = g[k]
        BY <2>2, <3>5
      <4>3. f[k + 1] = f[k] \o ss[k + 1]
        BY <3>2, <4>1
      <4>4. f[k + 1] = g[k + 1]
        BY <3>3, <4>2, <4>3
      <4>. QED
        BY <3>1, <4>4
    <3>. QED
      BY <3>4, <3>5
  <2>3. 0 .. n \subseteq A
    <3> HIDE DEF A
    <3>. QED
      BY <1>2, <2>1, <2>2, IntervalInduct
  <2>. QED
    BY <2>3
<1>9. FlattenSeq(ss) = g[n]
  BY <1>1, <1>2, <1>5, <1>8, <1>b DEF Ladder
<1>. QED
  BY <1>5, <1>9 DEF v, n, step

(* Nothing is made of nothing, and one sequence more goes to the end.      *)
LEMMA FlattenEmpty == FlattenSeq(<<>>) = <<>>
BY DEF FlattenSeq

(* One text more comes after the others.                                   *)
LEMMA FlattenAppend ==
  ASSUME NEW D, NEW ss \in Seq(Seq(D)), NEW x \in Seq(D)
  PROVE  /\ FlattenSeq(ss) \in Seq(D)
         /\ FlattenSeq(Append(ss, x)) = FlattenSeq(ss) \o x
<1> DEFINE u == Append(ss, x)
           v == <<>>
           V == Seq(D)
           n == Len(ss)
           step == FlatStep(ss, D)
           next == FlatStep(u, D)
<1>1. u \in Seq(Seq(D)) /\ Len(u) = n + 1 /\ n \in Nat /\ u[n + 1] = x /\ \A i \in 1 .. n : u[i] = ss[i]
  OBVIOUS
<1> HIDE DEF u
<1>2. PICK f : Ladder(f, V, v, n, step) /\ FlattenSeq(ss) = f[n]
  BY FlattenIs
<1>3. PICK g : Ladder(g, V, v, n + 1, next) /\ FlattenSeq(u) = g[n + 1]
  BY <1>1, FlattenIs
<1> HIDE DEF v
<1>4. ASSUME NEW i \in 1 .. n PROVE step[i] = next[i]
  <2>1. i \in 1 .. Len(u) /\ i \in 1 .. Len(ss) /\ u[i] = ss[i]
    BY <1>1
  <2> HIDE DEF n
  <2>. QED
    BY <2>1 DEF FlatStep
<1>5. next[n + 1] = [w \in Seq(D) |-> w \o x]
  <2>1. n + 1 \in 1 .. Len(u)
    BY <1>1
  <2> HIDE DEF n
  <2>. QED
    BY <1>1, <2>1 DEF FlatStep
<1> HIDE DEF n, step, next, V
<1>6. f[n] = g[n] /\ f[n] \in V /\ g[n + 1] = next[n + 1][g[n]]
  <2>1. n + 1 \in Nat /\ n <= n + 1 /\ n \in 0 .. n /\ n + 1 \in 1 .. (n + 1) /\ (n + 1) - 1 = n
    BY <1>1
  <2>2. Ladder(f, V, v, n, step) /\ Ladder(g, V, v, n + 1, next)
    BY <1>2, <1>3
  <2>3. \A i \in 1 .. n : step[i] = next[i]
    BY <1>4
  <2>4. \A i \in 0 .. n : f[i] = g[i]
    <3> DEFINE m == n + 1
    <3>1. n \in Nat /\ m \in Nat /\ n <= m /\ Ladder(f, V, v, n, step) /\ Ladder(g, V, v, m, next)
      BY <1>1, <2>1, <2>2
    <3> HIDE DEF m
    <3>. QED
      BY <2>3, <3>1, LadderSame
  <2>. QED
    BY <2>1, <2>2, <2>4 DEF Ladder
<1>7. g[n + 1] = f[n] \o x
  BY <1>5, <1>6 DEF V
<1>. QED
  BY <1>2, <1>3, <1>6, <1>7 DEF u, V

-----------------------------------------------------------------------------
(* The arguments read, and one more.                                       *)
LEMMA ReadOneMore ==
  ASSUME NEW C, NEW s \in Seq(C), NEW p \in Nat, p < Len(s)
  PROVE  /\ SubSeq(s, 1, p) \in Seq(C) /\ s[p + 1] \in C
         /\ SubSeq(s, 1, p + 1) = Append(SubSeq(s, 1, p), s[p + 1])
OBVIOUS

(* A text cut in two.                                                      *)
LEMMA CutInTwo ==
  ASSUME NEW C, NEW s \in Seq(C), NEW k \in Seq(C), Len(k) <= Len(s), SubSeq(s, 1, Len(k)) = k
  PROVE  /\ SubSeq(s, Len(k) + 1, Len(s)) \in Seq(C)
         /\ k \o SubSeq(s, Len(k) + 1, Len(s)) = s
OBVIOUS

-----------------------------------------------------------------------------
(* What two texts begin with in common.                                    *)
SharesUpTo(n, s, t) ==
  /\ n \in Nat /\ n <= Len(s) /\ n <= Len(t)
  /\ \A i \in 1 .. n : s[i] = t[i]

(* CommonPrefix is the most two texts share from the start.                *)
LEMMA CommonPrefixIs ==
  ASSUME NEW s \in Seq(Nat), NEW t \in Seq(Nat)
  PROVE  /\ SharesUpTo(CommonPrefix(s, t), s, t)
         /\ \A n : SharesUpTo(n, s, t) => n <= CommonPrefix(s, t)
<1> DEFINE m == Min({Len(s), Len(t)})
           S == {n \in 0 .. m : \A i \in 1 .. n : s[i] = t[i]}
<1>1. Len(s) \in Nat /\ Len(t) \in Nat
  OBVIOUS
<1>2. m \in {Len(s), Len(t)} /\ m <= Len(s) /\ m <= Len(t)
  <2> DEFINE T == {Len(s), Len(t)}
  <2>1. T \subseteq Nat /\ T # {} /\ Len(s) \in T /\ Len(t) \in T
    BY <1>1
  <2>2. Min(T) \in T /\ \A y \in T : Min(T) <= y
    <3> HIDE DEF T
    <3>. QED
      BY <2>1, MinOf
  <2>3. m = Min(T)
    OBVIOUS
  <2>4. Min(T) <= Len(s) /\ Min(T) <= Len(t)
    BY <2>1, <2>2
  <2>. QED
    BY <2>2, <2>3, <2>4
<1> HIDE DEF m
<1>3. m \in Nat
  BY <1>1, <1>2
<1>4. S \subseteq 0 .. m /\ S # {}
  <2>1. 0 \in S
    BY <1>3
  <2>. QED
    BY <2>1
<1>5. CommonPrefix(s, t) = Max(S)
  BY DEF CommonPrefix, m
<1>6. \A n : n \in S <=> SharesUpTo(n, s, t)
  BY <1>1, <1>2, <1>3 DEF SharesUpTo
<1> HIDE DEF S
<1>7. Max(S) \in S /\ \A y \in S : Max(S) >= y
  BY <1>3, <1>4, MaxOf
<1>8. Max(S) \in Nat /\ \A y \in S : y \in Nat
  <2>1. \A y \in 0 .. m : y \in Nat
    BY <1>3
  <2>. QED
    BY <1>4, <1>7, <2>1
<1>. QED
  BY <1>5, <1>6, <1>7, <1>8

(* A text that another begins with.                                        *)
LEMMA PrefixShares ==
  ASSUME NEW k \in Seq(Nat), NEW t \in Seq(Nat)
  PROVE  /\ IsPrefixOf(k, t) <=> SharesUpTo(Len(k), k, t)
         /\ IsPrefixOf(k, t) <=> CommonPrefix(k, t) = Len(k)
         /\ IsPrefixOf(k, t) /\ Len(k) = Len(t) => k = t
<1>1. Len(k) \in Nat /\ Len(t) \in Nat
  OBVIOUS
<1>2. IsPrefixOf(k, t) => SharesUpTo(Len(k), k, t)
  <2> SUFFICES ASSUME Len(k) <= Len(t), SubSeq(t, 1, Len(k)) = k
               PROVE  SharesUpTo(Len(k), k, t)
    BY DEF IsPrefixOf
  <2>1. \A i \in 1 .. Len(k) : SubSeq(t, 1, Len(k))[i] = t[i]
    OBVIOUS
  <2>. QED
    BY <1>1, <2>1 DEF SharesUpTo
<1>3. SharesUpTo(Len(k), k, t) => IsPrefixOf(k, t)
  <2> SUFFICES ASSUME Len(k) <= Len(t), \A i \in 1 .. Len(k) : k[i] = t[i]
               PROVE  SubSeq(t, 1, Len(k)) = k
    BY DEF SharesUpTo, IsPrefixOf
  <2> DEFINE u == SubSeq(t, 1, Len(k))
  <2>1. u \in Seq(Nat) /\ Len(u) = Len(k) /\ \A i \in 1 .. Len(k) : u[i] = t[i]
    OBVIOUS
  <2> HIDE DEF u
  <2>2. \A i \in 1 .. Len(k) : u[i] = k[i]
    BY <2>1
  <2>3. u \in Seq(Nat) /\ k \in Seq(Nat) /\ Len(u) = Len(k) /\ Len(k) \in Nat
    BY <1>1, <2>1
  <2>4. u = k
    BY <2>2, <2>3
  <2>. QED
    BY <2>4 DEF u
<1>4. SharesUpTo(Len(k), k, t) <=> CommonPrefix(k, t) = Len(k)
  <2> DEFINE n == CommonPrefix(k, t)
  <2>1. SharesUpTo(n, k, t) /\ \A m : SharesUpTo(m, k, t) => m <= n
    BY CommonPrefixIs
  <2> HIDE DEF n
  <2>2. n \in Nat /\ n <= Len(k)
    BY <2>1 DEF SharesUpTo
  <2>3. n = Len(k) <=> SharesUpTo(Len(k), k, t)
    BY <1>1, <2>1, <2>2
  <2>. QED
    BY <2>3 DEF n
<1>5. IsPrefixOf(k, t) /\ Len(k) = Len(t) => k = t
  BY DEF IsPrefixOf
<1>. QED
  BY <1>2, <1>3, <1>4, <1>5

(* A text is before those that go on from it.                              *)
LEMMA PrefixLess ==
  ASSUME NEW k \in Seq(Nat), NEW t \in Seq(Nat), IsPrefixOf(k, t), k # t
  PROVE  Less(k, t) /\ Len(k) < Len(t)
<1>1. CommonPrefix(k, t) = Len(k) /\ Len(k) # Len(t) /\ Len(k) <= Len(t)
  BY PrefixShares DEF IsPrefixOf
<1>. QED
  BY <1>1 DEF Less

(* What lies between a text and one that begins with it begins so as well. *)
LEMMA BetweenShares ==
  ASSUME NEW k \in Seq(Nat), NEW m \in Seq(Nat), NEW t \in Seq(Nat),
         IsPrefixOf(k, t), Less(k, m), Less(m, t)
  PROVE  CommonPrefix(m, t) >= Len(k)
<1> DEFINE p == CommonPrefix(k, m)
           q == CommonPrefix(m, t)
<1>1. SharesUpTo(p, k, m) /\ \A n : SharesUpTo(n, k, m) => n <= p
  BY CommonPrefixIs
<1>2. SharesUpTo(q, m, t)
  BY CommonPrefixIs
<1>3. SharesUpTo(Len(k), k, t)
  BY PrefixShares
<1>4. p < Len(m) /\ (p = Len(k) \/ k[p + 1] < m[p + 1])
  BY DEF Less
<1>5. q < Len(t) /\ (q = Len(m) \/ m[q + 1] < t[q + 1])
  BY DEF Less
<1> HIDE DEF p, q
<1> SUFFICES ASSUME q < Len(k) PROVE FALSE
  <2>1. q \in Nat /\ Len(k) \in Nat
    BY <1>2 DEF SharesUpTo
  <2>2. q >= Len(k)
    BY <2>1
  <2>. QED
    BY <2>2 DEF q
<1>6. /\ p \in Nat /\ q \in Nat /\ Len(k) \in Nat /\ Len(m) \in Nat /\ Len(t) \in Nat
      /\ p <= Len(k) /\ q <= Len(m)
  BY <1>1, <1>2 DEF SharesUpTo
<1>7. q <= p
  <2>1. \A i \in 1 .. q : k[i] = m[i]
    BY <1>2, <1>3, <1>6 DEF SharesUpTo
  <2>2. SharesUpTo(q, k, m)
    BY <1>6, <2>1 DEF SharesUpTo
  <2>. QED
    BY <1>1, <2>2
<1>8. q # Len(m) /\ m[q + 1] < t[q + 1]
  BY <1>4, <1>5, <1>6, <1>7
<1>9. q + 1 \in 1 .. Len(k) /\ q + 1 \in 1 .. Len(m) /\ q + 1 \in 1 .. Len(t)
  BY <1>3, <1>6, <1>8 DEF SharesUpTo
<1>10. k[q + 1] = t[q + 1] /\ k[q + 1] \in Nat /\ m[q + 1] \in Nat
  BY <1>3, <1>9 DEF SharesUpTo
<1>11. k[q + 1] # m[q + 1]
  BY <1>8, <1>10
<1>12. p = q
  <2>1. ~(q + 1 \in 1 .. p)
    BY <1>1, <1>11 DEF SharesUpTo
  <2>. QED
    BY <1>6, <1>7, <2>1
<1>. QED
  BY <1>4, <1>6, <1>8, <1>10, <1>12

(* Of two texts a third begins with, the one that is before is shorter.    *)
LEMMA BothPrefixes ==
  ASSUME NEW k \in Seq(Nat), NEW m \in Seq(Nat), NEW t \in Seq(Nat),
         IsPrefixOf(k, t), IsPrefixOf(m, t), Less(k, m)
  PROVE  Len(k) < Len(m)
<1>1. SharesUpTo(Len(k), k, t) /\ SharesUpTo(Len(m), m, t)
  BY PrefixShares
<1>2. CommonPrefix(k, m) < Len(m) /\ CommonPrefix(k, m) \in Nat
  BY CommonPrefixIs DEF Less, SharesUpTo
<1> SUFFICES ASSUME Len(m) <= Len(k) PROVE FALSE
  <2>1. Len(m) \in Nat /\ Len(k) \in Nat
    OBVIOUS
  <2>. QED
    BY <2>1
<1>3. SharesUpTo(Len(m), k, m)
  BY <1>1 DEF SharesUpTo
<1>4. Len(m) <= CommonPrefix(k, m)
  BY <1>3, CommonPrefixIs
<1>. QED
  BY <1>2, <1>4

-----------------------------------------------------------------------------
(* The keys of a command, as IsCommand has them.                           *)
KeysKnown(c) ==
  /\ DOMAIN c.map \subseteq Seq(Nat)
  /\ Len(c.keys) \in Nat /\ DOMAIN c.keys = 1 .. Len(c.keys)
  /\ \A i \in DOMAIN c.keys : c.keys[i] \in DOMAIN c.map /\ c.keys[i] \in Seq(Nat)
  /\ \A k \in DOMAIN c.map : \E i \in DOMAIN c.keys : c.keys[i] = k
  /\ \A i, j \in DOMAIN c.keys : i < j => Less(c.keys[i], c.keys[j])

(* Every command has its keys in such an order.                            *)
LEMMA CommandKeys ==
  ASSUME NEW c \in Commands
  PROVE  KeysKnown(c)
<1>1. IsCommand(c)
  BY CommandsAssumption
<1>2. /\ DOMAIN c.map \subseteq Seq(Nat)
      /\ c.keys \in Seq(DOMAIN c.map) /\ ToSet(c.keys) = DOMAIN c.map
      /\ \A i, j \in DOMAIN c.keys : i < j => Less(c.keys[i], c.keys[j])
  BY <1>1 DEF IsCommand
<1>3. /\ Len(c.keys) \in Nat /\ DOMAIN c.keys = 1 .. Len(c.keys)
      /\ \A i \in DOMAIN c.keys : c.keys[i] \in DOMAIN c.map
  BY <1>2
<1>4. \A k \in DOMAIN c.map : \E i \in DOMAIN c.keys : c.keys[i] = k
  BY <1>2 DEF ToSet
<1>. QED
  BY <1>2, <1>3, <1>4 DEF KeysKnown

(* The position in the list of keys that the search stops at.              *)
TakesValues(c, k) == c.opts[c.map[k]].vals # <<>>

StopsAt(c, arg, i) ==
  /\ CommonPrefix(c.keys[i], arg) = Len(c.keys[i]) /\ Less(c.keys[i], arg)
  /\ TakesValues(c, c.keys[i])
  /\ \A j \in i + 1 .. Len(c.keys) :
        Less(c.keys[j], arg)
          => CommonPrefix(c.keys[j], arg) > 0 /\ CommonPrefix(c.keys[j], arg) >= Len(c.keys[i])

(* The search ends at the last key it may stop at, if there is one.        *)
LEMMA FindKeyIs ==
  ASSUME NEW c, NEW arg, arg \notin DOMAIN c.map, KeysKnown(c)
  PROVE  \/ FindKey(c, arg) = {} /\ \A i \in DOMAIN c.keys : ~StopsAt(c, arg, i)
         \/ \E i \in DOMAIN c.keys :
               /\ FindKey(c, arg) = {c.keys[i]} /\ StopsAt(c, arg, i)
               /\ \A j \in DOMAIN c.keys : StopsAt(c, arg, j) => j <= i
<1> DEFINE fits == {i \in DOMAIN c.keys : StopsAt(c, arg, i)}
<1>1. FindKey(c, arg) = IF fits = {} THEN {} ELSE {c.keys[Max(fits)]}
  BY DEF FindKey, StopsAt, TakesValues
<1>2. CASE fits = {}
  BY <1>1, <1>2
<1>3. CASE fits # {}
  <2>1. Len(c.keys) \in Nat /\ fits \subseteq 0 .. Len(c.keys) /\ \A x \in fits : x \in Nat
    BY DEF KeysKnown
  <2> DEFINE n == Len(c.keys)
             S == fits
  <2>2. n \in Nat /\ S \subseteq 0 .. n /\ S # {}
    BY <1>3, <2>1
  <2>3. Max(S) \in S /\ \A y \in S : Max(S) >= y
    <3> HIDE DEF n, S, fits
    <3>. QED
      BY <2>2, MaxOf
  <2>4. \A y \in fits : y <= Max(fits)
    <3> HIDE DEF fits
    <3>. QED
      BY <2>1, <2>3 DEF S
  <2>5. Max(fits) \in DOMAIN c.keys /\ StopsAt(c, arg, Max(fits))
    BY <2>3
  <2>6. \A j \in DOMAIN c.keys : StopsAt(c, arg, j) => j <= Max(fits)
    BY <2>4
  <2>7. FindKey(c, arg) = {c.keys[Max(fits)]}
    BY <1>1, <1>3
  <2> HIDE DEF fits, S
  <2>. QED
    BY <2>5, <2>6, <2>7
<1>. QED
  BY <1>2, <1>3

(* What the search finds: the argument itself, or what it begins with.     *)
Finds(c, arg, k) ==
  /\ k \in DOMAIN c.map /\ k \in Seq(Nat) /\ Len(k) \in Nat
  /\ IsPrefixOf(k, arg)
  /\ Len(k) = Len(arg) => k = arg
  /\ Len(k) # Len(arg) => Len(k) < Len(arg) /\ TakesValues(c, k)

(* There is one key that is found at most.                                 *)
LEMMA FoundKey ==
  ASSUME NEW c \in Commands, NEW arg \in Seq(Nat), NEW k \in FindKey(c, arg)
  PROVE  Finds(c, arg, k) /\ FindKey(c, arg) = {k}
<1>1. KeysKnown(c)
  BY CommandKeys
<1>2. CASE arg \in DOMAIN c.map
  <2>1. FindKey(c, arg) = {arg}
    BY <1>2 DEF FindKey
  <2>2. IsPrefixOf(arg, arg)
    BY DEF IsPrefixOf
  <2>3. Len(arg) \in Nat
    OBVIOUS
  <2>. QED
    BY <1>2, <2>1, <2>2, <2>3 DEF Finds
<1>3. CASE arg \notin DOMAIN c.map
  <2>1. PICK i \in DOMAIN c.keys : FindKey(c, arg) = {c.keys[i]} /\ StopsAt(c, arg, i)
    BY <1>1, <1>3, FindKeyIs
  <2>2. k = c.keys[i] /\ k \in DOMAIN c.map /\ k \in Seq(Nat)
    BY <1>1, <2>1 DEF KeysKnown
  <2>3. CommonPrefix(k, arg) = Len(k) /\ TakesValues(c, k)
    BY <2>1, <2>2 DEF StopsAt
  <2>4. IsPrefixOf(k, arg) /\ (Len(k) = Len(arg) => k = arg)
    BY <2>2, <2>3, PrefixShares
  <2>5. Len(k) \in Nat /\ Len(arg) \in Nat /\ Len(k) <= Len(arg)
    BY <2>2, <2>4 DEF IsPrefixOf
  <2>. QED
    BY <2>1, <2>2, <2>3, <2>4, <2>5 DEF Finds
<1>. QED
  BY <1>2, <1>3

-----------------------------------------------------------------------------
(* The keys with values that an argument begins with.                      *)
Glued(c, arg) == {k \in DOMAIN c.map : IsPrefixOf(k, arg) /\ TakesValues(c, k)}

(* Where none is empty the search can stop at each of them.                *)
LEMMA GluedStops ==
  ASSUME NEW c, KeysKnown(c), <<>> \notin DOMAIN c.map,
         NEW arg \in Seq(Nat), arg \notin DOMAIN c.map, NEW i \in DOMAIN c.keys
  PROVE  StopsAt(c, arg, i) <=> c.keys[i] \in Glued(c, arg)
<1> DEFINE k == c.keys[i]
<1>1. k \in DOMAIN c.map /\ k \in Seq(Nat) /\ i \in Nat /\ k # <<>> /\ k # arg
  BY DEF KeysKnown
<1>2. IsPrefixOf(k, arg) <=> CommonPrefix(k, arg) = Len(k)
  <2> HIDE DEF k
  <2>. QED
    BY <1>1, PrefixShares
<1>3. StopsAt(c, arg, i) => k \in Glued(c, arg)
  BY <1>1, <1>2 DEF StopsAt, Glued
<1>4. ASSUME k \in Glued(c, arg) PROVE StopsAt(c, arg, i)
  <2>1. IsPrefixOf(k, arg) /\ TakesValues(c, k)
    BY <1>4 DEF Glued
  <2>2. Less(k, arg)
    <3> HIDE DEF k
    <3>. QED
      BY <1>1, <2>1, PrefixLess
  <2>3. ASSUME NEW j \in i + 1 .. Len(c.keys), Less(c.keys[j], arg)
        PROVE  CommonPrefix(c.keys[j], arg) > 0 /\ CommonPrefix(c.keys[j], arg) >= Len(k)
    <3> DEFINE m == c.keys[j]
    <3>1. j \in DOMAIN c.keys /\ i < j
      BY <1>1 DEF KeysKnown
    <3>2. m \in Seq(Nat) /\ Less(k, m)
      BY <3>1 DEF KeysKnown
    <3>3. Less(m, arg)
      BY <2>3
    <3>4. Len(k) \in Nat /\ Len(k) > 0
      <4> HIDE DEF k
      <4>. QED
        BY <1>1
    <3> HIDE DEF k, m
    <3>5. CommonPrefix(m, arg) >= Len(k) /\ CommonPrefix(m, arg) \in Nat
      BY <1>1, <2>1, <3>2, <3>3, BetweenShares, CommonPrefixIs DEF SharesUpTo
    <3>. QED
      BY <3>4, <3>5 DEF m
  <2>. QED
    BY <1>2, <2>1, <2>2, <2>3 DEF StopsAt
<1>. QED
  BY <1>3, <1>4

(* The longest of some texts that an argument begins with.                 *)
Longest(S) == {k \in S : \A l \in S : Len(l) <= Len(k)}

(* What is found is the longest key the argument begins with.              *)
LEMMA FindsLongest ==
  ASSUME NEW c \in Commands, <<>> \notin DOMAIN c.map,
         NEW arg \in Seq(Nat), arg \notin DOMAIN c.map
  PROVE  FindKey(c, arg) = Longest(Glued(c, arg))
<1>1. KeysKnown(c)
  BY CommandKeys
<1>2. \A i \in DOMAIN c.keys : StopsAt(c, arg, i) <=> c.keys[i] \in Glued(c, arg)
  BY <1>1, GluedStops
<1>3. \A k \in Glued(c, arg) : \E i \in DOMAIN c.keys : c.keys[i] = k
  BY <1>1 DEF KeysKnown, Glued
<1>4. CASE FindKey(c, arg) = {} /\ \A i \in DOMAIN c.keys : ~StopsAt(c, arg, i)
  <2>1. Glued(c, arg) = {}
    BY <1>2, <1>3, <1>4
  <2>. QED
    BY <1>4, <2>1 DEF Longest
<1>5. ASSUME NEW i \in DOMAIN c.keys, FindKey(c, arg) = {c.keys[i]}, StopsAt(c, arg, i),
             \A j \in DOMAIN c.keys : StopsAt(c, arg, j) => j <= i
      PROVE  FindKey(c, arg) = Longest(Glued(c, arg))
  <2> DEFINE k == c.keys[i]
  <2>1. k \in Glued(c, arg) /\ k \in Seq(Nat) /\ IsPrefixOf(k, arg)
    BY <1>1, <1>2, <1>5 DEF KeysKnown, Glued
  <2>2. ASSUME NEW l \in Glued(c, arg), l # k PROVE Len(l) < Len(k)
    <3>1. PICK j \in DOMAIN c.keys : c.keys[j] = l
      BY <1>3
    <3>2. j <= i /\ j # i
      BY <1>2, <1>5, <2>2, <3>1
    <3>3. i \in Nat /\ j \in Nat
      BY <1>1 DEF KeysKnown
    <3>4. l \in Seq(Nat) /\ IsPrefixOf(l, arg) /\ Less(l, k)
      <4>1. j < i
        BY <3>2, <3>3
      <4>2. Less(c.keys[j], c.keys[i])
        BY <1>1, <4>1 DEF KeysKnown
      <4>3. l \in DOMAIN c.map /\ IsPrefixOf(l, arg)
        BY DEF Glued
      <4>4. l \in Seq(Nat)
        BY <1>1, <4>3 DEF KeysKnown
      <4>. QED
        BY <3>1, <4>2, <4>3, <4>4
    <3> HIDE DEF k
    <3>. QED
      BY <2>1, <3>4, BothPrefixes
  <2> HIDE DEF k
  <2>3. Len(k) \in Nat /\ \A l \in Glued(c, arg) : Len(l) \in Nat
    BY <1>1, <2>1 DEF KeysKnown, Glued
  <2>4. \A l \in Glued(c, arg) : Len(l) <= Len(k)
    BY <2>2, <2>3
  <2>5. \A l \in Glued(c, arg) : l # k => ~(Len(k) <= Len(l))
    BY <2>2, <2>3
  <2>6. Longest(Glued(c, arg)) = {k}
    BY <2>1, <2>4, <2>5 DEF Longest
  <2>. QED
    BY <1>5, <2>6 DEF k
<1>. QED
  BY <1>1, <1>4, <1>5, FindKeyIs

(* So KeyIsLongest is a fact about every command and every argument.       *)
LEMMA KeysExact ==
  ASSUME NEW c \in Commands, <<>> \notin DOMAIN c.map, NEW arg \in Seq(Nat)
  PROVE  LET full  == {k \in DOMAIN c.map : k = arg}
             glued == {k \in DOMAIN c.map :
                          IsPrefixOf(k, arg) /\ c.opts[c.map[k]].vals # <<>>}
         IN  FindKey(c, arg) =
                 IF full # {} THEN full
                 ELSE {k \in glued : \A l \in glued : Len(l) <= Len(k)}
<1>1. CASE arg \in DOMAIN c.map
  <2>1. FindKey(c, arg) = {arg} /\ {k \in DOMAIN c.map : k = arg} = {arg}
    BY <1>1 DEF FindKey
  <2>. QED
    BY <2>1
<1>2. CASE arg \notin DOMAIN c.map
  <2>1. {k \in DOMAIN c.map : k = arg} = {}
    BY <1>2
  <2>2. FindKey(c, arg) = Longest(Glued(c, arg))
    BY <1>2, FindsLongest
  <2>. QED
    BY <2>1, <2>2 DEF Longest, Glued, TakesValues
<1>. QED
  BY <1>1, <1>2

-----------------------------------------------------------------------------
(* The inductive invariants.  What is read, beside the types: a part of an *)
(* argument is taken by a key only while the first value of its option is  *)
(* due, a positional value is counted only while it is being filled, and   *)
(* nothing is read before the command is found.                            *)
CallRecords == [by : {"command", "key", "value", "option", "positional"},
                text : Seq(Nat), at : Nat]

(* The option in hand: the one whose values are read, or were when the     *)
(* parse failed.                                                           *)
InOption == pc = "option" \/ (pc = "done" /\ status = "invalid_value" /\ culprit[1] = "option")

HeldKey ==
  /\ key \in DOMAIN cmd.map
  /\ prefix \in {0, Len(key)}
  /\ val \in 1 .. (Len(CurrentOption.vals) + 1)

HeldPart ==
  /\ InOption /\ More
  /\ IsPrefixOf(key, Arg) /\ Len(key) < Len(Arg)
  /\ val = 1 /\ ~took /\ CurrentOption.vals # <<>>

Nothing ==
  /\ key = <<>> /\ prefix = 0 /\ valIt = 1 /\ count = 0

Placed ==
  /\ cmd \in Commands /\ args \in Seq(Seq(Nat))
  /\ pc \in {"commands", "args", "option", "rest", "check", "done"}
  /\ pos \in 0 .. Len(args)
  /\ status \in Statuses /\ (status = "" <=> pc # "done")
  /\ calls \in Seq(CallRecords)

Held ==
  /\ key \in Seq(Nat) /\ prefix \in Nat /\ val \in Nat /\ took \in BOOLEAN
  /\ InOption => HeldKey
  /\ prefix > 0 => HeldPart

Counted ==
  /\ valIt \in 1 .. (Len(cmd.values) + 1)
  /\ count \in 0 .. pos
  /\ pc \in {"args", "option"} /\ count > 0
       => valIt <= Len(cmd.values) /\ cmd.values[valIt].multiple
  /\ pc = "commands" => Nothing
  /\ pc \in {"rest", "check"} \/ status = "ok" => pos = Len(args)
  /\ pc = "check" \/ status = "ok" => valIt = Len(cmd.values) + 1

BaseInv == Placed /\ Held /\ Counted

CheckInv ==
  /\ specified \subseteq DOMAIN cmd.opts /\ optional \subseteq DOMAIN cmd.opts
  /\ node \in 1 .. (Len(cmd.opts) + 1)
  /\ pc \in {"commands", "args", "option", "rest"} => optional = {} /\ node = 1
  /\ pc = "commands" => specified = {}

(* Every key has its option's call, but the one of the option in hand; and *)
(* the calls of the required values follow the key's.                      *)
Required(c, k) == {j \in DOMAIN c.opts[c.map[k]].vals : ~c.opts[c.map[k]].vals[j].optional}

Filled(i) ==
  \A n \in 1 .. Cardinality(Required(cmd, calls[i].text)) :
     i + n \in DOMAIN calls /\ calls[i + n].by = "value"

BeingFilled(i) ==
  /\ InOption /\ calls[i].text = key
  /\ \A j \in i + 1 .. Len(calls) : calls[j].by = "value"
  /\ Len(calls) - i >= Cardinality(Required(cmd, key) \cap 1 .. (val - 1))
                          + (IF took THEN 1 ELSE 0)

TextsInv ==
  TextsOf(CallsBy({"key"})) = IF InOption THEN Append(TextsOf(CallsBy({"option"})), key)
                              ELSE TextsOf(CallsBy({"option"}))

FillInv ==
  \A i \in DOMAIN calls :
     calls[i].by = "key" => calls[i].text \in DOMAIN cmd.map /\ (Filled(i) \/ BeingFilled(i))

CommandsFirst == pc = "commands" => \A i \in DOMAIN calls : calls[i].by = "command"

OptionsInv == TextsInv /\ CommandsFirst /\ FillInv

(* The positional values have been filled in order up to the one that is   *)
(* being filled.                                                           *)
Got == CallsBy({"positional"})

PlacesInv ==
  /\ pc = "commands" => Got = <<>>
  /\ \A j \in DOMAIN Got : Got[j].at \in 1 .. valIt /\ Got[j].at <= Len(cmd.values)
  /\ \A i, j \in DOMAIN Got : i < j => Got[i].at <= Got[j].at
  /\ \A i, j \in DOMAIN Got : i # j /\ Got[i].at = Got[j].at => cmd.values[Got[i].at].multiple
  /\ \A i \in DOMAIN cmd.values :
        i < valIt => cmd.values[i].optional \/ \E j \in DOMAIN Got : Got[j].at = i
  /\ pc \in {"args", "option"} => (count > 0 <=> \E j \in DOMAIN Got : Got[j].at = valIt)

(* The nodes passed are given, and can be left out, as their children are. *)
Below(i) == ToSet(cmd.opts[i].kids)

OptionGiven(i) ==
  \E c \in DOMAIN calls : calls[c].by = "option" /\ cmd.map[calls[c].text] = i

Omits(i) ==
  \/ cmd.opts[i].optional
  \/ cmd.opts[i].group /\ cmd.opts[i].exclusive /\ Below(i) \cap optional # {}
  \/ cmd.opts[i].group /\ ~cmd.opts[i].exclusive /\ Below(i) \subseteq optional

FitsHere(i) ==
  cmd.opts[i].group =>
     /\ Below(i) \cap specified # {} \/ Omits(i)
     /\ cmd.opts[i].exclusive => Cardinality(Below(i) \cap specified) <= 1
     /\ ~cmd.opts[i].exclusive /\ Below(i) \cap specified # {}
           => Below(i) \subseteq specified \cup optional

NodesInv ==
  /\ \A i \in DOMAIN cmd.opts :
        IF cmd.opts[i].group
        THEN i \in specified <=> i < node /\ Below(i) \cap specified # {}
        ELSE i \in specified <=> OptionGiven(i)
  /\ \A i \in DOMAIN cmd.opts : i \in optional <=> i < node /\ Omits(i)
  /\ \A i \in DOMAIN cmd.opts : i < node => FitsHere(i)
  /\ status \in {"unspecified_option", "conflicting_option"}
        => node \in DOMAIN cmd.opts /\ ~FitsHere(node)
  /\ status = "ok" => node = Len(cmd.opts) + 1
  /\ \A c \in DOMAIN calls : calls[c].by = "option" => calls[c].text \in DOMAIN cmd.map

-----------------------------------------------------------------------------
(* What a command is made of.                                              *)
CommandShape(c) ==
  /\ c.values \in Seq(Values) /\ Len(c.values) \in Nat
  /\ c.opts \in Seq(OptionNodes) /\ Len(c.opts) \in Nat /\ DOMAIN c.opts = 1 .. Len(c.opts)
  /\ Len(c.opts) > 0
  /\ DOMAIN c.map \subseteq Seq(Nat)
  /\ \A k \in DOMAIN c.map :
        /\ c.map[k] \in DOMAIN c.opts /\ ~c.opts[c.map[k]].group
        /\ c.opts[c.map[k]].vals \in Seq(Values) /\ Len(c.opts[c.map[k]].vals) \in Nat
  /\ \A name \in DOMAIN c.subcommands : name \in Seq(Nat) /\ c.subcommands[name] \in Commands

(* Every command has that shape.                                           *)
LEMMA KnownCommand ==
  ASSUME NEW c \in Commands
  PROVE  CommandShape(c)
<1>1. IsCommand(c)
  BY CommandsAssumption
<1>2. /\ IsTree(c.opts) /\ c.values \in Seq(Values) /\ DOMAIN c.map \subseteq Seq(Nat)
      /\ \A k \in DOMAIN c.map : c.map[k] \in DOMAIN c.opts /\ k \in ToSet(c.opts[c.map[k]].keys)
      /\ \A name \in DOMAIN c.subcommands : name \in Seq(Nat) /\ c.subcommands[name] \in Commands
  BY <1>1 DEF IsCommand
<1>3. /\ c.opts \in Seq(OptionNodes) /\ c.opts # <<>>
      /\ \A i \in DOMAIN c.opts : c.opts[i].group => c.opts[i].keys = <<>>
  BY <1>2 DEF IsTree
<1>4. Len(c.opts) \in Nat /\ DOMAIN c.opts = 1 .. Len(c.opts) /\ Len(c.opts) > 0
  BY <1>3
<1>5. \A i \in DOMAIN c.opts : c.opts[i] \in OptionNodes
  BY <1>3
<1>6. ASSUME NEW k \in DOMAIN c.map
      PROVE  /\ c.map[k] \in DOMAIN c.opts /\ ~c.opts[c.map[k]].group
             /\ c.opts[c.map[k]].vals \in Seq(Values) /\ Len(c.opts[c.map[k]].vals) \in Nat
  <2>1. c.map[k] \in DOMAIN c.opts /\ c.opts[c.map[k]].keys # <<>>
    BY <1>2 DEF ToSet
  <2>2. c.opts[c.map[k]].vals \in Seq(Values)
    BY <1>5, <2>1 DEF OptionNodes
  <2>. QED
    BY <1>3, <2>1, <2>2
<1>7. Len(c.values) \in Nat
  BY <1>2
<1>. QED
  BY <1>2, <1>3, <1>4, <1>6, <1>7 DEF CommandShape

(* A call more.                                                            *)
LEMMA CallTyped ==
  ASSUME calls \in Seq(CallRecords),
         NEW by \in {"command", "key", "value", "option", "positional"},
         NEW text \in Seq(Nat), NEW at \in Nat, Call(by, text, at)
  PROVE  /\ [by |-> by, text |-> text, at |-> at] \in CallRecords
         /\ calls' = Append(calls, [by |-> by, text |-> text, at |-> at])
         /\ calls' \in Seq(CallRecords)
<1>1. [by |-> by, text |-> text, at |-> at] \in CallRecords
  BY DEF CallRecords
<1>. QED
  BY <1>1 DEF Call

(* The argument that is next.                                              *)
LEMMA NextArgument ==
  ASSUME args \in Seq(Seq(Nat)), pos \in 0 .. Len(args), More
  PROVE  /\ pos \in Nat /\ Len(args) \in Nat /\ pos + 1 \in 0 .. Len(args)
         /\ Arg \in Seq(Nat)
<1>1. pos \in Nat /\ Len(args) \in Nat /\ pos + 1 \in 1 .. Len(args)
  BY DEF More
<1>. QED
  BY <1>1 DEF Arg

-----------------------------------------------------------------------------

(* It holds before anything is read.                                       *)
LEMMA BaseInit == Init => BaseInv
<1> SUFFICES ASSUME Init PROVE BaseInv
  OBVIOUS
<1>1. cmd \in Commands /\ args \in Seq(Seq(Nat))
  BY InputsAssumption DEF Init
<1>2. CommandShape(cmd)
  BY <1>1, KnownCommand
<1> DEFINE r == [by |-> "command", text |-> <<>>, at |-> 0]
<1>3. r \in CallRecords
  <2>1. <<>> \in Seq(Nat)
    OBVIOUS
  <2>. QED
    BY <2>1 DEF CallRecords
<1>4. calls \in Seq(CallRecords)
  <2>1. calls = <<r>>
    BY DEF Init
  <2> HIDE DEF r
  <2>. QED
    BY <1>3, <2>1
<1> HIDE DEF r
<1>5. Len(args) \in Nat
  BY <1>1
<1>a. took \in BOOLEAN
  BY DEF Init
<1>6. key \in Seq(Nat)
  <2>1. <<>> \in Seq(Nat)
    OBVIOUS
  <2>. QED
    BY <2>1 DEF Init
<1>7. pc = "commands" /\ pos = 0 /\ prefix = 0 /\ val = 1 /\ valIt = 1 /\ count = 0 /\ status = ""
  BY DEF Init
<1>8. Len(cmd.values) \in Nat
  BY <1>2 DEF CommandShape
<1>9. Nothing
  BY DEF Init, Nothing
<1>10. ~InOption
  BY <1>7 DEF InOption
<1>11. valIt \in 1 .. (Len(cmd.values) + 1) /\ count \in 0 .. pos /\ pos \in 0 .. Len(args)
  <2>1. valIt = 1 /\ count = 0 /\ pos = 0
    BY <1>7
  <2>2. 0 \in 0 .. 0 /\ 0 \in 0 .. Len(args) /\ 1 \in 1 .. (Len(cmd.values) + 1)
    BY <1>5, <1>8
  <2>. QED
    BY <2>1, <2>2
<1>12. status \in Statuses /\ (status = "" <=> pc # "done")
  BY <1>7 DEF Statuses
<1>13. pc \in {"commands", "args", "option", "rest", "check", "done"} /\ prefix \in Nat /\ val \in Nat
  BY <1>7
<1>15. ~(prefix > 0)
  <2>1. prefix = 0
    BY <1>7
  <2>. QED
    BY <2>1
<1>14. ~(pc \in {"args", "option"}) /\ ~(pc \in {"rest", "check"}) /\ pc # "check" /\ status # "ok"
  BY <1>7
<1>. QED
  BY <1>1, <1>4, <1>a, <1>6, <1>9, <1>10, <1>11, <1>12, <1>13, <1>14, <1>15, Zenon DEF BaseInv, Placed, Held, Counted

-----------------------------------------------------------------------------
(* A step out of an option leaves its key alone.                           *)
LEMMA HeldStays ==
  ASSUME Held, ~InOption, ~InOption', UNCHANGED <<key, prefix, val, took>>
  PROVE  Held'
<1>1. ~(prefix > 0)
  BY DEF Held, HeldPart
<1>2. ~(prefix' > 0)
  BY <1>1
<1>. QED
  BY <1>2, Zenon DEF Held

(* Where a step does not find a status nor a call.                         *)
LEMMA PlacedStays ==
  ASSUME Placed, cmd' = cmd, args' = args, pos' = pos, status' = status, calls' = calls,
         pc # "done", pc' \in {"args", "option", "rest", "check"}
  PROVE  Placed'
<1>1. pc' # "done" /\ status' = ""
  BY DEF Placed
<1>. QED
  BY <1>1 DEF Placed

(* A parse that fails is placed as it was.                                 *)
LEMMA PlacedFails ==
  ASSUME Placed, NEW why \in Statuses, why # "", pc' = "done", status' = why,
         cmd' = cmd, args' = args, pos' = pos, calls' = calls
  PROVE  Placed'
BY DEF Placed

(* A subcommand is entered.                                                *)
LEMMA BaseDescend ==
  ASSUME BaseInv, Descend
  PROVE  BaseInv'
<1>1. CommandShape(cmd) /\ cmd.subcommands[Arg] \in Commands /\ cmd' = cmd.subcommands[Arg]
  BY KnownCommand DEF BaseInv, Placed, Descend, CommandShape
<1>2. CommandShape(cmd')
  BY <1>1, KnownCommand
<1>3. pos + 1 \in 0 .. Len(args) /\ pos \in Nat /\ Arg \in Seq(Nat)
  BY NextArgument DEF BaseInv, Placed, Descend
<1>4. calls' \in Seq(CallRecords)
  <2>1. calls \in Seq(CallRecords) /\ Call("command", Arg, pos + 1) /\ pos + 1 \in Nat
    <3>1. calls \in Seq(CallRecords) /\ Call("command", Arg, pos + 1)
      BY DEF BaseInv, Placed, Descend
    <3>. QED
      BY <1>3, <3>1
  <2>. QED
    BY <1>3, <2>1, CallTyped
<1>5. Placed'
  BY <1>1, <1>3, <1>4 DEF BaseInv, Placed, Descend, Stays, NotChecking
<1>6. Held'
  <2>1. ~InOption /\ ~InOption'
    BY DEF InOption, Descend, NotChecking
  <2>. QED
    BY <2>1, HeldStays DEF BaseInv, Descend
<1>7. Counted'
  <2>1. valIt' = 1 /\ count' = 0 /\ prefix' = 0 /\ key' = <<>> /\ pc' = "commands" /\ status' = ""
    BY DEF BaseInv, Counted, Nothing, Placed, Descend, NotChecking
  <2>2. Nothing'
    BY <2>1, Zenon DEF Nothing
  <2>3. Len(cmd'.values) \in Nat
    BY <1>2 DEF CommandShape
  <2>4. pos' = pos + 1
    BY DEF Descend
  <2>5. valIt' \in 1 .. (Len(cmd'.values) + 1) /\ count' \in 0 .. pos'
    <3>1. 1 \in 1 .. (Len(cmd'.values) + 1) /\ 0 \in 0 .. (pos + 1)
      BY <1>3, <2>3
    <3>2. valIt' = 1 /\ count' = 0
      BY <2>1
    <3>. QED
      BY <2>4, <3>1, <3>2
  <2>. QED
    BY <2>1, <2>2, <2>5, Zenon DEF Counted
<1>. QED
  BY <1>5, <1>6, <1>7 DEF BaseInv

(* The command is found.                                                   *)
LEMMA BaseCommandFound ==
  ASSUME BaseInv, CommandFound
  PROVE  BaseInv'
<1>1. Placed'
  BY PlacedStays DEF BaseInv, CommandFound, Stays, NotChecking, reading
<1>2. Held'
  <2>1. ~InOption /\ ~InOption'
    BY DEF InOption, CommandFound, NotChecking
  <2>. QED
    BY <2>1, HeldStays DEF BaseInv, CommandFound, reading
<1>3. Counted'
  <2>1. /\ count' = count /\ valIt' = valIt /\ cmd' = cmd /\ pos' = pos /\ pc' = "args" /\ status' = status
        /\ args' = args /\ pc = "commands"
    BY DEF CommandFound, NotChecking, reading, Stays
  <2>2. count = 0 /\ status = ""
    BY <2>1 DEF BaseInv, Placed, Counted, Nothing
  <2>3. ~(count' > 0)
    <3>1. count' = 0
      BY <2>1, <2>2
    <3>. QED
      BY <3>1
  <2>. QED
    BY <2>1, <2>2, <2>3 DEF BaseInv, Counted
<1>. QED
  BY <1>1, <1>2, <1>3 DEF BaseInv
(* What was counted stands while options are read, and when a parse fails. *)
LEMMA CountedReads ==
  ASSUME Counted, pc \in {"args", "option"}, pc' \in {"args", "option"}, status' # "ok",
         cmd' = cmd, valIt' = valIt, count' = count, NEW p \in Nat, pos = p,
         pos' = p \/ pos' = p + 1
  PROVE  Counted'
<1>1. count \in 0 .. pos
  BY DEF Counted
<1>2. count' \in 0 .. pos'
  BY <1>1
<1>3. pc' # "commands" /\ pc' # "check" /\ ~(pc' \in {"rest", "check"})
  OBVIOUS
<1>. QED
  BY <1>2, <1>3, Zenon DEF Counted

(* A parse that fails has counted what it had.                             *)
LEMMA CountedFails ==
  ASSUME Counted, pc' = "done", status' # "ok", cmd' = cmd, valIt' = valIt, count' = count, pos' = pos
  PROVE  Counted'
<1>1. pc' # "commands" /\ pc' # "check" /\ ~(pc' \in {"rest", "check"}) /\ ~(pc' \in {"args", "option"})
  OBVIOUS
<1>. QED
  BY <1>1, Zenon DEF Counted

(* An option is found.                                                     *)
LEMMA BaseOptionKey ==
  ASSUME BaseInv, OptionKey
  PROVE  BaseInv'
<1>1. PICK k \in FindKey(cmd, Arg) :
         /\ key' = k
         /\ IF Len(k) = Len(Arg) THEN prefix' = 0 /\ pos' = pos + 1
            ELSE prefix' = Len(k) /\ pos' = pos
         /\ Call("key", k, pos + 1)
  BY DEF OptionKey
<1>2. /\ pc = "args" /\ pc' = "option" /\ More /\ status' = status
      /\ val' = 1 /\ took' = FALSE /\ cmd' = cmd /\ valIt' = valIt /\ count' = count /\ args' = args
  BY DEF OptionKey, Stays, NotChecking
<1>3. pos + 1 \in 0 .. Len(args) /\ pos \in Nat /\ Arg \in Seq(Nat) /\ pos \in 0 .. Len(args)
  BY <1>2, NextArgument DEF BaseInv, Placed
<1>4. cmd \in Commands /\ Finds(cmd, Arg, k) /\ CommandShape(cmd)
  BY <1>3, FoundKey, KnownCommand DEF BaseInv, Placed
<1>5. calls' \in Seq(CallRecords) /\ pos' \in 0 .. Len(args')
  <2>1. calls \in Seq(CallRecords)
    BY DEF BaseInv, Placed
  <2>2. k \in Seq(Nat) /\ pos + 1 \in Nat
    BY <1>3, <1>4 DEF Finds
  <2>3. calls' \in Seq(CallRecords)
    BY <1>1, <2>1, <2>2, CallTyped
  <2>4. pos' = pos \/ pos' = pos + 1
    BY <1>1
  <2>. QED
    BY <1>2, <1>3, <2>3, <2>4
<1>6. Placed'
  BY <1>2, <1>5 DEF BaseInv, Placed
<1>7. InOption' /\ key' \in Seq(Nat) /\ prefix' \in Nat /\ val' \in Nat /\ took' \in BOOLEAN /\ Len(k) \in Nat
  <2>1. InOption' /\ took' \in BOOLEAN
    BY <1>2 DEF InOption
  <2>2. k \in Seq(Nat) /\ Len(k) \in Nat
    BY <1>4 DEF Finds
  <2>3. prefix' = 0 \/ prefix' = Len(k)
    BY <1>1
  <2>4. prefix' \in Nat
    BY <2>2, <2>3
  <2>5. val' = 1 /\ key' = k
    BY <1>1, <1>2
  <2>6. val' \in Nat
    BY <2>5
  <2>. QED
    BY <2>1, <2>2, <2>4, <2>5, <2>6
<1>8. HeldKey'
  <2>1. k \in DOMAIN cmd.map /\ CurrentOption' = cmd.opts[cmd.map[k]]
    BY <1>1, <1>2, <1>4 DEF Finds, CurrentOption
  <2>2. Len(cmd.opts[cmd.map[k]].vals) \in Nat
    BY <1>4, <2>1 DEF CommandShape
  <2>3. 1 \in 1 .. (Len(cmd.opts[cmd.map[k]].vals) + 1)
    <3> DEFINE n == Len(cmd.opts[cmd.map[k]].vals)
    <3>1. n \in Nat
      BY <2>2
    <3> HIDE DEF n
    <3>2. 1 \in 1 .. (n + 1)
      BY <3>1
    <3>. QED
      BY <3>2 DEF n
  <2>. QED
    BY <1>1, <1>2, <2>1, <2>3 DEF HeldKey
<1>9. ASSUME prefix' > 0 PROVE HeldPart'
  <2>1. Len(k) # Len(Arg) /\ pos' = pos
    BY <1>1, <1>9
  <2>2. Arg' = Arg /\ More'
    BY <1>2, <2>1 DEF Arg, More
  <2>3. IsPrefixOf(k, Arg) /\ Len(k) < Len(Arg) /\ TakesValues(cmd, k)
    BY <1>4, <2>1 DEF Finds
  <2>4. CurrentOption' = cmd.opts[cmd.map[k]]
    BY <1>1, <1>2 DEF CurrentOption
  <2>. QED
    BY <1>1, <1>2, <1>7, <2>2, <2>3, <2>4 DEF HeldPart, TakesValues
<1>10. Held'
  BY <1>7, <1>8, <1>9 DEF Held
<1>11. Counted'
  <2>1. pos' = pos \/ pos' = pos + 1
    BY <1>1
  <2>2. status' # "ok"
    BY <1>2 DEF BaseInv, Placed
  <2>. QED
    BY <1>2, <1>3, <2>1, <2>2, CountedReads DEF BaseInv
<1>. QED
  BY <1>6, <1>10, <1>11 DEF BaseInv

(* What is left of the argument, and the option that is read.              *)
LEMMA OptionInHand ==
  ASSUME BaseInv, pc = "option"
  PROVE  /\ cmd \in Commands /\ CommandShape(cmd) /\ HeldKey
         /\ CurrentOption.vals \in Seq(Values) /\ Len(CurrentOption.vals) \in Nat
         /\ pos \in Nat /\ status = ""
         /\ More => /\ pos + 1 \in 0 .. Len(args) /\ Arg \in Seq(Nat)
                    /\ Text \in Seq(Nat) /\ key \in Seq(Nat)
                    /\ (prefix = 0 => Text = Arg)
                    /\ (prefix # 0 => prefix = Len(key) /\ IsPrefixOf(key, Arg))
<1>1. cmd \in Commands /\ CommandShape(cmd) /\ HeldKey /\ status = ""
  BY KnownCommand DEF BaseInv, Placed, Held, InOption
<1>2. CurrentOption.vals \in Seq(Values) /\ Len(CurrentOption.vals) \in Nat
  BY <1>1 DEF CommandShape, HeldKey, CurrentOption
<1>3. pos \in Nat
  <2>1. pos \in 0 .. Len(args)
    BY DEF BaseInv, Placed
  <2>. QED
    BY <2>1
<1>4. ASSUME More
      PROVE  /\ pos + 1 \in 0 .. Len(args) /\ Arg \in Seq(Nat)
             /\ Text \in Seq(Nat) /\ key \in Seq(Nat)
             /\ (prefix = 0 => Text = Arg)
             /\ (prefix # 0 => prefix = Len(key) /\ IsPrefixOf(key, Arg))
  <2>1. pos + 1 \in 0 .. Len(args) /\ Arg \in Seq(Nat)
    BY <1>4, NextArgument DEF BaseInv, Placed
  <2>2. prefix \in Nat /\ key \in Seq(Nat) /\ (prefix > 0 => HeldPart)
    BY DEF BaseInv, Held
  <2>3. Text \in Seq(Nat)
    <3> DEFINE a == Arg
               n == prefix
    <3>1. a \in Seq(Nat) /\ n \in Nat
      BY <2>1, <2>2
    <3>2. Text = SubSeq(a, n + 1, Len(a))
      BY DEF Text
    <3> HIDE DEF a, n
    <3>3. SubSeq(a, n + 1, Len(a)) \in Seq(Nat)
      BY <3>1
    <3>. QED
      BY <3>2, <3>3
  <2>4. ASSUME prefix = 0 PROVE Text = Arg
    <3> DEFINE a == Arg
    <3>1. SubSeq(a, 1, Len(a)) = a /\ 0 + 1 = 1
      <4>1. a \in Seq(Nat)
        BY <2>1
      <4> HIDE DEF a
      <4>. QED
        BY <4>1
    <3>2. Text = SubSeq(a, prefix + 1, Len(a))
      BY DEF Text
    <3>. QED
      BY <2>4, <3>1, <3>2
  <2>5. prefix # 0 => prefix = Len(key) /\ IsPrefixOf(key, Arg)
    <3>1. prefix # 0 => prefix > 0
      BY <2>2
    <3>. QED
      BY <1>1, <2>2, <3>1 DEF HeldPart, HeldKey
  <2>. QED
    BY <2>1, <2>2, <2>3, <2>4, <2>5
<1>. QED
  BY <1>1, <1>2, <1>3, <1>4

(* The key in hand once a value was read or passed.                        *)
LEMMA HeldMoves ==
  ASSUME Held, pc = "option", pc' = "option", HeldKey, cmd' = cmd, key' = key, prefix' = 0,
         NEW n \in Nat, Len(CurrentOption.vals) = n, val <= n,
         val' = val \/ val' = val + 1, took' \in BOOLEAN
  PROVE  Held'
<1>1. CurrentOption' = CurrentOption /\ InOption'
  BY DEF CurrentOption, InOption
<1>2. val \in 1 .. (n + 1)
  BY DEF HeldKey
<1>3. val' \in 1 .. (n + 1) /\ val' \in Nat
  BY <1>2
<1>4. HeldKey'
  BY <1>1, <1>3 DEF HeldKey
<1>5. 0 \in Nat /\ ~(0 > 0)
  OBVIOUS
<1>6. prefix' \in Nat /\ ~(prefix' > 0)
  BY <1>5
<1>. QED
  BY <1>1, <1>3, <1>4, <1>6, Zenon DEF Held

(* A value of the option is read.                                          *)
LEMMA BaseOptionValue ==
  ASSUME BaseInv, OptionValue
  PROVE  BaseInv'
<1>1. /\ pc = "option" /\ pc' = "option" /\ val <= Len(CurrentOption.vals)
      /\ Call("value", Text, pos + 1)
      /\ pos' = pos + 1 /\ prefix' = 0
      /\ cmd' = cmd /\ key' = key /\ valIt' = valIt /\ count' = count /\ args' = args /\ status' = status
      /\ More
  BY DEF OptionValue, Offered, Stays, NotChecking
<1>2. \/ took' = TRUE /\ val' = val
      \/ took' = FALSE /\ val' = val + 1
  BY DEF OptionValue
<1>3. /\ HeldKey /\ Len(CurrentOption.vals) \in Nat /\ pos \in Nat /\ status = ""
      /\ pos + 1 \in 0 .. Len(args) /\ Text \in Seq(Nat)
  BY <1>1, OptionInHand
<1>4. calls' \in Seq(CallRecords)
  <2>1. calls \in Seq(CallRecords)
    BY DEF BaseInv, Placed
  <2>2. pos + 1 \in Nat
    <3>1. pos \in Nat
      BY <1>3
    <3>. QED
      BY <3>1
  <2>. QED
    BY <1>1, <1>3, <2>1, <2>2, CallTyped
<1>5. Placed'
  BY <1>1, <1>3, <1>4 DEF BaseInv, Placed
<1>6. Held'
  <2> DEFINE n == Len(CurrentOption.vals)
  <2>1. n \in Nat /\ val <= n
    BY <1>1, <1>3
  <2>2. Held
    BY DEF BaseInv
  <2>3. took' \in BOOLEAN /\ (val' = val \/ val' = val + 1)
    BY <1>2
  <2>. QED
    BY <1>1, <1>3, <2>1, <2>2, <2>3, HeldMoves
<1>7. Counted'
  <2>1. status' # "ok"
    BY <1>1, <1>3
  <2>. QED
    BY <1>1, <1>3, <2>1, CountedReads DEF BaseInv
<1>. QED
  BY <1>5, <1>6, <1>7 DEF BaseInv

(* A value of the option is done with, or missing.                         *)
LEMMA BaseOptionValueEnds ==
  ASSUME BaseInv, OptionValueEnds
  PROVE  BaseInv'
<1>1. pc = "option" /\ val <= Len(CurrentOption.vals) /\ args' = args
  BY DEF OptionValueEnds, Stays
<1>2. HeldKey /\ Len(CurrentOption.vals) \in Nat /\ pos \in Nat /\ status = ""
  BY <1>1, OptionInHand
<1>3. CASE took \/ (prefix = 0 /\ CurrentValue.optional)
  <2>1. /\ took' = FALSE /\ val' = val + 1 /\ pc' = pc /\ cmd' = cmd /\ pos' = pos /\ key' = key
        /\ prefix' = prefix /\ valIt' = valIt /\ count' = count /\ calls' = calls /\ status' = status
    BY <1>3 DEF OptionValueEnds, NotChecking
  <2>2. Placed'
    BY <1>1, <2>1, PlacedStays DEF BaseInv
  <2>3. prefix' = 0
    <3>1. took => ~(prefix > 0)
      BY DEF BaseInv, Held, HeldPart
    <3>2. took => prefix = 0
      BY <3>1 DEF BaseInv, Held
    <3>. QED
      BY <1>3, <2>1, <3>2
  <2>4. Held'
    <3> DEFINE n == Len(CurrentOption.vals)
    <3>1. n \in Nat /\ val <= n
      BY <1>1, <1>2
    <3>2. Held
      BY DEF BaseInv
    <3>. QED
      BY <1>1, <1>2, <2>1, <2>3, <3>1, <3>2, HeldMoves
  <2>5. Counted'
    <3>1. status' # "ok"
      BY <1>2, <2>1
    <3>. QED
      BY <1>1, <1>2, <2>1, <3>1, CountedReads DEF BaseInv
  <2>. QED
    BY <2>2, <2>4, <2>5 DEF BaseInv
<1>4. CASE ~(took \/ (prefix = 0 /\ CurrentValue.optional))
  <2>1. /\ pc' = "done" /\ status' = "invalid_value" /\ culprit' = <<"option", cmd.map[key], val>>
        /\ calls' = calls
        /\ cmd' = cmd /\ pos' = pos /\ key' = key /\ prefix' = prefix /\ val' = val /\ took' = took
        /\ valIt' = valIt /\ count' = count
    BY <1>4 DEF OptionValueEnds, Fail, reading
  <2>2. Placed'
    <3>1. "invalid_value" \in Statuses
      BY DEF Statuses
    <3>. QED
      BY <1>1, <2>1, <3>1, PlacedFails DEF BaseInv
  <2>3. InOption /\ InOption'
    BY <1>1, <2>1 DEF InOption
  <2>4. /\ HeldKey' <=> HeldKey
        /\ HeldPart' <=> HeldPart
    BY <1>1, <2>1, <2>3 DEF HeldKey, HeldPart, CurrentOption, More, Arg
  <2>5. Held'
    BY <2>1, <2>3, <2>4 DEF BaseInv, Held
  <2>6. Counted'
    BY <2>1, CountedFails DEF BaseInv
  <2>. QED
    BY <2>2, <2>5, <2>6 DEF BaseInv
<1>. QED
  BY <1>3, <1>4

(* The option is done; nothing of an argument is left to its key.          *)
LEMMA BaseOptionDone ==
  ASSUME BaseInv, OptionDone
  PROVE  BaseInv' /\ prefix = 0
<1>1. /\ pc = "option" /\ val > Len(CurrentOption.vals) /\ pc' = "args"
      /\ Call("option", key, pos) /\ args' = args /\ status' = status
      /\ cmd' = cmd /\ pos' = pos /\ key' = key /\ prefix' = prefix /\ val' = val /\ took' = took
      /\ valIt' = valIt /\ count' = count
  BY DEF OptionDone, Stays, reading
<1>2. HeldKey /\ Len(CurrentOption.vals) \in Nat /\ pos \in Nat /\ status = "" /\ CurrentOption.vals \in Seq(Values)
  BY <1>1, OptionInHand
<1>3. key \in Seq(Nat) /\ calls \in Seq(CallRecords)
  BY DEF BaseInv, Held, Placed
<1>4. calls' \in Seq(CallRecords)
  BY <1>1, <1>2, <1>3, CallTyped
<1>5. Placed'
  BY <1>1, <1>2, <1>4 DEF BaseInv, Placed
<1>6. ~(prefix > 0)
  <2> DEFINE vals == CurrentOption.vals
  <2>1. prefix > 0 => val = 1 /\ vals # <<>>
    BY DEF BaseInv, Held, HeldPart
  <2>2. vals \in Seq(Values) /\ val > Len(vals)
    BY <1>1, <1>2
  <2> HIDE DEF vals
  <2>. QED
    BY <2>1, <2>2
<1>7. ~InOption' /\ ~(prefix' > 0)
  BY <1>1, <1>6 DEF InOption
<1>8. Held'
  BY <1>1, <1>7 DEF BaseInv, Held
<1>9. Counted'
  <2>1. status' # "ok"
    BY <1>1, <1>2
  <2>. QED
    BY <1>1, <1>2, <2>1, CountedReads DEF BaseInv
<1>10. prefix = 0
  BY <1>6 DEF BaseInv, Held
<1>. QED
  BY <1>5, <1>8, <1>9, <1>10 DEF BaseInv

(* A positional value takes the argument.                                  *)
LEMMA BasePositionalTaken ==
  ASSUME BaseInv, PositionalTaken
  PROVE  BaseInv'
<1>1. /\ pc = "args" /\ pc' = "args" /\ More /\ valIt <= Len(cmd.values)
      /\ Call("positional", Arg, valIt) /\ pos' = pos + 1 /\ cmd' = cmd /\ args' = args
      /\ status' = status
  BY DEF PositionalTaken, Positional, Stays, NotChecking
<1>2. CommandShape(cmd)
  BY KnownCommand DEF BaseInv, Placed
<1>3. /\ pos \in Nat /\ pos + 1 \in 0 .. Len(args) /\ Arg \in Seq(Nat)
  BY <1>1, NextArgument DEF BaseInv, Placed
<1>4. valIt \in Nat /\ Len(cmd.values) \in Nat /\ valIt \in 1 .. (Len(cmd.values) + 1)
  <2>1. Len(cmd.values) \in Nat
    BY <1>2 DEF CommandShape
  <2>2. valIt \in 1 .. (Len(cmd.values) + 1)
    BY DEF BaseInv, Counted
  <2>. QED
    BY <2>1, <2>2
<1>5. calls' \in Seq(CallRecords)
  <2>1. calls \in Seq(CallRecords)
    BY DEF BaseInv, Placed
  <2>. QED
    BY <1>1, <1>3, <1>4, <2>1, CallTyped
<1>6. Placed'
  BY <1>1, <1>3, <1>5 DEF BaseInv, Placed
<1>7. Held'
  <2>1. ~InOption /\ ~InOption'
    BY <1>1 DEF InOption
  <2>. QED
    BY <2>1, HeldStays DEF BaseInv, PositionalTaken
<1>8. status' # "ok"
  BY <1>1 DEF BaseInv, Placed
<1>9. Counted'
  <2>1. pc' # "commands" /\ pc' # "check" /\ ~(pc' \in {"rest", "check"})
    BY <1>1
  <2>2. count \in 0 .. pos
    BY DEF BaseInv, Counted
  <2>3. CASE cmd.values[valIt].multiple
    <3>1. count' = count + 1 /\ valIt' = valIt
      BY <2>3 DEF PositionalTaken
    <3>2. count' \in 0 .. pos'
      BY <1>1, <1>3, <2>2, <3>1
    <3>3. valIt' <= Len(cmd'.values) /\ cmd'.values[valIt'].multiple /\ valIt' \in 1 .. (Len(cmd'.values) + 1)
      BY <1>1, <1>4, <2>3, <3>1
    <3>. QED
      BY <1>8, <2>1, <3>2, <3>3 DEF Counted
  <2>4. CASE ~cmd.values[valIt].multiple
    <3>1. count' = count /\ valIt' = valIt + 1
      BY <2>4 DEF PositionalTaken
    <3>2. ~(count > 0)
      BY <1>1, <2>4 DEF BaseInv, Counted
    <3>3. count' \in 0 .. pos'
      BY <1>1, <1>3, <2>2, <3>1
    <3>4. valIt' \in 1 .. (Len(cmd'.values) + 1)
      BY <1>1, <1>4, <3>1
    <3>5. ~(count' > 0)
      BY <3>1, <3>2
    <3>. QED
      BY <1>8, <2>1, <3>3, <3>4, <3>5 DEF Counted
  <2>. QED
    BY <2>3, <2>4
<1>. QED
  BY <1>6, <1>7, <1>9 DEF BaseInv

(* A positional value that is passed, or missing.                          *)
LEMMA BaseFails ==
  ASSUME BaseInv, NEW why \in Statuses, why # "", why # "ok", NEW who, who[1] # "option",
         pc # "option", pc # "done", Fail(why, who), reading' = reading, args' = args
  PROVE  BaseInv'
<1>1. /\ pc' = "done" /\ status' = why /\ culprit' = who /\ calls' = calls
      /\ cmd' = cmd /\ pos' = pos /\ valIt' = valIt /\ count' = count
      /\ UNCHANGED <<key, prefix, val, took>>
  BY DEF Fail, reading
<1>2. Placed'
  BY <1>1, PlacedFails DEF BaseInv
<1>3. Held'
  <2>1. ~InOption /\ ~InOption'
    BY <1>1 DEF InOption
  <2>. QED
    BY <1>1, <2>1, HeldStays DEF BaseInv
<1>4. Counted'
  BY <1>1, CountedFails DEF BaseInv
<1>. QED
  BY <1>2, <1>3, <1>4 DEF BaseInv

(* A positional value refuses the argument.                                *)
LEMMA BasePositionalRefused ==
  ASSUME BaseInv, PositionalRefused
  PROVE  BaseInv'
<1>1. pc = "args" /\ More /\ valIt <= Len(cmd.values) /\ args' = args
  BY DEF PositionalRefused, Positional, Stays
<1>2. CASE cmd.values[valIt].optional \/ count > 0
  <2>1. /\ valIt' = valIt + 1 /\ count' = 0 /\ pc' = pc /\ cmd' = cmd /\ pos' = pos
        /\ UNCHANGED <<key, prefix, val, took>> /\ calls' = calls /\ status' = status
    BY <1>2 DEF PositionalRefused, NotChecking
  <2>2. Placed'
    BY <1>1, <2>1, PlacedStays DEF BaseInv
  <2>3. Held'
    <3>1. ~InOption /\ ~InOption'
      BY <1>1, <2>1 DEF InOption
    <3>. QED
      BY <2>1, <3>1, HeldStays DEF BaseInv
  <2>4. Counted'
    <3>1. pc' # "commands" /\ pc' # "check" /\ ~(pc' \in {"rest", "check"}) /\ status' # "ok"
      BY <1>1, <2>1 DEF BaseInv, Placed
    <3>2. CommandShape(cmd)
      BY KnownCommand DEF BaseInv, Placed
    <3>3. Len(cmd.values) \in Nat
      BY <3>2 DEF CommandShape
    <3>4. valIt \in 1 .. (Len(cmd.values) + 1) /\ count \in 0 .. pos
      BY DEF BaseInv, Counted
    <3>5. valIt' \in 1 .. (Len(cmd'.values) + 1)
      BY <1>1, <2>1, <3>3, <3>4
    <3>6. count' \in 0 .. pos'
      <4>1. args \in Seq(Seq(Nat)) /\ pos \in 0 .. Len(args)
        BY DEF BaseInv, Placed
      <4>2. pos \in Nat
        BY <4>1
      <4>3. 0 \in 0 .. pos
        BY <4>2
      <4>4. count' = 0 /\ pos' = pos
        BY <2>1
      <4>. QED
        BY <4>3, <4>4
    <3>7. ~(count' > 0)
      BY <2>1
    <3>. QED
      BY <3>1, <3>5, <3>6, <3>7 DEF Counted
  <2>. QED
    BY <2>2, <2>3, <2>4 DEF BaseInv
<1>3. CASE ~(cmd.values[valIt].optional \/ count > 0)
  <2>1. Fail("invalid_value", <<"value", valIt>>) /\ reading' = reading
    BY <1>3 DEF PositionalRefused
  <2>2. "invalid_value" \in Statuses /\ <<"value", valIt>>[1] # "option"
    BY DEF Statuses
  <2>. QED
    BY <1>1, <2>1, <2>2, BaseFails
<1>. QED
  BY <1>2, <1>3

(* No positional value is left.                                            *)
LEMMA BaseUnknownOption ==
  ASSUME BaseInv, UnknownOption
  PROVE  BaseInv'
<1>1. "unknown_option" \in Statuses /\ <<"command">>[1] # "option"
  BY DEF Statuses
<1>2. Fail("unknown_option", <<"command">>) /\ reading' = reading /\ args' = args /\ pc = "args"
  BY DEF UnknownOption, Stays
<1>. QED
  BY <1>1, <1>2, BaseFails

(* The arguments are read.                                                 *)
LEMMA BaseArgsRead ==
  ASSUME BaseInv, ArgsRead
  PROVE  BaseInv'
<1>1. /\ pc = "args" /\ ~More /\ pc' = "rest" /\ cmd' = cmd /\ pos' = pos /\ count' = count /\ args' = args
      /\ UNCHANGED <<key, prefix, val, took>> /\ calls' = calls /\ status' = status
      /\ valIt' = IF count > 0 THEN valIt + 1 ELSE valIt
  BY DEF ArgsRead, Stays, NotChecking
<1>2. Placed'
  BY <1>1, PlacedStays DEF BaseInv
<1>3. Held'
  <2>1. ~InOption /\ ~InOption'
    BY <1>1 DEF InOption
  <2>. QED
    BY <1>1, <2>1, HeldStays DEF BaseInv
<1>4. Counted'
  <2>1. pc' # "commands" /\ pc' # "check" /\ ~(pc' \in {"args", "option"}) /\ status' # "ok"
    BY <1>1 DEF BaseInv, Placed
  <2>2. CommandShape(cmd)
    BY KnownCommand DEF BaseInv, Placed
  <2>3. Len(cmd.values) \in Nat
    BY <2>2 DEF CommandShape
  <2>4. valIt \in 1 .. (Len(cmd.values) + 1) /\ count \in 0 .. pos
    BY DEF BaseInv, Counted
  <2>5. count > 0 => valIt <= Len(cmd.values)
    BY <1>1 DEF BaseInv, Counted
  <2>6. valIt' \in 1 .. (Len(cmd'.values) + 1)
    BY <1>1, <2>3, <2>4, <2>5
  <2>7. count' \in 0 .. pos'
    BY <1>1, <2>4
  <2>8. pos' = Len(args')
    <3>1. args \in Seq(Seq(Nat)) /\ pos \in 0 .. Len(args)
      BY DEF BaseInv, Placed
    <3>2. ~(pos < Len(args))
      BY <1>1 DEF More
    <3>3. pos = Len(args)
      BY <3>1, <3>2
    <3>. QED
      BY <1>1, <3>3
  <2>. QED
    BY <2>1, <2>6, <2>7, <2>8 DEF Counted
<1>. QED
  BY <1>2, <1>3, <1>4 DEF BaseInv

(* A positional value is left without an argument.                         *)
LEMMA BaseRest ==
  ASSUME BaseInv, Rest
  PROVE  BaseInv'
<1>1. pc = "rest" /\ valIt <= Len(cmd.values) /\ args' = args
  BY DEF Rest, Stays
<1>2. CASE cmd.values[valIt].optional
  <2>1. /\ valIt' = valIt + 1 /\ count' = count /\ pc' = pc /\ cmd' = cmd /\ pos' = pos
        /\ UNCHANGED <<key, prefix, val, took>> /\ calls' = calls /\ status' = status
    BY <1>2 DEF Rest, NotChecking
  <2>2. Placed'
    BY <1>1, <2>1, PlacedStays DEF BaseInv
  <2>3. Held'
    <3>1. ~InOption /\ ~InOption'
      BY <1>1, <2>1 DEF InOption
    <3>. QED
      BY <2>1, <3>1, HeldStays DEF BaseInv
  <2>4. Counted'
    <3>1. pc' # "commands" /\ pc' # "check" /\ ~(pc' \in {"args", "option"}) /\ status' # "ok"
      BY <1>1, <2>1 DEF BaseInv, Placed
    <3>2. CommandShape(cmd)
      BY KnownCommand DEF BaseInv, Placed
    <3>3. Len(cmd.values) \in Nat
      BY <3>2 DEF CommandShape
    <3>4. valIt \in 1 .. (Len(cmd.values) + 1) /\ count \in 0 .. pos
      BY DEF BaseInv, Counted
    <3>5. valIt' \in 1 .. (Len(cmd'.values) + 1)
      BY <1>1, <2>1, <3>3, <3>4
    <3>6. count' \in 0 .. pos'
      BY <2>1, <3>4
    <3>7. pos' = Len(args')
      BY <1>1, <2>1 DEF BaseInv, Counted
    <3>. QED
      BY <3>1, <3>5, <3>6, <3>7 DEF Counted
  <2>. QED
    BY <2>2, <2>3, <2>4 DEF BaseInv
<1>3. CASE ~cmd.values[valIt].optional
  <2>1. Fail("unspecified_value", <<"value", valIt>>) /\ reading' = reading
    BY <1>3 DEF Rest
  <2>2. "unspecified_value" \in Statuses /\ <<"value", valIt>>[1] # "option"
    BY DEF Statuses
  <2>. QED
    BY <1>1, <2>1, <2>2, BaseFails
<1>. QED
  BY <1>2, <1>3

(* No positional value is left without one.                                *)
LEMMA BaseValuesFilled ==
  ASSUME BaseInv, ValuesFilled
  PROVE  BaseInv'
<1>1. /\ pc = "rest" /\ pc' = "check" /\ valIt > Len(cmd.values) /\ args' = args
      /\ valIt' = valIt /\ count' = count /\ cmd' = cmd /\ pos' = pos
      /\ UNCHANGED <<key, prefix, val, took>> /\ calls' = calls /\ status' = status
  BY DEF ValuesFilled, Stays, NotChecking, reading
<1>2. Placed'
  BY <1>1, PlacedStays DEF BaseInv
<1>3. Held'
  <2>1. ~InOption /\ ~InOption'
    BY <1>1 DEF InOption
  <2>. QED
    BY <1>1, <2>1, HeldStays DEF BaseInv
<1>4. Counted'
  <2>1. pc' # "commands" /\ ~(pc' \in {"args", "option"})
    BY <1>1
  <2>2. CommandShape(cmd)
    BY KnownCommand DEF BaseInv, Placed
  <2>3. Len(cmd.values) \in Nat
    BY <2>2 DEF CommandShape
  <2>4. valIt \in 1 .. (Len(cmd.values) + 1) /\ count \in 0 .. pos /\ pos = Len(args)
    BY <1>1 DEF BaseInv, Counted
  <2>5. valIt' = Len(cmd'.values) + 1
    <3>1. valIt = Len(cmd.values) + 1
      BY <1>1, <2>3, <2>4
    <3>. QED
      BY <1>1, <3>1
  <2>6. valIt' \in 1 .. (Len(cmd'.values) + 1) /\ count' \in 0 .. pos' /\ pos' = Len(args')
    BY <1>1, <2>4
  <2>. QED
    BY <2>1, <2>5, <2>6 DEF Counted
<1>. QED
  BY <1>2, <1>3, <1>4 DEF BaseInv

(* The walk over the options leaves what was read as it is.                *)
LEMMA BaseCheck ==
  ASSUME BaseInv, pc = "check", reading' = reading, args' = args, calls' = calls,
         \/ pc' = pc /\ status' = status
         \/ pc' = "done" /\ status' \in {"ok", "unspecified_option", "conflicting_option"}
  PROVE  BaseInv'
<1>1. /\ valIt' = valIt /\ count' = count /\ cmd' = cmd /\ pos' = pos
      /\ UNCHANGED <<key, prefix, val, took>>
  BY DEF reading
<1>2. Placed'
  <2>1. status' \in Statuses /\ (status' = "" <=> pc' # "done") /\ pc' \in {"check", "done"}
    BY DEF BaseInv, Placed, Statuses
  <2>. QED
    BY <1>1, <2>1 DEF BaseInv, Placed
<1>3. Held'
  <2>1. ~InOption /\ ~InOption'
    BY DEF InOption, BaseInv, Placed
  <2>. QED
    BY <1>1, <2>1, HeldStays DEF BaseInv
<1>4. Counted'
  <2>1. pc' # "commands" /\ ~(pc' \in {"args", "option"})
    OBVIOUS
  <2>2. valIt = Len(cmd.values) + 1 /\ pos = Len(args)
    BY DEF BaseInv, Counted
  <2>3. valIt' = Len(cmd'.values) + 1 /\ pos' = Len(args')
    BY <1>1, <2>2
  <2>4. valIt' \in 1 .. (Len(cmd'.values) + 1) /\ count' \in 0 .. pos'
    BY <1>1 DEF BaseInv, Counted
  <2>. QED
    BY <2>1, <2>3, <2>4 DEF Counted
<1>. QED
  BY <1>2, <1>3, <1>4 DEF BaseInv

(* The four steps of the walk are of that kind.                            *)
Walks == CheckOption \/ CheckExclusive \/ CheckGroup \/ Return

(* The walk reads nothing and calls nothing.                               *)
LEMMA WalkKeeps ==
  ASSUME Walks
  PROVE  /\ pc = "check" /\ reading' = reading /\ args' = args /\ calls' = calls
         /\ \/ pc' = pc /\ status' = status
            \/ pc' = "done" /\ status' \in {"ok", "unspecified_option", "conflicting_option"}
<1>1. CASE CheckOption
  BY <1>1 DEF CheckOption, Checking, Stays
<1>2. CASE CheckExclusive
  BY <1>2 DEF CheckExclusive, Checking, Stays, GroupEnds, Fail
<1>3. CASE CheckGroup
  BY <1>3 DEF CheckGroup, Checking, Stays, GroupEnds, Fail
<1>4. CASE Return
  BY <1>4 DEF Return, Stays
<1>. QED
  BY <1>1, <1>2, <1>3, <1>4 DEF Walks

(* Every step keeps BaseInv.                                               *)
LEMMA BaseStep ==
  ASSUME BaseInv, [Next]_vars
  PROVE  BaseInv'
<1>1. CASE UNCHANGED vars
  BY <1>1 DEF vars, reading, BaseInv, Placed, Held, Counted, InOption, HeldKey, HeldPart, Nothing,
              CurrentOption, More, Arg
<1>2. CASE Next
  <2>1. CASE Descend
    BY <2>1, BaseDescend
  <2>2. CASE CommandFound
    BY <2>2, BaseCommandFound
  <2>3. CASE OptionKey
    BY <2>3, BaseOptionKey
  <2>4. CASE OptionValue
    BY <2>4, BaseOptionValue
  <2>5. CASE OptionValueEnds
    BY <2>5, BaseOptionValueEnds
  <2>6. CASE OptionDone
    BY <2>6, BaseOptionDone
  <2>7. CASE PositionalTaken
    BY <2>7, BasePositionalTaken
  <2>8. CASE PositionalRefused
    BY <2>8, BasePositionalRefused
  <2>9. CASE UnknownOption
    BY <2>9, BaseUnknownOption
  <2>10. CASE ArgsRead
    BY <2>10, BaseArgsRead
  <2>11. CASE Rest
    BY <2>11, BaseRest
  <2>12. CASE ValuesFilled
    BY <2>12, BaseValuesFilled
  <2>13. CASE Walks
    BY <2>13, WalkKeeps, BaseCheck
  <2>. QED
    BY <1>2, <2>1, <2>2, <2>3, <2>4, <2>5, <2>6, <2>7, <2>8, <2>9, <2>10, <2>11, <2>12, <2>13
       DEF Next, Walks
<1>. QED
  BY <1>1, <1>2

-----------------------------------------------------------------------------

(* Nothing is checked at first.                                            *)
LEMMA CheckInit ==
  ASSUME Init, BaseInv
  PROVE  CheckInv
<1>1. CommandShape(cmd)
  BY KnownCommand DEF BaseInv, Placed
<1>2. Len(cmd.opts) \in Nat
  BY <1>1 DEF CommandShape
<1>3. 1 \in 1 .. (Len(cmd.opts) + 1)
  BY <1>2
<1>4. specified = {} /\ optional = {} /\ node = 1
  BY DEF Init
<1>. QED
  BY <1>3, <1>4 DEF CheckInv

(* Only the walk touches what was checked, but for the option that is done.*)
LEMMA CheckStays ==
  ASSUME CheckInv, cmd' = cmd, specified' \subseteq DOMAIN cmd.opts, optional' = optional, node' = node,
         \/ pc \in {"commands", "args", "option", "rest"}
         \/ pc' \in {"check", "done"},
         pc' # "commands"
  PROVE  CheckInv'
<1>1. /\ optional \subseteq DOMAIN cmd.opts /\ node \in 1 .. (Len(cmd.opts) + 1)
      /\ pc' \in {"commands", "args", "option", "rest"} => optional = {} /\ node = 1
  BY DEF CheckInv
<1>. QED
  BY <1>1, Zenon DEF CheckInv

(* Every step keeps CheckInv.                                              *)
LEMMA CheckStep ==
  ASSUME BaseInv, CheckInv, [Next]_vars
  PROVE  CheckInv'
<1>0. CommandShape(cmd) /\ cmd \in Commands
  BY KnownCommand DEF BaseInv, Placed
<1>a. Len(cmd.opts) \in Nat /\ DOMAIN cmd.opts = 1 .. Len(cmd.opts)
  BY <1>0 DEF CommandShape
<1>b. specified \subseteq DOMAIN cmd.opts
  BY DEF CheckInv
<1>1. CASE UNCHANGED vars
  BY <1>1 DEF vars, reading, CheckInv
<1>2. CASE Descend
  <2>1. cmd' \in Commands /\ pc = "commands" /\ pc' = pc
    BY <1>0, <1>2 DEF Descend, CommandShape
  <2>2. specified' = {} /\ optional' = {} /\ node' = 1
    BY <1>2, <2>1 DEF Descend, NotChecking, CheckInv
  <2>3. CommandShape(cmd')
    BY <2>1, KnownCommand
  <2>4. Len(cmd'.opts) \in Nat
    BY <2>3 DEF CommandShape
  <2>5. 1 \in 1 .. (Len(cmd'.opts) + 1)
    BY <2>4
  <2>. QED
    BY <2>2, <2>5 DEF CheckInv
<1>3. CASE \/ CommandFound \/ OptionKey \/ OptionValue \/ OptionValueEnds
           \/ PositionalTaken \/ PositionalRefused \/ UnknownOption \/ ArgsRead \/ Rest \/ ValuesFilled
  <2>1. /\ cmd' = cmd /\ specified' = specified /\ optional' = optional /\ node' = node
        /\ pc \in {"commands", "args", "option", "rest"} /\ pc' # "commands"
    BY <1>3 DEF CommandFound, OptionKey, OptionValue, OptionValueEnds, PositionalTaken, PositionalRefused,
                UnknownOption, ArgsRead, Rest, ValuesFilled, NotChecking, reading, Fail, Positional
  <2>. QED
    BY <1>b, <2>1, CheckStays
<1>4. CASE OptionDone
  <2>1. /\ cmd' = cmd /\ specified' = specified \cup {cmd.map[key]} /\ optional' = optional /\ node' = node
        /\ pc = "option" /\ pc' = "args"
    BY <1>4 DEF OptionDone, reading
  <2>2. cmd.map[key] \in DOMAIN cmd.opts
    <3>1. key \in DOMAIN cmd.map
      BY <2>1 DEF BaseInv, Held, InOption, HeldKey
    <3>. QED
      BY <1>0, <3>1 DEF CommandShape
  <2>. QED
    BY <1>b, <2>1, <2>2, CheckStays
<1>5. CASE Walks
  <2>1. cmd' = cmd /\ pc' \in {"check", "done"} /\ pc = "check"
    BY <1>5, WalkKeeps DEF reading
  <2>2. CASE specified' = specified /\ optional' = optional /\ node' = node
    BY <1>b, <2>1, <2>2, CheckStays
  <2>3. CASE /\ node' = node + 1 /\ node <= Len(cmd.opts)
             /\ specified' \subseteq specified \cup {node} /\ optional' \subseteq optional \cup {node}
    <3>1. node \in 1 .. (Len(cmd.opts) + 1) /\ optional \subseteq DOMAIN cmd.opts
      BY DEF CheckInv
    <3>2. node \in DOMAIN cmd.opts /\ node' \in 1 .. (Len(cmd.opts) + 1)
      BY <1>a, <2>3, <3>1
    <3>3. pc' # "commands" /\ ~(pc' \in {"commands", "args", "option", "rest"})
      BY <2>1
    <3>. QED
      BY <1>b, <2>1, <2>3, <3>1, <3>2, <3>3 DEF CheckInv
  <2>4. \/ specified' = specified /\ optional' = optional /\ node' = node
        \/ /\ node' = node + 1 /\ node <= Len(cmd.opts)
           /\ specified' \subseteq specified \cup {node} /\ optional' \subseteq optional \cup {node}
    <3>1. CASE CheckOption
      BY <3>1 DEF CheckOption, Checking
    <3>2. CASE CheckExclusive
      BY <3>2 DEF CheckExclusive, Checking, GroupEnds, Fail
    <3>3. CASE CheckGroup
      BY <3>3 DEF CheckGroup, Checking, GroupEnds, Fail
    <3>4. CASE Return
      BY <3>4 DEF Return
    <3>. QED
      BY <1>5, <3>1, <3>2, <3>3, <3>4 DEF Walks
  <2>. QED
    BY <2>2, <2>3, <2>4
<1>. QED
  BY <1>1, <1>2, <1>3, <1>4, <1>5 DEF Next, Walks

(* The two give the type invariant.                                        *)
LEMMA TypeHolds ==
  ASSUME BaseInv, CheckInv
  PROVE  TypeOK
<1>1. args \in Seq(Seq(Nat)) /\ pos \in 0 .. Len(args) /\ count \in 0 .. pos
  BY DEF BaseInv, Placed, Counted
<1>2. count \in 0 .. Len(args)
  BY <1>1
<1>3. pc = "option" => HeldKey
  BY DEF BaseInv, Held, InOption
<1>4. /\ pc \in {"commands", "args", "option", "rest", "check", "done"}
      /\ took \in BOOLEAN
      /\ valIt \in 1 .. (Len(cmd.values) + 1)
      /\ specified \cup optional \subseteq DOMAIN cmd.opts
      /\ node \in 1 .. (Len(cmd.opts) + 1)
      /\ status \in Statuses /\ (status = "" <=> pc # "done")
  BY DEF BaseInv, Placed, Held, Counted, CheckInv
<1>. QED
  BY <1>1, <1>2, <1>3, <1>4, Zenon DEF TypeOK, HeldKey, CurrentOption

-----------------------------------------------------------------------------
(* NothingLost: what has been handed out is what was read, with the part   *)
(* of the next argument that the key has taken.                            *)
Readers == {"command", "key", "value", "positional"}
HandedOut == FlattenSeq(TextsOf(CallsBy(Readers)))
WasRead == FlattenSeq(SubSeq(args, 1, pos))
Half == IF prefix > 0 THEN key ELSE <<>>

HandedInv == HandedOut = WasRead \o Half

(* HandedInv is NothingLost.                                               *)
LEMMA HandedIsNothingLost ==
  ASSUME BaseInv
  PROVE  NothingLost <=> HandedInv
<1> DEFINE half == IF pc = "option" /\ prefix > 0 THEN key
                   ELSE IF status = "invalid_value" /\ prefix > 0 /\ culprit[1] = "option"
                   THEN key ELSE <<>>
<1>1. prefix > 0 => \/ pc = "option"
                    \/ status = "invalid_value" /\ culprit[1] = "option"
  BY DEF BaseInv, Held, HeldPart, InOption
<1>2. half = Half
  BY <1>1, Zenon DEF Half
<1>3. NothingLost <=> HandedOut = WasRead \o half
  BY DEF NothingLost, HandedOut, WasRead, Readers
<1>. QED
  BY <1>2, <1>3 DEF HandedInv

(* The calls of some kinds, and their texts, after a call more.            *)
LEMMA OneCallMore ==
  ASSUME calls \in Seq(CallRecords), NEW x \in CallRecords, calls' = Append(calls, x), NEW kinds
  PROVE  /\ CallsBy(kinds) \in Seq(CallRecords)
         /\ TextsOf(CallsBy(kinds)) \in Seq(Seq(Nat))
         /\ x.by \in kinds => /\ CallsBy(kinds)' = Append(CallsBy(kinds), x)
                              /\ TextsOf(CallsBy(kinds))' = Append(TextsOf(CallsBy(kinds)), x.text)
         /\ x.by \notin kinds => /\ CallsBy(kinds)' = CallsBy(kinds)
                                 /\ TextsOf(CallsBy(kinds))' = TextsOf(CallsBy(kinds))
<1> DEFINE p == Picked(calls, kinds)
           C == CallRecords
           D == Seq(Nat)
<1>1. /\ p \in Seq(C)
      /\ x.by \in kinds => Picked(Append(calls, x), kinds) = Append(p, x)
      /\ x.by \notin kinds => Picked(Append(calls, x), kinds) = p
  BY PickedAppend
<1>2. CallsBy(kinds) = p /\ CallsBy(kinds)' = Picked(Append(calls, x), kinds)
  BY DEF CallsBy
<1>3. HaveTexts(C, D)
  BY DEF CallRecords, HaveTexts
<1>4. x \in C
  OBVIOUS
<1> HIDE DEF p, C, D
<1>5. TextsOf(p) \in Seq(D) /\ TextsOf(Append(p, x)) = Append(TextsOf(p), x.text)
  <2>1. p \in Seq(C)
    BY <1>1
  <2>2. TextsOf(p) \in Seq(D)
    BY <1>3, <2>1, TextsAre
  <2>3. TextsOf(Append(p, x)) = Append(TextsOf(p), x.text)
    BY <1>3, <1>4, <2>1, TextsAppend
  <2>. QED
    BY <2>2, <2>3
<1>. QED
  BY <1>1, <1>2, <1>5 DEF C, D

(* What was read and what was handed out are texts.                        *)
LEMMA HandedTyped ==
  ASSUME BaseInv
  PROVE  /\ HandedOut \in Seq(Nat) /\ WasRead \in Seq(Nat)
         /\ pos \in Nat /\ Len(args) \in Nat /\ args \in Seq(Seq(Nat)) /\ calls \in Seq(CallRecords)
<1>1. args \in Seq(Seq(Nat)) /\ pos \in 0 .. Len(args) /\ calls \in Seq(CallRecords)
  BY DEF BaseInv, Placed
<1>2. pos \in Nat /\ Len(args) \in Nat
  BY <1>1
<1> DEFINE C == CallRecords
           D == Seq(Nat)
           s == TextsOf(CallsBy(Readers))
           t == SubSeq(args, 1, pos)
           v == <<>>
<1>3. HaveTexts(C, D)
  BY DEF CallRecords, HaveTexts
<1>4. v \in D
  OBVIOUS
<1>5. t \in Seq(D)
  <2>1. args \in Seq(D) /\ pos \in 0 .. Len(args)
    BY <1>1
  <2> HIDE DEF D
  <2>. QED
    BY <2>1
<1>6. Picked(calls, Readers) \in Seq(C)
  <2>1. [by |-> "command", text |-> <<>>, at |-> 0] \in C
    BY <1>4 DEF CallRecords
  <2> HIDE DEF C
  <2>. QED
    BY <1>1, <2>1, PickedAppend DEF C
<1>7. s \in Seq(D)
  <2> HIDE DEF C, D
  <2>1. CallsBy(Readers) \in Seq(C)
    BY <1>6 DEF CallsBy
  <2>. QED
    BY <1>3, <2>1, TextsAre
<1>8. FlattenSeq(s) \in Seq(Nat) /\ FlattenSeq(t) \in Seq(Nat)
  <2> HIDE DEF s, t, v
  <2>1. s \in Seq(Seq(Nat)) /\ t \in Seq(Seq(Nat)) /\ v \in Seq(Nat)
    BY <1>4, <1>5, <1>7
  <2>. QED
    BY <2>1, FlattenAppend
<1>. QED
  BY <1>1, <1>2, <1>8 DEF HandedOut, WasRead

(* A handler that is given a text is one that reads it; the option's own   *)
(* is not.                                                                 *)
LEMMA HandsOut ==
  ASSUME BaseInv, NEW by \in Readers, NEW text \in Seq(Nat), NEW at \in Nat, Call(by, text, at)
  PROVE  HandedOut' = HandedOut \o text
<1> DEFINE x == [by |-> by, text |-> text, at |-> at]
           s == TextsOf(CallsBy(Readers))
<1>1. calls \in Seq(CallRecords)
  BY HandedTyped
<1>2. x \in CallRecords /\ calls' = Append(calls, x)
  BY <1>1, CallTyped DEF Readers
<1>3. x.by \in Readers /\ x.text = text
  OBVIOUS
<1> HIDE DEF x
<1>4. s \in Seq(Seq(Nat)) /\ s' = Append(s, text)
  BY <1>1, <1>2, <1>3, OneCallMore
<1>5. HandedOut = FlattenSeq(s) /\ HandedOut' = FlattenSeq(s')
  BY DEF HandedOut
<1> HIDE DEF s
<1>6. FlattenSeq(Append(s, text)) = FlattenSeq(s) \o text
  BY <1>4, FlattenAppend
<1>. QED
  BY <1>4, <1>5, <1>6

(* The call of an option's own handler hands out nothing.                  *)
LEMMA HandsOutNone ==
  ASSUME BaseInv, NEW text \in Seq(Nat), NEW at \in Nat, Call("option", text, at)
  PROVE  HandedOut' = HandedOut
<1> DEFINE x == [by |-> "option", text |-> text, at |-> at]
<1>1. calls \in Seq(CallRecords)
  BY HandedTyped
<1>2. x \in CallRecords /\ calls' = Append(calls, x)
  BY <1>1, CallTyped
<1>3. x.by \notin Readers
  BY DEF Readers
<1> HIDE DEF x
<1>. QED
  BY <1>1, <1>2, <1>3, OneCallMore DEF HandedOut

(* An argument more is read.                                               *)
LEMMA ReadsOn ==
  ASSUME BaseInv, More, args' = args, pos' = pos + 1
  PROVE  WasRead' = WasRead \o Arg
<1> DEFINE s == SubSeq(args, 1, pos)
<1>1. args \in Seq(Seq(Nat)) /\ pos \in Nat /\ pos < Len(args)
  BY HandedTyped DEF More
<1>2. s \in Seq(Seq(Nat)) /\ Arg \in Seq(Nat) /\ SubSeq(args, 1, pos + 1) = Append(s, Arg)
  BY <1>1, ReadOneMore DEF Arg
<1>3. WasRead = FlattenSeq(s) /\ WasRead' = FlattenSeq(Append(s, Arg))
  BY <1>2 DEF WasRead
<1> HIDE DEF s
<1>. QED
  BY <1>2, <1>3, FlattenAppend

(* Texts put together.                                                     *)
LEMMA Joining ==
  ASSUME NEW C
  PROVE  /\ \A s \in Seq(C) : s \o <<>> = s
         /\ \A s, t, u \in Seq(C) : (s \o t) \o u = s \o (t \o u)
OBVIOUS

(* Nothing is handed out at first.                                         *)
LEMMA HandedInit ==
  ASSUME Init, BaseInv
  PROVE  HandedInv
<1> DEFINE v == <<>>
           r == [by |-> "command", text |-> v, at |-> 0]
           s == <<>>
<1>1. calls = Append(s, r) /\ prefix = 0 /\ pos = 0
  <2>1. calls = <<r>> /\ prefix = 0 /\ pos = 0
    BY DEF Init
  <2> HIDE DEF r
  <2>. QED
    BY <2>1
<1>2. v \in Seq(Nat)
  OBVIOUS
<1>3. s \in Seq(CallRecords) /\ s \in Seq(Seq(Nat))
  OBVIOUS
<1>4. Picked(s, Readers) = s /\ TextsOf(s) = s /\ FlattenSeq(s) = s
  BY PickedEmpty, FlattenEmpty DEF TextsOf
<1>5. s \o v = v /\ v \o v = v
  OBVIOUS
<1>6. Half = v
  BY <1>1 DEF Half
<1>7. WasRead = v
  <2>1. args \in Seq(Seq(Nat))
    BY DEF BaseInv, Placed
  <2>2. SubSeq(args, 1, 0) = v
    BY <2>1
  <2>3. FlattenSeq(v) = v
    BY FlattenEmpty
  <2>. QED
    BY <1>1, <2>2, <2>3 DEF WasRead
<1>8. r \in CallRecords /\ r.by \in Readers /\ r.text = v
  BY <1>2 DEF CallRecords, Readers
<1> HIDE DEF r, v, s
<1>9. Picked(calls, Readers) = Append(s, r)
  BY <1>1, <1>3, <1>4, <1>8, PickedAppend
<1>10. TextsOf(Append(s, r)) = Append(s, v)
  <2> DEFINE C == CallRecords
             D == Seq(Nat)
  <2>1. HaveTexts(C, D)
    BY DEF CallRecords, HaveTexts
  <2>2. s \in Seq(C) /\ r \in C
    BY <1>3, <1>8
  <2> HIDE DEF C, D
  <2>3. TextsOf(Append(s, r)) = Append(TextsOf(s), r.text)
    BY <2>1, <2>2, TextsAppend
  <2>. QED
    BY <1>4, <1>8, <2>3
<1>11. FlattenSeq(Append(s, v)) = s \o v
  BY <1>2, <1>3, <1>4, FlattenAppend
<1>12. HandedOut = v
  BY <1>5, <1>9, <1>10, <1>11 DEF HandedOut, CallsBy
<1>. QED
  BY <1>5, <1>6, <1>7, <1>12 DEF HandedInv

(* A whole argument is handed out.                                         *)
LEMMA HandsArgument ==
  ASSUME BaseInv, HandedInv, More, args' = args, pos' = pos + 1,
         NEW by \in Readers, NEW at \in Nat, Call(by, Arg, at), prefix = 0, prefix' = 0
  PROVE  HandedInv'
<1>1. Half = <<>> /\ Half' = <<>>
  BY DEF Half
<1>2. Arg \in Seq(Nat)
  BY NextArgument DEF BaseInv, Placed
<1>3. HandedOut' = HandedOut \o Arg
  BY <1>2, HandsOut
<1>4. WasRead' = WasRead \o Arg /\ WasRead \in Seq(Nat) /\ WasRead \o Arg \in Seq(Nat)
  BY <1>2, ReadsOn, HandedTyped
<1>5. WasRead \o <<>> = WasRead /\ (WasRead \o Arg) \o <<>> = WasRead \o Arg
  BY <1>4, Joining
<1>. QED
  BY <1>1, <1>3, <1>4, <1>5 DEF HandedInv

(* Nothing is read.                                                        *)
LEMMA HandsNothing ==
  ASSUME BaseInv, HandedInv, args' = args, pos' = pos, HandedOut' = HandedOut, key' = key, prefix' = prefix
  PROVE  HandedInv'
BY DEF HandedInv, WasRead, Half

(* A key is handed out.                                                    *)
LEMMA HandedOptionKey ==
  ASSUME BaseInv, HandedInv, OptionKey
  PROVE  HandedInv'
<1>1. PICK k \in FindKey(cmd, Arg) :
         /\ key' = k
         /\ IF Len(k) = Len(Arg) THEN prefix' = 0 /\ pos' = pos + 1
            ELSE prefix' = Len(k) /\ pos' = pos
         /\ Call("key", k, pos + 1)
  BY DEF OptionKey
<1>2. pc = "args" /\ More /\ args' = args
  BY DEF OptionKey, Stays
<1>3. pos + 1 \in Nat /\ Arg \in Seq(Nat) /\ cmd \in Commands
  <2>1. pos \in Nat
    BY HandedTyped
  <2>. QED
    <3>1. Arg \in Seq(Nat) /\ cmd \in Commands
      BY <1>2, NextArgument DEF BaseInv, Placed
    <3>2. pos + 1 \in Nat
      BY <2>1
    <3>. QED
      BY <3>1, <3>2
<1>4. Finds(cmd, Arg, k)
  BY <1>3, FoundKey
<1>5. k \in Seq(Nat) /\ Len(k) \in Nat
  BY <1>4 DEF Finds
<1>6. prefix = 0
  <2>1. ~InOption
    BY <1>2 DEF InOption
  <2>. QED
    BY <2>1 DEF BaseInv, Held, HeldPart
<1>7. "key" \in Readers
  BY DEF Readers
<1>8. CASE Len(k) = Len(Arg)
  <2>1. k = Arg /\ prefix' = 0 /\ pos' = pos + 1
    BY <1>1, <1>4, <1>8 DEF Finds
  <2>. QED
    BY <1>1, <1>2, <1>3, <1>6, <1>7, <2>1, HandsArgument
<1>9. CASE Len(k) # Len(Arg)
  <2>1. prefix' = Len(k) /\ pos' = pos
    BY <1>1, <1>9
  <2>2. HandedOut' = HandedOut \o k
    BY <1>1, <1>3, <1>5, <1>7, HandsOut
  <2>3. WasRead' = WasRead /\ WasRead \in Seq(Nat)
    BY <1>2, <2>1, HandedTyped DEF WasRead
  <2>4. Half = <<>>
    BY <1>6 DEF Half
  <2>5. Half' = k
    <3>1. ~(Len(k) > 0) => k = <<>>
      BY <1>5
    <3>. QED
      BY <1>1, <2>1, <3>1 DEF Half
  <2>6. WasRead \o <<>> = WasRead
    BY <2>3, Joining
  <2>. QED
    BY <2>2, <2>3, <2>4, <2>5, <2>6 DEF HandedInv
<1>. QED
  BY <1>8, <1>9

(* A value of an option is handed out.                                     *)
LEMMA HandedOptionValue ==
  ASSUME BaseInv, HandedInv, OptionValue
  PROVE  HandedInv'
<1>1. /\ pc = "option" /\ Call("value", Text, pos + 1)
      /\ pos' = pos + 1 /\ prefix' = 0 /\ More /\ args' = args
  BY DEF OptionValue, Offered, Stays
<1>2. /\ Arg \in Seq(Nat) /\ Text \in Seq(Nat) /\ key \in Seq(Nat)
      /\ (prefix = 0 => Text = Arg)
      /\ (prefix # 0 => prefix = Len(key) /\ IsPrefixOf(key, Arg))
  BY <1>1, OptionInHand
<1>3. pos + 1 \in Nat
  <2>1. pos \in Nat
    BY HandedTyped
  <2>. QED
    BY <2>1
<1>4. "value" \in Readers
  BY DEF Readers
<1>5. CASE prefix = 0
  BY <1>1, <1>2, <1>3, <1>4, <1>5, HandsArgument
<1>6. CASE prefix # 0
  <2>1. HandedOut' = HandedOut \o Text
    BY <1>1, <1>2, <1>3, <1>4, HandsOut
  <2>2. WasRead' = WasRead \o Arg /\ WasRead \in Seq(Nat)
    BY <1>1, ReadsOn, HandedTyped
  <2>3. Half = key /\ Half' = <<>>
    <3>1. prefix \in Nat
      BY DEF BaseInv, Held
    <3>2. prefix > 0
      BY <1>6, <3>1
    <3>3. ~(prefix' > 0)
      <4>1. prefix' = 0
        BY <1>1
      <4>. QED
        BY <4>1
    <3>. QED
      BY <3>2, <3>3, Zenon DEF Half
  <2>4. key \o Text = Arg
    BY <1>2, <1>6, CutInTwo DEF IsPrefixOf, Text
  <2>5. (WasRead \o key) \o Text = WasRead \o (key \o Text)
    <3>1. WasRead \in Seq(Nat) /\ key \in Seq(Nat) /\ Text \in Seq(Nat)
      BY <1>2, <2>2
    <3>. QED
      BY <3>1, Joining
  <2>6. WasRead \o Arg \in Seq(Nat)
    BY <1>2, <2>2
  <2>7. (WasRead \o Arg) \o <<>> = WasRead \o Arg
    BY <2>6, Joining
  <2>. QED
    BY <2>1, <2>2, <2>3, <2>4, <2>5, <2>7 DEF HandedInv
<1>. QED
  BY <1>5, <1>6

(* Every step keeps HandedInv.                                             *)
LEMMA HandedStep ==
  ASSUME BaseInv, HandedInv, [Next]_vars
  PROVE  HandedInv'
<1>1. CASE UNCHANGED vars
  BY <1>1 DEF vars, reading, HandedInv, HandedOut, WasRead, Half, CallsBy
<1>2. CASE Descend
  <2>1. pc = "commands" /\ More /\ args' = args /\ pos' = pos + 1 /\ prefix' = prefix /\ Call("command", Arg, pos + 1)
    BY <1>2 DEF Descend, Stays
  <2>2. prefix = 0
    BY <2>1 DEF BaseInv, Counted, Nothing
  <2>3. pos \in Nat
    BY HandedTyped
  <2>4. pos + 1 \in Nat /\ "command" \in Readers
    BY <2>3 DEF Readers
  <2>. QED
    BY <2>1, <2>2, <2>4, HandsArgument
<1>3. CASE PositionalTaken
  <2>1. /\ pc = "args" /\ More /\ args' = args /\ pos' = pos + 1 /\ prefix' = prefix
        /\ Call("positional", Arg, valIt)
    BY <1>3 DEF PositionalTaken, Positional, Stays
  <2>2. prefix = 0
    <3>1. ~InOption
      BY <2>1 DEF InOption
    <3>. QED
      BY <3>1 DEF BaseInv, Held, HeldPart
  <2>3. valIt \in Nat
    BY DEF BaseInv, Counted
  <2>4. "positional" \in Readers
    BY DEF Readers
  <2>. QED
    BY <2>1, <2>2, <2>3, <2>4, HandsArgument
<1>4. CASE OptionKey
  BY <1>4, HandedOptionKey
<1>5. CASE OptionValue
  BY <1>5, HandedOptionValue
<1>6. CASE OptionDone
  <2>1. Call("option", key, pos) /\ args' = args /\ pos' = pos /\ key' = key /\ prefix' = prefix
    BY <1>6 DEF OptionDone, Stays, reading
  <2>2. key \in Seq(Nat) /\ pos \in Nat
    BY HandedTyped DEF BaseInv, Held
  <2>3. HandedOut' = HandedOut
    BY <2>1, <2>2, HandsOutNone
  <2>. QED
    BY <2>1, <2>3, HandsNothing
<1>7. CASE \/ CommandFound \/ OptionValueEnds \/ PositionalRefused \/ UnknownOption \/ ArgsRead
           \/ Rest \/ ValuesFilled
  <2>1. args' = args /\ pos' = pos /\ key' = key /\ prefix' = prefix /\ calls' = calls
    BY <1>7 DEF CommandFound, OptionValueEnds, PositionalRefused, UnknownOption, ArgsRead, Rest, ValuesFilled,
                NotChecking, reading, Fail, Positional, Stays
  <2>2. HandedOut' = HandedOut
    BY <2>1 DEF HandedOut, CallsBy
  <2>. QED
    BY <2>1, <2>2, HandsNothing
<1>8. CASE Walks
  <2>1. args' = args /\ pos' = pos /\ key' = key /\ prefix' = prefix /\ calls' = calls
    BY <1>8, WalkKeeps DEF reading
  <2>2. HandedOut' = HandedOut
    BY <2>1 DEF HandedOut, CallsBy
  <2>. QED
    BY <2>1, <2>2, HandsNothing
<1>. QED
  BY <1>1, <1>2, <1>3, <1>4, <1>5, <1>6, <1>7, <1>8 DEF Next, Walks

(* What the type invariant and NothingLost rest on, for every step.        *)
LEMMA InvStays ==
  /\ Init => BaseInv /\ CheckInv /\ HandedInv
  /\ BaseInv /\ CheckInv /\ HandedInv /\ [Next]_vars => BaseInv' /\ CheckInv' /\ HandedInv'
  /\ BaseInv /\ CheckInv /\ HandedInv => Inv
<1>1. Init => BaseInv /\ CheckInv /\ HandedInv
  BY BaseInit, CheckInit, HandedInit
<1>2. BaseInv /\ CheckInv /\ HandedInv /\ [Next]_vars => BaseInv' /\ CheckInv' /\ HandedInv'
  BY BaseStep, CheckStep, HandedStep
<1>3. BaseInv /\ CheckInv /\ HandedInv => Inv
  BY TypeHolds, HandedIsNothingLost DEF Inv
<1>. QED
  BY <1>1, <1>2, <1>3

(* The state is well formed and no part of an argument is lost or handed   *)
(* out twice, whatever the command and its arguments.                      *)
THEOREM InvHolds == Spec => []Inv
<1>1. BaseInv /\ CheckInv /\ HandedInv => Inv
  BY InvStays
<1>2. Init => BaseInv /\ CheckInv /\ HandedInv
  BY InvStays
<1>3. (BaseInv /\ CheckInv /\ HandedInv) /\ [Next]_vars => (BaseInv /\ CheckInv /\ HandedInv)'
  BY InvStays
<1>. QED
  BY <1>1, <1>2, <1>3, PTL DEF Spec

-----------------------------------------------------------------------------
(* OptionCalls.  The part of a finite set of positions below a position.   *)
LEMMA CardBelow ==
  ASSUME NEW n \in Nat, NEW R, R \subseteq 1 .. n, NEW v \in Nat, v >= 1
  PROVE  /\ Cardinality(R) \in Nat
         /\ Cardinality(R \cap 1 .. (v - 1)) \in Nat
         /\ Cardinality(R \cap 1 .. ((v + 1) - 1)) \in Nat
         /\ Cardinality(R \cap 1 .. ((v + 1) - 1)) <= Cardinality(R \cap 1 .. (v - 1)) + 1
         /\ v \notin R => R \cap 1 .. ((v + 1) - 1) = R \cap 1 .. (v - 1)
         /\ v > n => R \cap 1 .. (v - 1) = R
<1> DEFINE A == R \cap 1 .. (v - 1)
           B == R \cap 1 .. ((v + 1) - 1)
<1>1. IsFiniteSet(1 .. n)
  BY FS_Interval
<1>2. R \in SUBSET (1 .. n) /\ A \in SUBSET (1 .. n) /\ B \in SUBSET (1 .. n)
  OBVIOUS
<1>3. B = A \/ B = A \cup {v}
  <2>1. \A x \in 1 .. n : x \in 1 .. ((v + 1) - 1) <=> x = v \/ x \in 1 .. (v - 1)
    OBVIOUS
  <2>2. \A x : x \in B <=> x \in A \/ (x = v /\ v \in R)
    BY <2>1
  <2> HIDE DEF A, B
  <2>3. CASE v \in R
    <3>1. B = A \cup {v}
      BY <2>2, <2>3
    <3>. QED
      BY <3>1
  <2>4. CASE v \notin R
    <3>1. B = A
      BY <2>2, <2>4
    <3>. QED
      BY <3>1
  <2>. QED
    BY <2>3, <2>4
<1>4. v \notin R => B = A
  <2>1. \A x \in 1 .. n : x \in 1 .. ((v + 1) - 1) <=> x = v \/ x \in 1 .. (v - 1)
    OBVIOUS
  <2>. QED
    BY <2>1
<1>5. v > n => A = R
  <2>1. v > n => \A x \in 1 .. n : x \in 1 .. (v - 1)
    OBVIOUS
  <2>. QED
    BY <2>1
<1> HIDE DEF A, B
<1>6. IsFiniteSet(R) /\ IsFiniteSet(A) /\ IsFiniteSet(B)
  BY <1>1, <1>2, FS_Subset
<1>7. Cardinality(R) \in Nat /\ Cardinality(A) \in Nat /\ Cardinality(B) \in Nat
  BY <1>6, FS_CardinalityType
<1>8. Cardinality(B) <= Cardinality(A) + 1
  <2>1. Cardinality(A \cup {v}) = Cardinality(A) \/ Cardinality(A \cup {v}) = Cardinality(A) + 1
    BY <1>6, FS_AddElement
  <2>2. Cardinality(B) = Cardinality(A) \/ Cardinality(B) = Cardinality(A) + 1
    BY <1>3, <2>1
  <2>. QED
    BY <1>7, <2>2
<1>. QED
  BY <1>4, <1>5, <1>7, <1>8 DEF A, B

(* The required values of an option in hand.                               *)
LEMMA RequiredIn ==
  ASSUME BaseInv, pc = "option"
  PROVE  /\ Required(cmd, key) \subseteq 1 .. Len(CurrentOption.vals)
         /\ val \in Required(cmd, key) => ~CurrentValue.optional
         /\ val \in Nat /\ val >= 1 /\ Len(CurrentOption.vals) \in Nat
<1>1. HeldKey /\ CurrentOption.vals \in Seq(Values) /\ Len(CurrentOption.vals) \in Nat
  BY OptionInHand
<1>2. val \in 1 .. (Len(CurrentOption.vals) + 1)
  BY <1>1 DEF HeldKey
<1>3. val \in Nat /\ val >= 1
  BY <1>1, <1>2
<1>4. DOMAIN CurrentOption.vals = 1 .. Len(CurrentOption.vals)
  BY <1>1
<1>. QED
  BY <1>1, <1>3, <1>4 DEF Required, CurrentOption, CurrentValue

(* Calls are only added, one at a time.                                    *)
CallsGrow ==
  /\ calls \in Seq(CallRecords)
  /\ calls' = calls \/ \E x \in CallRecords : calls' = Append(calls, x)

(* What that says of single calls.                                         *)
LEMMA CallsKept ==
  ASSUME CallsGrow
  PROVE  /\ Len(calls) \in Nat /\ DOMAIN calls = 1 .. Len(calls)
         /\ Len(calls') \in Nat /\ DOMAIN calls' = 1 .. Len(calls')
         /\ Len(calls') = Len(calls) \/ Len(calls') = Len(calls) + 1
         /\ \A i \in DOMAIN calls : i \in DOMAIN calls' /\ calls'[i] = calls[i]
         /\ \A i \in DOMAIN calls' : i \in DOMAIN calls \/ i = Len(calls) + 1
<1>1. Len(calls) \in Nat /\ DOMAIN calls = 1 .. Len(calls)
  BY DEF CallsGrow
<1>2. CASE calls' = calls
  BY <1>1, <1>2
<1>3. CASE \E x \in CallRecords : calls' = Append(calls, x)
  <2>1. PICK x \in CallRecords : calls' = Append(calls, x)
    BY <1>3
  <2>2. /\ Len(calls') = Len(calls) + 1 /\ DOMAIN calls' = 1 .. (Len(calls) + 1)
        /\ \A i \in 1 .. Len(calls) : calls'[i] = calls[i]
    BY <2>1 DEF CallsGrow
  <2>. QED
    BY <1>1, <2>2
<1>. QED
  BY <1>2, <1>3 DEF CallsGrow

(* A key whose values were called stays so.                                *)
LEMMA FilledKept ==
  ASSUME CallsGrow, cmd' = cmd, NEW i \in DOMAIN calls, Filled(i)
  PROVE  Filled(i)'
<1>1. calls'[i] = calls[i] /\ \A j \in DOMAIN calls : j \in DOMAIN calls' /\ calls'[j] = calls[j]
  BY CallsKept
<1>. QED
  BY <1>1 DEF Filled, Required

(* While no option is in hand every one that was has been filled.          *)
LEMMA FillOutside ==
  ASSUME CallsGrow, FillInv, cmd' = cmd, ~InOption,
         \A i \in DOMAIN calls' : i \notin DOMAIN calls => calls'[i].by # "key"
  PROVE  FillInv'
<1> SUFFICES ASSUME NEW i \in DOMAIN calls', calls'[i].by = "key"
             PROVE  calls'[i].text \in DOMAIN cmd'.map /\ (Filled(i)' \/ BeingFilled(i)')
  BY DEF FillInv
<1>1. i \in DOMAIN calls /\ calls'[i] = calls[i]
  BY CallsKept
<1>2. calls[i].text \in DOMAIN cmd.map /\ Filled(i)
  BY <1>1 DEF FillInv, BeingFilled
<1>3. Filled(i)'
  BY <1>1, <1>2, FilledKept
<1>. QED
  BY <1>1, <1>2, <1>3

(* While it is in hand a value counts toward it.                           *)
LEMMA FillInside ==
  ASSUME CallsGrow, FillInv, cmd' = cmd, key' = key,
         \A i \in DOMAIN calls' : i \notin DOMAIN calls => calls'[i].by = "value",
         \A i \in DOMAIN calls : BeingFilled(i) => BeingFilled(i)'
  PROVE  FillInv'
<1> SUFFICES ASSUME NEW i \in DOMAIN calls', calls'[i].by = "key"
             PROVE  calls'[i].text \in DOMAIN cmd'.map /\ (Filled(i)' \/ BeingFilled(i)')
  BY DEF FillInv
<1>1. i \in DOMAIN calls /\ calls'[i] = calls[i]
  BY CallsKept
<1>2. calls[i].text \in DOMAIN cmd.map /\ (Filled(i) \/ BeingFilled(i))
  BY <1>1 DEF FillInv
<1>3. Filled(i) => Filled(i)'
  BY <1>1, FilledKept
<1>. QED
  BY <1>1, <1>2, <1>3

(* A step's call, and that nothing else is added.                          *)
LEMMA OneCall ==
  ASSUME calls \in Seq(CallRecords), NEW x \in CallRecords, calls' = Append(calls, x)
  PROVE  /\ CallsGrow
         /\ Len(calls) \in Nat /\ Len(calls') = Len(calls) + 1
         /\ DOMAIN calls' = 1 .. (Len(calls) + 1) /\ DOMAIN calls = 1 .. Len(calls)
         /\ calls'[Len(calls) + 1] = x
         /\ \A i \in DOMAIN calls' : i \notin DOMAIN calls => calls'[i] = x
<1>1. CallsGrow
  BY DEF CallsGrow
<1>2. /\ Len(calls) \in Nat /\ Len(calls') = Len(calls) + 1
      /\ DOMAIN calls' = 1 .. (Len(calls) + 1) /\ DOMAIN calls = 1 .. Len(calls)
      /\ calls'[Len(calls) + 1] = x
  OBVIOUS
<1>3. \A i \in DOMAIN calls' : i \notin DOMAIN calls => i = Len(calls) + 1
  BY <1>1, CallsKept
<1>. QED
  BY <1>1, <1>2, <1>3

(* A key is called, its values are due.                                    *)
LEMMA FillOptionKey ==
  ASSUME BaseInv, FillInv, OptionKey
  PROVE  FillInv'
<1>1. PICK k \in FindKey(cmd, Arg) : key' = k /\ Call("key", k, pos + 1)
  BY DEF OptionKey
<1>2. pc = "args" /\ More /\ pc' = "option" /\ val' = 1 /\ took' = FALSE /\ cmd' = cmd
  BY DEF OptionKey
<1>3. k \in DOMAIN cmd.map /\ k \in Seq(Nat) /\ pos + 1 \in Nat /\ calls \in Seq(CallRecords)
  <2>1. Arg \in Seq(Nat) /\ cmd \in Commands
    BY <1>2, NextArgument DEF BaseInv, Placed
  <2>2. Finds(cmd, Arg, k)
    BY <2>1, FoundKey
  <2>3. pos \in Nat /\ calls \in Seq(CallRecords)
    BY HandedTyped
  <2>4. pos + 1 \in Nat
    BY <2>3
  <2>. QED
    BY <2>2, <2>3, <2>4 DEF Finds
<1> DEFINE x == [by |-> "key", text |-> k, at |-> pos + 1]
<1>4. x \in CallRecords /\ calls' = Append(calls, x)
  BY <1>1, <1>3, CallTyped
<1>5. x.by = "key" /\ x.text = k
  OBVIOUS
<1> HIDE DEF x
<1>6. /\ CallsGrow
      /\ Len(calls) \in Nat /\ Len(calls') = Len(calls) + 1
      /\ DOMAIN calls' = 1 .. (Len(calls) + 1) /\ DOMAIN calls = 1 .. Len(calls)
      /\ calls'[Len(calls) + 1] = x
  BY <1>3, <1>4, OneCall
<1> SUFFICES ASSUME NEW i \in DOMAIN calls', calls'[i].by = "key"
             PROVE  calls'[i].text \in DOMAIN cmd'.map /\ (Filled(i)' \/ BeingFilled(i)')
  BY DEF FillInv
<1>7. CASE i \in DOMAIN calls
  <2>1. calls'[i] = calls[i]
    BY <1>6, <1>7, CallsKept
  <2>2. calls[i].text \in DOMAIN cmd.map /\ Filled(i)
    BY <1>2, <1>7, <2>1 DEF FillInv, BeingFilled, InOption
  <2>3. Filled(i)'
    BY <1>2, <1>6, <1>7, <2>2, FilledKept
  <2>. QED
    BY <1>2, <2>1, <2>2, <2>3
<1>8. CASE i \notin DOMAIN calls
  <2>1. i = Len(calls) + 1 /\ calls'[i] = x
    BY <1>6, <1>8, CallsKept
  <2>2. calls'[i].text = k /\ InOption' /\ key' = k
    BY <1>1, <1>2, <1>5, <2>1 DEF InOption
  <2>3. \A j \in i + 1 .. Len(calls') : FALSE
    BY <1>6, <2>1
  <2>4. Len(calls') - i = 0
    BY <1>6, <2>1
  <2>5. Required(cmd', key') \cap 1 .. (val' - 1) = {}
    <3>1. 1 .. (1 - 1) = {}
      OBVIOUS
    <3>2. val' = 1
      BY <1>2
    <3>. QED
      BY <3>1, <3>2
  <2>6. Cardinality(Required(cmd', key') \cap 1 .. (val' - 1)) = 0
    BY <2>5, FS_EmptySet
  <2>7. (IF took' THEN 1 ELSE 0) = 0
    BY <1>2
  <2>8. Len(calls') - i >= Cardinality(Required(cmd', key') \cap 1 .. (val' - 1)) + (IF took' THEN 1 ELSE 0)
    BY <2>4, <2>6, <2>7
  <2>9. BeingFilled(i)'
    BY <2>2, <2>3, <2>8 DEF BeingFilled
  <2>. QED
    BY <1>2, <1>3, <2>2, <2>9
<1>. QED
  BY <1>7, <1>8

(* A value is called.                                                      *)
LEMMA FillOptionValue ==
  ASSUME BaseInv, FillInv, OptionValue
  PROVE  FillInv'
<1>1. /\ pc = "option" /\ pc' = "option" /\ cmd' = cmd /\ key' = key /\ More
      /\ Call("value", Text, pos + 1)
      /\ \/ took' = TRUE /\ val' = val
         \/ took' = FALSE /\ val' = val + 1
  BY DEF OptionValue, Offered, NotChecking
<1> DEFINE x == [by |-> "value", text |-> Text, at |-> pos + 1]
<1>2. x \in CallRecords /\ calls' = Append(calls, x) /\ calls \in Seq(CallRecords)
  <2>1. pos \in Nat /\ calls \in Seq(CallRecords)
    BY HandedTyped
  <2>2. pos + 1 \in Nat
    BY <2>1
  <2>3. Text \in Seq(Nat)
    BY <1>1, OptionInHand
  <2>. QED
    BY <1>1, <2>1, <2>2, <2>3, CallTyped
<1>3. x.by = "value"
  OBVIOUS
<1> HIDE DEF x
<1>4. /\ CallsGrow
      /\ Len(calls) \in Nat /\ Len(calls') = Len(calls) + 1
      /\ DOMAIN calls' = 1 .. (Len(calls) + 1) /\ DOMAIN calls = 1 .. Len(calls)
      /\ calls'[Len(calls) + 1] = x
      /\ \A i \in DOMAIN calls' : i \notin DOMAIN calls => calls'[i] = x
  BY <1>2, OneCall
<1>5. ASSUME NEW i \in DOMAIN calls, BeingFilled(i) PROVE BeingFilled(i)'
  <2> DEFINE R == Required(cmd, key)
             n == Len(CurrentOption.vals)
             a == Cardinality(R \cap 1 .. (val - 1))
             b == Cardinality(R \cap 1 .. ((val + 1) - 1))
  <2>1. R \subseteq 1 .. n /\ val \in Nat /\ val >= 1 /\ n \in Nat
    BY <1>1, RequiredIn
  <2>2. a \in Nat /\ b \in Nat /\ b <= a + 1
    <3> HIDE DEF R, n
    <3>. QED
      BY <2>1, CardBelow
  <2>3. i \in Nat /\ Len(calls) - i >= a + (IF took THEN 1 ELSE 0)
    BY <1>4, <1>5 DEF BeingFilled
  <2>4. Len(calls) - i >= a
    <3>1. (IF took THEN 1 ELSE 0) \in {0, 1}
      OBVIOUS
    <3> HIDE DEF a
    <3>. QED
      BY <1>4, <2>2, <2>3, <3>1
  <2>5. Required(cmd', key') = R
    BY <1>1
  <2>6. Len(calls') - i >= Cardinality(Required(cmd', key') \cap 1 .. (val' - 1)) + (IF took' THEN 1 ELSE 0)
    <3> DEFINE c == Cardinality(Required(cmd', key') \cap 1 .. (val' - 1))
               d == IF took' THEN 1 ELSE 0
    <3>1. (c = a /\ d = 1) \/ (c = b /\ d = 0)
      BY <1>1, <2>5
    <3> HIDE DEF a, b, c, d
    <3>2. Len(calls') - i >= c + d
      BY <1>4, <2>2, <2>3, <2>4, <3>1
    <3>. QED
      BY <3>2 DEF c, d
  <2>7. \A j \in i + 1 .. Len(calls') : calls'[j].by = "value"
    <3> SUFFICES ASSUME NEW j \in i + 1 .. Len(calls') PROVE calls'[j].by = "value"
      OBVIOUS
    <3>1. j \in i + 1 .. Len(calls) \/ j = Len(calls) + 1
      BY <1>4, <2>3
    <3>2. CASE j = Len(calls) + 1
      BY <1>3, <1>4, <3>2
    <3>3. CASE j \in i + 1 .. Len(calls)
      <4>1. j \in DOMAIN calls /\ calls[j].by = "value"
        BY <1>4, <1>5, <2>3, <3>3 DEF BeingFilled
      <4>. QED
        BY <1>4, <4>1, CallsKept
    <3>. QED
      BY <3>1, <3>2, <3>3
  <2>8. calls'[i].text = key' /\ InOption'
    BY <1>1, <1>4, <1>5, CallsKept DEF BeingFilled, InOption
  <2>. QED
    BY <2>6, <2>7, <2>8 DEF BeingFilled
<1>. QED
  BY <1>1, <1>3, <1>4, <1>5, FillInside

(* A value is passed, which is not required or has been called.            *)
LEMMA FillOptionValueEnds ==
  ASSUME BaseInv, FillInv, OptionValueEnds
  PROVE  FillInv'
<1>1. pc = "option" /\ cmd' = cmd /\ key' = key /\ calls' = calls
  BY DEF OptionValueEnds, NotChecking, Fail, reading
<1>2. CallsGrow
  BY <1>1, HandedTyped DEF CallsGrow
<1>3. ASSUME NEW i \in DOMAIN calls, BeingFilled(i) PROVE BeingFilled(i)'
  <2>1. CASE took \/ (prefix = 0 /\ CurrentValue.optional)
    <3>1. took' = FALSE /\ val' = val + 1 /\ pc' = pc
      BY <2>1 DEF OptionValueEnds
    <3> DEFINE R == Required(cmd, key)
               n == Len(CurrentOption.vals)
               a == Cardinality(R \cap 1 .. (val - 1))
               b == Cardinality(R \cap 1 .. ((val + 1) - 1))
    <3>2. R \subseteq 1 .. n /\ val \in Nat /\ val >= 1 /\ n \in Nat /\ (val \in R => ~CurrentValue.optional)
      BY <1>1, RequiredIn
    <3>3. a \in Nat /\ b \in Nat /\ b <= a + 1 /\ (val \notin R => b = a)
      <4>1. /\ Cardinality(R \cap 1 .. (val - 1)) \in Nat
            /\ Cardinality(R \cap 1 .. ((val + 1) - 1)) \in Nat
            /\ Cardinality(R \cap 1 .. ((val + 1) - 1)) <= Cardinality(R \cap 1 .. (val - 1)) + 1
        <5> HIDE DEF R, n
        <5>. QED
          BY <3>2, CardBelow
      <4>2. val \notin R => R \cap 1 .. ((val + 1) - 1) = R \cap 1 .. (val - 1)
        <5> HIDE DEF R, n
        <5>. QED
          BY <3>2, CardBelow
      <4>. QED
        BY <4>1, <4>2
    <3>4. Len(calls) \in Nat /\ i \in Nat /\ Len(calls) - i >= a + (IF took THEN 1 ELSE 0)
      <4>1. Len(calls) \in Nat /\ DOMAIN calls = 1 .. Len(calls)
        BY <1>2, CallsKept
      <4>2. i \in Nat
        BY <4>1
      <4>3. Len(calls) - i >= a + (IF took THEN 1 ELSE 0)
        BY <1>3 DEF BeingFilled
      <4>. QED
        BY <4>1, <4>2, <4>3
    <3>5. Len(calls) - i >= b
      <4>1. CASE took
        <5> HIDE DEF a, b
        <5>. QED
          BY <3>3, <3>4, <4>1
      <4>2. CASE ~took
        <5>1. b = a /\ Len(calls) - i >= a + 0
          BY <2>1, <3>2, <3>3, <3>4, <4>2
        <5> HIDE DEF a, b
        <5>. QED
          BY <3>3, <3>4, <5>1
      <4>. QED
        BY <4>1, <4>2
    <3>6. Len(calls') - i >= Cardinality(Required(cmd', key') \cap 1 .. (val' - 1)) + (IF took' THEN 1 ELSE 0)
      <4>1. Cardinality(Required(cmd', key') \cap 1 .. (val' - 1)) = b /\ (IF took' THEN 1 ELSE 0) = 0
        BY <1>1, <3>1
      <4> HIDE DEF a, b
      <4>2. Len(calls') - i >= b + 0
        BY <1>1, <3>3, <3>5
      <4>. QED
        BY <4>1, <4>2
    <3>. QED
      BY <1>1, <1>3, <3>1, <3>6 DEF BeingFilled, InOption
  <2>2. CASE ~(took \/ (prefix = 0 /\ CurrentValue.optional))
    <3>1. /\ pc' = "done" /\ status' = "invalid_value" /\ culprit' = <<"option", cmd.map[key], val>>
          /\ val' = val /\ took' = took
      BY <2>2 DEF OptionValueEnds, Fail, reading
    <3>2. InOption'
      BY <3>1 DEF InOption
    <3>. QED
      BY <1>1, <1>3, <3>1, <3>2 DEF BeingFilled
  <2>. QED
    BY <2>1, <2>2
<1>4. \A i \in DOMAIN calls' : i \notin DOMAIN calls => calls'[i].by = "value"
  BY <1>1
<1>. QED
  BY <1>1, <1>2, <1>3, <1>4, FillInside

(* The values have all been passed.                                        *)
LEMMA FillOptionDone ==
  ASSUME BaseInv, FillInv, OptionDone
  PROVE  FillInv'
<1>1. /\ pc = "option" /\ val > Len(CurrentOption.vals) /\ cmd' = cmd /\ Call("option", key, pos)
  BY DEF OptionDone, reading
<1> DEFINE x == [by |-> "option", text |-> key, at |-> pos]
<1>2. x \in CallRecords /\ calls' = Append(calls, x) /\ calls \in Seq(CallRecords)
  <2>1. pos \in Nat /\ calls \in Seq(CallRecords)
    BY HandedTyped
  <2>2. key \in Seq(Nat)
    BY DEF BaseInv, Held
  <2>. QED
    BY <1>1, <2>1, <2>2, CallTyped
<1>3. x.by = "option"
  OBVIOUS
<1> HIDE DEF x
<1>4. /\ CallsGrow
      /\ Len(calls) \in Nat /\ Len(calls') = Len(calls) + 1
      /\ DOMAIN calls' = 1 .. (Len(calls) + 1) /\ DOMAIN calls = 1 .. Len(calls)
      /\ \A i \in DOMAIN calls' : i \notin DOMAIN calls => calls'[i] = x
  BY <1>2, OneCall
<1> SUFFICES ASSUME NEW i \in DOMAIN calls', calls'[i].by = "key"
             PROVE  calls'[i].text \in DOMAIN cmd'.map /\ (Filled(i)' \/ BeingFilled(i)')
  BY DEF FillInv
<1>5. i \in DOMAIN calls /\ calls'[i] = calls[i]
  BY <1>3, <1>4, CallsKept
<1>6. calls[i].text \in DOMAIN cmd.map /\ (Filled(i) \/ BeingFilled(i))
  BY <1>5 DEF FillInv
<1>7. ASSUME BeingFilled(i) PROVE Filled(i)
  <2> DEFINE R == Required(cmd, key)
             n == Len(CurrentOption.vals)
             a == Cardinality(R)
  <2>1. R \subseteq 1 .. n /\ val \in Nat /\ val >= 1 /\ n \in Nat /\ val > n
    BY <1>1, RequiredIn
  <2>2. a \in Nat /\ R \cap 1 .. (val - 1) = R
    <3> HIDE DEF R, n
    <3>. QED
      BY <2>1, CardBelow
  <2>3. Len(calls) - i >= a + (IF took THEN 1 ELSE 0) /\ i \in Nat
    <3>1. i \in Nat
      BY <1>4, <1>5
    <3>2. Len(calls) - i >= Cardinality(R \cap 1 .. (val - 1)) + (IF took THEN 1 ELSE 0)
      BY <1>7 DEF BeingFilled
    <3>. QED
      BY <2>2, <3>1, <3>2
  <2>4. Len(calls) - i >= a
    <3>1. (IF took THEN 1 ELSE 0) \in {0, 1}
      OBVIOUS
    <3> HIDE DEF a
    <3>. QED
      BY <1>4, <2>2, <2>3, <3>1
  <2>5. ASSUME NEW m \in 1 .. a PROVE i + m \in DOMAIN calls /\ calls[i + m].by = "value"
    <3>1. i + m \in i + 1 .. Len(calls) /\ i + m \in 1 .. Len(calls)
      <4> HIDE DEF a
      <4>. QED
        BY <1>4, <2>2, <2>3, <2>4, <2>5
    <3>. QED
      BY <1>4, <1>7, <3>1 DEF BeingFilled
  <2>6. Required(cmd, calls[i].text) = R
    BY <1>7 DEF BeingFilled
  <2>. QED
    BY <2>5, <2>6 DEF Filled
<1>8. Filled(i)'
  BY <1>1, <1>4, <1>5, <1>6, <1>7, FilledKept
<1>. QED
  BY <1>1, <1>5, <1>6, <1>8

(* The texts of the calls of keys and of options.                          *)
Keyed == TextsOf(CallsBy({"key"}))
Optioned == TextsOf(CallsBy({"option"}))

(* A step that calls no key and no option.                                 *)
LEMMA TextsStay ==
  ASSUME TextsInv, CallsGrow, \A i \in DOMAIN calls' : i \notin DOMAIN calls => calls'[i].by \notin {"key", "option"},
         InOption' <=> InOption, key' = key \/ ~InOption
  PROVE  TextsInv'
<1>1. calls' = calls \/ \E x \in CallRecords : calls' = Append(calls, x) /\ x.by \notin {"key", "option"}
  <2>1. ASSUME NEW x \in CallRecords, calls' = Append(calls, x) PROVE x.by \notin {"key", "option"}
    <3>1. Len(calls) + 1 \in DOMAIN calls' /\ Len(calls) + 1 \notin DOMAIN calls /\ calls'[Len(calls) + 1] = x
      <4>1. /\ Len(calls) \in Nat /\ DOMAIN calls' = 1 .. (Len(calls) + 1) /\ DOMAIN calls = 1 .. Len(calls)
            /\ calls'[Len(calls) + 1] = x
        BY <2>1, OneCall DEF CallsGrow
      <4>. QED
        BY <4>1
    <3>. QED
      BY <3>1
  <2>. QED
    BY <2>1 DEF CallsGrow
<1>2. Keyed' = Keyed /\ Optioned' = Optioned
  <2>1. CASE calls' = calls
    BY <2>1 DEF Keyed, Optioned, CallsBy
  <2>2. ASSUME NEW x \in CallRecords, calls' = Append(calls, x), x.by \notin {"key", "option"}
        PROVE  Keyed' = Keyed /\ Optioned' = Optioned
    <3>1. calls \in Seq(CallRecords) /\ x.by \notin {"key"} /\ x.by \notin {"option"}
      BY <2>2 DEF CallsGrow
    <3>. QED
      BY <2>2, <3>1, OneCallMore DEF Keyed, Optioned
  <2>. QED
    BY <1>1, <2>1, <2>2
<1>. QED
  BY <1>2 DEF TextsInv, Keyed, Optioned

(* A key is called before its option.                                      *)
LEMMA TextsOptionKey ==
  ASSUME BaseInv, TextsInv, OptionKey
  PROVE  TextsInv'
<1>1. PICK k \in FindKey(cmd, Arg) : key' = k /\ Call("key", k, pos + 1)
  BY DEF OptionKey
<1>2. pc = "args" /\ More /\ pc' = "option"
  BY DEF OptionKey
<1> DEFINE x == [by |-> "key", text |-> k, at |-> pos + 1]
<1>3. x \in CallRecords /\ calls' = Append(calls, x) /\ calls \in Seq(CallRecords)
  <2>1. Arg \in Seq(Nat) /\ cmd \in Commands
    BY <1>2, NextArgument DEF BaseInv, Placed
  <2>2. Finds(cmd, Arg, k)
    BY <2>1, FoundKey
  <2>3. pos \in Nat /\ calls \in Seq(CallRecords)
    BY HandedTyped
  <2>4. pos + 1 \in Nat /\ k \in Seq(Nat)
    BY <2>2, <2>3 DEF Finds
  <2>. QED
    BY <1>1, <2>3, <2>4, CallTyped
<1>4. x.by \in {"key"} /\ x.by \notin {"option"} /\ x.text = k
  OBVIOUS
<1> HIDE DEF x
<1>5. Keyed' = Append(Keyed, k) /\ Optioned' = Optioned
  BY <1>3, <1>4, OneCallMore DEF Keyed, Optioned
<1>6. ~InOption /\ InOption'
  BY <1>2 DEF InOption
<1>. QED
  BY <1>1, <1>5, <1>6 DEF TextsInv, Keyed, Optioned

(* The option is called whose key was.                                     *)
LEMMA TextsOptionDone ==
  ASSUME BaseInv, TextsInv, OptionDone
  PROVE  TextsInv'
<1>1. pc = "option" /\ pc' = "args" /\ Call("option", key, pos)
  BY DEF OptionDone
<1> DEFINE x == [by |-> "option", text |-> key, at |-> pos]
<1>2. x \in CallRecords /\ calls' = Append(calls, x) /\ calls \in Seq(CallRecords)
  <2>1. pos \in Nat /\ calls \in Seq(CallRecords)
    BY HandedTyped
  <2>2. key \in Seq(Nat)
    BY DEF BaseInv, Held
  <2>. QED
    BY <1>1, <2>1, <2>2, CallTyped
<1>3. x.by \in {"option"} /\ x.by \notin {"key"} /\ x.text = key
  OBVIOUS
<1> HIDE DEF x
<1>4. Optioned' = Append(Optioned, key) /\ Keyed' = Keyed
  BY <1>2, <1>3, OneCallMore DEF Keyed, Optioned
<1>5. InOption /\ ~InOption'
  BY <1>1 DEF InOption
<1>. QED
  BY <1>4, <1>5 DEF TextsInv, Keyed, Optioned

-----------------------------------------------------------------------------
(* The calls a step makes, by whom.                                        *)
LEMMA StepCalls ==
  ASSUME BaseInv, [Next]_vars
  PROVE  CallsGrow
<1>1. CASE Descend
  <2>1. More /\ Call("command", Arg, pos + 1)
    BY <1>1 DEF Descend
  <2>2. pos + 1 \in Nat /\ Arg \in Seq(Nat) /\ calls \in Seq(CallRecords)
    <3>1. pos \in Nat /\ calls \in Seq(CallRecords)
      BY HandedTyped
    <3>2. Arg \in Seq(Nat)
      BY <2>1, NextArgument DEF BaseInv, Placed
    <3>3. pos + 1 \in Nat
      BY <3>1
    <3>. QED
      BY <3>1, <3>2, <3>3
  <2>. QED
    BY <2>1, <2>2, CallTyped DEF CallsGrow
<1>2. CASE OptionKey
  <2>1. PICK k \in FindKey(cmd, Arg) : Call("key", k, pos + 1)
    BY <1>2 DEF OptionKey
  <2>2. Arg \in Seq(Nat) /\ cmd \in Commands
    BY <1>2, NextArgument DEF BaseInv, Placed, OptionKey
  <2>3. Finds(cmd, Arg, k)
    BY <2>2, FoundKey
  <2>4. pos \in Nat /\ calls \in Seq(CallRecords)
    BY HandedTyped
  <2>5. pos + 1 \in Nat /\ k \in Seq(Nat)
    BY <2>3, <2>4 DEF Finds
  <2>. QED
    BY <2>1, <2>4, <2>5, CallTyped DEF CallsGrow
<1>3. CASE OptionValue
  <2>1. pc = "option" /\ More /\ Call("value", Text, pos + 1)
    BY <1>3 DEF OptionValue, Offered
  <2>2. pos \in Nat /\ Text \in Seq(Nat) /\ calls \in Seq(CallRecords)
    BY <2>1, HandedTyped, OptionInHand
  <2>3. pos + 1 \in Nat
    BY <2>2
  <2>. QED
    BY <2>1, <2>2, <2>3, CallTyped DEF CallsGrow
<1>4. CASE OptionDone
  <2>1. Call("option", key, pos)
    BY <1>4 DEF OptionDone
  <2>2. pos \in Nat /\ key \in Seq(Nat) /\ calls \in Seq(CallRecords)
    BY HandedTyped DEF BaseInv, Held
  <2>. QED
    BY <2>1, <2>2, CallTyped DEF CallsGrow
<1>5. CASE PositionalTaken
  <2>1. More /\ Call("positional", Arg, valIt)
    BY <1>5 DEF PositionalTaken, Positional
  <2>2. valIt \in Nat /\ Arg \in Seq(Nat) /\ calls \in Seq(CallRecords)
    <3>1. valIt \in Nat
      BY DEF BaseInv, Counted
    <3>2. Arg \in Seq(Nat) /\ calls \in Seq(CallRecords)
      BY <2>1, NextArgument DEF BaseInv, Placed
    <3>. QED
      BY <3>1, <3>2
  <2>. QED
    BY <2>1, <2>2, CallTyped DEF CallsGrow
<1>6. CASE ~(Descend \/ OptionKey \/ OptionValue \/ OptionDone \/ PositionalTaken)
  <2>1. calls' = calls
    <3>1. CASE \/ UNCHANGED vars \/ CommandFound \/ OptionValueEnds \/ PositionalRefused \/ UnknownOption
               \/ ArgsRead \/ Rest \/ ValuesFilled
      BY <3>1 DEF vars, CommandFound, OptionValueEnds, PositionalRefused, UnknownOption, ArgsRead, Rest,
                  ValuesFilled, NotChecking, Fail
    <3>2. CASE Walks
      BY <3>2, WalkKeeps
    <3>. QED
      BY <1>6, <3>1, <3>2 DEF Next, Walks
  <2>. QED
    BY <2>1, HandedTyped DEF CallsGrow
<1>. QED
  BY <1>1, <1>2, <1>3, <1>4, <1>5, <1>6

(* The call that is new, if there is one.                                  *)
LEMMA NewCall ==
  ASSUME BaseInv, NEW by, NEW text, NEW at, Call(by, text, at)
  PROVE  \A i \in DOMAIN calls' : i \notin DOMAIN calls
           => calls'[i] = [by |-> by, text |-> text, at |-> at]
<1> DEFINE x == [by |-> by, text |-> text, at |-> at]
<1>1. calls \in Seq(CallRecords) /\ calls' = Append(calls, x)
  BY HandedTyped DEF Call
<1> HIDE DEF x
<1>2. /\ DOMAIN calls = 1 .. Len(calls) /\ DOMAIN calls' = 1 .. (Len(calls) + 1)
      /\ Len(calls) \in Nat /\ calls'[Len(calls) + 1] = x
  BY <1>1
<1>3. \A i \in DOMAIN calls' : i \notin DOMAIN calls => calls'[i] = x
  <2>1. \A i \in DOMAIN calls' : i \notin DOMAIN calls => i = Len(calls) + 1
    BY <1>2
  <2>. QED
    BY <1>2, <2>1
<1>. QED
  BY <1>3 DEF x

(* The steps that are not about options.                                   *)
Elsewhere ==
  \/ Descend \/ CommandFound \/ PositionalTaken \/ PositionalRefused \/ UnknownOption
  \/ ArgsRead \/ Rest \/ ValuesFilled \/ Walks

(* They call no handler of an option.                                      *)
LEMMA ElsewhereStep ==
  ASSUME BaseInv, Elsewhere
  PROVE  /\ ~InOption /\ ~InOption'
         /\ \A i \in DOMAIN calls' : i \notin DOMAIN calls => calls'[i].by \in {"command", "positional"}
         /\ Descend \/ (cmd' = cmd /\ pc' # "commands")
<1>1. CASE Descend
  <2>1. /\ pc = "commands" /\ pc' = pc
        /\ \A i \in DOMAIN calls' : i \notin DOMAIN calls
              => calls'[i] = [by |-> "command", text |-> Arg, at |-> pos + 1]
    BY <1>1, NewCall DEF Descend
  <2>. QED
    BY <1>1, <2>1 DEF InOption
<1>2. CASE PositionalTaken
  <2>1. /\ pc = "args" /\ pc' = pc /\ cmd' = cmd
        /\ \A i \in DOMAIN calls' : i \notin DOMAIN calls
              => calls'[i] = [by |-> "positional", text |-> Arg, at |-> valIt]
    BY <1>2, NewCall DEF PositionalTaken, Positional
  <2>. QED
    BY <2>1 DEF InOption
<1>3. CASE CommandFound \/ PositionalRefused \/ UnknownOption \/ ArgsRead \/ Rest \/ ValuesFilled
  <2>1. /\ calls' = calls /\ cmd' = cmd /\ pc \in {"commands", "args", "rest"}
        /\ \/ pc' \in {"args", "rest", "check"}
           \/ pc' = "done" /\ culprit'[1] # "option"
    BY <1>3 DEF CommandFound, PositionalRefused, UnknownOption, ArgsRead, Rest, ValuesFilled, Positional,
                NotChecking, reading, Fail
  <2>. QED
    BY <2>1 DEF InOption
<1>4. CASE Walks
  <2>1. /\ calls' = calls /\ cmd' = cmd /\ pc = "check"
        /\ \/ pc' = "check"
           \/ pc' = "done" /\ status' \in {"ok", "unspecified_option", "conflicting_option"}
    BY <1>4, WalkKeeps DEF reading
  <2>. QED
    BY <2>1 DEF InOption
<1>. QED
  BY <1>1, <1>2, <1>3, <1>4 DEF Elsewhere

(* No option was called at first.                                          *)
LEMMA OptionsInit ==
  ASSUME Init, BaseInv
  PROVE  OptionsInv
<1> DEFINE v == <<>>
           r == [by |-> "command", text |-> v, at |-> 0]
           s == <<>>
<1>1. calls = Append(s, r) /\ pc = "commands"
  <2>1. calls = <<r>> /\ pc = "commands"
    BY DEF Init
  <2> HIDE DEF r
  <2>. QED
    BY <2>1
<1>2. s \in Seq(CallRecords) /\ DOMAIN Append(s, r) = {1}
  <2> HIDE DEF r
  <2>. QED
    OBVIOUS
<1>3. v \in Seq(Nat)
  OBVIOUS
<1>4. r \in CallRecords /\ r.by = "command"
  BY <1>3 DEF CallRecords
<1>5. Append(s, r)[1] = r
  <2> HIDE DEF r
  <2>. QED
    OBVIOUS
<1>6. \A i \in DOMAIN calls : calls[i].by = "command"
  BY <1>1, <1>2, <1>4, <1>5
<1>7. Picked(s, {"key"}) = s /\ Picked(s, {"option"}) = s
  BY PickedEmpty
<1>8. r.by \notin {"key"} /\ r.by \notin {"option"}
  BY <1>4
<1> HIDE DEF r, v, s
<1>9. Picked(calls, {"key"}) = s /\ Picked(calls, {"option"}) = s
  BY <1>1, <1>2, <1>4, <1>7, <1>8, PickedAppend
<1>10. TextsInv
  <2>1. ~InOption
    BY <1>1 DEF InOption
  <2>. QED
    BY <1>9, <2>1 DEF TextsInv, CallsBy
<1>. QED
  BY <1>6, <1>10 DEF OptionsInv, FillInv, CommandsFirst

(* Every step keeps OptionsInv.                                            *)
LEMMA OptionsStep ==
  ASSUME BaseInv, OptionsInv, [Next]_vars
  PROVE  OptionsInv'
<1>0. CallsGrow
  BY StepCalls
<1>1. CASE UNCHANGED vars
  BY <1>1 DEF vars, reading, OptionsInv, TextsInv, FillInv, CommandsFirst, Filled, BeingFilled, InOption,
              Required, CallsBy
<1>2. CASE Elsewhere
  <2>1. /\ ~InOption /\ ~InOption'
        /\ \A i \in DOMAIN calls' : i \notin DOMAIN calls => calls'[i].by \in {"command", "positional"}
        /\ Descend \/ (cmd' = cmd /\ pc' # "commands")
    BY <1>2, ElsewhereStep
  <2>2. TextsInv'
    <3>1. \A i \in DOMAIN calls' : i \notin DOMAIN calls => calls'[i].by \notin {"key", "option"}
      BY <2>1
    <3>. QED
      BY <1>0, <2>1, <3>1, TextsStay DEF OptionsInv
  <2>3. CASE Descend
    <3>1. pc = "commands" /\ \A i \in DOMAIN calls : calls[i].by = "command"
      BY <2>3 DEF Descend, OptionsInv, CommandsFirst
    <3>2. \A i \in DOMAIN calls' : i \notin DOMAIN calls
             => calls'[i] = [by |-> "command", text |-> Arg, at |-> pos + 1]
      BY <2>3, NewCall DEF Descend
    <3>3. \A i \in DOMAIN calls' : calls'[i].by = "command"
      <4>1. \A i \in DOMAIN calls' : i \notin DOMAIN calls => calls'[i].by = "command"
        BY <3>2
      <4>2. \A i \in DOMAIN calls : calls'[i].by = "command"
        BY <1>0, <3>1, CallsKept
      <4>. QED
        BY <4>1, <4>2
    <3>4. FillInv' /\ CommandsFirst'
      BY <3>3 DEF FillInv, CommandsFirst
    <3>. QED
      BY <2>2, <3>4 DEF OptionsInv
  <2>4. CASE cmd' = cmd /\ pc' # "commands"
    <3>1. \A i \in DOMAIN calls' : i \notin DOMAIN calls => calls'[i].by # "key"
      BY <2>1
    <3>2. FillInv'
      BY <1>0, <2>1, <2>4, <3>1, FillOutside DEF OptionsInv
    <3>3. CommandsFirst'
      BY <2>4 DEF CommandsFirst
    <3>. QED
      BY <2>2, <3>2, <3>3 DEF OptionsInv
  <2>. QED
    BY <2>1, <2>3, <2>4
<1>3. CASE OptionKey
  <2>1. pc' = "option"
    BY <1>3 DEF OptionKey
  <2>. QED
    BY <1>3, <2>1, TextsOptionKey, FillOptionKey DEF OptionsInv, CommandsFirst
<1>4. CASE OptionValue
  <2>1. /\ pc = "option" /\ pc' = pc /\ key' = key
        /\ \A i \in DOMAIN calls' : i \notin DOMAIN calls
              => calls'[i] = [by |-> "value", text |-> Text, at |-> pos + 1]
    BY <1>4, NewCall DEF OptionValue
  <2>2. TextsInv'
    <3>1. InOption /\ InOption'
      BY <2>1 DEF InOption
    <3>2. \A i \in DOMAIN calls' : i \notin DOMAIN calls => calls'[i].by \notin {"key", "option"}
      BY <2>1
    <3>. QED
      BY <1>0, <2>1, <3>1, <3>2, TextsStay DEF OptionsInv
  <2>. QED
    BY <1>4, <2>1, <2>2, FillOptionValue DEF OptionsInv, CommandsFirst
<1>5. CASE OptionValueEnds
  <2>1. /\ pc = "option" /\ calls' = calls /\ key' = key
        /\ \/ pc' = "option"
           \/ pc' = "done" /\ status' = "invalid_value" /\ culprit' = <<"option", cmd.map[key], val>>
    BY <1>5 DEF OptionValueEnds, NotChecking, Fail, reading
  <2>2. TextsInv'
    <3>1. InOption /\ InOption'
      BY <2>1 DEF InOption
    <3>2. \A i \in DOMAIN calls' : i \notin DOMAIN calls => calls'[i].by \notin {"key", "option"}
      BY <2>1
    <3>. QED
      BY <1>0, <2>1, <3>1, <3>2, TextsStay DEF OptionsInv
  <2>. QED
    BY <1>5, <2>1, <2>2, FillOptionValueEnds DEF OptionsInv, CommandsFirst
<1>6. CASE OptionDone
  <2>1. pc' = "args"
    BY <1>6 DEF OptionDone
  <2>. QED
    BY <1>6, <2>1, TextsOptionDone, FillOptionDone DEF OptionsInv, CommandsFirst
<1>. QED
  BY <1>1, <1>2, <1>3, <1>4, <1>5, <1>6 DEF Next, Walks, Elsewhere

(* So OptionCalls is true of every state.                                  *)
LEMMA OptionsExact ==
  ASSUME BaseInv, OptionsInv
  PROVE  OptionCalls
<1> DEFINE C == CallRecords
           D == Seq(Nat)
<1>1. calls \in Seq(C)
  BY HandedTyped
<1>2. HaveTexts(C, D)
  BY DEF HaveTexts, CallRecords
<1>3. <<>> \in D
  OBVIOUS
<1>4. [by |-> "command", text |-> <<>>, at |-> 0] \in C
  BY <1>3 DEF CallRecords
<1>5. Optioned \in Seq(D)
  <2> HIDE DEF C, D
  <2>1. Picked(calls, {"option"}) \in Seq(C)
    BY <1>1, <1>4, PickedAppend
  <2>. QED
    BY <1>2, <2>1, TextsAre DEF Optioned, CallsBy
<1>6. key \in D
  BY DEF BaseInv, Held
<1>7. Keyed = IF InOption THEN Append(Optioned, key) ELSE Optioned
  BY DEF OptionsInv, TextsInv, Keyed, Optioned
<1>8. IsPrefix(Optioned, Keyed) /\ Len(Keyed) <= Len(Optioned) + 1
  <2> DEFINE s == Optioned
             t == Append(s, key)
  <2>1. s \in Seq(D) /\ key \in D
    BY <1>5, <1>6
  <2> HIDE DEF s, D
  <2>2. Len(s) \in Nat /\ Len(t) = Len(s) + 1 /\ SubSeq(t, 1, Len(s)) = s /\ SubSeq(s, 1, Len(s)) = s
    BY <2>1
  <2>3. IsPrefix(s, s) /\ Len(s) <= Len(s) + 1 /\ IsPrefix(s, t) /\ Len(t) <= Len(s) + 1
    BY <2>2 DEF IsPrefix
  <2>. QED
    BY <1>7, <2>3 DEF s
<1>9. ASSUME status = "ok"
      PROVE  /\ Optioned = Keyed /\ pos = Len(args)
             /\ \A i \in DOMAIN calls :
                   calls[i].by = "key" =>
                     LET vals == cmd.opts[cmd.map[calls[i].text]].vals
                         required == {j \in DOMAIN vals : ~vals[j].optional}
                     IN  \A n \in 1..Cardinality(required) : calls[i + n].by = "value"
  <2>1. ~InOption
    BY <1>9 DEF InOption, BaseInv, Placed
  <2>2. Optioned = Keyed /\ pos = Len(args)
    BY <1>7, <1>9, <2>1 DEF BaseInv, Counted
  <2>3. \A i \in DOMAIN calls : calls[i].by = "key" => Filled(i)
    BY <2>1 DEF OptionsInv, FillInv, BeingFilled
  <2>. QED
    BY <2>2, <2>3 DEF Filled, Required
<1>. QED
  BY <1>8, <1>9 DEF OptionCalls, Keyed, Optioned

-----------------------------------------------------------------------------
(* PositionalsExact.  What the handlers of positional values were given.   *)
LEMMA GotTyped ==
  ASSUME BaseInv
  PROVE  /\ Got \in Seq(CallRecords) /\ Len(Got) \in Nat /\ DOMAIN Got = 1 .. Len(Got)
         /\ \A j \in DOMAIN Got : Got[j].at \in Nat
<1>1. calls \in Seq(CallRecords)
  BY HandedTyped
<1> DEFINE C == CallRecords
           v == <<>>
<1>2. v \in Seq(Nat)
  OBVIOUS
<1>3. [by |-> "command", text |-> v, at |-> 0] \in C
  BY <1>2 DEF CallRecords
<1>4. \A x \in C : x.at \in Nat
  BY DEF CallRecords
<1> HIDE DEF C, v
<1>5. Got \in Seq(C)
  BY <1>1, <1>3, PickedAppend DEF Got, CallsBy, C
<1>6. Len(Got) \in Nat /\ DOMAIN Got = 1 .. Len(Got) /\ \A j \in DOMAIN Got : Got[j] \in C
  BY <1>5
<1>. QED
  BY <1>4, <1>5, <1>6 DEF C

(* A step that calls no positional handler.                                *)
LEMMA GotStays ==
  ASSUME BaseInv, [Next]_vars, ~PositionalTaken
  PROVE  Got' = Got
<1>1. CallsGrow
  BY StepCalls
<1>2. \A i \in DOMAIN calls' : i \notin DOMAIN calls => calls'[i].by # "positional"
  <2>1. CASE Descend
    <3>1. \A i \in DOMAIN calls' : i \notin DOMAIN calls
            => calls'[i] = [by |-> "command", text |-> Arg, at |-> pos + 1]
      BY <2>1, NewCall DEF Descend
    <3>. QED
      BY <3>1
  <2>2. CASE OptionKey
    <3>1. PICK k : Call("key", k, pos + 1)
      BY <2>2 DEF OptionKey
    <3>2. \A i \in DOMAIN calls' : i \notin DOMAIN calls
            => calls'[i] = [by |-> "key", text |-> k, at |-> pos + 1]
      BY <3>1, NewCall
    <3>. QED
      BY <3>2
  <2>3. CASE OptionValue
    <3>1. \A i \in DOMAIN calls' : i \notin DOMAIN calls
            => calls'[i] = [by |-> "value", text |-> Text, at |-> pos + 1]
      BY <2>3, NewCall DEF OptionValue
    <3>. QED
      BY <3>1
  <2>4. CASE OptionDone
    <3>1. \A i \in DOMAIN calls' : i \notin DOMAIN calls
            => calls'[i] = [by |-> "option", text |-> key, at |-> pos]
      BY <2>4, NewCall DEF OptionDone
    <3>. QED
      BY <3>1
  <2>5. CASE ~(Descend \/ OptionKey \/ OptionValue \/ OptionDone)
    <3>1. CASE \/ UNCHANGED vars \/ CommandFound \/ OptionValueEnds \/ PositionalRefused \/ UnknownOption
               \/ ArgsRead \/ Rest \/ ValuesFilled
      BY <3>1 DEF vars, CommandFound, OptionValueEnds, PositionalRefused, UnknownOption, ArgsRead, Rest,
                  ValuesFilled, NotChecking, Fail
    <3>2. CASE Walks
      BY <3>2, WalkKeeps
    <3>. QED
      BY <2>5, <3>1, <3>2 DEF Next, Walks
  <2>. QED
    BY <2>1, <2>2, <2>3, <2>4, <2>5
<1>3. CASE calls' = calls
  BY <1>3 DEF Got, CallsBy
<1>4. ASSUME NEW x \in CallRecords, calls' = Append(calls, x) PROVE Got' = Got
  <2>1. calls \in Seq(CallRecords)
    BY HandedTyped
  <2>2. Len(calls) + 1 \in DOMAIN calls' /\ Len(calls) + 1 \notin DOMAIN calls /\ calls'[Len(calls) + 1] = x
    <3>1. /\ Len(calls) \in Nat /\ DOMAIN calls' = 1 .. (Len(calls) + 1) /\ DOMAIN calls = 1 .. Len(calls)
          /\ calls'[Len(calls) + 1] = x
      BY <1>4, <2>1, OneCall
    <3>. QED
      BY <3>1
  <2>3. x.by \notin {"positional"}
    BY <1>2, <2>2
  <2>. QED
    BY <1>4, <2>1, <2>3, OneCallMore DEF Got
<1>. QED
  BY <1>1, <1>3, <1>4 DEF CallsGrow

(* The parts of PlacesInv.                                                 *)
LEMMA PlacesInit ==
  ASSUME Init, BaseInv
  PROVE  PlacesInv
<1> DEFINE v == <<>>
           r == [by |-> "command", text |-> v, at |-> 0]
           s == <<>>
<1>1. calls = Append(s, r) /\ pc = "commands" /\ valIt = 1
  <2>1. calls = <<r>> /\ pc = "commands" /\ valIt = 1
    BY DEF Init
  <2> HIDE DEF r
  <2>. QED
    BY <2>1
<1>2. s \in Seq(CallRecords) /\ v \in Seq(Nat)
  OBVIOUS
<1>3. r \in CallRecords /\ r.by \notin {"positional"}
  BY <1>2 DEF CallRecords
<1>4. Picked(s, {"positional"}) = s
  BY PickedEmpty
<1>5. DOMAIN s = {}
  OBVIOUS
<1>6. Got = s
  <2> HIDE DEF r, v, s
  <2>. QED
    BY <1>1, <1>2, <1>3, <1>4, PickedAppend DEF Got, CallsBy
<1>7. \A i \in DOMAIN cmd.values : ~(i < valIt)
  <2>1. CommandShape(cmd)
    BY KnownCommand DEF BaseInv, Placed
  <2>2. DOMAIN cmd.values = 1 .. Len(cmd.values) /\ Len(cmd.values) \in Nat
    BY <2>1 DEF CommandShape
  <2>3. valIt = 1
    BY <1>1
  <2>. QED
    BY <2>2, <2>3
<1>8. pc = "commands" /\ s = <<>>
  BY <1>1
<1> HIDE DEF s
<1>. QED
  BY <1>5, <1>6, <1>7, <1>8 DEF PlacesInv

(* Nothing changes for the positional values.                              *)
LEMMA PlacesStay ==
  ASSUME PlacesInv, Got' = Got, cmd' = cmd, valIt' = valIt, pc' # "commands",
         pc' \in {"args", "option"} => pc \in {"args", "option"} /\ count' = count
  PROVE  PlacesInv'
<1>1. \A j \in DOMAIN Got' : Got'[j].at \in 1 .. valIt' /\ Got'[j].at <= Len(cmd'.values)
  BY DEF PlacesInv
<1>2. \A i, j \in DOMAIN Got' : i < j => Got'[i].at <= Got'[j].at
  BY DEF PlacesInv
<1>3. \A i, j \in DOMAIN Got' : i # j /\ Got'[i].at = Got'[j].at => cmd'.values[Got'[i].at].multiple
  BY DEF PlacesInv
<1>4. \A i \in DOMAIN cmd'.values :
         i < valIt' => cmd'.values[i].optional \/ \E j \in DOMAIN Got' : Got'[j].at = i
  BY DEF PlacesInv
<1>5. pc' \in {"args", "option"} => (count' > 0 <=> \E j \in DOMAIN Got' : Got'[j].at = valIt')
  BY DEF PlacesInv
<1>. QED
  BY <1>1, <1>2, <1>3, <1>4, <1>5, Zenon DEF PlacesInv

(* A value that has got enough, or can do without, is passed.              *)
LEMMA PlacesPass ==
  ASSUME BaseInv, PlacesInv, Got' = Got, cmd' = cmd, valIt' = valIt + 1, pc' # "commands",
         cmd.values[valIt].optional \/ \E j \in DOMAIN Got : Got[j].at = valIt,
         pc' \in {"args", "option"} => ~(count' > 0)
  PROVE  PlacesInv'
<1>1. valIt \in Nat
  BY DEF BaseInv, Counted
<1>2. \A j \in DOMAIN Got : Got[j].at \in 1 .. valIt /\ Got[j].at <= Len(cmd.values)
  BY DEF PlacesInv
<1>3. \A j \in DOMAIN Got : Got[j].at \in 1 .. (valIt + 1) /\ Got[j].at # valIt + 1
  BY <1>1, <1>2
<1>4. \A i \in DOMAIN cmd.values :
         i < valIt + 1 => cmd.values[i].optional \/ \E j \in DOMAIN Got : Got[j].at = i
  <2> SUFFICES ASSUME NEW i \in DOMAIN cmd.values, i < valIt + 1
               PROVE  cmd.values[i].optional \/ \E j \in DOMAIN Got : Got[j].at = i
    OBVIOUS
  <2>1. i \in Nat
    <3>1. CommandShape(cmd)
      BY KnownCommand DEF BaseInv, Placed
    <3>. QED
      BY <3>1 DEF CommandShape
  <2>2. i < valIt \/ i = valIt
    BY <1>1, <2>1
  <2>. QED
    BY <2>2 DEF PlacesInv
<1>5. \A j \in DOMAIN Got' : Got'[j].at \in 1 .. valIt' /\ Got'[j].at <= Len(cmd'.values)
  BY <1>2, <1>3
<1>6. \A i, j \in DOMAIN Got' : i < j => Got'[i].at <= Got'[j].at
  BY DEF PlacesInv
<1>7. \A i, j \in DOMAIN Got' : i # j /\ Got'[i].at = Got'[j].at => cmd'.values[Got'[i].at].multiple
  BY DEF PlacesInv
<1>8. \A i \in DOMAIN cmd'.values :
         i < valIt' => cmd'.values[i].optional \/ \E j \in DOMAIN Got' : Got'[j].at = i
  BY <1>4
<1>9. pc' \in {"args", "option"} => (count' > 0 <=> \E j \in DOMAIN Got' : Got'[j].at = valIt')
  BY <1>3
<1>. QED
  BY <1>5, <1>6, <1>7, <1>8, <1>9, Zenon DEF PlacesInv

(* The value in hand gets an argument.                                     *)
LEMMA PlacesTaken ==
  ASSUME BaseInv, PlacesInv, PositionalTaken
  PROVE  PlacesInv'
<1>1. /\ pc = "args" /\ pc' = "args" /\ More /\ valIt <= Len(cmd.values) /\ cmd' = cmd
      /\ Call("positional", Arg, valIt)
      /\ IF cmd.values[valIt].multiple THEN count' = count + 1 /\ valIt' = valIt
                                       ELSE valIt' = valIt + 1 /\ count' = count
  BY DEF PositionalTaken, Positional
<1> DEFINE x == [by |-> "positional", text |-> Arg, at |-> valIt]
           n == Len(Got)
           g == Got'
<1>2. valIt \in Nat /\ valIt >= 1 /\ count \in Nat
  <2>1. valIt \in 1 .. (Len(cmd.values) + 1) /\ count \in 0 .. pos
    BY DEF BaseInv, Counted
  <2>2. valIt \in Nat /\ valIt >= 1
    <3>1. CommandShape(cmd)
      BY KnownCommand DEF BaseInv, Placed
    <3>2. Len(cmd.values) \in Nat
      BY <3>1 DEF CommandShape
    <3>. QED
      BY <2>1, <3>2
  <2>3. pos \in Nat
    BY HandedTyped
  <2>. QED
    BY <2>1, <2>2, <2>3
<1>3. calls \in Seq(CallRecords) /\ x \in CallRecords /\ calls' = Append(calls, x)
  <2>1. Arg \in Seq(Nat)
    BY <1>1, NextArgument DEF BaseInv, Placed
  <2>. QED
    BY <1>1, <1>2, <2>1, HandedTyped, CallTyped
<1>4. x.by \in {"positional"} /\ x.at = valIt
  OBVIOUS
<1> HIDE DEF x
<1>5. g = Append(Got, x)
  BY <1>3, <1>4, OneCallMore DEF Got
<1>6. n \in Nat /\ DOMAIN Got = 1 .. n /\ \A j \in DOMAIN Got : Got[j].at \in Nat
  BY GotTyped
<1>7. DOMAIN g = 1 .. (n + 1) /\ g[n + 1] = x /\ \A j \in 1 .. n : g[j] = Got[j]
  <2>1. Got \in Seq(CallRecords)
    BY GotTyped
  <2>. QED
    BY <1>5, <2>1
<1> HIDE DEF g, n
<1>a. \A j \in 1 .. (n + 1) : j \in 1 .. n \/ j = n + 1
  BY <1>6
<1>b. n + 1 \in 1 .. (n + 1) /\ \A j \in 1 .. n : j \in 1 .. (n + 1)
  BY <1>6
<1>c. valIt' = valIt \/ valIt' = valIt + 1
  BY <1>1
<1>8. \A j \in DOMAIN g : g[j].at \in 1 .. valIt' /\ g[j].at <= Len(cmd'.values)
  <2> SUFFICES ASSUME NEW j \in 1 .. (n + 1) PROVE g[j].at \in 1 .. valIt' /\ g[j].at <= Len(cmd.values)
    BY <1>1, <1>7
  <2>1. CASE j \in 1 .. n
    <3>1. Got[j].at \in 1 .. valIt /\ Got[j].at <= Len(cmd.values)
      BY <1>6, <2>1 DEF PlacesInv
    <3>2. Got[j].at \in 1 .. valIt'
      BY <1>2, <1>c, <3>1
    <3>. QED
      BY <1>7, <2>1, <3>1, <3>2
  <2>2. CASE j = n + 1
    <3>1. g[j].at = valIt
      BY <1>4, <1>7, <2>2
    <3>2. valIt \in 1 .. valIt'
      BY <1>2, <1>c
    <3>. QED
      BY <1>1, <3>1, <3>2
  <2>. QED
    BY <1>a, <2>1, <2>2
<1>9. \A i, j \in DOMAIN g : i < j => g[i].at <= g[j].at
  <2> SUFFICES ASSUME NEW i \in 1 .. (n + 1), NEW j \in 1 .. (n + 1), i < j PROVE g[i].at <= g[j].at
    BY <1>7
  <2>1. i \in 1 .. n
    BY <1>6
  <2>2. CASE j \in 1 .. n
    BY <1>6, <1>7, <2>1, <2>2 DEF PlacesInv
  <2>3. CASE j = n + 1
    <3>1. g[j].at = valIt
      BY <1>4, <1>7, <2>3
    <3>2. Got[i].at \in 1 .. valIt
      BY <1>6, <2>1 DEF PlacesInv
    <3>3. Got[i].at <= valIt
      BY <1>2, <3>2
    <3>. QED
      BY <1>7, <2>1, <3>1, <3>3
  <2>. QED
    BY <1>a, <2>2, <2>3
<1>10. (\E j \in DOMAIN Got : Got[j].at = valIt) => cmd.values[valIt].multiple
  BY <1>1 DEF PlacesInv, BaseInv, Counted
<1>11. \A i, j \in DOMAIN g : i # j /\ g[i].at = g[j].at => cmd'.values[g[i].at].multiple
  <2> SUFFICES ASSUME NEW i \in 1 .. (n + 1), NEW j \in 1 .. (n + 1), i # j, g[i].at = g[j].at
               PROVE  cmd.values[g[i].at].multiple
    BY <1>1, <1>7
  <2>1. CASE i \in 1 .. n /\ j \in 1 .. n
    BY <1>6, <1>7, <2>1 DEF PlacesInv
  <2>2. CASE i = n + 1 /\ j \in 1 .. n
    <3>1. g[i].at = valIt /\ Got[j].at = valIt
      BY <1>4, <1>7, <2>2
    <3>. QED
      BY <1>6, <1>10, <2>2, <3>1
  <2>3. CASE j = n + 1 /\ i \in 1 .. n
    <3>1. g[j].at = valIt /\ Got[i].at = valIt
      BY <1>4, <1>7, <2>3
    <3>. QED
      BY <1>6, <1>10, <2>3, <3>1
  <2>. QED
    BY <1>a, <2>1, <2>2, <2>3
<1>12. \A i \in DOMAIN cmd'.values :
         i < valIt' => cmd'.values[i].optional \/ \E j \in DOMAIN g : g[j].at = i
  <2> SUFFICES ASSUME NEW i \in DOMAIN cmd.values, i < valIt'
               PROVE  cmd.values[i].optional \/ \E j \in DOMAIN g : g[j].at = i
    BY <1>1
  <2>1. i \in Nat
    <3>1. CommandShape(cmd)
      BY KnownCommand DEF BaseInv, Placed
    <3>. QED
      BY <3>1 DEF CommandShape
  <2>2. i < valIt \/ i = valIt
    BY <1>2, <1>c, <2>1
  <2>3. CASE i < valIt
    <3>1. cmd.values[i].optional \/ \E j \in 1 .. n : Got[j].at = i
      BY <1>6, <2>3 DEF PlacesInv
    <3>2. \A j \in 1 .. n : j \in DOMAIN g /\ g[j].at = Got[j].at
      BY <1>7, <1>b
    <3>. QED
      BY <3>1, <3>2
  <2>4. CASE i = valIt
    BY <1>4, <1>7, <1>b, <2>4
  <2>. QED
    BY <2>2, <2>3, <2>4
<1>13. count' > 0 <=> \E j \in DOMAIN g : g[j].at = valIt'
  <2>1. CASE cmd.values[valIt].multiple
    <3>1. count' > 0
      <4>1. count' = count + 1
        BY <1>1, <2>1
      <4>. QED
        BY <1>2, <4>1
    <3>2. g[n + 1].at = valIt' /\ n + 1 \in DOMAIN g
      BY <1>1, <1>4, <1>7, <1>b, <2>1
    <3>. QED
      BY <3>1, <3>2
  <2>2. CASE ~cmd.values[valIt].multiple
    <3>1. valIt' = valIt + 1 /\ count' = count
      BY <1>1, <2>2
    <3>2. ~(count > 0)
      BY <1>1, <2>2 DEF BaseInv, Counted
    <3>3. \A j \in 1 .. n : Got[j].at # valIt + 1
      <4>1. \A j \in 1 .. n : Got[j].at \in 1 .. valIt
        BY <1>6 DEF PlacesInv
      <4>. QED
        BY <1>2, <4>1
    <3>4. valIt # valIt + 1
      BY <1>2
    <3>5. \A j \in 1 .. (n + 1) : g[j].at # valIt + 1
      BY <1>4, <1>7, <1>a, <3>3, <3>4
    <3>. QED
      BY <1>7, <3>1, <3>2, <3>5
  <2>. QED
    BY <2>1, <2>2
<1>14. pc' # "commands"
  BY <1>1
<1>. QED
  BY <1>8, <1>9, <1>11, <1>12, <1>13, <1>14, Zenon DEF PlacesInv, g

(* Every step keeps PlacesInv.                                             *)
LEMMA PlacesStep ==
  ASSUME BaseInv, PlacesInv, [Next]_vars
  PROVE  PlacesInv'
<1>1. CASE UNCHANGED vars
  BY <1>1 DEF vars, reading, PlacesInv, Got, CallsBy
<1>2. CASE Descend
  <2>1. Got' = Got /\ Got = <<>> /\ valIt' = valIt /\ count' = count /\ pc' = "commands"
    <3>1. pc = "commands" /\ pc' = pc /\ valIt' = valIt /\ count' = count
      BY <1>2 DEF Descend
    <3>2. ~PositionalTaken
      BY <3>1 DEF PositionalTaken, Positional
    <3>. QED
      BY <3>1, <3>2, GotStays DEF PlacesInv
  <2>2. valIt' = 1
    BY <1>2, <2>1 DEF BaseInv, Counted, Nothing, Descend
  <2>3. CommandShape(cmd')
    <3>1. BaseInv'
      BY BaseStep
    <3>. QED
      BY <3>1, KnownCommand DEF BaseInv, Placed
  <2>4. \A i \in DOMAIN cmd'.values : ~(i < valIt')
    <3>1. \A i \in DOMAIN cmd'.values : ~(i < 1)
      <4>1. DOMAIN cmd'.values = 1 .. Len(cmd'.values) /\ Len(cmd'.values) \in Nat
        BY <2>3 DEF CommandShape
      <4>. QED
        BY <4>1
    <3>. QED
      BY <2>2, <3>1
  <2>5. DOMAIN Got' = {} /\ Got' = <<>> /\ ~(pc' \in {"args", "option"})
    <3>1. DOMAIN <<>> = {}
      OBVIOUS
    <3>. QED
      BY <2>1, <3>1
  <2>. QED
    BY <2>4, <2>5, Zenon DEF PlacesInv
<1>3. CASE CommandFound
  <2>1. /\ pc = "commands" /\ pc' = "args" /\ cmd' = cmd /\ valIt' = valIt /\ count' = count /\ ~PositionalTaken
    BY <1>3 DEF CommandFound, reading, PositionalTaken, Positional
  <2>2. Got' = Got /\ Got = <<>> /\ count = 0 /\ valIt = 1
    BY <2>1, GotStays DEF PlacesInv, BaseInv, Counted, Nothing
  <2>3. DOMAIN Got' = {}
    <3>1. DOMAIN <<>> = {}
      OBVIOUS
    <3>. QED
      BY <2>2, <3>1
  <2>4. ~(count' > 0)
    <3>1. count' = 0
      BY <2>1, <2>2
    <3>. QED
      BY <3>1
  <2>5. \A i \in DOMAIN cmd'.values : ~(i < valIt')
    <3>1. CommandShape(cmd)
      BY KnownCommand DEF BaseInv, Placed
    <3>2. DOMAIN cmd.values = 1 .. Len(cmd.values) /\ Len(cmd.values) \in Nat
      BY <3>1 DEF CommandShape
    <3>3. \A i \in DOMAIN cmd.values : ~(i < 1)
      BY <3>2
    <3>. QED
      BY <2>1, <2>2, <3>3
  <2>6. pc' # "commands"
    BY <2>1
  <2>. QED
    BY <2>3, <2>4, <2>5, <2>6, Zenon DEF PlacesInv
<1>4. CASE PositionalTaken
  BY <1>4, PlacesTaken
<1>5. CASE PositionalRefused
  <2>1. pc = "args" /\ ~PositionalTaken /\ cmd' = cmd /\ valIt <= Len(cmd.values)
    BY <1>5 DEF PositionalRefused, Positional, PositionalTaken, reading
  <2>2. Got' = Got
    BY <2>1, GotStays
  <2>3. CASE cmd.values[valIt].optional \/ count > 0
    <3>1. valIt' = valIt + 1 /\ count' = 0 /\ pc' = pc
      BY <1>5, <2>3 DEF PositionalRefused
    <3>2. count > 0 => \E j \in DOMAIN Got : Got[j].at = valIt
      BY <2>1 DEF PlacesInv
    <3>3. ~(count' > 0)
      BY <3>1
    <3>. QED
      BY <2>1, <2>2, <2>3, <3>1, <3>2, <3>3, PlacesPass
  <2>4. CASE ~(cmd.values[valIt].optional \/ count > 0)
    <3>1. valIt' = valIt /\ pc' = "done"
      BY <1>5, <2>4 DEF PositionalRefused, Fail, reading
    <3>. QED
      BY <2>1, <2>2, <3>1, PlacesStay
  <2>. QED
    BY <2>3, <2>4
<1>6. CASE ArgsRead
  <2>1. /\ pc = "args" /\ ~More /\ pc' = "rest" /\ cmd' = cmd
        /\ valIt' = IF count > 0 THEN valIt + 1 ELSE valIt
    BY <1>6 DEF ArgsRead
  <2>2. ~PositionalTaken
    BY <2>1 DEF PositionalTaken, Positional
  <2>3. Got' = Got
    BY <2>2, GotStays
  <2>4. CASE count > 0
    <3>1. \E j \in DOMAIN Got : Got[j].at = valIt
      BY <2>1, <2>4 DEF PlacesInv
    <3>. QED
      BY <2>1, <2>3, <2>4, <3>1, PlacesPass
  <2>5. CASE ~(count > 0)
    BY <2>1, <2>3, <2>5, PlacesStay
  <2>. QED
    BY <2>4, <2>5
<1>7. CASE Rest
  <2>1. pc = "rest" /\ cmd' = cmd /\ ~PositionalTaken
    BY <1>7 DEF Rest, reading, PositionalTaken, Positional
  <2>2. Got' = Got
    BY <2>1, GotStays
  <2>3. CASE cmd.values[valIt].optional
    <3>1. valIt' = valIt + 1 /\ pc' = pc
      BY <1>7, <2>3 DEF Rest
    <3>. QED
      BY <2>1, <2>2, <2>3, <3>1, PlacesPass
  <2>4. CASE ~cmd.values[valIt].optional
    <3>1. valIt' = valIt /\ pc' = "done"
      BY <1>7, <2>4 DEF Rest, Fail, reading
    <3>. QED
      BY <2>1, <2>2, <3>1, PlacesStay
  <2>. QED
    BY <2>3, <2>4
<1>8. CASE OptionKey \/ OptionValue \/ OptionValueEnds \/ OptionDone \/ UnknownOption \/ ValuesFilled
  <2>1. /\ cmd' = cmd /\ valIt' = valIt /\ count' = count
        /\ pc \in {"args", "option"} \/ pc' = "check"
        /\ pc' \in {"args", "option", "check", "done"}
    BY <1>8 DEF OptionKey, OptionValue, OptionValueEnds, OptionDone, UnknownOption, ValuesFilled, Fail, reading
  <2>2. Got' = Got
    <3>1. CASE PositionalTaken
      <4>1. pc = "args" /\ More /\ FindKey(cmd, Arg) = {} /\ valIt <= Len(cmd.values)
        BY <3>1 DEF PositionalTaken, Positional
      <4>2. CommandShape(cmd) /\ valIt \in 1 .. (Len(cmd.values) + 1)
        BY KnownCommand DEF BaseInv, Placed, Counted
      <4>3. Len(cmd.values) \in Nat /\ valIt \in Nat
        BY <4>2 DEF CommandShape
      <4>4. ~(valIt > Len(cmd.values))
        BY <4>1, <4>3
      <4>. QED
        BY <1>8, <4>1, <4>4 DEF OptionKey, OptionValue, OptionValueEnds, OptionDone, UnknownOption, ValuesFilled
    <3>2. CASE ~PositionalTaken
      BY <3>2, GotStays
    <3>. QED
      BY <3>1, <3>2
  <2>. QED
    BY <2>1, <2>2, PlacesStay
<1>9. CASE Walks
  <2>1. /\ cmd' = cmd /\ valIt' = valIt /\ pc = "check" /\ pc' \in {"check", "done"}
    BY <1>9, WalkKeeps DEF reading
  <2>2. ~PositionalTaken
    BY <2>1 DEF PositionalTaken, Positional
  <2>3. Got' = Got
    BY <2>2, GotStays
  <2>. QED
    BY <2>1, <2>3, PlacesStay
<1>. QED
  BY <1>1, <1>2, <1>3, <1>4, <1>5, <1>6, <1>7, <1>8, <1>9 DEF Next, Walks

(* A set of more than one has two that differ.                             *)
LEMMA TwoOfMany ==
  ASSUME NEW S, IsFiniteSet(S), Cardinality(S) > 1
  PROVE  \E x, y \in S : x # y
<1>1. S # {}
  BY FS_EmptySet
<1>2. PICK x \in S : TRUE
  BY <1>1
<1>3. IsFiniteSet(S \ {x}) /\ Cardinality(S \ {x}) = Cardinality(S) - 1 /\ Cardinality(S) \in Nat
  BY <1>2, FS_RemoveElement, FS_CardinalityType
<1>4. Cardinality(S \ {x}) # 0
  BY <1>3
<1>5. S \ {x} # {}
  BY <1>4, FS_EmptySet
<1>. QED
  BY <1>2, <1>5

(* So PositionalsExact is true of every state.                             *)
LEMMA PlacesExact ==
  ASSUME BaseInv, PlacesInv
  PROVE  PositionalsExact
<1> SUFFICES ASSUME status = "ok"
             PROVE  /\ \A i, j \in DOMAIN Got : i < j => Got[i].at <= Got[j].at
                    /\ \A i \in DOMAIN cmd.values :
                          /\ {j \in DOMAIN Got : Got[j].at = i} = {} => cmd.values[i].optional
                          /\ Cardinality({j \in DOMAIN Got : Got[j].at = i}) > 1 => cmd.values[i].multiple
  BY Zenon DEF PositionalsExact, Got
<1>1. \A i \in DOMAIN cmd.values : i < valIt
  <2>1. CommandShape(cmd) /\ valIt = Len(cmd.values) + 1
    BY KnownCommand DEF BaseInv, Placed, Counted
  <2>2. DOMAIN cmd.values = 1 .. Len(cmd.values) /\ Len(cmd.values) \in Nat
    BY <2>1 DEF CommandShape
  <2>. QED
    BY <2>1, <2>2
<1>2. ASSUME NEW i \in DOMAIN cmd.values
      PROVE  /\ {j \in DOMAIN Got : Got[j].at = i} = {} => cmd.values[i].optional
             /\ Cardinality({j \in DOMAIN Got : Got[j].at = i}) > 1 => cmd.values[i].multiple
  <2> DEFINE S == {j \in DOMAIN Got : Got[j].at = i}
  <2>1. S = {} => cmd.values[i].optional
    BY <1>1 DEF PlacesInv
  <2>2. ASSUME Cardinality(S) > 1 PROVE cmd.values[i].multiple
    <3>1. IsFiniteSet(S)
      <4>1. DOMAIN Got = 1 .. Len(Got) /\ Len(Got) \in Nat
        BY GotTyped
      <4>2. IsFiniteSet(1 .. Len(Got)) /\ S \in SUBSET (1 .. Len(Got))
        BY <4>1, FS_Interval
      <4> HIDE DEF S
      <4>. QED
        BY <4>2, FS_Subset
    <3>2. \E x, y \in S : x # y
      <4> HIDE DEF S
      <4>. QED
        BY <2>2, <3>1, TwoOfMany
    <3>. QED
      BY <3>2 DEF PlacesInv
  <2>. QED
    BY <2>1, <2>2
<1>. QED
  BY <1>2 DEF PlacesInv

-----------------------------------------------------------------------------
(* GroupsExact.  The children of a node come before it.                    *)
LEMMA BelowBefore ==
  ASSUME cmd \in Commands, NEW i \in DOMAIN cmd.opts
  PROVE  /\ Below(i) \subseteq 1 .. (i - 1) /\ i \in Nat /\ i >= 1
         /\ Below(i) \subseteq DOMAIN cmd.opts
         /\ ~cmd.opts[i].group => Below(i) = {}
<1>1. IsCommand(cmd) /\ CommandShape(cmd)
  BY CommandsAssumption, KnownCommand
<1>2. IsTree(cmd.opts)
  BY <1>1 DEF IsCommand
<1>3. /\ ToSet(cmd.opts[i].kids) \subseteq 1..(i - 1)
      /\ IF cmd.opts[i].group THEN cmd.opts[i].keys = <<>> ELSE cmd.opts[i].kids = <<>>
  BY <1>2 DEF IsTree
<1>4. DOMAIN cmd.opts = 1 .. Len(cmd.opts) /\ Len(cmd.opts) \in Nat
  BY <1>1 DEF CommandShape
<1>5. i \in Nat /\ i >= 1 /\ \A k \in 1 .. (i - 1) : k \in 1 .. Len(cmd.opts)
  BY <1>4
<1>6. ToSet(<<>>) = {}
  BY DEF ToSet
<1>. QED
  BY <1>3, <1>4, <1>5, <1>6 DEF Below

(* The nodes before the one that is reached do not see what is added.      *)
LEMMA PassedStay ==
  ASSUME cmd \in Commands, cmd' = cmd, NEW n \in Nat, NEW i \in DOMAIN cmd.opts, i <= n,
         \A k : k # n => (k \in specified' <=> k \in specified) /\ (k \in optional' <=> k \in optional)
  PROVE  /\ Below(i)' = Below(i)
         /\ Below(i)' \cap specified' = Below(i) \cap specified
         /\ Omits(i)' <=> Omits(i)
         /\ FitsHere(i)' <=> FitsHere(i)
<1>1. Below(i)' = Below(i) /\ Below(i) \subseteq 1 .. (i - 1) /\ i \in Nat
  BY BelowBefore DEF Below
<1>2. n \notin Below(i)
  BY <1>1
<1>3. /\ Below(i) \cap specified' = Below(i) \cap specified
      /\ Below(i) \cap optional' = Below(i) \cap optional
  BY <1>2
<1>4. /\ Below(i) \subseteq optional' <=> Below(i) \subseteq optional
      /\ Below(i) \subseteq specified' \cup optional' <=> Below(i) \subseteq specified \cup optional
  BY <1>2
<1>5. Omits(i)' <=> Omits(i)
  BY <1>1, <1>3, <1>4 DEF Omits
<1>. QED
  BY <1>1, <1>3, <1>4, <1>5 DEF FitsHere

(* The parts of NodesInv.                                                  *)
GivenNodes ==
  \A i \in DOMAIN cmd.opts :
     IF cmd.opts[i].group
     THEN i \in specified <=> i < node /\ Below(i) \cap specified # {}
     ELSE i \in specified <=> OptionGiven(i)
OmittedNodes == \A i \in DOMAIN cmd.opts : i \in optional <=> i < node /\ Omits(i)
FittingNodes == \A i \in DOMAIN cmd.opts : i < node => FitsHere(i)
Verdict ==
  /\ status \in {"unspecified_option", "conflicting_option"}
       => node \in DOMAIN cmd.opts /\ ~FitsHere(node)
  /\ status = "ok" => node = Len(cmd.opts) + 1
KnownOptions == \A c \in DOMAIN calls : calls[c].by = "option" => calls[c].text \in DOMAIN cmd.map

(* They are all of it.                                                     *)
LEMMA NodesParts == NodesInv <=> GivenNodes /\ OmittedNodes /\ FittingNodes /\ Verdict /\ KnownOptions
BY DEF NodesInv, GivenNodes, OmittedNodes, FittingNodes, Verdict, KnownOptions

(* What comes before the next number.                                      *)
LEMMA NextBelow ==
  \A n, i \in Nat : /\ (i < n + 1) <=> (i < n \/ i = n)
                    /\ (i < n) => (i <= n)
                    /\ (i = n) => (i <= n /\ ~(i < n))
OBVIOUS

(* The node that is reached is passed.                                     *)
LEMMA NodesPass ==
  ASSUME BaseInv, NodesInv, node \in DOMAIN cmd.opts, cmd' = cmd, calls' = calls, node' = node + 1,
         status' = "", FitsHere(node),
         \A i : i \in specified' <=>
                  i \in specified \/ (i = node /\ cmd.opts[i].group /\ Below(i) \cap specified # {}),
         \A i : i \in optional' <=> i \in optional \/ (i = node /\ Omits(i))
  PROVE  NodesInv'
<1>1. cmd \in Commands
  BY DEF BaseInv, Placed
<1>2. node \in Nat
  BY <1>1, BelowBefore
<1>c. ASSUME NEW i \in Nat
      PROVE  /\ (i < node + 1) <=> (i < node \/ i = node)
             /\ (i < node) => (i <= node)
             /\ (i = node) => (i <= node /\ ~(i < node))
  BY <1>2, NextBelow
<1>a. \A k : k # node => (k \in specified' <=> k \in specified)
  OBVIOUS
<1>b. \A k : k # node => (k \in optional' <=> k \in optional)
  OBVIOUS
<1>3. \A k : k # node => (k \in specified' <=> k \in specified) /\ (k \in optional' <=> k \in optional)
  BY <1>a, <1>b, Zenon
<1>4. ASSUME NEW i \in DOMAIN cmd.opts, i <= node
      PROVE  /\ Below(i)' \cap specified' = Below(i) \cap specified
             /\ Omits(i)' <=> Omits(i)
             /\ FitsHere(i)' <=> FitsHere(i)
  BY <1>1, <1>2, <1>3, <1>4, PassedStay
<1>5. \A i \in DOMAIN cmd.opts : i \in Nat
  BY <1>1, BelowBefore
<1>6. GivenNodes'
  <2> SUFFICES ASSUME NEW i \in DOMAIN cmd.opts
               PROVE  IF cmd.opts[i].group
                      THEN i \in specified' <=> i < node + 1 /\ Below(i)' \cap specified' # {}
                      ELSE i \in specified' <=> OptionGiven(i)'
    BY DEF GivenNodes
  <2>1. IF cmd.opts[i].group
        THEN i \in specified <=> i < node /\ Below(i) \cap specified # {}
        ELSE i \in specified <=> OptionGiven(i)
    BY NodesParts DEF GivenNodes
  <2>2. OptionGiven(i)' <=> OptionGiven(i)
    BY DEF OptionGiven
  <2>3. /\ (i < node + 1) <=> (i < node \/ i = node)
        /\ (i < node) => (i <= node)
        /\ (i = node) => (i <= node /\ ~(i < node))
    BY <1>c, <1>5
  <2>4. i <= node => Below(i)' \cap specified' = Below(i) \cap specified
    BY <1>4
  <2>. QED
    BY <2>1, <2>2, <2>3, <2>4
<1>7. OmittedNodes'
  <2> SUFFICES ASSUME NEW i \in DOMAIN cmd.opts
               PROVE  i \in optional' <=> i < node + 1 /\ Omits(i)'
    BY DEF OmittedNodes
  <2>1. i \in optional <=> i < node /\ Omits(i)
    BY NodesParts DEF OmittedNodes
  <2>2. /\ (i < node + 1) <=> (i < node \/ i = node)
        /\ (i < node) => (i <= node)
        /\ (i = node) => (i <= node)
    BY <1>c, <1>5
  <2>3. i <= node => (Omits(i)' <=> Omits(i))
    BY <1>4
  <2>. QED
    BY <2>1, <2>2, <2>3
<1>8. FittingNodes'
  <2> SUFFICES ASSUME NEW i \in DOMAIN cmd.opts, i < node + 1
               PROVE  FitsHere(i)'
    BY DEF FittingNodes
  <2>1. i < node \/ i = node
    BY <1>c, <1>5
  <2>2. FitsHere(i)
    BY <2>1, NodesParts DEF FittingNodes
  <2>3. i <= node
    BY <1>c, <1>5, <2>1
  <2>. QED
    BY <1>4, <2>2, <2>3
<1>9. Verdict'
  BY DEF Verdict
<1>10. KnownOptions'
  BY NodesParts DEF KnownOptions
<1>11. NodesInv' <=> (GivenNodes /\ OmittedNodes /\ FittingNodes /\ Verdict /\ KnownOptions)'
  BY DEF NodesInv, GivenNodes, OmittedNodes, FittingNodes, Verdict, KnownOptions
<1>. QED
  BY <1>6, <1>7, <1>8, <1>9, <1>10, <1>11

(* The walk ends, at a node that does not fit or after the last.           *)
LEMMA NodesEnd ==
  ASSUME NodesInv, cmd' = cmd, calls' = calls, node' = node, specified' = specified, optional' = optional,
         \/ status' \in {"unspecified_option", "conflicting_option"} /\ node \in DOMAIN cmd.opts /\ ~FitsHere(node)
         \/ status' = "ok" /\ node = Len(cmd.opts) + 1
         \/ status' \notin {"unspecified_option", "conflicting_option", "ok"}
  PROVE  NodesInv'
<1>1. \A i : /\ Below(i)' = Below(i) /\ (OptionGiven(i)' <=> OptionGiven(i)) /\ (Omits(i)' <=> Omits(i))
             /\ (FitsHere(i)' <=> FitsHere(i))
  BY DEF Below, OptionGiven, Omits, FitsHere
<1>2. GivenNodes' /\ OmittedNodes' /\ FittingNodes' /\ KnownOptions'
  BY <1>1, NodesParts DEF GivenNodes, OmittedNodes, FittingNodes, KnownOptions
<1>3. Verdict'
  <2>1. FitsHere(node)' <=> FitsHere(node)
    BY DEF Below, Omits, FitsHere
  <2>. QED
    BY <2>1 DEF Verdict
<1>4. NodesInv' <=> (GivenNodes /\ OmittedNodes /\ FittingNodes /\ Verdict /\ KnownOptions)'
  BY DEF NodesInv, GivenNodes, OmittedNodes, FittingNodes, Verdict, KnownOptions
<1>. QED
  BY <1>2, <1>3, <1>4

(* Before an option is given no node is.                                   *)
LEMMA NodesInit ==
  ASSUME Init, BaseInv
  PROVE  NodesInv
<1>1. CommandShape(cmd)
  BY KnownCommand DEF BaseInv, Placed
<1>2. DOMAIN cmd.opts = 1 .. Len(cmd.opts) /\ Len(cmd.opts) \in Nat
  BY <1>1 DEF CommandShape
<1>3. specified = {} /\ optional = {} /\ node = 1 /\ status = ""
  BY DEF Init
<1>4. \A i \in DOMAIN cmd.opts : ~(i < node)
  <2>1. \A i \in DOMAIN cmd.opts : ~(i < 1)
    BY <1>2
  <2>. QED
    BY <1>3, <2>1
<1>5. \A c \in DOMAIN calls : calls[c].by # "option"
  <2> DEFINE r == [by |-> "command", text |-> <<>>, at |-> 0]
  <2>1. calls = <<r>> /\ r.by # "option"
    BY DEF Init
  <2> HIDE DEF r
  <2>2. \A c \in DOMAIN calls : calls[c] = r
    BY <2>1
  <2>. QED
    BY <2>1, <2>2
<1>6. \A i \in DOMAIN cmd.opts : ~OptionGiven(i)
  BY <1>5 DEF OptionGiven
<1>7. GivenNodes
  BY <1>3, <1>4, <1>6 DEF GivenNodes
<1>8. OmittedNodes /\ FittingNodes
  BY <1>3, <1>4 DEF OmittedNodes, FittingNodes
<1>9. Verdict /\ KnownOptions
  BY <1>3, <1>5 DEF Verdict, KnownOptions
<1>. QED
  BY <1>7, <1>8, <1>9, NodesParts

(* Nor in a subcommand that has just been entered.                         *)
LEMMA NodesDescend ==
  ASSUME BaseInv, CheckInv, OptionsInv, Descend
  PROVE  NodesInv'
<1>1. cmd' \in Commands /\ pc = "commands"
  <2>1. CommandShape(cmd) /\ pc = "commands"
    BY KnownCommand DEF BaseInv, Placed, Descend
  <2>. QED
    BY <2>1 DEF Descend, CommandShape
<1>2. CommandShape(cmd')
  BY <1>1, KnownCommand
<1>3. DOMAIN cmd'.opts = 1 .. Len(cmd'.opts) /\ Len(cmd'.opts) \in Nat
  BY <1>2 DEF CommandShape
<1>4. specified' = {} /\ optional' = {} /\ node' = 1
  BY <1>1 DEF Descend, NotChecking, CheckInv
<1>5. \A i \in DOMAIN cmd'.opts : ~(i < node')
  BY <1>3, <1>4
<1>6. \A c \in DOMAIN calls' : calls'[c].by # "option"
  <2>1. CallsGrow
    BY StepCalls DEF Next
  <2>2. \A i \in DOMAIN calls' : i \notin DOMAIN calls
           => calls'[i] = [by |-> "command", text |-> Arg, at |-> pos + 1]
    BY NewCall DEF Descend
  <2>3. \A i \in DOMAIN calls' : i \notin DOMAIN calls => calls'[i].by = "command"
    BY <2>2
  <2>4. \A i \in DOMAIN calls : calls'[i].by = "command"
    BY <1>1, <2>1, CallsKept DEF OptionsInv, CommandsFirst
  <2>. QED
    BY <2>3, <2>4
<1>7. \A i \in DOMAIN cmd'.opts : ~OptionGiven(i)'
  BY <1>6 DEF OptionGiven
<1>8. GivenNodes'
  BY <1>4, <1>5, <1>7 DEF GivenNodes
<1>9. OmittedNodes' /\ FittingNodes'
  BY <1>4, <1>5 DEF OmittedNodes, FittingNodes
<1>10. status' = ""
  BY <1>1 DEF Descend, NotChecking, BaseInv, Placed
<1>11. Verdict' /\ KnownOptions'
  BY <1>6, <1>10 DEF Verdict, KnownOptions
<1>12. NodesInv' <=> (GivenNodes /\ OmittedNodes /\ FittingNodes /\ Verdict /\ KnownOptions)'
  BY DEF NodesInv, GivenNodes, OmittedNodes, FittingNodes, Verdict, KnownOptions
<1>. QED
  BY <1>8, <1>9, <1>11, <1>12

(* A step that is not about what was given.                                *)
LEMMA NodesStay ==
  ASSUME BaseInv, NodesInv, CallsGrow, cmd' = cmd, specified' = specified, optional' = optional, node' = node,
         \A i \in DOMAIN calls' : i \notin DOMAIN calls => calls'[i].by # "option",
         status' \notin {"unspecified_option", "conflicting_option", "ok"}
  PROVE  NodesInv'
<1>1. \A i \in DOMAIN calls : i \in DOMAIN calls' /\ calls'[i] = calls[i]
  BY CallsKept
<1>2. \A i : /\ Below(i)' = Below(i) /\ (Omits(i)' <=> Omits(i)) /\ (FitsHere(i)' <=> FitsHere(i))
  BY DEF Below, Omits, FitsHere
<1>3. \A i : OptionGiven(i)' <=> OptionGiven(i)
  BY <1>1 DEF OptionGiven
<1>4. GivenNodes' /\ OmittedNodes' /\ FittingNodes'
  BY <1>2, <1>3, NodesParts DEF GivenNodes, OmittedNodes, FittingNodes
<1>5. KnownOptions'
  BY <1>1, NodesParts DEF KnownOptions
<1>6. Verdict'
  BY DEF Verdict
<1>7. NodesInv' <=> (GivenNodes /\ OmittedNodes /\ FittingNodes /\ Verdict /\ KnownOptions)'
  BY DEF NodesInv, GivenNodes, OmittedNodes, FittingNodes, Verdict, KnownOptions
<1>. QED
  BY <1>4, <1>5, <1>6, <1>7

(* An option is given.                                                     *)
LEMMA NodesOptionDone ==
  ASSUME BaseInv, CheckInv, NodesInv, OptionDone
  PROVE  NodesInv'
<1> DEFINE o == cmd.map[key]
<1>1. /\ pc = "option" /\ pc' = "args" /\ cmd' = cmd /\ specified' = specified \cup {o}
      /\ optional' = optional /\ node' = node /\ status' = status
  BY DEF OptionDone, reading
<1>2. CommandShape(cmd) /\ IsCommand(cmd) /\ IsTree(cmd.opts)
  BY KnownCommand, CommandsAssumption DEF BaseInv, Placed, IsCommand
<1>3. key \in DOMAIN cmd.map
  BY <1>1 DEF BaseInv, Held, InOption, HeldKey
<1>4. o \in DOMAIN cmd.opts /\ ~cmd.opts[o].group
  <2>1. o \in DOMAIN cmd.opts /\ key \in ToSet(cmd.opts[o].keys)
    BY <1>2, <1>3 DEF IsCommand
  <2>2. cmd.opts[o].group => cmd.opts[o].keys = <<>>
    BY <1>2, <2>1 DEF IsTree
  <2>3. key \notin ToSet(<<>>)
    BY DEF ToSet
  <2>. QED
    BY <2>1, <2>2, <2>3
<1>5. CallsGrow
  BY StepCalls DEF Next
<1>6. \A i \in DOMAIN calls : i \in DOMAIN calls' /\ calls'[i] = calls[i]
  BY <1>5, CallsKept
<1>7. \A i \in DOMAIN calls' : i \notin DOMAIN calls
         => calls'[i] = [by |-> "option", text |-> key, at |-> pos]
  BY NewCall DEF OptionDone
<1>8. \E i \in DOMAIN calls' : calls'[i].by = "option" /\ calls'[i].text = key
  <2>1. calls \in Seq(CallRecords) /\ calls' = Append(calls, [by |-> "option", text |-> key, at |-> pos])
    BY HandedTyped DEF OptionDone, Call
  <2> DEFINE x == [by |-> "option", text |-> key, at |-> pos]
  <2>2. x.by = "option" /\ x.text = key /\ calls' = Append(calls, x)
    BY <2>1
  <2> HIDE DEF x
  <2>3. Len(calls) + 1 \in DOMAIN calls' /\ calls'[Len(calls) + 1] = x
    BY <2>1, <2>2
  <2>. QED
    BY <2>2, <2>3
<1>9. \A i \in DOMAIN calls' : i \notin DOMAIN calls => calls'[i].by = "option" /\ calls'[i].text = key
  BY <1>7
<1> HIDE DEF o
<1>10. \A i : OptionGiven(i)' <=> OptionGiven(i) \/ i = o
  BY <1>1, <1>6, <1>8, <1>9 DEF OptionGiven, o
<1>11. \A i \in DOMAIN cmd.opts : ~(i < node) /\ i \notin optional
  <2>1. node = 1 /\ optional = {}
    BY <1>1 DEF CheckInv
  <2>2. \A i \in DOMAIN cmd.opts : i \in Nat /\ i >= 1
    BY BelowBefore DEF BaseInv, Placed
  <2>. QED
    BY <2>1, <2>2
<1>12. GivenNodes'
  <2> SUFFICES ASSUME NEW i \in DOMAIN cmd.opts
               PROVE  IF cmd.opts[i].group
                      THEN i \in specified' <=> i < node' /\ Below(i)' \cap specified' # {}
                      ELSE i \in specified' <=> OptionGiven(i)'
    BY <1>1 DEF GivenNodes
  <2>1. IF cmd.opts[i].group
        THEN i \in specified <=> i < node /\ Below(i) \cap specified # {}
        ELSE i \in specified <=> OptionGiven(i)
    BY NodesParts DEF GivenNodes
  <2>. QED
    BY <1>1, <1>4, <1>10, <1>11, <2>1
<1>13. OmittedNodes' /\ FittingNodes'
  BY <1>1, <1>11 DEF OmittedNodes, FittingNodes
<1>14. Verdict'
  <2>1. status' = ""
    BY <1>1 DEF BaseInv, Placed
  <2>. QED
    BY <2>1 DEF Verdict
<1>15. KnownOptions'
  BY <1>1, <1>3, <1>6, <1>9, NodesParts DEF KnownOptions
<1>16. NodesInv' <=> (GivenNodes /\ OmittedNodes /\ FittingNodes /\ Verdict /\ KnownOptions)'
  BY DEF NodesInv, GivenNodes, OmittedNodes, FittingNodes, Verdict, KnownOptions
<1>. QED
  BY <1>12, <1>13, <1>14, <1>15, <1>16

(* A step of the walk.                                                     *)
LEMMA NodesWalk ==
  ASSUME BaseInv, CheckInv, NodesInv, Walks
  PROVE  NodesInv'
<1>1. pc = "check" /\ cmd' = cmd /\ calls' = calls /\ status = ""
  BY WalkKeeps DEF reading, BaseInv, Placed
<1>2. CommandShape(cmd) /\ cmd \in Commands
  BY KnownCommand DEF BaseInv, Placed
<1>3. DOMAIN cmd.opts = 1 .. Len(cmd.opts) /\ Len(cmd.opts) \in Nat
  BY <1>2 DEF CommandShape
<1>4. node \in 1 .. (Len(cmd.opts) + 1)
  BY DEF CheckInv
<1>5. node <= Len(cmd.opts) => node \in DOMAIN cmd.opts
  BY <1>3, <1>4
<1>6. ~(node <= Len(cmd.opts)) => node = Len(cmd.opts) + 1
  BY <1>3, <1>4
<1>7. node > Len(cmd.opts) => ~(node <= Len(cmd.opts))
  BY <1>3, <1>4
<1>8. node \in DOMAIN cmd.opts => Below(node) = Kids
  BY DEF Below, Kids, Node
<1>9. node \in DOMAIN cmd.opts => Cardinality(Below(node) \cap specified) \in Nat
  <2> SUFFICES ASSUME node \in DOMAIN cmd.opts
               PROVE  Cardinality(Below(node) \cap specified) \in Nat
    OBVIOUS
  <2>1. Below(node) \cap specified \subseteq DOMAIN cmd.opts
    BY <1>2, BelowBefore
  <2>2. IsFiniteSet(DOMAIN cmd.opts)
    BY <1>3, FS_Interval
  <2>. QED
    BY <2>1, <2>2, FS_Subset, FS_CardinalityType
<1>10. CASE CheckOption
  <2>1. /\ node \in DOMAIN cmd.opts /\ ~cmd.opts[node].group /\ node' = node + 1 /\ status' = ""
        /\ specified' = specified
        /\ optional' = IF cmd.opts[node].optional THEN optional \cup {node} ELSE optional
    BY <1>1, <1>5, <1>10 DEF CheckOption, Checking, Node
  <2>2. FitsHere(node) /\ (Omits(node) <=> cmd.opts[node].optional)
    BY <2>1 DEF FitsHere, Omits
  <2>3. \A i : i \in specified' <=>
                  i \in specified \/ (i = node /\ cmd.opts[i].group /\ Below(i) \cap specified # {})
    BY <2>1
  <2>4. \A i : i \in optional' <=> i \in optional \/ (i = node /\ Omits(i))
    BY <2>1, <2>2
  <2>. QED
    BY <1>1, <2>1, <2>2, <2>3, <2>4, NodesPass
<1>11. ASSUME node \in DOMAIN cmd.opts, cmd.opts[node].group, FitsHere(node),
              GroupEnds(Below(node) \cap specified # {}, Omits(node))
       PROVE  NodesInv'
  <2>1. Below(node) \cap specified # {} \/ Omits(node)
    BY <1>11 DEF FitsHere
  <2>2. /\ specified' = IF Below(node) \cap specified # {} THEN specified \cup {node} ELSE specified
        /\ optional' = IF Omits(node) THEN optional \cup {node} ELSE optional
        /\ node' = node + 1 /\ status' = ""
    BY <1>1, <1>11, <2>1 DEF GroupEnds
  <2>3. \A i : i \in specified' <=>
                  i \in specified \/ (i = node /\ cmd.opts[i].group /\ Below(i) \cap specified # {})
    BY <1>11, <2>2
  <2>4. \A i : i \in optional' <=> i \in optional \/ (i = node /\ Omits(i))
    BY <2>2
  <2>. QED
    BY <1>1, <1>11, <2>2, <2>3, <2>4, NodesPass
<1>12. ASSUME node \in DOMAIN cmd.opts, ~FitsHere(node), NEW why \in {"unspecified_option", "conflicting_option"},
              NEW who, Fail(why, who)
       PROVE  NodesInv'
  <2>1. status' = why /\ node' = node /\ specified' = specified /\ optional' = optional
    BY <1>12 DEF Fail
  <2>. QED
    BY <1>1, <1>12, <2>1, NodesEnd
<1>13. CASE CheckExclusive
  <2>1. /\ node \in DOMAIN cmd.opts /\ cmd.opts[node].group /\ cmd.opts[node].exclusive
    BY <1>5, <1>13 DEF CheckExclusive, Checking, Node
  <2>2. Omits(node) <=> Kids \cap optional # {} \/ Node.optional
    BY <1>8, <2>1 DEF Omits, Node
  <2>3. CASE Cardinality(Kids \cap specified) > 1
    <3>1. ~(Cardinality(Below(node) \cap specified) <= 1)
      BY <1>8, <1>9, <2>1, <2>3
    <3>2. ~FitsHere(node)
      BY <2>1, <3>1 DEF FitsHere
    <3>3. \E who : Fail("conflicting_option", who)
      BY <1>13, <2>3 DEF CheckExclusive
    <3>. QED
      BY <1>12, <2>1, <3>2, <3>3
  <2>4. CASE ~(Cardinality(Kids \cap specified) > 1)
    <3>1. Cardinality(Below(node) \cap specified) <= 1
      BY <1>8, <1>9, <2>1, <2>4
    <3>2. GroupEnds(Kids \cap specified # {}, Kids \cap optional # {} \/ Node.optional)
      BY <1>13, <2>4 DEF CheckExclusive
    <3>3. CASE Below(node) \cap specified # {} \/ Omits(node)
      <4>1. FitsHere(node)
        BY <2>1, <3>1, <3>3 DEF FitsHere
      <4>2. GroupEnds(Below(node) \cap specified # {}, Omits(node))
        BY <1>8, <2>1, <2>2, <3>2 DEF GroupEnds
      <4>. QED
        BY <1>11, <2>1, <4>1, <4>2
    <3>4. CASE ~(Below(node) \cap specified # {} \/ Omits(node))
      <4>1. ~FitsHere(node)
        BY <2>1, <3>4 DEF FitsHere
      <4>2. Fail("unspecified_option", <<"node", node>>)
        BY <1>8, <2>1, <2>2, <3>2, <3>4 DEF GroupEnds
      <4>. QED
        BY <1>12, <2>1, <4>1, <4>2
    <3>. QED
      BY <3>3, <3>4
  <2>. QED
    BY <2>3, <2>4
<1>14. CASE CheckGroup
  <2>1. /\ node \in DOMAIN cmd.opts /\ cmd.opts[node].group /\ ~cmd.opts[node].exclusive
    BY <1>5, <1>14 DEF CheckGroup, Checking, Node
  <2>2. Omits(node) <=> Kids \subseteq optional \/ Node.optional
    BY <1>8, <2>1 DEF Omits, Node
  <2>3. CASE Kids \cap specified # {} /\ Kids \ (specified \cup optional) # {}
    <3>1. ~FitsHere(node)
      BY <1>8, <2>1, <2>3 DEF FitsHere
    <3>2. \E who : Fail("unspecified_option", who)
      BY <1>14, <2>3 DEF CheckGroup
    <3>. QED
      BY <1>12, <2>1, <3>1, <3>2
  <2>4. CASE ~(Kids \cap specified # {} /\ Kids \ (specified \cup optional) # {})
    <3>1. Below(node) \cap specified # {} => Below(node) \subseteq specified \cup optional
      BY <1>8, <2>1, <2>4
    <3>2. GroupEnds(Kids \cap specified # {}, Kids \subseteq optional \/ Node.optional)
      BY <1>14, <2>4 DEF CheckGroup
    <3>3. CASE Below(node) \cap specified # {} \/ Omits(node)
      <4>1. FitsHere(node)
        BY <2>1, <3>1, <3>3 DEF FitsHere
      <4>2. GroupEnds(Below(node) \cap specified # {}, Omits(node))
        BY <1>8, <2>1, <2>2, <3>2 DEF GroupEnds
      <4>. QED
        BY <1>11, <2>1, <4>1, <4>2
    <3>4. CASE ~(Below(node) \cap specified # {} \/ Omits(node))
      <4>1. ~FitsHere(node)
        BY <2>1, <3>4 DEF FitsHere
      <4>2. Fail("unspecified_option", <<"node", node>>)
        BY <1>8, <2>1, <2>2, <3>2, <3>4 DEF GroupEnds
      <4>. QED
        BY <1>12, <2>1, <4>1, <4>2
    <3>. QED
      BY <3>3, <3>4
  <2>. QED
    BY <2>3, <2>4
<1>15. CASE Return
  <2>1. /\ status' = "ok" /\ node' = node /\ specified' = specified /\ optional' = optional
        /\ node = Len(cmd.opts) + 1
    BY <1>6, <1>7, <1>15 DEF Return
  <2>. QED
    BY <1>1, <2>1, NodesEnd
<1>. QED
  BY <1>10, <1>13, <1>14, <1>15 DEF Walks

(* Every step keeps NodesInv.                                              *)
LEMMA NodesStep ==
  ASSUME BaseInv, CheckInv, OptionsInv, NodesInv, [Next]_vars
  PROVE  NodesInv'
<1>0. CallsGrow
  BY StepCalls
<1>1. CASE UNCHANGED vars
  BY <1>1 DEF vars, reading, NodesInv, Below, Omits, FitsHere, OptionGiven
<1>2. CASE \/ CommandFound \/ OptionValueEnds \/ PositionalRefused \/ UnknownOption
           \/ ArgsRead \/ Rest \/ ValuesFilled
  <2>1. /\ cmd' = cmd /\ specified' = specified /\ optional' = optional /\ node' = node /\ calls' = calls
        /\ \/ status' \in {"invalid_value", "unknown_option", "unspecified_value"}
           \/ status' = status /\ pc # "done"
    BY <1>2 DEF CommandFound, OptionValueEnds, PositionalRefused, UnknownOption, ArgsRead, Rest, ValuesFilled,
                NotChecking, reading, Fail, Positional
  <2>2. status' \notin {"unspecified_option", "conflicting_option", "ok"}
    BY <2>1 DEF BaseInv, Placed
  <2>. QED
    BY <1>0, <2>1, <2>2, NodesStay
<1>3. CASE OptionKey
  <2>1. PICK k : Call("key", k, pos + 1)
    BY <1>3 DEF OptionKey
  <2>2. \A i \in DOMAIN calls' : i \notin DOMAIN calls
          => calls'[i] = [by |-> "key", text |-> k, at |-> pos + 1]
    BY <2>1, NewCall
  <2>3. \A i \in DOMAIN calls' : i \notin DOMAIN calls => calls'[i].by # "option"
    BY <2>2
  <2>4. /\ cmd' = cmd /\ specified' = specified /\ optional' = optional /\ node' = node
        /\ status' = status /\ status = ""
    BY <1>3 DEF OptionKey, NotChecking, BaseInv, Placed
  <2>. QED
    BY <1>0, <2>3, <2>4, NodesStay
<1>4. CASE OptionValue
  <2>1. \A i \in DOMAIN calls' : i \notin DOMAIN calls
          => calls'[i] = [by |-> "value", text |-> Text, at |-> pos + 1]
    BY <1>4, NewCall DEF OptionValue
  <2>2. \A i \in DOMAIN calls' : i \notin DOMAIN calls => calls'[i].by # "option"
    BY <2>1
  <2>3. /\ cmd' = cmd /\ specified' = specified /\ optional' = optional /\ node' = node
        /\ status' = status /\ status = ""
    BY <1>4 DEF OptionValue, NotChecking, BaseInv, Placed
  <2>. QED
    BY <1>0, <2>2, <2>3, NodesStay
<1>5. CASE PositionalTaken
  <2>1. \A i \in DOMAIN calls' : i \notin DOMAIN calls
          => calls'[i] = [by |-> "positional", text |-> Arg, at |-> valIt]
    BY <1>5, NewCall DEF PositionalTaken
  <2>2. \A i \in DOMAIN calls' : i \notin DOMAIN calls => calls'[i].by # "option"
    BY <2>1
  <2>3. /\ cmd' = cmd /\ specified' = specified /\ optional' = optional /\ node' = node
        /\ status' = status /\ status = ""
    BY <1>5 DEF PositionalTaken, Positional, NotChecking, BaseInv, Placed
  <2>. QED
    BY <1>0, <2>2, <2>3, NodesStay
<1>. QED
  BY <1>1, <1>2, <1>3, <1>4, <1>5, NodesDescend, NodesOptionDone, NodesWalk DEF Next, Walks

-----------------------------------------------------------------------------
(* A set of nodes, the membership of each being settled by its children's. *)
Settles(S, n, kids, settled) ==
  /\ S \subseteq 1 .. n
  /\ \A i \in 1 .. n : i \in S <=> S \cap kids[i] \in settled[i]

SettledTo(S, m, kids, settled) == \A i \in 1 .. m : i \in S <=> S \cap kids[i] \in settled[i]
ChildrenFirst(n, kids) == \A i \in 1 .. n : kids[i] \subseteq 1 .. (i - 1)

(* There is one, whatever settles a node, when children come first.        *)
LEMMA SettlesExists ==
  ASSUME NEW n \in Nat, NEW kids, NEW settled, \A i \in 1 .. n : kids[i] \subseteq 1 .. (i - 1)
  PROVE  \E S : Settles(S, n, kids, settled)
<1> DEFINE A == {k \in 0 .. n : \E S : Settles(S, k, kids, settled)}
<1>1. 0 \in A
  <2>1. Settles({}, 0, kids, settled)
    BY DEF Settles
  <2>. QED
    BY <2>1
<1>2. ASSUME NEW k \in 0 .. n - 1, k \in A PROVE k + 1 \in A
  <2>1. PICK S : Settles(S, k, kids, settled)
    BY <1>2
  <2> DEFINE R == IF S \cap kids[k + 1] \in settled[k + 1] THEN S \cup {k + 1} ELSE S
  <2>2. k \in Nat /\ k + 1 \in 0 .. n /\ \A i \in 1 .. (k + 1) : i \in 1 .. n
    OBVIOUS
  <2>3. S \subseteq 1 .. k /\ R \subseteq 1 .. (k + 1)
    BY <2>1, <2>2 DEF Settles
  <2>4. ASSUME NEW i \in 1 .. (k + 1) PROVE R \cap kids[i] = S \cap kids[i]
    <3>1. kids[i] \subseteq 1 .. (i - 1)
      BY <2>2
    <3>2. k + 1 \notin kids[i]
      BY <2>2, <3>1
    <3>. QED
      BY <3>2
  <2>5. ASSUME NEW i \in 1 .. (k + 1) PROVE i \in R <=> R \cap kids[i] \in settled[i]
    <3>1. CASE i = k + 1
      <4>1. i \notin S
        BY <2>2, <2>3, <3>1
      <4>2. i \in R <=> S \cap kids[i] \in settled[i]
        BY <3>1, <4>1
      <4>. QED
        BY <2>4, <4>2
    <3>2. CASE i # k + 1
      <4>1. i \in 1 .. k
        BY <2>2, <3>2
      <4>2. i \in S <=> S \cap kids[i] \in settled[i]
        BY <2>1, <4>1 DEF Settles
      <4>3. i \in R <=> i \in S
        BY <3>2
      <4>. QED
        BY <2>4, <4>2, <4>3
    <3>. QED
      BY <3>1, <3>2
  <2>6. Settles(R, k + 1, kids, settled)
    <3> HIDE DEF R
    <3>. QED
      BY <2>3, <2>5 DEF Settles
  <2>. QED
    <3> HIDE DEF R
    <3>. QED
      BY <2>2, <2>6
<1>3. 0 .. n \subseteq A
  <2> HIDE DEF A
  <2>. QED
    BY <1>1, <1>2, IntervalInduct
<1>. QED
  BY <1>3

(* Two of them agree up to where what settles a node is the same.          *)
LEMMA SettlesSame ==
  ASSUME NEW n \in Nat, NEW m \in 0 .. n, NEW S, NEW R, NEW kids, NEW settled,
         ChildrenFirst(n, kids), SettledTo(S, m, kids, settled), SettledTo(R, m, kids, settled)
  PROVE  \A i \in 1 .. m : i \in S <=> i \in R
<1> DEFINE A == {k \in 0 .. m : \A i \in 1 .. k : i \in S <=> i \in R}
<1>0. m \in Nat
  OBVIOUS
<1>1. 0 \in A
  OBVIOUS
<1>2. ASSUME NEW k \in 0 .. m - 1, k \in A PROVE k + 1 \in A
  <2>1. k \in Nat /\ k + 1 \in 0 .. m /\ k + 1 \in 1 .. m /\ k + 1 \in 1 .. n /\ (k + 1) - 1 = k
    OBVIOUS
  <2>2. kids[k + 1] \subseteq 1 .. k
    BY <2>1 DEF ChildrenFirst
  <2>3. \A i \in 1 .. k : i \in S <=> i \in R
    BY <1>2
  <2>4. S \cap kids[k + 1] = R \cap kids[k + 1]
    BY <2>2, <2>3
  <2>5. k + 1 \in S <=> k + 1 \in R
    BY <2>1, <2>4 DEF SettledTo
  <2>6. \A i \in 1 .. (k + 1) : i \in 1 .. k \/ i = k + 1
    BY <2>1
  <2>. QED
    BY <2>1, <2>3, <2>5, <2>6
<1>3. 0 .. m \subseteq A
  <2> HIDE DEF A
  <2>. QED
    BY <1>0, <1>1, <1>2, IntervalInduct
<1>4. m \in A
  BY <1>0, <1>3
<1>. QED
  BY <1>4

(* What settles that a node was given, and that it can be left out.        *)
Children == [i \in DOMAIN cmd.opts |-> Below(i)]
GivenBy == [i \in DOMAIN cmd.opts |-> {X \in SUBSET (DOMAIN cmd.opts) : OptionGiven(i) \/ X # {}}]

OmitsWith(i, X) ==
  \/ cmd.opts[i].optional
  \/ cmd.opts[i].group /\ cmd.opts[i].exclusive /\ X # {}
  \/ cmd.opts[i].group /\ ~cmd.opts[i].exclusive /\ Below(i) \subseteq X
OmittedBy == [i \in DOMAIN cmd.opts |-> {X \in SUBSET (DOMAIN cmd.opts) : OmitsWith(i, X)}]

(* The shape of the tree the walk goes over.                               *)
LEMMA WalkedTree ==
  ASSUME cmd \in Commands
  PROVE  /\ DOMAIN cmd.opts = 1 .. Len(cmd.opts) /\ Len(cmd.opts) \in Nat
         /\ \A i \in 1 .. Len(cmd.opts) : Children[i] \subseteq 1 .. (i - 1) /\ Children[i] = Below(i)
         /\ \A i \in DOMAIN cmd.opts : Below(i) \subseteq DOMAIN cmd.opts
<1>1. CommandShape(cmd)
  BY KnownCommand
<1>2. DOMAIN cmd.opts = 1 .. Len(cmd.opts) /\ Len(cmd.opts) \in Nat
  BY <1>1 DEF CommandShape
<1>3. \A i \in DOMAIN cmd.opts : Below(i) \subseteq 1 .. (i - 1) /\ Below(i) \subseteq DOMAIN cmd.opts
  BY BelowBefore
<1>. QED
  BY <1>2, <1>3 DEF Children

(* Given is what its definition says: the recursion ends.                  *)
LEMMA GivenIs ==
  ASSUME cmd \in Commands
  PROVE  \A i \in DOMAIN cmd.opts : Given[i] <=> OptionGiven(i) \/ \E k \in Below(i) : Given[k]
<1> DEFINE n == Len(cmd.opts)
           Body(g, i) == \/ \E c \in DOMAIN calls : calls[c].by = "option" /\ cmd.map[calls[c].text] = i
                         \/ \E k \in ToSet(cmd.opts[i].kids) : g[k]
           Solves(g) == g = [i \in DOMAIN cmd.opts |-> Body(g, i)]
<1>1. PICK S : Settles(S, n, Children, GivenBy)
  <2>1. n \in Nat /\ \A i \in 1 .. n : Children[i] \subseteq 1 .. (i - 1)
    BY WalkedTree
  <2> HIDE DEF n
  <2>. QED
    BY <2>1, SettlesExists
<1> DEFINE h == [i \in DOMAIN cmd.opts |-> i \in S]
<1>2. \A i \in DOMAIN cmd.opts : i \in S <=> OptionGiven(i) \/ S \cap Below(i) # {}
  <2>1. \A i \in DOMAIN cmd.opts : i \in S <=> S \cap Below(i) \in GivenBy[i]
    BY <1>1, WalkedTree DEF Settles
  <2>2. \A i \in DOMAIN cmd.opts : S \cap Below(i) \in SUBSET (DOMAIN cmd.opts)
    BY WalkedTree
  <2>. QED
    BY <2>1, <2>2 DEF GivenBy
<1>3. \A i \in DOMAIN cmd.opts : (i \in S) = Body(h, i)
  <2> SUFFICES ASSUME NEW i \in DOMAIN cmd.opts PROVE (i \in S) = Body(h, i)
    OBVIOUS
  <2>1. Below(i) \subseteq DOMAIN cmd.opts
    BY WalkedTree
  <2>2. (\E k \in Below(i) : h[k]) <=> S \cap Below(i) # {}
    BY <2>1
  <2> HIDE DEF h
  <2>3. Body(h, i) <=> OptionGiven(i) \/ S \cap Below(i) # {}
    BY <2>2 DEF Below, OptionGiven
  <2>4. Body(h, i) \in BOOLEAN
    OBVIOUS
  <2> HIDE DEF Body
  <2>. QED
    BY <1>2, <2>3, <2>4
<1>4. Solves(h)
  <2> HIDE DEF Body
  <2>. QED
    BY <1>3
<1>5. Solves(CHOOSE g : Solves(g))
  <2> HIDE DEF Solves, h
  <2>. QED
    BY <1>4
<1>6. Given = CHOOSE g : Solves(g)
  BY DEF Given
<1>7. Solves(Given)
  <2> HIDE DEF Solves
  <2>. QED
    BY <1>5, <1>6
<1>8. \A i \in DOMAIN cmd.opts : Given[i] = Body(Given, i)
  <2> HIDE DEF Body
  <2>. QED
    BY <1>7
<1>. QED
  BY <1>8 DEF OptionGiven, Below

(* And so is CanOmit.                                                      *)
LEMMA CanOmitIs ==
  ASSUME cmd \in Commands
  PROVE  \A i \in DOMAIN cmd.opts : CanOmit[i] <=> OmitsWith(i, {k \in Below(i) : CanOmit[k]})
<1> DEFINE n == Len(cmd.opts)
           Body(g, i) == LET m == cmd.opts[i]
                         IN  \/ m.optional
                             \/ m.group /\ m.exclusive  /\ \E k \in ToSet(m.kids) : g[k]
                             \/ m.group /\ ~m.exclusive /\ \A k \in ToSet(m.kids) : g[k]
           Solves(g) == g = [i \in DOMAIN cmd.opts |-> Body(g, i)]
<1>0. IsTree(cmd.opts)
  BY CommandsAssumption DEF IsCommand
<1>a. \A i \in DOMAIN cmd.opts : cmd.opts[i].optional \in BOOLEAN
  <2>1. \A m \in OptionNodes : m.optional \in BOOLEAN
    BY DEF OptionNodes
  <2>2. \A i \in DOMAIN cmd.opts : cmd.opts[i] \in OptionNodes
    <3>1. cmd.opts \in Seq(OptionNodes)
      BY <1>0 DEF IsTree
    <3>. QED
      BY <3>1
  <2>. QED
    BY <2>1, <2>2
<1>1. PICK S : Settles(S, n, Children, OmittedBy)
  <2>1. n \in Nat /\ \A i \in 1 .. n : Children[i] \subseteq 1 .. (i - 1)
    BY WalkedTree
  <2> HIDE DEF n
  <2>. QED
    BY <2>1, SettlesExists
<1> DEFINE h == [i \in DOMAIN cmd.opts |-> i \in S]
<1>2. \A i \in DOMAIN cmd.opts : i \in S <=> OmitsWith(i, S \cap Below(i))
  <2>1. \A i \in DOMAIN cmd.opts : i \in S <=> S \cap Below(i) \in OmittedBy[i]
    BY <1>1, WalkedTree DEF Settles
  <2>2. \A i \in DOMAIN cmd.opts : S \cap Below(i) \in SUBSET (DOMAIN cmd.opts)
    BY WalkedTree
  <2>. QED
    BY <2>1, <2>2 DEF OmittedBy
<1>3. \A i \in DOMAIN cmd.opts : (i \in S) = Body(h, i)
  <2> SUFFICES ASSUME NEW i \in DOMAIN cmd.opts PROVE (i \in S) = Body(h, i)
    OBVIOUS
  <2>1. Below(i) \subseteq DOMAIN cmd.opts
    BY WalkedTree
  <2>2. (\E k \in Below(i) : h[k]) <=> S \cap Below(i) # {}
    BY <2>1
  <2>3. (\A k \in Below(i) : h[k]) <=> Below(i) \subseteq S \cap Below(i)
    BY <2>1
  <2> HIDE DEF h
  <2>4. Body(h, i) <=> OmitsWith(i, S \cap Below(i))
    BY <2>2, <2>3 DEF Below, OmitsWith
  <2>5. Body(h, i) \in BOOLEAN
    BY <1>a
  <2> HIDE DEF Body
  <2>. QED
    BY <1>2, <2>4, <2>5
<1>4. Solves(h)
  <2> HIDE DEF Body
  <2>. QED
    BY <1>3
<1>5. Solves(CHOOSE g : Solves(g))
  <2> HIDE DEF Solves, h
  <2>. QED
    BY <1>4
<1>6. CanOmit = CHOOSE g : Solves(g)
  BY DEF CanOmit
<1>7. Solves(CanOmit)
  <2> HIDE DEF Solves
  <2>. QED
    BY <1>5, <1>6
<1>8. \A i \in DOMAIN cmd.opts : CanOmit[i] = Body(CanOmit, i)
  <2> HIDE DEF Body
  <2>. QED
    BY <1>7
<1>. QED
  BY <1>8 DEF OmitsWith, Below

(* An option's key is not a group's.                                       *)
LEMMA GroupsHaveNoHandler ==
  ASSUME cmd \in Commands, NodesInv, NEW i \in DOMAIN cmd.opts, cmd.opts[i].group
  PROVE  ~OptionGiven(i)
<1>1. IsCommand(cmd) /\ IsTree(cmd.opts)
  BY CommandsAssumption DEF IsCommand
<1>2. cmd.opts[i].keys = <<>>
  BY <1>1 DEF IsTree
<1>3. \A k : k \notin ToSet(<<>>)
  BY DEF ToSet
<1>4. \A k \in DOMAIN cmd.map : cmd.map[k] # i
  BY <1>1, <1>2, <1>3 DEF IsCommand
<1>. QED
  BY <1>4, NodesParts DEF OptionGiven, KnownOptions

(* What the walk found of the nodes it has passed is what holds of them.   *)
LEMMA WalkAgrees ==
  ASSUME BaseInv, CheckInv, NodesInv
  PROVE  \A i \in 1 .. (node - 1) : /\ i \in specified <=> Given[i]
                                    /\ i \in optional <=> CanOmit[i]
<1> DEFINE n == Len(cmd.opts)
           G == {i \in DOMAIN cmd.opts : Given[i]}
           O == {i \in DOMAIN cmd.opts : CanOmit[i]}
           m == node - 1
<1>0. cmd \in Commands
  BY DEF BaseInv, Placed
<1>1. /\ n \in Nat /\ DOMAIN cmd.opts = 1 .. n
      /\ \A i \in 1 .. n : Children[i] \subseteq 1 .. (i - 1) /\ Children[i] = Below(i)
      /\ \A i \in 1 .. n : Below(i) \subseteq DOMAIN cmd.opts
  BY <1>0, WalkedTree
<1>2. m \in 0 .. n /\ \A i \in 1 .. m : i \in 1 .. n /\ i < node
  <2>1. node \in 1 .. (n + 1)
    BY DEF CheckInv
  <2> HIDE DEF n
  <2>. QED
    BY <1>1, <2>1
<1>3. specified \subseteq DOMAIN cmd.opts /\ optional \subseteq DOMAIN cmd.opts
  BY DEF CheckInv
<1> HIDE DEF n, m
<1>4. \A i \in DOMAIN cmd.opts : Given[i] <=> OptionGiven(i) \/ \E k \in Below(i) : Given[k]
  BY <1>0, GivenIs
<1>5. \A i \in DOMAIN cmd.opts : CanOmit[i] <=> OmitsWith(i, {k \in Below(i) : CanOmit[k]})
  BY <1>0, CanOmitIs
<1>6. ASSUME NEW i \in 1 .. m PROVE i \in G <=> G \cap Children[i] \in GivenBy[i]
  <2>1. i \in DOMAIN cmd.opts /\ Children[i] = Below(i) /\ Below(i) \subseteq DOMAIN cmd.opts
    BY <1>1, <1>2
  <2>2. G \cap Below(i) # {} <=> \E k \in Below(i) : Given[k]
    BY <2>1
  <2>3. i \in G <=> OptionGiven(i) \/ G \cap Below(i) # {}
    BY <1>4, <2>1, <2>2
  <2>4. G \cap Below(i) \in SUBSET (DOMAIN cmd.opts)
    OBVIOUS
  <2> HIDE DEF G
  <2>. QED
    BY <2>1, <2>3, <2>4 DEF GivenBy
<1>7. ASSUME NEW i \in 1 .. m PROVE i \in specified <=> specified \cap Children[i] \in GivenBy[i]
  <2>1. i \in DOMAIN cmd.opts /\ Children[i] = Below(i) /\ Below(i) \subseteq DOMAIN cmd.opts /\ i < node
    BY <1>1, <1>2
  <2>2. IF cmd.opts[i].group
        THEN i \in specified <=> i < node /\ Below(i) \cap specified # {}
        ELSE i \in specified <=> OptionGiven(i)
    BY <2>1, NodesParts DEF GivenNodes
  <2>3. ~cmd.opts[i].group => Below(i) = {}
    BY <1>0, <2>1, BelowBefore
  <2>4. cmd.opts[i].group => ~OptionGiven(i)
    BY <1>0, <2>1, GroupsHaveNoHandler
  <2>5. i \in specified <=> OptionGiven(i) \/ specified \cap Below(i) # {}
    BY <2>1, <2>2, <2>3, <2>4
  <2>6. specified \cap Below(i) \in SUBSET (DOMAIN cmd.opts)
    BY <1>3
  <2>. QED
    BY <2>1, <2>5, <2>6 DEF GivenBy
<1>8. ASSUME NEW i \in 1 .. m PROVE i \in O <=> O \cap Children[i] \in OmittedBy[i]
  <2>1. i \in DOMAIN cmd.opts /\ Children[i] = Below(i) /\ Below(i) \subseteq DOMAIN cmd.opts
    BY <1>1, <1>2
  <2>2. O \cap Below(i) = {k \in Below(i) : CanOmit[k]}
    BY <2>1
  <2>3. i \in O <=> OmitsWith(i, O \cap Below(i))
    BY <1>5, <2>1, <2>2
  <2>4. O \cap Below(i) \in SUBSET (DOMAIN cmd.opts)
    OBVIOUS
  <2> HIDE DEF O
  <2>. QED
    BY <2>1, <2>3, <2>4 DEF OmittedBy
<1>9. ASSUME NEW i \in 1 .. m PROVE i \in optional <=> optional \cap Children[i] \in OmittedBy[i]
  <2>1. i \in DOMAIN cmd.opts /\ Children[i] = Below(i) /\ Below(i) \subseteq DOMAIN cmd.opts /\ i < node
    BY <1>1, <1>2
  <2>2. i \in optional <=> i < node /\ Omits(i)
    BY <2>1, NodesParts DEF OmittedNodes
  <2>3. Omits(i) <=> OmitsWith(i, optional \cap Below(i))
    <3>1. Below(i) \subseteq optional <=> Below(i) \subseteq optional \cap Below(i)
      OBVIOUS
    <3>2. Below(i) \cap optional = optional \cap Below(i)
      OBVIOUS
    <3>. QED
      BY <3>1, <3>2 DEF Omits, OmitsWith
  <2>4. optional \cap Below(i) \in SUBSET (DOMAIN cmd.opts)
    BY <1>3
  <2>. QED
    BY <2>1, <2>2, <2>3, <2>4 DEF OmittedBy
<1>10. \A i \in 1 .. m : i \in specified <=> i \in G
  <2>1. ChildrenFirst(n, Children)
    BY <1>1 DEF ChildrenFirst
  <2>2. SettledTo(specified, m, Children, GivenBy)
    BY <1>7 DEF SettledTo
  <2>3. SettledTo(G, m, Children, GivenBy)
    BY <1>6 DEF SettledTo
  <2>4. n \in Nat /\ m \in 0 .. n
    BY <1>1, <1>2
  <2> HIDE DEF G
  <2>. QED
    BY <2>1, <2>2, <2>3, <2>4, SettlesSame
<1>11. \A i \in 1 .. m : i \in optional <=> i \in O
  <2>1. ChildrenFirst(n, Children)
    BY <1>1 DEF ChildrenFirst
  <2>2. SettledTo(optional, m, Children, OmittedBy)
    BY <1>9 DEF SettledTo
  <2>3. SettledTo(O, m, Children, OmittedBy)
    BY <1>8 DEF SettledTo
  <2>4. n \in Nat /\ m \in 0 .. n
    BY <1>1, <1>2
  <2> HIDE DEF O
  <2>. QED
    BY <2>1, <2>2, <2>3, <2>4, SettlesSame
<1>12. \A i \in 1 .. m : i \in DOMAIN cmd.opts
  BY <1>1, <1>2
<1>13. \A i \in 1 .. m : /\ i \in specified <=> Given[i]
                         /\ i \in optional <=> CanOmit[i]
  BY <1>10, <1>11, <1>12
<1>. QED
  BY <1>13 DEF m

(* What the walk asks of a node is what Fits says.                         *)
LEMMA WalkFits ==
  ASSUME BaseInv, CheckInv, NodesInv, NEW i \in DOMAIN cmd.opts, i <= node
  PROVE  FitsHere(i) <=> Fits(i)
<1>0. cmd \in Commands
  BY DEF BaseInv, Placed
<1>1. CASE ~cmd.opts[i].group
  BY <1>1 DEF FitsHere, Fits
<1>2. CASE cmd.opts[i].group
  <2>1. ~OptionGiven(i)
    BY <1>0, <1>2, GroupsHaveNoHandler
  <2>2. Below(i) \subseteq 1 .. (node - 1)
    <3>1. Below(i) \subseteq 1 .. (i - 1) /\ i \in Nat
      BY <1>0, BelowBefore
    <3>2. node \in 1 .. (Len(cmd.opts) + 1) /\ Len(cmd.opts) \in Nat
      BY <1>0, WalkedTree DEF CheckInv
    <3>. QED
      BY <3>1, <3>2
  <2>3. \A k \in Below(i) : /\ k \in specified <=> Given[k]
                            /\ k \in optional <=> CanOmit[k]
    BY <2>2, WalkAgrees
  <2>4. /\ Below(i) \cap specified = {k \in Below(i) : Given[k]}
        /\ Below(i) \cap optional = {k \in Below(i) : CanOmit[k]}
    BY <2>3
  <2>5. Given[i] <=> Below(i) \cap specified # {}
    <3>1. Given[i] <=> OptionGiven(i) \/ \E k \in Below(i) : Given[k]
      BY <1>0, GivenIs
    <3>. QED
      BY <2>1, <2>3, <3>1
  <2>6. CanOmit[i] <=> Omits(i)
    <3>1. CanOmit[i] <=> OmitsWith(i, Below(i) \cap optional)
      BY <1>0, <2>4, CanOmitIs
    <3>2. Below(i) \subseteq optional <=> Below(i) \subseteq Below(i) \cap optional
      OBVIOUS
    <3>. QED
      BY <3>1, <3>2 DEF Omits, OmitsWith
  <2>7. Below(i) \subseteq specified \cup optional <=> \A k \in Below(i) : Given[k] \/ CanOmit[k]
    BY <2>3
  <2>8. Fits(i) <=> /\ Given[i] \/ CanOmit[i]
                    /\ cmd.opts[i].exclusive => Cardinality(Below(i) \cap specified) <= 1
                    /\ ~cmd.opts[i].exclusive /\ Below(i) \cap specified # {}
                         => \A k \in Below(i) : Given[k] \/ CanOmit[k]
    BY <1>2, <2>4 DEF Fits, Below
  <2>. QED
    BY <1>2, <2>5, <2>6, <2>7, <2>8 DEF FitsHere
<1>. QED
  BY <1>1, <1>2

(* So GroupsExact is true of every state.                                  *)
LEMMA GroupsAreExact ==
  ASSUME BaseInv, CheckInv, NodesInv
  PROVE  GroupsExact
<1>0. /\ DOMAIN cmd.opts = 1 .. Len(cmd.opts) /\ Len(cmd.opts) \in Nat
      /\ node \in 1 .. (Len(cmd.opts) + 1)
  BY WalkedTree DEF BaseInv, Placed, CheckInv
<1>1. CASE status = "ok"
  <2>1. node = Len(cmd.opts) + 1
    BY <1>1, NodesParts DEF Verdict
  <2>2. \A i \in DOMAIN cmd.opts : i < node /\ i <= node
    BY <1>0, <2>1
  <2>3. \A i \in DOMAIN cmd.opts : FitsHere(i)
    BY <2>2, NodesParts DEF FittingNodes
  <2>4. \A i \in DOMAIN cmd.opts : Fits(i)
    BY <2>2, <2>3, WalkFits
  <2>. QED
    BY <1>1, <2>4 DEF GroupsExact
<1>2. CASE status \in {"unspecified_option", "conflicting_option"}
  <2>1. node \in DOMAIN cmd.opts /\ ~FitsHere(node)
    BY <1>2, NodesParts DEF Verdict
  <2>2. node <= node
    BY <1>0
  <2>3. ~Fits(node)
    BY <2>1, <2>2, WalkFits
  <2>4. status # "ok"
    BY <1>2
  <2>. QED
    BY <2>1, <2>3, <2>4 DEF GroupsExact
<1>3. CASE status \notin {"ok", "unspecified_option", "conflicting_option"}
  BY <1>3 DEF GroupsExact
<1>. QED
  BY <1>1, <1>2, <1>3

-----------------------------------------------------------------------------
(* Everything the parse keeps.                                             *)
ParseInv == BaseInv /\ CheckInv /\ OptionsInv /\ PlacesInv /\ NodesInv

(* It holds at first, every step keeps it, and it gives the properties.    *)
LEMMA ParseStays ==
  /\ Init => ParseInv
  /\ ParseInv /\ [Next]_vars => ParseInv'
  /\ ParseInv => OptionCalls /\ ParseExact
<1>1. Init => ParseInv
  <2> SUFFICES ASSUME Init PROVE ParseInv
    OBVIOUS
  <2>1. BaseInv
    BY BaseInit
  <2>2. CheckInv
    BY <2>1, CheckInit
  <2>3. OptionsInv
    BY <2>1, OptionsInit
  <2>4. PlacesInv
    BY <2>1, PlacesInit
  <2>5. NodesInv
    BY <2>1, NodesInit
  <2>. QED
    BY <2>1, <2>2, <2>3, <2>4, <2>5 DEF ParseInv
<1>2. ParseInv /\ [Next]_vars => ParseInv'
  BY BaseStep, CheckStep, OptionsStep, PlacesStep, NodesStep DEF ParseInv
<1>3. ParseInv => OptionCalls /\ ParseExact
  <2> SUFFICES ASSUME ParseInv PROVE OptionCalls /\ ParseExact
    OBVIOUS
  <2>1. OptionCalls /\ PositionalsExact /\ GroupsExact
    BY OptionsExact, PlacesExact, GroupsAreExact DEF ParseInv
  <2>2. KeyIsLongest
    <3> SUFFICES ASSUME More, <<>> \notin DOMAIN cmd.map
                 PROVE  LET full  == {k \in DOMAIN cmd.map : k = Arg}
                            glued == {k \in DOMAIN cmd.map :
                                         IsPrefixOf(k, Arg) /\ cmd.opts[cmd.map[k]].vals # <<>>}
                        IN  FindKey(cmd, Arg) =
                                IF full # {} THEN full
                                ELSE {k \in glued : \A l \in glued : Len(l) <= Len(k)}
      BY DEF KeyIsLongest
    <3>1. cmd \in Commands /\ Arg \in Seq(Nat)
      BY NextArgument DEF ParseInv, BaseInv, Placed
    <3>. QED
      BY <3>1, KeysExact
  <2>. QED
    BY <2>1, <2>2 DEF ParseExact
<1>. QED
  BY <1>1, <1>2, <1>3

(* The handler of an option is called once for each time it was given, in  *)
(* that order and with its values complete, whatever the command and its   *)
(* arguments.                                                              *)
THEOREM OptionCallsHolds == Spec => []OptionCalls
<1>1. ParseInv => OptionCalls
  BY ParseStays
<1>2. Init => ParseInv
  BY ParseStays
<1>3. ParseInv /\ [Next]_vars => ParseInv'
  BY ParseStays
<1>. QED
  BY <1>1, <1>2, <1>3, PTL DEF Spec

(* Every option is found by its key, a parse that succeeds has filled in   *)
(* the positional values in order, and it succeeds just when the groups    *)
(* of options fit what was given, whatever the tree they were declared in. *)
THEOREM ParseExactHolds == Spec => []ParseExact
<1>1. ParseInv => ParseExact
  BY ParseStays
<1>2. Init => ParseInv
  BY ParseStays
<1>3. ParseInv /\ [Next]_vars => ParseInv'
  BY ParseStays
<1>. QED
  BY <1>1, <1>2, <1>3, PTL DEF Spec

-----------------------------------------------------------------------------
(* That the declarations of a program are trees, as is assumed.  A node    *)
(* that may stand at position i of one.                                    *)
NodeAt(n, i) ==
  /\ n \in OptionNodes
  /\ ToSet(n.kids) \subseteq 1 .. (i - 1)
  /\ IF n.group THEN n.keys = <<>> ELSE n.kids = <<>>

(* A tree is a sequence of such nodes.                                     *)
LEMMA TreeIs ==
  ASSUME NEW t
  PROVE  IsTree(t) <=> t \in Seq(OptionNodes) /\ t # <<>> /\ \A i \in DOMAIN t : NodeAt(t[i], i)
<1>1. ASSUME t \in Seq(OptionNodes) PROVE \A i \in DOMAIN t : t[i] \in OptionNodes
  BY <1>1
<1>. QED
  BY <1>1 DEF IsTree, NodeAt

(* The same node further on, its children with it.                         *)
LEMMA NodeMoved ==
  ASSUME NEW n, NEW i \in Nat, i >= 1, NEW k \in Nat, NodeAt(n, i)
  PROVE  NodeAt([n EXCEPT !.kids = [j \in DOMAIN @ |-> @[j] + k]], i + k)
<1> DEFINE s == n.kids
           t == [j \in DOMAIN s |-> s[j] + k]
           m == [n EXCEPT !.kids = t]
<1>1. s \in Seq(Nat) /\ Len(s) \in Nat /\ DOMAIN s = 1 .. Len(s) /\ \A j \in DOMAIN s : s[j] \in Nat
  <2>1. s \in Seq(Nat)
    BY DEF NodeAt, OptionNodes
  <2> HIDE DEF s
  <2>. QED
    BY <2>1
<1>2. ToSet(s) \subseteq 1 .. (i - 1)
  BY DEF NodeAt
<1>3. t \in Seq(Nat) /\ (s = <<>> => t = <<>>) /\ \A j \in DOMAIN t : j \in DOMAIN s /\ t[j] = s[j] + k
  <2> HIDE DEF s
  <2>. QED
    BY <1>1
<1>4. ToSet(t) \subseteq 1 .. (i + k - 1)
  <2> SUFFICES ASSUME NEW j \in DOMAIN t PROVE t[j] \in 1 .. (i + k - 1)
    BY DEF ToSet
  <2>1. j \in DOMAIN s /\ t[j] = s[j] + k
    BY <1>3
  <2>2. s[j] \in 1 .. (i - 1)
    BY <1>2, <2>1 DEF ToSet
  <2> HIDE DEF s, t
  <2>. QED
    BY <2>1, <2>2
<1> HIDE DEF s, t
<1>5. m \in OptionNodes /\ m.kids = t /\ m.group = n.group /\ m.keys = n.keys
  BY <1>3 DEF NodeAt, OptionNodes
<1>6. m = [n EXCEPT !.kids = [j \in DOMAIN @ |-> @[j] + k]]
  BY DEF s, t
<1>7. n.group => n.keys = <<>>
  BY DEF NodeAt
<1>8. ~n.group => t = <<>>
  BY <1>3 DEF NodeAt, s
<1> HIDE DEF m
<1>9. NodeAt(m, i + k)
  BY <1>4, <1>5, <1>7, <1>8 DEF NodeAt
<1>. QED
  BY <1>6, <1>9

(* A node that is made optional, or is so no more.                         *)
LEMMA NodeMarked ==
  ASSUME NEW n, NEW i, NEW b \in BOOLEAN, NodeAt(n, i)
  PROVE  NodeAt([n EXCEPT !.optional = b], i)
BY DEF NodeAt, OptionNodes

(* A group that gets the node before it as a child.                        *)
LEMMA NodeGrown ==
  ASSUME NEW n, NEW i \in Nat, NEW k \in Nat, i >= 1, k >= i, NEW b \in BOOLEAN, NodeAt(n, i), n.group
  PROVE  NodeAt([n EXCEPT !.kids = Append(@, k), !.optional = b], k + 1)
<1> DEFINE s == n.kids
           t == Append(s, k)
           m == [n EXCEPT !.kids = t, !.optional = b]
<1>1. s \in Seq(Nat) /\ ToSet(s) \subseteq 1 .. (i - 1)
  BY DEF NodeAt, OptionNodes
<1> HIDE DEF s
<1>2. t \in Seq(Nat) /\ ToSet(t) \subseteq ToSet(s) \cup {k}
  BY <1>1 DEF ToSet
<1>3. ToSet(t) \subseteq 1 .. k
  BY <1>1, <1>2
<1> HIDE DEF t
<1>4. m \in OptionNodes /\ m.kids = t /\ m.group = n.group /\ m.keys = n.keys
  BY <1>2 DEF NodeAt, OptionNodes
<1>5. n.keys = <<>>
  BY DEF NodeAt
<1>6. m = [n EXCEPT !.kids = Append(@, k), !.optional = b]
  BY DEF t, s
<1> HIDE DEF m
<1>7. (k + 1) - 1 = k
  OBVIOUS
<1>8. NodeAt(m, k + 1)
  BY <1>3, <1>4, <1>5, <1>7 DEF NodeAt
<1>. QED
  BY <1>6, <1>8

(* A tree of nodes, all of them but the last.                              *)
LEMMA TreeParts ==
  ASSUME NEW t, IsTree(t)
  PROVE  /\ t \in Seq(OptionNodes) /\ Len(t) \in Nat /\ Len(t) >= 1 /\ DOMAIN t = 1 .. Len(t)
         /\ \A i \in 1 .. Len(t) : NodeAt(t[i], i) /\ t[i] \in OptionNodes
         /\ Last(t) = t[Len(t)]
         /\ Front(t) \in Seq(OptionNodes) /\ Len(Front(t)) = Len(t) - 1
         /\ \A i \in 1 .. (Len(t) - 1) : Front(t)[i] = t[i]
<1>1. t \in Seq(OptionNodes) /\ t # <<>> /\ \A i \in DOMAIN t : NodeAt(t[i], i)
  BY TreeIs
<1>2. Len(t) \in Nat /\ Len(t) >= 1 /\ DOMAIN t = 1 .. Len(t)
  BY <1>1
<1>3. \A i \in 1 .. Len(t) : NodeAt(t[i], i) /\ t[i] \in OptionNodes
  BY <1>1, <1>2
<1>4. /\ Front(t) \in Seq(OptionNodes) /\ Len(Front(t)) = Len(t) - 1
      /\ \A i \in 1 .. (Len(t) - 1) : Front(t)[i] = t[i]
  BY <1>1, <1>2 DEF Front
<1>. QED
  BY <1>1, <1>2, <1>3, <1>4 DEF Last

(* A tree that is moved behind other nodes.                                *)
LEMMA ShiftIs ==
  ASSUME NEW t, IsTree(t), NEW k \in Nat
  PROVE  /\ Shift(t, k) \in Seq(OptionNodes) /\ Len(Shift(t, k)) = Len(t)
         /\ \A i \in 1 .. Len(t) : NodeAt(Shift(t, k)[i], i + k)
<1> DEFINE n == Len(t)
           s == Shift(t, k)
<1>1. n \in Nat /\ DOMAIN t = 1 .. n /\ \A i \in 1 .. n : NodeAt(t[i], i)
  BY TreeParts
<1> HIDE DEF n
<1>2. \A i \in 1 .. n : s[i] = [t[i] EXCEPT !.kids = [j \in DOMAIN @ |-> @[j] + k]]
  BY <1>1 DEF Shift
<1>3. \A i \in 1 .. n : NodeAt(s[i], i + k)
  <2> SUFFICES ASSUME NEW i \in 1 .. n PROVE NodeAt(s[i], i + k)
    OBVIOUS
  <2>1. i \in Nat /\ i >= 1 /\ NodeAt(t[i], i) /\ s[i] = [t[i] EXCEPT !.kids = [j \in DOMAIN @ |-> @[j] + k]]
    BY <1>1, <1>2
  <2> DEFINE x == t[i]
  <2>2. NodeAt([x EXCEPT !.kids = [j \in DOMAIN @ |-> @[j] + k]], i + k)
    <3>1. NodeAt(x, i)
      BY <2>1
    <3> HIDE DEF x
    <3>. QED
      BY <2>1, <3>1, NodeMoved
  <2>. QED
    BY <2>1, <2>2
<1>4. \A i \in 1 .. n : s[i] \in OptionNodes
  BY <1>3 DEF NodeAt
<1>5. s = [i \in 1 .. n |-> s[i]]
  BY <1>1 DEF Shift
<1>6. s \in Seq(OptionNodes) /\ Len(s) = n
  <2> HIDE DEF s
  <2>. QED
    BY <1>1, <1>4, <1>5
<1>. QED
  BY <1>3, <1>6 DEF n

(* A sequence after another.                                               *)
LEMMA Joined ==
  ASSUME NEW C, NEW u \in Seq(C), NEW v \in Seq(C), NEW k \in Nat, NEW m \in Nat, m >= 1, Len(u) = k, Len(v) = m
  PROVE  /\ u \o v \in Seq(C) /\ Len(u \o v) = k + m /\ Len(u \o v) \in Nat /\ Len(u \o v) >= k + 1
         /\ DOMAIN (u \o v) = 1 .. Len(u \o v)
         /\ \A i \in 1 .. k : (u \o v)[i] = u[i]
         /\ \A i \in k + 1 .. Len(u \o v) : (u \o v)[i] = v[i - k]
OBVIOUS

(* A group with one more child is a tree, its last node still a group.     *)
LEMMA AddChildIs ==
  ASSUME NEW t, NEW child, IsTree(t), IsTree(child), Last(t).group
  PROVE  IsTree(AddChild(t, child)) /\ Last(AddChild(t, child)).group
<1> DEFINE root  == Last(t)
           moved == root.exclusive /\ Last(child).optional
           front == Front(t)
           k     == Len(t) - 1
           s     == Shift(child, k)
           body  == front \o s
           kid   == Len(body)
           mark  == body[kid].optional /\ ~moved
           grown == root.optional \/ moved
           b     == [body EXCEPT ![kid].optional = @ /\ ~moved]
           r     == [root EXCEPT !.kids = Append(@, kid), !.optional = @ \/ moved]
           all   == Append(b, r)
<1>1. AddChild(t, child) = all
  BY DEF AddChild
<1>2. /\ k \in Nat /\ front \in Seq(OptionNodes) /\ Len(front) = k /\ Len(t) = k + 1
      /\ \A i \in 1 .. k : front[i] = t[i]
      /\ \A i \in 1 .. (k + 1) : NodeAt(t[i], i)
      /\ root = t[k + 1]
  BY TreeParts
<1>3. Len(child) \in Nat /\ Len(child) >= 1
  BY TreeParts
<1> DEFINE m == Len(child)
<1>4. /\ s \in Seq(OptionNodes) /\ Len(s) = m
      /\ \A i \in 1 .. m : NodeAt(s[i], i + k)
  <2> HIDE DEF k
  <2>. QED
    BY <1>2, ShiftIs
<1> HIDE DEF k, m, front, s, root
<1>5. /\ body \in Seq(OptionNodes) /\ kid = k + m /\ kid \in Nat /\ kid >= k + 1 /\ DOMAIN body = 1 .. kid
      /\ \A i \in 1 .. k : body[i] = front[i]
      /\ \A i \in k + 1 .. kid : body[i] = s[i - k]
  <2>1. m \in Nat /\ m >= 1
    BY <1>3 DEF m
  <2>2. k \in Nat /\ front \in Seq(OptionNodes) /\ Len(front) = k /\ s \in Seq(OptionNodes) /\ Len(s) = m
    BY <1>2, <1>4
  <2>. QED
    BY <2>1, <2>2, Joined
<1>6. ASSUME NEW i \in 1 .. kid PROVE NodeAt(body[i], i)
  <2>1. CASE i \in 1 .. k
    <3>1. body[i] = t[i] /\ i \in 1 .. (k + 1)
      BY <1>2, <1>5, <2>1
    <3>. QED
      BY <1>2, <3>1
  <2>2. CASE i \in k + 1 .. kid
    <3>1. i - k \in 1 .. m /\ (i - k) + k = i
      BY <1>2, <1>3, <1>5, <2>2 DEF m
    <3>2. body[i] = s[i - k] /\ NodeAt(s[i - k], (i - k) + k)
      BY <1>4, <1>5, <2>2, <3>1
    <3>. QED
      BY <3>1, <3>2
  <2>3. i \in 1 .. k \/ i \in k + 1 .. kid
    BY <1>2, <1>5
  <2>. QED
    BY <2>1, <2>2, <2>3
<1>7. NodeAt(root, k + 1) /\ root \in OptionNodes /\ root.group
  <2>1. k + 1 \in 1 .. (k + 1)
    BY <1>2
  <2>. QED
    BY <1>2, <2>1 DEF NodeAt, root
<1>8. moved \in BOOLEAN /\ grown \in BOOLEAN /\ mark \in BOOLEAN
  OBVIOUS
<1> HIDE DEF body, kid, moved
<1>9. b = [body EXCEPT ![kid] = [body[kid] EXCEPT !.optional = mark]]
  OBVIOUS
<1>10. r = [root EXCEPT !.kids = Append(@, kid), !.optional = grown]
  OBVIOUS
<1> DEFINE x == [body[kid] EXCEPT !.optional = mark]
<1>11. NodeAt(x, kid)
  <2> DEFINE y == body[kid]
  <2>1. NodeAt(y, kid)
    BY <1>2, <1>5, <1>6
  <2>2. \A q \in BOOLEAN : NodeAt([y EXCEPT !.optional = q], kid)
    <3> HIDE DEF y
    <3>. QED
      BY <2>1, NodeMarked
  <2>. QED
    BY <1>8, <2>2
<1>12. NodeAt(r, kid + 1) /\ r.group
  <2> HIDE DEF grown
  <2>1. NodeAt([root EXCEPT !.kids = Append(@, kid), !.optional = grown], kid + 1)
    <3>1. k + 1 \in Nat /\ k + 1 >= 1
      BY <1>2
    <3>. QED
      BY <1>5, <1>7, <1>8, <3>1, NodeGrown
  <2>2. r.group = root.group
    BY <1>7, <1>10 DEF OptionNodes
  <2>. QED
    BY <1>7, <1>10, <2>1, <2>2
<1> HIDE DEF x, r, mark, grown
<1>13. x \in OptionNodes /\ r \in OptionNodes
  BY <1>11, <1>12 DEF NodeAt
<1>14. /\ b \in Seq(OptionNodes) /\ Len(b) = kid /\ b[kid] = x
       /\ \A i \in 1 .. kid : i # kid => b[i] = body[i]
  <2>1. b = [body EXCEPT ![kid] = x]
    BY <1>9 DEF x
  <2>2. kid \in DOMAIN body /\ Len(body) = kid
    BY <1>2, <1>5 DEF kid
  <2> HIDE DEF b
  <2>. QED
    BY <1>5, <1>13, <2>1, <2>2
<1> HIDE DEF b
<1>15. /\ all \in Seq(OptionNodes) /\ Len(all) = kid + 1 /\ all[kid + 1] = r /\ DOMAIN all = 1 .. (kid + 1)
       /\ \A i \in 1 .. kid : all[i] = b[i]
  BY <1>5, <1>13, <1>14
<1>16. \A i \in DOMAIN all : NodeAt(all[i], i)
  <2> SUFFICES ASSUME NEW i \in DOMAIN all PROVE NodeAt(all[i], i)
    OBVIOUS
  <2>1. CASE i = kid + 1
    BY <1>12, <1>15, <2>1
  <2>2. CASE i # kid + 1
    <3>1. i \in 1 .. kid
      BY <1>5, <1>15, <2>2
    <3>2. all[i] = b[i]
      BY <1>15, <3>1
    <3>3. NodeAt(b[i], i)
      BY <1>6, <1>11, <1>14, <3>1
    <3>. QED
      BY <3>2, <3>3
  <2>. QED
    BY <2>1, <2>2
<1> HIDE DEF all
<1>17. all # <<>> /\ Last(all) = r
  <2>1. Len(<<>>) = 0
    OBVIOUS
  <2>. QED
    BY <1>5, <1>15, <2>1 DEF Last
<1>18. IsTree(all)
  BY <1>15, <1>16, <1>17, TreeIs
<1>. QED
  BY <1>1, <1>12, <1>17, <1>18

(* A node by itself, an option or a group that is empty.                   *)
LEMMA LeafIs ==
  ASSUME NEW n \in OptionNodes, n.kids = <<>>, n.group => n.keys = <<>>
  PROVE  IsTree(<<n>>) /\ Last(<<n>>) = n
<1> DEFINE t == <<n>>
<1>1. t \in Seq(OptionNodes) /\ Len(t) = 1 /\ DOMAIN t = {1} /\ t[1] = n /\ t # <<>>
  OBVIOUS
<1> HIDE DEF t
<1>2. NodeAt(n, 1)
  <2>1. ToSet(<<>>) = {}
    BY DEF ToSet
  <2>. QED
    BY <2>1 DEF NodeAt
<1>3. IsTree(t) /\ Last(t) = n
  BY <1>1, <1>2, TreeIs DEF Last
<1>. QED
  BY <1>3 DEF t

(* An option is a tree.                                                    *)
LEMMA OptionIs ==
  ASSUME NEW keys \in Seq(Seq(Nat)), NEW vals \in Seq(Values), NEW o \in BOOLEAN
  PROVE  IsTree(Option(keys, vals, o))
<1> DEFINE e == <<>>
           n == [group |-> FALSE, exclusive |-> FALSE, optional |-> o, kids |-> e, keys |-> keys, vals |-> vals]
<1>1. e \in Seq(Nat)
  OBVIOUS
<1>2. n \in OptionNodes /\ n.kids = e /\ ~n.group
  <2> HIDE DEF e
  <2>. QED
    BY <1>1 DEF OptionNodes
<1>3. Option(keys, vals, o) = <<n>>
  BY DEF Option
<1>4. IsTree(<<n>>)
  <2>1. n.kids = <<>>
    BY <1>2
  <2> HIDE DEF n
  <2>. QED
    BY <1>2, <2>1, LeafIs
<1>. QED
  BY <1>3, <1>4

(* An empty group is one.                                                  *)
LEMMA GroupIs ==
  ASSUME NEW x \in BOOLEAN
  PROVE  IsTree(Group(x)) /\ Last(Group(x)).group
<1> DEFINE e == <<>>
           n == [group |-> TRUE, exclusive |-> x, optional |-> FALSE, kids |-> e, keys |-> e, vals |-> e]
<1>1. e \in Seq(Nat) /\ e \in Seq(Seq(Nat)) /\ e \in Seq(Values)
  OBVIOUS
<1>2. n \in OptionNodes /\ n.kids = e /\ n.keys = e /\ n.group
  <2> HIDE DEF e
  <2>. QED
    BY <1>1 DEF OptionNodes
<1>3. Group(x) = <<n>>
  BY DEF Group
<1>4. IsTree(<<n>>) /\ Last(<<n>>) = n
  <2>1. n.kids = <<>> /\ n.keys = <<>>
    BY <1>2
  <2> HIDE DEF n
  <2>. QED
    BY <1>2, <2>1, LeafIs
<1>. QED
  BY <1>2, <1>3, <1>4

(* The trees that & and | make.                                            *)
LEMMA JoinedTrees ==
  ASSUME NEW t, NEW u, IsTree(t), IsTree(u)
  PROVE  IsTree(And(t, u)) /\ IsTree(Or(t, u))
<1>1. ASSUME NEW x \in BOOLEAN PROVE IsTree(AddChild(AddChild(Group(x), t), u))
  <2>1. IsTree(AddChild(Group(x), t)) /\ Last(AddChild(Group(x), t)).group
    BY GroupIs, AddChildIs
  <2>. QED
    BY <2>1, AddChildIs
<1>2. Last(t).group => IsTree(AddChild(t, u))
  BY AddChildIs
<1>. QED
  BY <1>1, <1>2 DEF And, Or

(* A tree stays one when it is made optional.                              *)
LEMMA MadeOptionalIs ==
  ASSUME NEW t, IsTree(t)
  PROVE  IsTree(MadeOptional(t))
<1> DEFINE n == Len(t)
           x == [t[n] EXCEPT !.optional = TRUE]
           u == [t EXCEPT ![n] = x]
<1>1. /\ t \in Seq(OptionNodes) /\ n \in Nat /\ n >= 1 /\ DOMAIN t = 1 .. n /\ n \in DOMAIN t
      /\ \A i \in 1 .. n : NodeAt(t[i], i)
  BY TreeParts
<1>2. NodeAt(x, n)
  <2> DEFINE y == t[n]
  <2>1. NodeAt(y, n)
    BY <1>1
  <2>2. NodeAt([y EXCEPT !.optional = TRUE], n)
    <3> HIDE DEF y, n
    <3>. QED
      BY <2>1, NodeMarked
  <2>. QED
    BY <2>2
<1>3. x \in OptionNodes
  BY <1>2 DEF NodeAt
<1>4. MadeOptional(t) = u
  BY DEF MadeOptional
<1> HIDE DEF x, n
<1>5. u \in Seq(OptionNodes) /\ Len(u) = Len(t) /\ u # <<>> /\ DOMAIN u = 1 .. n
  <2>1. Len(t) = n
    BY DEF n
  <2>. QED
    BY <1>1, <1>3, <2>1
<1>6. \A i \in DOMAIN u : NodeAt(u[i], i)
  BY <1>1, <1>2, <1>5
<1>7. IsTree(u)
  <2> HIDE DEF u
  <2>. QED
    BY <1>5, <1>6, TreeIs
<1>. QED
  BY <1>4, <1>7

(* The options of a command are one tree: the children added to a group.   *)
Trees == {t \in Seq(OptionNodes) : IsTree(t)}
Groups == {t \in Trees : Last(t).group}
AddStep == [tc \in Groups \X Trees |-> AddChild(tc[1], tc[2])]

(* The fold of add_child is the fold of that step.                         *)
LEMMA AddIsFold ==
  ASSUME NEW v, NEW s \in Seq(Trees), Foldable(Groups, Trees, AddStep, v)
  PROVE  FoldLeft(AddChild, v, s) = Fold(AddStep, v, s)
<1> DEFINE D == SUBSET (DOMAIN s)
           Solves(g) == g = [S \in D |-> IF S = {} THEN v ELSE AddChild(g[S \ {Max(S)}], s[Max(S)])]
           f == CHOOSE g : Solves(g)
<1>1. FoldLeft(AddChild, v, s) = f[DOMAIN s]
  BY DEF FoldLeft, MapThenFoldSet
<1>2. Len(s) \in Nat /\ DOMAIN s = 1 .. Len(s)
  OBVIOUS
<1>3. \A t \in Groups, x \in Trees : AddChild(t, x) = AddStep[<<t, x>>]
  BY DEF AddStep
<1>4. Solves(f)
  <2>1. PICK g : IsFoldIter(g, Groups, AddStep, v, s)
    BY FoldIter
  <2>2. ASSUME NEW S \in D, S # {} PROVE g[S] = AddChild(g[S \ {Max(S)}], s[Max(S)])
    <3>1. Max(S) \in 1 .. Len(s)
      <4>1. S \subseteq 0 .. Len(s)
        BY <1>2
      <4>. QED
        BY <1>2, <2>2, <4>1, MaxOf
    <3>2. g[S \ {Max(S)}] \in Groups /\ s[Max(S)] \in Trees
      BY <2>1, <3>1 DEF IsFoldIter
    <3>. QED
      BY <1>3, <2>1, <2>2, <3>2 DEF IsFoldIter
  <2>3. Solves(g)
    BY <2>1, <2>2 DEF IsFoldIter
  <2>4. \E g1 : Solves(g1)
    <3> HIDE DEF Solves
    <3>. QED
      BY <2>3
  <2>. QED
    <3> HIDE DEF Solves
    <3>. QED
      BY <2>4
<1> HIDE DEF f
<1>5. Follows(f, Groups, AddStep, v, s)
  <2>1. f[{}] = v
    BY <1>4
  <2>2. ASSUME NEW k \in 1 .. Len(s), f[1 .. (k - 1)] \in Groups
        PROVE  f[1 .. k] = AddStep[<<f[1 .. (k - 1)], s[k]>>]
    <3>1. 1 .. k \in D /\ 1 \in 1 .. k /\ s[k] \in Trees /\ k \in Nat /\ k # 0
      BY <1>2
    <3>2. Max(1 .. k) = k /\ (1 .. k) \ {Max(1 .. k)} = 1 .. (k - 1)
      BY <3>1, MaxOfInterval
    <3>3. f[1 .. k] = AddChild(f[1 .. (k - 1)], s[k])
      BY <1>4, <3>1, <3>2
    <3>. QED
      BY <1>3, <2>2, <3>1, <3>3
  <2>. QED
    BY <2>1, <2>2 DEF Follows
<1>6. f[DOMAIN s] = Fold(AddStep, v, s)
  BY <1>5, FoldOfIter
<1>. QED
  BY <1>1, <1>6

(* It is a tree whose last node is a group.                                *)
LEMMA AddedOptionsAre ==
  ASSUME NEW s \in Seq(Trees)
  PROVE  FoldLeft(AddChild, Group(FALSE), s) \in Groups
<1> DEFINE v == Group(FALSE)
<1>1. v \in Groups
  <2>1. IsTree(v) /\ Last(v).group
    BY GroupIs
  <2> HIDE DEF v
  <2>2. v \in Seq(OptionNodes)
    BY <2>1 DEF IsTree
  <2>. QED
    BY <2>1, <2>2 DEF Groups, Trees
<1>2. \A t \in Groups, u \in Trees : AddChild(t, u) \in Groups
  <2> SUFFICES ASSUME NEW t \in Groups, NEW u \in Trees PROVE AddChild(t, u) \in Groups
    OBVIOUS
  <2> DEFINE w == AddChild(t, u)
  <2>1. IsTree(w) /\ Last(w).group
    BY AddChildIs DEF Groups, Trees
  <2> HIDE DEF w
  <2>2. w \in Seq(OptionNodes)
    BY <2>1 DEF IsTree
  <2>3. w \in Groups
    BY <2>1, <2>2 DEF Groups, Trees
  <2>. QED
    BY <2>3 DEF w
<1> HIDE DEF v
<1>3. Foldable(Groups, Trees, AddStep, v)
  BY <1>1, <1>2 DEF Foldable, AddStep
<1>4. FoldLeft(AddChild, v, s) \in Groups
  BY <1>3, AddIsFold, FoldType
<1>. QED
  BY <1>4 DEF v

(* Whatever a program declares is a tree of options: an option is, joining *)
(* trees by & and | gives a tree, so does making one optional, and the     *)
(* options added to a command are one.                                     *)
THEOREM DeclaredTrees ==
  /\ \A keys \in Seq(Seq(Nat)), vals \in Seq(Values), o \in BOOLEAN : IsTree(Option(keys, vals, o))
  /\ \A t : IsTree(t) => IsTree(MadeOptional(t))
  /\ \A t, u : IsTree(t) /\ IsTree(u) => IsTree(And(t, u)) /\ IsTree(Or(t, u))
  /\ \A options, values, subcommands :
        options \in Seq(Trees) => IsTree(Command(options, values, subcommands).opts)
<1>1. ASSUME NEW options \in Seq(Trees), NEW values, NEW subcommands
      PROVE  IsTree(Command(options, values, subcommands).opts)
  <2>1. Command(options, values, subcommands).opts = FoldLeft(AddChild, Group(FALSE), options)
    BY DEF Command
  <2>2. FoldLeft(AddChild, Group(FALSE), options) \in Groups
    BY AddedOptionsAre
  <2>. QED
    BY <2>1, <2>2 DEF Groups, Trees
<1>. QED
  BY <1>1, OptionIs, MadeOptionalIs, JoinedTrees

=============================================================================
