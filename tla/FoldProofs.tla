----------------------------- MODULE FoldProofs -----------------------------
(***************************************************************************)
(* Induction over the naturals and over sequences in the form the provers  *)
(* can use, with sets in place of predicates, and what FoldLeft computes.  *)
(*                                                                         *)
(* The specifications fold operators.  A fact about a fold with an         *)
(* arbitrary operator cannot be instantiated, so the laws are proved for a *)
(* step that is a function, op \in [V \X C -> V], and a specification's    *)
(* fold is shown to be the Fold of such a function.                        *)
(***************************************************************************)
EXTENDS Integers, SequencesExt, SequenceTheorems, WellFoundedInduction, TLAPS

(* A set of naturals that is not empty has a least element.                *)
LEMMA LeastNat ==
  ASSUME NEW T, T \subseteq Nat, T # {}
  PROVE  \E x \in T : \A y \in T : x <= y
<1> DEFINE R == OpToRel(<, Nat)
<1>1. IsWellFoundedOn(R, Nat)
  BY NatLessThanWellFounded
<1>2. \A x, y \in Nat : <<x, y>> \in R <=> x < y
  BY DEF OpToRel
<1> HIDE DEF R
<1>3. PICK x \in T : \A y \in T : <<y, x>> \notin R
  BY <1>1, WFMin
<1>4. ASSUME NEW y \in T PROVE x <= y
  <2>1. x \in Nat /\ y \in Nat
    OBVIOUS
  <2>2. <<y, x>> \notin R
    BY <1>3
  <2>3. ~ (y < x)
    BY <1>2, <2>1, <2>2
  <2>. QED
    BY <2>1, <2>3
<1>. QED
  BY <1>4

(* Induction: a set with 0 and the successors of its members has every     *)
(* natural.                                                                *)
LEMMA NatInduct ==
  ASSUME NEW A, 0 \in A, \A n \in Nat : n \in A => n + 1 \in A
  PROVE  Nat \subseteq A
<1>1. SUFFICES ASSUME Nat \ A # {} PROVE FALSE
  OBVIOUS
<1>2. PICK n \in Nat \ A : \A y \in Nat \ A : n <= y
  BY <1>1, LeastNat, Zenon
<1>3. n - 1 \in Nat /\ n - 1 \in A
  BY <1>2
<1>. QED
  BY <1>2, <1>3

(* The same up to a bound.                                                 *)
LEMMA IntervalInduct ==
  ASSUME NEW n \in Nat, NEW A, 0 \in A, \A k \in 0 .. n - 1 : k \in A => k + 1 \in A
  PROVE  0 .. n \subseteq A
<1> DEFINE B == {k \in Nat : k <= n => k \in A}
<1>1. 0 \in B /\ \A k \in Nat : k \in B => k + 1 \in B
  OBVIOUS
<1> HIDE DEF B
<1>2. Nat \subseteq B
  BY <1>1, NatInduct
<1>. QED
  BY <1>2 DEF B

(* Induction over sequences, by what is appended to them.                  *)
LEMMA SeqInduct ==
  ASSUME NEW C, NEW A,
         <<>> \in A,
         \A s \in Seq(C), c \in C : s \in A => Append(s, c) \in A
  PROVE  Seq(C) \subseteq A
<1> DEFINE B == {n \in Nat : \A s \in Seq(C) : Len(s) = n => s \in A}
<1>1. 0 \in B
  OBVIOUS
<1>2. ASSUME NEW n \in Nat, n \in B PROVE n + 1 \in B
  <2> SUFFICES ASSUME NEW s \in Seq(C), Len(s) = n + 1 PROVE s \in A
    OBVIOUS
  <2>1. PICK t \in Seq(C), c \in C : s = Append(t, c)
    BY SequenceEmptyOrAppend
  <2>2. Len(t) = n
    BY <2>1
  <2>. QED
    BY <1>2, <2>1, <2>2
<1>3. Nat \subseteq B
  <2> HIDE DEF B
  <2>. QED
    BY <1>1, <1>2, NatInduct
<1>. QED
  BY <1>3

(* Max and Min of the finite sets of naturals.                             *)
LEMMA MaxOf ==
  ASSUME NEW n \in Nat, NEW S, S \subseteq 0 .. n, S # {}
  PROVE  Max(S) \in S /\ \A y \in S : Max(S) >= y
<1> DEFINE T == {k \in Nat : n - k \in S}
<1>1. T \subseteq Nat /\ T # {}
  <2>1. PICK x : x \in S
    OBVIOUS
  <2>2. n - x \in T
    BY <2>1
  <2>. QED
    BY <2>2
<1>2. PICK k \in T : \A j \in T : k <= j
  <2> HIDE DEF T
  <2>. QED
    BY <1>1, LeastNat
<1>3. n - k \in S /\ \A y \in S : n - k >= y
  <2>1. ASSUME NEW y \in S PROVE n - k >= y
    <3>1. n - y \in T
      OBVIOUS
    <3>2. k <= n - y
      BY <1>2, <3>1
    <3>3. y \in Int /\ k \in Int
      OBVIOUS
    <3>. QED
      BY <3>2, <3>3
  <2>. QED
    BY <1>2, <2>1
<1>. QED
  BY <1>3 DEF Max
(* The least of a set of naturals exists.                                  *)
LEMMA MinOf ==
  ASSUME NEW S, S \subseteq Nat, S # {}
  PROVE  Min(S) \in S /\ \A y \in S : Min(S) <= y
<1>1. \E x \in S : \A y \in S : x <= y
  BY LeastNat, Zenon
<1>. QED
  BY <1>1 DEF Min

-----------------------------------------------------------------------------
(* The recursion that MapThenFoldSet is made of, over the subsets of       *)
(* 1 .. n and with step i for the element i, has a solution.               *)
IsIter(g, V, base, n, step) ==
  /\ g \in [SUBSET (1 .. n) -> V]
  /\ \A S \in SUBSET (1 .. n) : g[S] = IF S = {} THEN base ELSE step[Max(S)][g[S \ {Max(S)}]]

(* A fixed number of given steps can be taken one after another.           *)
LEMMA IterExists ==
  ASSUME NEW V, NEW base \in V, NEW n \in Nat, NEW step \in [1 .. n -> [V -> V]]
  PROVE  \E g : IsIter(g, V, base, n, step)
<1> USE DEF IsIter
<1> DEFINE Solves(g, k) == IsIter(g, V, base, k, step)
           A == {k \in 0 .. n : \E g : Solves(g, k)}
<1>1. 0 \in A
  <2> DEFINE g == [S \in SUBSET (1 .. 0) |-> base]
  <2>1. Solves(g, 0)
    OBVIOUS
  <2>2. \E f : Solves(f, 0)
    <3> HIDE DEF Solves, g
    <3>. QED
      BY <2>1
  <2>. QED
    <3> HIDE DEF Solves
    <3>. QED
      BY <2>2
<1>2. ASSUME NEW k \in 0 .. n - 1, k \in A PROVE k + 1 \in A
  <2>1. PICK g : Solves(g, k)
    BY <1>2
  <2> DEFINE h == [S \in SUBSET (1 .. (k + 1)) |->
                     IF k + 1 \in S THEN step[k + 1][g[S \ {k + 1}]] ELSE g[S]]
  <2>2. \A S \in SUBSET (1 .. (k + 1)) : S \ {k + 1} \in SUBSET (1 .. k)
    OBVIOUS
  <2>3. h \in [SUBSET (1 .. (k + 1)) -> V]
    <3>1. ASSUME NEW S \in SUBSET (1 .. (k + 1)) PROVE h[S] \in V
      <4>1. CASE k + 1 \in S
        BY <2>1, <2>2, <4>1
      <4>2. CASE k + 1 \notin S
        <5>1. S \in SUBSET (1 .. k)
          BY <4>2
        <5>. QED
          BY <2>1, <4>2, <5>1
      <4>. QED
        BY <4>1, <4>2
    <3>. QED
      BY <3>1
  <2>4. ASSUME NEW S \in SUBSET (1 .. (k + 1)), S # {}
        PROVE  h[S] = step[Max(S)][h[S \ {Max(S)}]]
    <3>1. Max(S) \in S /\ \A y \in S : Max(S) >= y
      <4>1. S \subseteq 0 .. k + 1 /\ k + 1 \in Nat
        OBVIOUS
      <4>. QED
        BY <2>4, <4>1, MaxOf
    <3>a. Max(S) \in 1 .. (k + 1)
      BY <3>1
    <3>2. CASE k + 1 \in S
      <4>1. Max(S) = k + 1
        BY <3>1, <3>2, <3>a
      <4>2. h[S \ {k + 1}] = g[S \ {k + 1}]
        OBVIOUS
      <4>. QED
        BY <3>2, <4>1, <4>2
    <3>3. CASE k + 1 \notin S
      <4>1. S \in SUBSET (1 .. k)
        BY <3>3
      <4>2. h[S] = g[S] /\ h[S \ {Max(S)}] = g[S \ {Max(S)}]
        BY <3>3, <4>1
      <4>. QED
        BY <2>1, <2>4, <4>1, <4>2
    <3>. QED
      BY <3>2, <3>3
  <2>5. h[{}] = base
    BY <2>1
  <2>6. Solves(h, k + 1)
    <3> HIDE DEF h
    <3>. QED
      BY <2>3, <2>4, <2>5
  <2>. QED
    <3> HIDE DEF Solves
    <3>. QED
      BY <2>6
<1>3. 0 .. n \subseteq A
  <2> HIDE DEF A
  <2>. QED
    BY <1>1, <1>2, IntervalInduct
<1>4. n \in A
  <2> HIDE DEF A
  <2>. QED
    BY <1>3
<1>5. PICK g : Solves(g, n)
  <2> HIDE DEF Solves
  <2>. QED
    BY <1>4
<1>. QED
  BY <1>5

(* A fold whose step is a function.                                        *)
Fold(op, base, s) == FoldLeft(LAMBDA v, c : op[<<v, c>>], base, s)

(* It stays in V.                                                          *)
Foldable(V, C, op, base) == op \in [V \X C -> V] /\ base \in V

(* Both the fold of a function and that of an operator are solutions, at   *)
(* the domain of the sequence, of the recursion that is solved here.       *)
IsFoldIter(g, V, op, base, s) ==
  /\ g \in [SUBSET (DOMAIN s) -> V]
  /\ \A S \in SUBSET (DOMAIN s) : g[S] = IF S = {} THEN base ELSE op[<<g[S \ {Max(S)}], s[Max(S)]>>]

(* A fold's steps, as functions on the sets they are taken at.             *)
LEMMA FoldIter ==
  ASSUME NEW V, NEW C, NEW op, NEW base, Foldable(V, C, op, base), NEW s \in Seq(C)
  PROVE  \E g : IsFoldIter(g, V, op, base, s)
<1> DEFINE n == Len(s)
           step == [i \in 1 .. n |-> [v \in V |-> op[<<v, s[i]>>]]]
<1> USE DEF Foldable
<1>1. n \in Nat /\ DOMAIN s = 1 .. n
  OBVIOUS
<1>2. step \in [1 .. n -> [V -> V]]
  <2>1. \A i \in 1 .. n : s[i] \in C
    OBVIOUS
  <2>2. \A i \in 1 .. n : [v \in V |-> op[<<v, s[i]>>]] \in [V -> V]
    BY <2>1
  <2>. QED
    BY <2>2
<1>3. PICK g : IsIter(g, V, base, n, step)
  <2> HIDE DEF n, step
  <2>. QED
    BY <1>1, <1>2, IterExists
<1>4. ASSUME NEW S \in SUBSET (1 .. n), S # {}
      PROVE  g[S] = op[<<g[S \ {Max(S)}], s[Max(S)]>>]
  <2>1. Max(S) \in 1 .. n
    <3>1. S \subseteq 0 .. n
      OBVIOUS
    <3>. QED
      BY <1>1, <1>4, <3>1, MaxOf
  <2>2. g[S \ {Max(S)}] \in V
    BY <1>3 DEF IsIter
  <2>. QED
    BY <1>3, <1>4, <2>1, <2>2 DEF IsIter
<1>5. IsFoldIter(g, V, op, base, s)
  BY <1>1, <1>3, <1>4 DEF IsFoldIter, IsIter
<1>. QED
  BY <1>5

(* The recursion of MapThenFoldSet takes the greatest index off.           *)
LEMMA MaxOfInterval ==
  ASSUME NEW k \in Nat, k # 0
  PROVE  Max(1 .. k) = k /\ (1 .. k) \ {Max(1 .. k)} = 1 .. (k - 1)
<1>1. Max(1 .. k) = k
  <2>1. Max(1 .. k) \in 1 .. k /\ \A y \in 1 .. k : Max(1 .. k) >= y
    <3>1. 1 .. k \subseteq 0 .. k /\ 1 .. k # {}
      OBVIOUS
    <3>. QED
      BY <3>1, MaxOf
  <2>. QED
    BY <2>1
<1>. QED
  BY <1>1

(* What is asked of g: it need not be known to stay in V.                  *)
Follows(g, V, op, base, s) ==
  /\ g[{}] = base
  /\ \A k \in 1 .. Len(s) : g[1 .. (k - 1)] \in V => g[1 .. k] = op[<<g[1 .. (k - 1)], s[k]>>]

(* A function that follows the fold's steps ends in the fold.              *)
LEMMA FoldOfIter ==
  ASSUME NEW V, NEW C, NEW op, NEW base, Foldable(V, C, op, base), NEW s \in Seq(C),
         NEW g, Follows(g, V, op, base, s)
  PROVE  /\ g[DOMAIN s] = Fold(op, base, s)
         /\ \A k \in 0 .. Len(s) : g[1 .. k] \in V
<1> DEFINE D == SUBSET (DOMAIN s)
           Solves(h) == h = [S \in D |-> IF S = {} THEN base ELSE op[<<h[S \ {Max(S)}], s[Max(S)]>>]]
           f == CHOOSE h : Solves(h)
<1>0. Len(s) \in Nat /\ DOMAIN s = 1 .. Len(s)
  OBVIOUS
<1>1. Fold(op, base, s) = f[DOMAIN s]
  BY DEF Fold, FoldLeft, MapThenFoldSet
<1>b. op \in [V \X C -> V] /\ base \in V
  BY DEF Foldable
<1>2. Solves(f)
  <2>1. PICK h : IsFoldIter(h, V, op, base, s)
    BY FoldIter
  <2>2. Solves(h)
    BY <2>1 DEF IsFoldIter
  <2>3. \E h1 : Solves(h1)
    <3> HIDE DEF Solves
    <3>. QED
      BY <2>2
  <2>. QED
    <3> HIDE DEF Solves
    <3>. QED
      BY <2>3
<1> HIDE DEF f
<1>3. f[{}] = base
  BY <1>2
<1>4. ASSUME NEW k \in 1 .. Len(s) PROVE f[1 .. k] = op[<<f[1 .. (k - 1)], s[k]>>]
  <2>1. 1 .. k \in D /\ 1 \in 1 .. k
    BY <1>0
  <2>2. Max(1 .. k) = k /\ (1 .. k) \ {Max(1 .. k)} = 1 .. (k - 1)
    <3>1. k \in Nat /\ k # 0
      BY <1>0
    <3>. QED
      BY <3>1, MaxOfInterval
  <2>. QED
    BY <1>2, <2>1, <2>2
<1> DEFINE A == {k \in 0 .. Len(s) : g[1 .. k] = f[1 .. k] /\ g[1 .. k] \in V}
<1>5. 0 \in A
  <2>1. 1 .. 0 = {}
    OBVIOUS
  <2>2. g[1 .. 0] = f[1 .. 0] /\ g[1 .. 0] \in V
    BY <1>3, <1>b, <2>1 DEF Follows
  <2>. QED
    BY <1>0, <2>2
<1>6. ASSUME NEW k \in 0 .. Len(s) - 1, k \in A PROVE k + 1 \in A
  <2>1. k + 1 \in 1 .. Len(s) /\ (k + 1) - 1 = k /\ s[k + 1] \in C
    BY <1>0
  <2>2. g[1 .. k] \in V /\ g[1 .. k] = f[1 .. k]
    BY <1>6
  <2>3. g[1 .. (k + 1)] = op[<<g[1 .. k], s[k + 1]>>]
    BY <2>1, <2>2 DEF Follows
  <2>4. f[1 .. (k + 1)] = op[<<f[1 .. k], s[k + 1]>>]
    BY <1>4, <2>1
  <2>5. op[<<g[1 .. k], s[k + 1]>>] \in V
    BY <1>b, <2>1, <2>2
  <2>. QED
    BY <2>1, <2>2, <2>3, <2>4, <2>5
<1>7. 0 .. Len(s) \subseteq A
  <2> HIDE DEF A
  <2>. QED
    BY <1>0, <1>5, <1>6, IntervalInduct
<1>8. \A k \in 0 .. Len(s) : g[1 .. k] = f[1 .. k] /\ g[1 .. k] \in V
  BY <1>7
<1>9. g[DOMAIN s] = f[DOMAIN s]
  BY <1>0, <1>8
<1>. QED
  BY <1>1, <1>8, <1>9

(* Such a function exists, by the library's recursion theorem.             *)
LEMMA FoldFollows ==
  ASSUME NEW V, NEW C, NEW op, NEW base, Foldable(V, C, op, base), NEW s \in Seq(C)
  PROVE  \E g : Follows(g, V, op, base, s)
<1>1. PICK g : IsFoldIter(g, V, op, base, s)
  BY FoldIter
<1>2. Len(s) \in Nat /\ DOMAIN s = 1 .. Len(s)
  OBVIOUS
<1>3. ASSUME NEW k \in 1 .. Len(s) PROVE g[1 .. k] = op[<<g[1 .. (k - 1)], s[k]>>]
  <2>1. 1 .. k \in SUBSET (DOMAIN s) /\ 1 \in 1 .. k
    BY <1>2
  <2>2. Max(1 .. k) = k /\ (1 .. k) \ {Max(1 .. k)} = 1 .. (k - 1)
    <3>1. k \in Nat /\ k # 0
      BY <1>2
    <3>. QED
      BY <3>1, MaxOfInterval
  <2>. QED
    BY <1>1, <2>1, <2>2 DEF IsFoldIter
<1>4. Follows(g, V, op, base, s)
  BY <1>1, <1>3 DEF IsFoldIter, Follows
<1>. QED
  BY <1>4

(* The laws of a fold: its type, its value for the empty sequence, for one *)
(* with a further element and for one with a further sequence.             *)
LEMMA FoldType ==
  ASSUME NEW V, NEW C, NEW op, NEW base, Foldable(V, C, op, base), NEW s \in Seq(C)
  PROVE  Fold(op, base, s) \in V
<1>1. PICK g : Follows(g, V, op, base, s)
  BY FoldFollows
<1>2. g[DOMAIN s] = Fold(op, base, s) /\ \A k \in 0 .. Len(s) : g[1 .. k] \in V
  BY <1>1, FoldOfIter
<1>3. Len(s) \in 0 .. Len(s) /\ DOMAIN s = 1 .. Len(s)
  OBVIOUS
<1>. QED
  BY <1>2, <1>3

(* The fold over nothing is the base.                                      *)
LEMMA FoldEmpty ==
  ASSUME NEW V, NEW C, NEW op, NEW base, Foldable(V, C, op, base)
  PROVE  Fold(op, base, <<>>) = base
<1> DEFINE e == <<>>
<1>1. e \in Seq(C)
  OBVIOUS
<1>2. DOMAIN e = {}
  OBVIOUS
<1> HIDE DEF e
<1>3. PICK g : Follows(g, V, op, base, e)
  BY <1>1, FoldFollows
<1>4. g[DOMAIN e] = Fold(op, base, e)
  BY <1>1, <1>3, FoldOfIter
<1>. QED
  BY <1>2, <1>3, <1>4 DEF Follows, e

(* The fold over one element more is one step more.                        *)
LEMMA FoldAppend ==
  ASSUME NEW V, NEW C, NEW op, NEW base, Foldable(V, C, op, base), NEW s \in Seq(C), NEW c \in C
  PROVE  Fold(op, base, Append(s, c)) = op[<<Fold(op, base, s), c>>]
<1> DEFINE t == Append(s, c)
           n == Len(s)
<1>1. /\ n \in Nat /\ DOMAIN s = 1 .. n
      /\ t \in Seq(C) /\ Len(t) = n + 1 /\ DOMAIN t = 1 .. (n + 1)
      /\ t[n + 1] = c /\ \A k \in 1 .. n : t[k] = s[k]
  OBVIOUS
<1> HIDE DEF t, n
<1>2. PICK g : Follows(g, V, op, base, t)
  BY <1>1, FoldFollows
<1>3. Follows(g, V, op, base, s)
  <2>1. n = Len(s)
    BY DEF n
  <2>. QED
    BY <1>1, <1>2, <2>1 DEF Follows
<1>4. g[1 .. n] = Fold(op, base, s) /\ g[1 .. n] \in V
  <2>1. n = Len(s) /\ n \in 0 .. n
    BY <1>1 DEF n
  <2>2. g[DOMAIN s] = Fold(op, base, s) /\ \A k \in 0 .. Len(s) : g[1 .. k] \in V
    BY <1>3, FoldOfIter
  <2>. QED
    BY <1>1, <2>1, <2>2
<1>5. g[1 .. (n + 1)] = Fold(op, base, t)
  <2>1. g[DOMAIN t] = Fold(op, base, t)
    BY <1>1, <1>2, FoldOfIter
  <2>. QED
    BY <1>1, <2>1
<1>6. g[1 .. (n + 1)] = op[<<g[1 .. n], t[n + 1]>>]
  <2>1. n + 1 \in 1 .. Len(t) /\ (n + 1) - 1 = n
    BY <1>1
  <2>. QED
    BY <1>2, <1>4, <2>1 DEF Follows
<1>. QED
  BY <1>1, <1>4, <1>5, <1>6 DEF t

(* The fold over two sequences in a row is the second's, from the first's. *)
LEMMA FoldConcat ==
  ASSUME NEW V, NEW C, NEW op, NEW base, Foldable(V, C, op, base), NEW s \in Seq(C), NEW t \in Seq(C)
  PROVE  Fold(op, base, s \o t) = Fold(op, Fold(op, base, s), t)
<1> DEFINE b == Fold(op, base, s)
           A == {u \in Seq(C) : Fold(op, base, s \o u) = Fold(op, b, u)}
<1>0. Foldable(V, C, op, b)
  BY FoldType DEF Foldable
<1> HIDE DEF b
<1>1. <<>> \in A
  <2>1. s \o <<>> = s /\ <<>> \in Seq(C)
    OBVIOUS
  <2>2. Fold(op, b, <<>>) = b
    BY <1>0, FoldEmpty
  <2>. QED
    BY <2>1, <2>2 DEF b
<1>2. ASSUME NEW u \in Seq(C), NEW c \in C, u \in A PROVE Append(u, c) \in A
  <2>1. s \o Append(u, c) = Append(s \o u, c) /\ s \o u \in Seq(C) /\ Append(u, c) \in Seq(C)
    OBVIOUS
  <2>2. Fold(op, base, Append(s \o u, c)) = op[<<Fold(op, base, s \o u), c>>]
    <3> DEFINE w == s \o u
    <3>1. w \in Seq(C)
      BY <2>1
    <3> HIDE DEF w
    <3>2. Fold(op, base, Append(w, c)) = op[<<Fold(op, base, w), c>>]
      BY <3>1, FoldAppend
    <3>. QED
      BY <3>2 DEF w
  <2>3. Fold(op, b, Append(u, c)) = op[<<Fold(op, b, u), c>>]
    BY <1>0, FoldAppend
  <2>. QED
    BY <1>2, <2>1, <2>2, <2>3
<1>3. Seq(C) \subseteq A
  <2> HIDE DEF A
  <2>. QED
    BY <1>1, <1>2, SeqInduct
<1>. QED
  BY <1>3 DEF b

=============================================================================
