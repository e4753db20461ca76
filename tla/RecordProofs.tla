---------------------------- MODULE RecordProofs ----------------------------
(***************************************************************************)
(* Proofs about Record, for every set of variables and entries, every      *)
(* hash, and every size of a table and of the memory: the invariant, and   *)
(* that the record implements EntryList.  The sequences come first, then   *)
(* one record and what the operations make of it, then the blocks and the  *)
(* variables, then the calls.                                              *)
(***************************************************************************)
EXTENDS Record, FoldProofs, FiniteSetTheorems

-----------------------------------------------------------------------------
(* Only is a fold: what stays of a sequence of members of C.               *)
OnlyStep(C, S) == [tx \in Seq(C) \X C |-> IF tx[2] \in S THEN Append(tx[1], tx[2]) ELSE tx[1]]

(* Only's step stays within sequences.                                     *)
LEMMA OnlyFoldable ==
  ASSUME NEW C, NEW S, NEW t \in Seq(C)
  PROVE  Foldable(Seq(C), C, OnlyStep(C, S), t)
BY DEF Foldable, OnlyStep

(* Only is the fold of that step.                                          *)
LEMMA OnlyIsFold ==
  ASSUME NEW C, NEW K, NEW s \in Seq(C)
  PROVE  Only(s, K) = Fold(OnlyStep(C, K), <<>>, s)
<1> DEFINE v == <<>>
           n == Len(s)
           Turn(t, x) == IF x \in K THEN Append(t, x) ELSE t
           Solves(h) == h = [i \in 0 .. n |-> IF i = 0 THEN v
                                              ELSE IF s[i] \in K THEN Append(h[i - 1], s[i]) ELSE h[i - 1]]
           f == CHOOSE h : Solves(h)
<1>a. v \in Seq(C)
  OBVIOUS
<1>0. Foldable(Seq(C), C, OnlyStep(C, K), v)
  BY <1>a, OnlyFoldable
<1>1. Only(s, K) = f[n]
  BY DEF Only
<1> HIDE DEF v
<1>2. n \in Nat /\ DOMAIN s = 1 .. n /\ \A k \in 1 .. n : s[k] \in C
  OBVIOUS
<1>3. \A t \in Seq(C), x \in C : Turn(t, x) = OnlyStep(C, K)[<<t, x>>]
  BY DEF OnlyStep
<1>4. PICK g : IsFoldIter(g, Seq(C), OnlyStep(C, K), v, s)
  BY <1>0, FoldIter
<1> HIDE DEF n
<1>5. ASSUME NEW k \in 1 .. n
      PROVE  /\ g[1 .. (k - 1)] \in Seq(C)
             /\ g[1 .. k] = OnlyStep(C, K)[<<g[1 .. (k - 1)], s[k]>>]
  <2>1. 1 .. k \in SUBSET (DOMAIN s) /\ 1 .. (k - 1) \in SUBSET (DOMAIN s) /\ k \in Nat /\ k # 0
    BY <1>2
  <2>2. Max(1 .. k) = k /\ (1 .. k) \ {Max(1 .. k)} = 1 .. (k - 1)
    BY <2>1, MaxOfInterval
  <2>3. 1 .. k # {}
    BY <2>1
  <2>. QED
    BY <1>4, <2>1, <2>2, <2>3 DEF IsFoldIter
<1>6. Follows(g, Seq(C), OnlyStep(C, K), v, s)
  BY <1>4, <1>5 DEF Follows, IsFoldIter, n
<1>7. g[1 .. n] = Fold(OnlyStep(C, K), v, s)
  BY <1>0, <1>2, <1>6, FoldOfIter
<1>8. Solves(f)
  <2> DEFINE h == [i \in 0 .. n |-> g[1 .. i]]
  <2>1. h[0] = v
    <3>1. 1 .. 0 = {} /\ {} \in SUBSET (DOMAIN s) /\ 0 \in 0 .. n
      BY <1>2
    <3>. QED
      BY <1>4, <3>1 DEF IsFoldIter
  <2>2. ASSUME NEW k \in 1 .. n PROVE h[k] = Turn(h[k - 1], s[k])
    <3>1. k \in 0 .. n /\ k - 1 \in 0 .. n
      BY <1>2
    <3>2. h[k] = g[1 .. k] /\ h[k - 1] = g[1 .. (k - 1)]
      BY <3>1
    <3>. QED
      BY <1>2, <1>3, <1>5, <3>2
  <2>3. h = [i \in 0 .. n |-> h[i]] /\ \A i \in 0 .. n : i # 0 => i \in 1 .. n
    BY <1>2
  <2> HIDE DEF h
  <2>4. Solves(h)
    BY <2>1, <2>2, <2>3
  <2>. QED
    <3> HIDE DEF Solves
    <3>. QED
      BY <2>4
<1> HIDE DEF f
<1>9. \A i \in 0 .. n : f[i] = g[1 .. i]
  <2> DEFINE A == {i \in 0 .. n : f[i] = g[1 .. i]}
  <2>1. 0 \in A
    <3>1. 1 .. 0 = {} /\ {} \in SUBSET (DOMAIN s) /\ 0 \in 0 .. n
      BY <1>2
    <3>. QED
      BY <1>4, <1>8, <3>1 DEF IsFoldIter
  <2>2. ASSUME NEW k \in 0 .. n - 1, k \in A PROVE k + 1 \in A
    <3>1. k + 1 \in 1 .. n /\ k + 1 \in 0 .. n /\ (k + 1) - 1 = k /\ k + 1 # 0
      BY <1>2
    <3>2. g[1 .. (k + 1)] = Turn(g[1 .. k], s[k + 1])
      <4>1. ASSUME NEW j \in 1 .. n PROVE g[1 .. j] = Turn(g[1 .. (j - 1)], s[j])
        <5>1. s[j] \in C /\ g[1 .. (j - 1)] \in Seq(C)
          BY <1>2, <1>5
        <5> HIDE DEF Turn
        <5>. QED
          BY <1>3, <1>5, <5>1
      <4> HIDE DEF Turn
      <4>2. g[1 .. (k + 1)] = Turn(g[1 .. ((k + 1) - 1)], s[k + 1])
        BY <3>1, <4>1
      <4>. QED
        BY <3>1, <4>2
    <3>3. f[k + 1] = Turn(f[k], s[k + 1])
      BY <1>8, <3>1
    <3>. QED
      BY <2>2, <3>1, <3>2, <3>3
  <2> HIDE DEF A
  <2>3. 0 .. n \subseteq A
    BY <1>2, <2>1, <2>2, IntervalInduct
  <2>. QED
    BY <2>3 DEF A
<1>. QED
  BY <1>1, <1>2, <1>7, <1>9 DEF v

(* The laws of Only: its type, nothing, and one member more.               *)
LEMMA OnlyType ==
  ASSUME NEW C, NEW K, NEW s \in Seq(C)
  PROVE  Only(s, K) \in Seq(C)
<1>0. <<>> \in Seq(C)
  OBVIOUS
<1>1. Foldable(Seq(C), C, OnlyStep(C, K), <<>>)
  BY <1>0, OnlyFoldable
<1>. QED
  BY <1>1, OnlyIsFold, FoldType

(* Of nothing, nothing is left.                                            *)
LEMMA OnlyEmpty ==
  ASSUME NEW K
  PROVE  Only(<<>>, K) = <<>>
<1> DEFINE C == {}
<1>1. <<>> \in Seq(C)
  OBVIOUS
<1>2. Foldable(Seq(C), C, OnlyStep(C, K), <<>>)
  BY <1>1, OnlyFoldable
<1> HIDE DEF C
<1>3. Only(<<>>, K) = Fold(OnlyStep(C, K), <<>>, <<>>)
  BY <1>1, OnlyIsFold
<1>. QED
  BY <1>2, <1>3, FoldEmpty

(* A further element stays if it is in the set.                            *)
LEMMA OnlyAppend ==
  ASSUME NEW C, NEW K, NEW s \in Seq(C), NEW x \in C
  PROVE  /\ x \in K => Only(Append(s, x), K) = Append(Only(s, K), x)
         /\ x \notin K => Only(Append(s, x), K) = Only(s, K)
<1>0. <<>> \in Seq(C) /\ Append(s, x) \in Seq(C)
  OBVIOUS
<1>1. Foldable(Seq(C), C, OnlyStep(C, K), <<>>) /\ Append(s, x) \in Seq(C)
  BY <1>0, OnlyFoldable
<1>2. /\ Only(s, K) = Fold(OnlyStep(C, K), <<>>, s)
      /\ Only(Append(s, x), K) = Fold(OnlyStep(C, K), <<>>, Append(s, x))
  BY <1>1, OnlyIsFold
<1>3. Only(Append(s, x), K) = OnlyStep(C, K)[<<Only(s, K), x>>]
  BY <1>1, <1>2, FoldAppend
<1>. QED
  BY <1>3, OnlyType DEF OnlyStep
-----------------------------------------------------------------------------
(* What sequences are made of.                                             *)
LEMMA SetOf ==
  ASSUME NEW C, NEW s \in Seq(C)
  PROVE  /\ ToSet(s) \subseteq C /\ ToSet(<<>>) = {}
         /\ \A x \in C : ToSet(Append(s, x)) = ToSet(s) \union {x}
         /\ \A i \in 1 .. Len(s) : s[i] \in ToSet(s)
         /\ \A x \in ToSet(s) : \E i \in 1 .. Len(s) : s[i] = x
<1>1. ToSet(s) \subseteq C /\ ToSet(<<>>) = {} /\ Len(s) \in Nat /\ DOMAIN s = 1 .. Len(s)
  BY DEF ToSet
<1>2. ASSUME NEW x \in C PROVE ToSet(Append(s, x)) = ToSet(s) \union {x}
  <2> DEFINE t == Append(s, x)
  <2>1. /\ DOMAIN t = 1 .. Len(s) + 1 /\ t[Len(s) + 1] = x
        /\ \A i \in 1 .. Len(s) : t[i] = s[i]
    OBVIOUS
  <2> HIDE DEF t
  <2>2. \A i \in DOMAIN t : i \in DOMAIN s \/ i = Len(s) + 1
    BY <1>1, <2>1
  <2>3. DOMAIN s \subseteq DOMAIN t /\ Len(s) + 1 \in DOMAIN t
    BY <1>1, <2>1
  <2>4. ToSet(t) = ToSet(s) \union {x}
    BY <1>1, <2>1, <2>2, <2>3 DEF ToSet
  <2>. QED
    BY <2>4 DEF t
<1>3. /\ \A i \in 1 .. Len(s) : s[i] \in ToSet(s)
      /\ \A x \in ToSet(s) : \E i \in 1 .. Len(s) : s[i] = x
  BY <1>1 DEF ToSet
<1>. QED
  BY <1>1, <1>2, <1>3

(* Two texts in a row, and one element more.                               *)
LEMMA JoinFacts ==
  ASSUME NEW C, NEW s \in Seq(C), NEW t \in Seq(C), NEW x \in C
  PROVE  /\ s \o t \in Seq(C) /\ Append(t, x) \in Seq(C) /\ Append(s, x) \in Seq(C) /\ <<x>> \in Seq(C)
         /\ s \o Append(t, x) = Append(s \o t, x)
         /\ s \o <<>> = s /\ <<>> \o s = s /\ Append(s, x) = s \o <<x>>
OBVIOUS

(* Sequences of one length that agree everywhere are equal.                *)
LEMMA SameSeq ==
  ASSUME NEW C, NEW s \in Seq(C), NEW t \in Seq(C), Len(s) = Len(t), \A i \in 1 .. Len(s) : s[i] = t[i]
  PROVE  s = t
OBVIOUS

(* A sequence turned round.                                                *)
LEMMA ReverseIs ==
  ASSUME NEW C, NEW s \in Seq(C)
  PROVE  /\ Reverse(s) \in Seq(C) /\ Len(Reverse(s)) = Len(s) /\ Len(s) \in Nat
         /\ \A i \in 1 .. Len(s) : Reverse(s)[i] = s[(Len(s) - i) + 1]
         /\ ToSet(Reverse(s)) = ToSet(s)
<1>1. Len(s) \in Nat /\ \A i \in 1 .. Len(s) : (Len(s) - i) + 1 \in 1 .. Len(s) /\ s[i] \in C
  OBVIOUS
<1>2. \A i \in 1 .. Len(s) : s[(Len(s) - i) + 1] \in C
  BY <1>1
<1>3. /\ Reverse(s) \in Seq(C) /\ Len(Reverse(s)) = Len(s) /\ DOMAIN Reverse(s) = 1 .. Len(s)
      /\ \A i \in 1 .. Len(s) : Reverse(s)[i] = s[(Len(s) - i) + 1]
  BY <1>1, <1>2 DEF Reverse
<1>4. ASSUME NEW i \in 1 .. Len(s) PROVE \E j \in 1 .. Len(s) : Reverse(s)[j] = s[i]
  <2>1. (Len(s) - i) + 1 \in 1 .. Len(s) /\ (Len(s) - ((Len(s) - i) + 1)) + 1 = i
    BY <1>1
  <2>. QED
    BY <1>3, <2>1
<1>5. DOMAIN s = 1 .. Len(s)
  OBVIOUS
<1>6. ToSet(Reverse(s)) = ToSet(s)
  <2> DEFINE r == Reverse(s)
  <2>1. DOMAIN r = 1 .. Len(s) /\ \A i \in 1 .. Len(s) : r[i] \in ToSet(s)
    BY <1>1, <1>3, <1>5 DEF ToSet
  <2>2. \A x \in ToSet(s) : \E j \in DOMAIN r : r[j] = x
    <3>1. ASSUME NEW x \in ToSet(s) PROVE \E j \in DOMAIN r : r[j] = x
      <4>1. PICK i \in 1 .. Len(s) : s[i] = x
        BY <1>5 DEF ToSet
      <4>. QED
        BY <1>3, <1>4, <4>1
    <3>. QED
      BY <3>1
  <2> HIDE DEF r
  <2>3. ToSet(r) = ToSet(s)
    BY <2>1, <2>2 DEF ToSet
  <2>. QED
    BY <2>3 DEF r
<1>. QED
  BY <1>1, <1>3, <1>6

(* The last element comes first.                                           *)
LEMMA ReverseAppend ==
  ASSUME NEW C, NEW s \in Seq(C), NEW x \in C
  PROVE  Reverse(Append(s, x)) = <<x>> \o Reverse(s)
<1> DEFINE t == Append(s, x)
           a == Reverse(t)
           r == Reverse(s)
           b == <<x>> \o r
<1>1. /\ t \in Seq(C) /\ Len(t) = Len(s) + 1 /\ t[Len(s) + 1] = x /\ Len(s) \in Nat
      /\ \A i \in 1 .. Len(s) : t[i] = s[i]
  OBVIOUS
<1>2. /\ r \in Seq(C) /\ Len(r) = Len(s)
      /\ \A i \in 1 .. Len(s) : r[i] = s[(Len(s) - i) + 1]
  BY ReverseIs
<1> HIDE DEF t
<1>3. /\ a \in Seq(C) /\ Len(a) = Len(t)
      /\ \A i \in 1 .. Len(t) : a[i] = t[(Len(t) - i) + 1]
  BY <1>1, ReverseIs
<1> HIDE DEF a, r
<1>4. b \in Seq(C) /\ Len(b) = Len(s) + 1 /\ b[1] = x /\ \A i \in 2 .. Len(s) + 1 : b[i] = r[i - 1]
  BY <1>1, <1>2
<1> HIDE DEF b
<1>5. a[1] = x
  BY <1>1, <1>3
<1>6. ASSUME NEW i \in 2 .. Len(s) + 1 PROVE a[i] = b[i]
  <2>1. i - 1 \in 1 .. Len(s) /\ (Len(s) + 1 - i) + 1 \in 1 .. Len(s) /\ i \in 1 .. Len(s) + 1
    BY <1>1
  <2>2. (Len(s) + 1 - i) + 1 = (Len(s) - (i - 1)) + 1
    BY <1>1
  <2>3. a[i] = t[(Len(s) + 1 - i) + 1]
    BY <1>1, <1>3, <2>1
  <2>4. b[i] = s[(Len(s) - (i - 1)) + 1]
    BY <1>2, <1>4, <2>1
  <2>. QED
    BY <1>1, <2>1, <2>2, <2>3, <2>4
<1>7. Len(a) = Len(b) /\ \A i \in 1 .. Len(a) : a[i] = b[i]
  BY <1>1, <1>3, <1>4, <1>5, <1>6
<1>8. a = b
  BY <1>3, <1>4, <1>7, SameSeq
<1>. QED
  BY <1>8 DEF a, b, t, r
-----------------------------------------------------------------------------
(* What is left of two sequences in a row.                                 *)
LEMMA OnlyConcat ==
  ASSUME NEW C, NEW K, NEW s \in Seq(C), NEW t \in Seq(C)
  PROVE  Only(s \o t, K) = Only(s, K) \o Only(t, K)
<1> DEFINE A == {u \in Seq(C) : Only(s \o u, K) = Only(s, K) \o Only(u, K)}
<1>1. <<>> \in A
  <2>1. <<>> \in Seq(C) /\ s \o <<>> = s
    OBVIOUS
  <2>2. Only(s, K) \in Seq(C) /\ Only(<<>>, K) = <<>>
    BY OnlyType, OnlyEmpty
  <2>. QED
    BY <2>1, <2>2
<1>2. ASSUME NEW u \in Seq(C), NEW x \in C, u \in A PROVE Append(u, x) \in A
  <2> DEFINE w == s \o u
             a == Only(s, K)
             b == Only(u, K)
  <2>1. w \in Seq(C) /\ Append(u, x) \in Seq(C) /\ s \o Append(u, x) = Append(w, x)
    BY JoinFacts
  <2>2. Only(w, K) = a \o b /\ a \in Seq(C) /\ b \in Seq(C)
    BY <1>2, OnlyType
  <2> HIDE DEF w, a, b
  <2>3. /\ x \in K => Only(Append(w, x), K) = Append(Only(w, K), x)
        /\ x \notin K => Only(Append(w, x), K) = Only(w, K)
    BY <2>1, OnlyAppend
  <2>4. /\ x \in K => Only(Append(u, x), K) = Append(b, x)
        /\ x \notin K => Only(Append(u, x), K) = b
    BY OnlyAppend DEF b
  <2>5. a \o Append(b, x) = Append(a \o b, x)
    BY <2>2, JoinFacts
  <2>6. Only(s \o Append(u, x), K) = a \o Only(Append(u, x), K)
    BY <2>1, <2>2, <2>3, <2>4, <2>5
  <2>. QED
    BY <2>1, <2>6 DEF a
<1>3. Seq(C) \subseteq A
  <2> HIDE DEF A
  <2>. QED
    BY <1>1, <1>2, SeqInduct
<1>. QED
  BY <1>3

(* The elements that are left.                                             *)
LEMMA OnlySet ==
  ASSUME NEW C, NEW K, NEW s \in Seq(C)
  PROVE  ToSet(Only(s, K)) = ToSet(s) \intersect K
<1> DEFINE A == {u \in Seq(C) : ToSet(Only(u, K)) = ToSet(u) \intersect K}
<1>1. <<>> \in A
  <2>1. <<>> \in Seq(C) /\ ToSet(<<>>) = {}
    BY DEF ToSet
  <2>. QED
    BY <2>1, OnlyEmpty
<1>2. ASSUME NEW u \in Seq(C), NEW x \in C, u \in A PROVE Append(u, x) \in A
  <2>1. Append(u, x) \in Seq(C) /\ Only(u, K) \in Seq(C) /\ ToSet(Only(u, K)) = ToSet(u) \intersect K
    BY <1>2, OnlyType
  <2>2. ToSet(Append(u, x)) = ToSet(u) \union {x}
    BY SetOf
  <2>3. ToSet(Append(Only(u, K), x)) = ToSet(Only(u, K)) \union {x}
    BY <2>1, SetOf
  <2>4. /\ x \in K => Only(Append(u, x), K) = Append(Only(u, K), x)
        /\ x \notin K => Only(Append(u, x), K) = Only(u, K)
    BY OnlyAppend
  <2>5. ToSet(Only(Append(u, x), K)) = ToSet(Append(u, x)) \intersect K
    BY <2>1, <2>2, <2>3, <2>4
  <2>. QED
    BY <2>1, <2>5
<1>3. Seq(C) \subseteq A
  <2> HIDE DEF A
  <2>. QED
    BY <1>1, <1>2, SeqInduct
<1>. QED
  BY <1>3

(* Sets that agree on the elements of a sequence leave the same of it.     *)
LEMMA OnlySame ==
  ASSUME NEW C, NEW K, NEW J, NEW s \in Seq(C), \A x \in ToSet(s) : x \in K <=> x \in J
  PROVE  Only(s, K) = Only(s, J)
<1> DEFINE A == {u \in Seq(C) : (\A x \in ToSet(u) : x \in K <=> x \in J) => Only(u, K) = Only(u, J)}
<1>1. <<>> \in A
  BY OnlyEmpty
<1>2. ASSUME NEW u \in Seq(C), NEW x \in C, u \in A PROVE Append(u, x) \in A
  <2>1. Append(u, x) \in Seq(C) /\ ToSet(Append(u, x)) = ToSet(u) \union {x}
    BY SetOf
  <2>2. /\ x \in K => Only(Append(u, x), K) = Append(Only(u, K), x)
        /\ x \notin K => Only(Append(u, x), K) = Only(u, K)
    BY OnlyAppend
  <2>3. /\ x \in J => Only(Append(u, x), J) = Append(Only(u, J), x)
        /\ x \notin J => Only(Append(u, x), J) = Only(u, J)
    BY OnlyAppend
  <2>4. ASSUME \A y \in ToSet(Append(u, x)) : y \in K <=> y \in J
        PROVE  Only(Append(u, x), K) = Only(Append(u, x), J)
    <3>1. Only(u, K) = Only(u, J) /\ (x \in K <=> x \in J)
      BY <1>2, <2>1, <2>4
    <3>. QED
      BY <2>2, <2>3, <3>1
  <2>. QED
    BY <2>1, <2>4
<1>3. Seq(C) \subseteq A
  <2> HIDE DEF A
  <2>. QED
    BY <1>1, <1>2, SeqInduct
<1>. QED
  BY <1>3

(* Nothing goes when all may stay.                                         *)
LEMMA OnlyAll ==
  ASSUME NEW C, NEW K, NEW s \in Seq(C), ToSet(s) \subseteq K
  PROVE  Only(s, K) = s
<1> DEFINE A == {u \in Seq(C) : ToSet(u) \subseteq K => Only(u, K) = u}
<1>1. <<>> \in A
  BY OnlyEmpty
<1>2. ASSUME NEW u \in Seq(C), NEW x \in C, u \in A PROVE Append(u, x) \in A
  <2>1. Append(u, x) \in Seq(C) /\ ToSet(Append(u, x)) = ToSet(u) \union {x}
    BY SetOf
  <2>2. x \in K => Only(Append(u, x), K) = Append(Only(u, K), x)
    BY OnlyAppend
  <2>3. ASSUME ToSet(Append(u, x)) \subseteq K PROVE Only(Append(u, x), K) = Append(u, x)
    <3>1. Only(u, K) = u /\ x \in K
      BY <1>2, <2>1, <2>3
    <3>. QED
      BY <2>2, <3>1
  <2>. QED
    BY <2>1, <2>3
<1>3. Seq(C) \subseteq A
  <2> HIDE DEF A
  <2>. QED
    BY <1>1, <1>2, SeqInduct
<1>. QED
  BY <1>3

(* What is left of what is left.                                           *)
LEMMA OnlyTwice ==
  ASSUME NEW C, NEW K, NEW J, NEW s \in Seq(C)
  PROVE  Only(Only(s, K), J) = Only(s, K \intersect J)
<1> DEFINE A == {u \in Seq(C) : Only(Only(u, K), J) = Only(u, K \intersect J)}
<1>1. <<>> \in A
  BY OnlyEmpty
<1>2. ASSUME NEW u \in Seq(C), NEW x \in C, u \in A PROVE Append(u, x) \in A
  <2> DEFINE o == Only(u, K)
             w == Append(u, x)
             B == K \intersect J
  <2>1. w \in Seq(C) /\ o \in Seq(C) /\ Only(o, J) = Only(u, B)
    BY <1>2, OnlyType
  <2>2. /\ x \in K => Only(w, K) = Append(o, x)
        /\ x \notin K => Only(w, K) = o
    BY OnlyAppend
  <2>3. /\ x \in B => Only(w, B) = Append(Only(u, B), x)
        /\ x \notin B => Only(w, B) = Only(u, B)
    <3> HIDE DEF B
    <3>. QED
      BY OnlyAppend
  <2>4. /\ x \in J => Only(Append(o, x), J) = Append(Only(o, J), x)
        /\ x \notin J => Only(Append(o, x), J) = Only(o, J)
    <3> HIDE DEF o
    <3>. QED
      BY <2>1, OnlyAppend, Zenon
  <2>a. x \in B <=> x \in K /\ x \in J
    OBVIOUS
  <2> HIDE DEF o, w, B
  <2>5. Only(Only(w, K), J) = Only(w, B)
    BY <2>1, <2>2, <2>3, <2>4, <2>a
  <2>. QED
    BY <2>1, <2>5 DEF w, B
<1>3. Seq(C) \subseteq A
  <2> HIDE DEF A
  <2>. QED
    BY <1>1, <1>2, SeqInduct
<1>. QED
  BY <1>3

(* What is left of a sequence turned round.                                *)
LEMMA OnlyReverse ==
  ASSUME NEW C, NEW K, NEW s \in Seq(C)
  PROVE  Only(Reverse(s), K) = Reverse(Only(s, K))
<1> DEFINE A == {u \in Seq(C) : Only(Reverse(u), K) = Reverse(Only(u, K))}
<1>1. <<>> \in A
  <2>1. Reverse(<<>>) = <<>> /\ <<>> \in Seq(C)
    BY DEF Reverse
  <2>. QED
    BY <2>1, OnlyEmpty
<1>2. ASSUME NEW u \in Seq(C), NEW x \in C, u \in A PROVE Append(u, x) \in A
  <2> DEFINE r == Reverse(u)
             o == Only(u, K)
  <2>1. /\ Append(u, x) \in Seq(C) /\ o \in Seq(C) /\ r \in Seq(C)
        /\ Only(r, K) = Reverse(o) /\ <<x>> \in Seq(C) /\ <<>> \in Seq(C) /\ <<x>> = Append(<<>>, x)
    BY <1>2, OnlyType, ReverseIs
  <2> HIDE DEF r, o
  <2>2. Reverse(Append(u, x)) = <<x>> \o r
    BY ReverseAppend DEF r
  <2> DEFINE one == <<x>>
             none == <<>>
  <2>4. /\ x \in K => Only(one, K) = one
        /\ x \notin K => Only(one, K) = none
    <3>1. none \in Seq(C) /\ one = Append(none, x)
      BY <2>1
    <3> HIDE DEF none, one
    <3>2. /\ x \in K => Only(one, K) = Append(Only(none, K), x)
          /\ x \notin K => Only(one, K) = Only(none, K)
      BY <3>1, OnlyAppend
    <3>3. Only(none, K) = none
      BY OnlyEmpty DEF none
    <3>. QED
      BY <3>1, <3>2, <3>3
  <2>3. Only(one \o r, K) = Only(one, K) \o Reverse(o)
    <3>1. one \in Seq(C)
      BY <2>1
    <3> HIDE DEF one
    <3>2. Only(one \o r, K) = Only(one, K) \o Only(r, K)
      <4>1. one \in Seq(C) /\ r \in Seq(C)
        BY <2>1, <3>1
      <4>. QED
        BY <4>1, OnlyConcat
    <3>. QED
      BY <2>1, <3>2
  <2>5. /\ x \in K => Only(Append(u, x), K) = Append(o, x)
        /\ x \notin K => Only(Append(u, x), K) = o
    BY OnlyAppend DEF o
  <2>6. Reverse(Append(o, x)) = <<x>> \o Reverse(o) /\ Reverse(o) \in Seq(C)
    BY <2>1, ReverseAppend, ReverseIs
  <2>7. <<>> \o Reverse(o) = Reverse(o)
    BY <2>6, JoinFacts
  <2>. QED
    BY <2>1, <2>2, <2>3, <2>4, <2>5, <2>6, <2>7
<1>3. Seq(C) \subseteq A
  <2> HIDE DEF A
  <2>. QED
    BY <1>1, <1>2, SeqInduct
<1>. QED
  BY <1>3

-----------------------------------------------------------------------------
(* The lists' Only is the record's.                                        *)
LEMMA OnlyOfLists ==
  ASSUME NEW s, NEW K
  PROVE  List!Only(s, K) = Only(s, K)
BY DEF List!Only, Only

(* The image of a sequence under node.                                     *)
Mapped(node, u) == [i \in DOMAIN u |-> node[u[i]]]

IsMap(node, N, E) == node \in [N -> E]

(* m is the image of u, element by element.                                *)
ImageOf(m, node, u) ==
  /\ Len(m) = Len(u) /\ DOMAIN m = 1 .. Len(u)
  /\ \A i \in 1 .. Len(u) : m[i] = node[u[i]]

(* The image is that.                                                      *)
LEMMA MappedIs ==
  ASSUME NEW N, NEW E, NEW node, IsMap(node, N, E), NEW u, u \in Seq(N)
  PROVE  Mapped(node, u) \in Seq(E) /\ ImageOf(Mapped(node, u), node, u)
<1>1. DOMAIN u = 1 .. Len(u) /\ Len(u) \in Nat /\ \A i \in 1 .. Len(u) : u[i] \in N
  OBVIOUS
<1>2. \A i \in 1 .. Len(u) : node[u[i]] \in E
  BY <1>1 DEF IsMap
<1>. QED
  BY <1>1, <1>2 DEF Mapped, ImageOf, IsMap

(* The image of two sequences in a row.                                    *)
LEMMA MappedConcat ==
  ASSUME NEW N, NEW E, NEW node, IsMap(node, N, E), NEW u, u \in Seq(N), NEW v, v \in Seq(N)
  PROVE  Mapped(node, u \o v) = Mapped(node, u) \o Mapped(node, v)
<1> DEFINE w == u \o v
           a == Mapped(node, w)
           p == Mapped(node, u)
           q == Mapped(node, v)
           b == p \o q
<1>1. w \in Seq(N) /\ Len(w) = Len(u) + Len(v) /\ Len(u) \in Nat /\ Len(v) \in Nat
  OBVIOUS
<1>2. /\ \A i \in 1 .. Len(u) : w[i] = u[i]
      /\ \A i \in 1 .. Len(v) : w[Len(u) + i] = v[i]
  OBVIOUS
<1> HIDE DEF w
<1>3. a \in Seq(E) /\ ImageOf(a, node, w)
  BY <1>1, MappedIs
<1>4. p \in Seq(E) /\ ImageOf(p, node, u) /\ q \in Seq(E) /\ ImageOf(q, node, v)
  BY MappedIs
<1> HIDE DEF a, p, q
<1>5. /\ b \in Seq(E) /\ Len(b) = Len(p) + Len(q)
      /\ \A i \in 1 .. Len(p) : b[i] = p[i]
      /\ \A i \in 1 .. Len(q) : b[Len(p) + i] = q[i]
  BY <1>4
<1> HIDE DEF b
<1>6. ASSUME NEW i \in 1 .. Len(a) PROVE a[i] = b[i]
  <2>0. i \in 1 .. Len(w) /\ i \in Int
    BY <1>1, <1>3 DEF ImageOf
  <2>1. CASE i <= Len(u)
    <3>1. i \in 1 .. Len(u) /\ i \in 1 .. Len(p)
      BY <1>1, <1>4, <2>0, <2>1 DEF ImageOf
    <3>2. w[i] = u[i] /\ b[i] = p[i]
      BY <1>2, <1>5, <3>1
    <3>. QED
      BY <1>3, <1>4, <2>0, <3>1, <3>2 DEF ImageOf
  <2>2. CASE ~ (i <= Len(u))
    <3> DEFINE j == i - Len(u)
    <3>1. j \in 1 .. Len(v) /\ j \in 1 .. Len(q) /\ i = Len(u) + j /\ i = Len(p) + j
      BY <1>1, <1>4, <2>0, <2>2 DEF ImageOf
    <3> HIDE DEF j
    <3>2. w[i] = v[j] /\ b[i] = q[j]
      BY <1>2, <1>5, <3>1
    <3>. QED
      BY <1>3, <1>4, <2>0, <3>1, <3>2 DEF ImageOf
  <2>. QED
    BY <2>1, <2>2
<1>7. a = b
  <2>1. Len(a) = Len(b)
    BY <1>1, <1>3, <1>4, <1>5 DEF ImageOf
  <2>. QED
    BY <1>3, <1>5, <1>6, <2>1, SameSeq
<1>. QED
  BY <1>7 DEF a, b, w, p, q

(* The image of one element more.                                          *)
LEMMA MappedAppend ==
  ASSUME NEW N, NEW E, NEW node, IsMap(node, N, E), NEW u, u \in Seq(N), NEW x \in N
  PROVE  Mapped(node, Append(u, x)) = Append(Mapped(node, u), node[x])
<1> DEFINE o == <<x>>
           m == Mapped(node, o)
<1>1. o \in Seq(N) /\ Append(u, x) = u \o o /\ Len(o) = 1 /\ o[1] = x
  OBVIOUS
<1> HIDE DEF o
<1>2. Mapped(node, Append(u, x)) = Mapped(node, u) \o m
  <2>1. o \in Seq(N)
    BY <1>1
  <2>2. Mapped(node, u \o o) = Mapped(node, u) \o Mapped(node, o)
    BY <2>1, MappedConcat
  <2>. QED
    BY <1>1, <2>2
<1>3. m \in Seq(E) /\ ImageOf(m, node, o)
  BY <1>1, MappedIs
<1> HIDE DEF m
<1>a. m = <<node[x]>>
  BY <1>1, <1>3 DEF ImageOf
<1>4. Mapped(node, u) \in Seq(E) /\ node[x] \in E
  BY MappedIs DEF IsMap
<1>5. Mapped(node, u) \o <<node[x]>> = Append(Mapped(node, u), node[x])
  BY <1>4, JoinFacts
<1>. QED
  BY <1>2, <1>5, <1>a

(* The elements whose images are in K, and the images in K.                *)
LEMMA MappedOnly ==
  ASSUME NEW N, NEW E, NEW node, IsMap(node, N, E), NEW K, NEW s \in Seq(N)
  PROVE  Only(Mapped(node, s), K) = Mapped(node, Only(s, {n \in N : node[n] \in K}))
<1> DEFINE J == {n \in N : node[n] \in K}
           A == {u \in Seq(N) : Only(Mapped(node, u), K) = Mapped(node, Only(u, J))}
<1>1. <<>> \in A
  <2>1. <<>> \in Seq(N) /\ Mapped(node, <<>>) = <<>>
    BY DEF Mapped
  <2>. QED
    BY <2>1, OnlyEmpty
<1>2. ASSUME NEW u \in Seq(N), NEW x \in N, u \in A PROVE Append(u, x) \in A
  <2> DEFINE m == Mapped(node, u)
             o == Only(u, J)
  <2>1. Append(u, x) \in Seq(N) /\ m \in Seq(E) /\ node[x] \in E /\ Only(m, K) = Mapped(node, o)
    BY <1>2, MappedIs DEF IsMap
  <2>2. Mapped(node, Append(u, x)) = Append(m, node[x])
    <3>1. u \in Seq(N) /\ x \in N
      OBVIOUS
    <3> HIDE DEF m, o, J
    <3>2. Mapped(node, Append(u, x)) = Append(Mapped(node, u), node[x])
      BY <3>1, MappedAppend
    <3>. QED
      BY <3>2 DEF m
  <2>a. x \in J <=> node[x] \in K
    OBVIOUS
  <2>3. o \in Seq(N)
    BY OnlyType
  <2>4. /\ x \in J => Only(Append(u, x), J) = Append(o, x)
        /\ x \notin J => Only(Append(u, x), J) = o
    <3> HIDE DEF J
    <3>. QED
      BY OnlyAppend
  <2> HIDE DEF m, J, o
  <2>5. /\ node[x] \in K => Only(Append(m, node[x]), K) = Append(Only(m, K), node[x])
        /\ node[x] \notin K => Only(Append(m, node[x]), K) = Only(m, K)
    BY <2>1, OnlyAppend
  <2>6. Mapped(node, Append(o, x)) = Append(Mapped(node, o), node[x])
    BY <2>3, MappedAppend
  <2>7. Only(Mapped(node, Append(u, x)), K) = Mapped(node, Only(Append(u, x), J))
    BY <2>1, <2>2, <2>4, <2>5, <2>6, <2>a
  <2>. QED
    BY <2>1, <2>7 DEF J
<1>3. Seq(N) \subseteq A
  <2> HIDE DEF A
  <2>. QED
    BY <1>1, <1>2, SeqInduct
<1>. QED
  BY <1>3
-----------------------------------------------------------------------------
(* Sequences without repetition, and what is taken out of them.            *)

(* One element more repeats none if it is new.                             *)
LEMMA InjectiveAppend ==
  ASSUME NEW C, NEW s \in Seq(C), NEW x \in C
  PROVE  IsInjective(Append(s, x)) <=> IsInjective(s) /\ x \notin ToSet(s)
<1> DEFINE t == Append(s, x)
           n == Len(s)
<1>1. /\ n \in Nat /\ DOMAIN s = 1 .. n /\ DOMAIN t = 1 .. n + 1 /\ t[n + 1] = x
      /\ \A i \in 1 .. n : t[i] = s[i]
  OBVIOUS
<1>2. ToSet(s) = {s[i] : i \in 1 .. n}
  BY <1>1 DEF ToSet
<1> HIDE DEF t, n
<1>3. ASSUME IsInjective(t) PROVE IsInjective(s) /\ x \notin ToSet(s)
  <2>1. \A i, j \in 1 .. n + 1 : t[i] = t[j] => i = j
    BY <1>1, <1>3 DEF IsInjective
  <2>2. \A i \in 1 .. n : i \in 1 .. n + 1 /\ n + 1 \in 1 .. n + 1 /\ i # n + 1
    BY <1>1
  <2>3. \A i, j \in 1 .. n : s[i] = s[j] => i = j
    BY <1>1, <2>1, <2>2
  <2>4. \A i \in 1 .. n : s[i] # x
    BY <1>1, <2>1, <2>2
  <2>. QED
    BY <1>1, <1>2, <2>3, <2>4 DEF IsInjective
<1>4. ASSUME IsInjective(s), x \notin ToSet(s) PROVE IsInjective(t)
  <2>1. \A i, j \in 1 .. n : s[i] = s[j] => i = j
    BY <1>1, <1>4 DEF IsInjective
  <2>2. \A i \in 1 .. n : s[i] # x
    BY <1>2, <1>4
  <2>3. \A i \in 1 .. n + 1 : i \in 1 .. n \/ i = n + 1
    BY <1>1
  <2>4. \A i, j \in 1 .. n + 1 : t[i] = t[j] => i = j
    BY <1>1, <2>1, <2>2, <2>3
  <2>. QED
    BY <1>1, <2>4 DEF IsInjective
<1>. QED
  BY <1>3, <1>4 DEF t

(* Nor does what is left of such a sequence.                               *)
LEMMA InjectiveOnly ==
  ASSUME NEW C, NEW K, NEW s \in Seq(C), IsInjective(s)
  PROVE  IsInjective(Only(s, K))
<1> DEFINE A == {u \in Seq(C) : IsInjective(u) => IsInjective(Only(u, K))}
<1>1. <<>> \in A
  <2>1. <<>> \in Seq(C) /\ IsInjective(<<>>)
    BY DEF IsInjective
  <2>. QED
    BY <2>1, OnlyEmpty
<1>2. ASSUME NEW u \in Seq(C), NEW x \in C, u \in A PROVE Append(u, x) \in A
  <2>1. Append(u, x) \in Seq(C) /\ Only(u, K) \in Seq(C)
    BY OnlyType
  <2>2. /\ x \in K => Only(Append(u, x), K) = Append(Only(u, K), x)
        /\ x \notin K => Only(Append(u, x), K) = Only(u, K)
    BY OnlyAppend
  <2>3. IsInjective(Append(u, x)) <=> IsInjective(u) /\ x \notin ToSet(u)
    BY InjectiveAppend
  <2>4. IsInjective(Append(Only(u, K), x)) <=> IsInjective(Only(u, K)) /\ x \notin ToSet(Only(u, K))
    BY <2>1, InjectiveAppend
  <2>5. ToSet(Only(u, K)) = ToSet(u) \intersect K
    BY OnlySet
  <2>. QED
    BY <1>2, <2>1, <2>2, <2>3, <2>4, <2>5
<1>3. Seq(C) \subseteq A
  <2> HIDE DEF A
  <2>. QED
    BY <1>1, <1>2, SeqInduct
<1>. QED
  BY <1>3

(* Turned round, it repeats none either.                                   *)
LEMMA InjectiveReverse ==
  ASSUME NEW C, NEW s \in Seq(C), IsInjective(s)
  PROVE  IsInjective(Reverse(s))
<1> DEFINE r == Reverse(s)
<1>1. /\ r \in Seq(C) /\ Len(r) = Len(s) /\ Len(s) \in Nat
      /\ \A i \in 1 .. Len(s) : r[i] = s[(Len(s) - i) + 1]
  BY ReverseIs
<1> HIDE DEF r
<1>2. ASSUME NEW i \in DOMAIN r, NEW j \in DOMAIN r, r[i] = r[j] PROVE i = j
  <2> DEFINE a == (Len(s) - i) + 1
             b == (Len(s) - j) + 1
  <2>0. DOMAIN s = 1 .. Len(s) /\ DOMAIN r = 1 .. Len(s)
    BY <1>1
  <2>1. i \in 1 .. Len(s) /\ j \in 1 .. Len(s) /\ a \in DOMAIN s /\ b \in DOMAIN s
    <3>1. i \in 1 .. Len(s) /\ j \in 1 .. Len(s)
      BY <1>2, <2>0
    <3>2. Len(s) \in Nat
      OBVIOUS
    <3>3. a \in 1 .. Len(s) /\ b \in 1 .. Len(s)
      BY <3>1, <3>2
    <3>. QED
      BY <2>0, <3>1, <3>3
  <2>2. s[a] = s[b]
    BY <1>1, <1>2, <2>1
  <2>3. a = b
    <3> HIDE DEF a, b
    <3>. QED
      BY <2>1, <2>2 DEF IsInjective
  <2>. QED
    BY <1>1, <2>1, <2>3
<1>3. IsInjective(r)
  BY <1>2 DEF IsInjective
<1>. QED
  BY <1>3 DEF r

(* It has as many elements as places.                                      *)
LEMMA CountOf ==
  ASSUME NEW C, NEW s \in Seq(C)
  PROVE  /\ IsFiniteSet(ToSet(s)) /\ Cardinality(ToSet(s)) \in Nat
         /\ Cardinality(ToSet(s)) <= Len(s)
         /\ IsInjective(s) => Cardinality(ToSet(s)) = Len(s)
<1> DEFINE Counted(u) == /\ IsFiniteSet(ToSet(u)) /\ Cardinality(ToSet(u)) \in Nat
                         /\ Cardinality(ToSet(u)) <= Len(u)
                         /\ IsInjective(u) => Cardinality(ToSet(u)) = Len(u)
           A == {u \in Seq(C) : Counted(u)}
<1>1. <<>> \in A
  <2>1. <<>> \in Seq(C) /\ ToSet(<<>>) = {} /\ Len(<<>>) = 0
    BY DEF ToSet
  <2>3. IsFiniteSet({}) /\ Cardinality({}) = 0
    BY FS_EmptySet
  <2>. QED
    BY <2>1, <2>3
<1>2. ASSUME NEW u \in Seq(C), NEW x \in C, u \in A PROVE Append(u, x) \in A
  <2> DEFINE T == ToSet(u)
             w == Append(u, x)
  <2>1. w \in Seq(C) /\ Len(w) = Len(u) + 1 /\ Len(u) \in Nat
    OBVIOUS
  <2>2. ToSet(w) = T \union {x}
    BY SetOf
  <2>3. IsInjective(w) <=> IsInjective(u) /\ x \notin T
    BY InjectiveAppend
  <2>4. /\ IsFiniteSet(T) /\ Cardinality(T) \in Nat /\ Cardinality(T) <= Len(u)
        /\ IsInjective(u) => Cardinality(T) = Len(u)
    BY <1>2
  <2> HIDE DEF T, w
  <2>5. /\ IsFiniteSet(T \union {x})
        /\ x \in T => T \union {x} = T
        /\ x \notin T => Cardinality(T \union {x}) = Cardinality(T) + 1
    BY <2>4, FS_AddElement
  <2>6. Counted(w)
    <3>1. CASE x \in T
      <4>1. ToSet(w) = T /\ ~ IsInjective(w)
        BY <2>2, <2>3, <2>5, <3>1
      <4>2. Cardinality(T) <= Len(w)
        BY <2>1, <2>4
      <4>. QED
        BY <2>4, <4>1, <4>2
    <3>2. CASE x \notin T
      BY <2>1, <2>2, <2>3, <2>4, <2>5, <3>2
    <3>. QED
      BY <3>1, <3>2
  <2>. QED
    BY <2>1, <2>6 DEF w
<1>3. Seq(C) \subseteq A
  <2> HIDE DEF A
  <2>. QED
    BY <1>1, <1>2, SeqInduct
<1>. QED
  BY <1>3

(* One of the first numbers is not in a sequence.                          *)
LEMMA Fresh ==
  ASSUME NEW s \in Seq(Nat)
  PROVE  \E n \in 1 .. Len(s) + 1 : /\ n \notin ToSet(s)
                                    /\ \A m \in 1 .. n - 1 : m \in ToSet(s)
<1> DEFINE T == ToSet(s)
           F == {n \in 1 .. Len(s) + 1 : n \notin T}
<1>1. Len(s) \in Nat /\ IsFiniteSet(T) /\ Cardinality(T) \in Nat /\ Cardinality(T) <= Len(s)
  BY CountOf
<1> HIDE DEF T
<1>2. F # {}
  <2> SUFFICES ASSUME 1 .. Len(s) + 1 \subseteq T PROVE FALSE
    OBVIOUS
  <2>1. Cardinality(1 .. Len(s) + 1) <= Cardinality(T)
    BY <1>1, FS_Subset
  <2>2. Cardinality(1 .. Len(s) + 1) = Len(s) + 1
    <3>1. 1 \in Int /\ Len(s) + 1 \in Int
      BY <1>1
    <3>2. Cardinality(1 .. Len(s) + 1) = IF 1 > Len(s) + 1 THEN 0 ELSE Len(s) + 1 - 1 + 1
      BY <3>1, FS_Interval
    <3>. QED
      BY <1>1, <3>2
  <2>. QED
    BY <1>1, <2>1, <2>2
<1>3. PICK n \in F : \A m \in F : n <= m
  <2>1. F \subseteq Nat
    BY <1>1
  <2> HIDE DEF F
  <2>. QED
    BY <1>2, <2>1, LeastNat
<1>4. n \in 1 .. Len(s) + 1 /\ n \notin T /\ \A m \in 1 .. n - 1 : m \in T
  BY <1>1, <1>3
<1>. QED
  BY <1>4 DEF T

(* The last that is left is the last of the members.                       *)
LEMMA OnlyLast ==
  ASSUME NEW C, NEW K, NEW s \in Seq(C), ToSet(s) \intersect K # {}
  PROVE  \E i \in 1 .. Len(s) : /\ s[i] \in K
                                /\ \A j \in 1 .. Len(s) : s[j] \in K => j <= i
                                /\ Reverse(Only(s, K))[1] = s[i]
<1> DEFINE LastOf(u) == \E i \in 1 .. Len(u) : /\ u[i] \in K
                                               /\ \A j \in 1 .. Len(u) : u[j] \in K => j <= i
                                               /\ Reverse(Only(u, K))[1] = u[i]
           A == {u \in Seq(C) : ToSet(u) \intersect K # {} => LastOf(u)}
<1>1. <<>> \in A
  <2>1. <<>> \in Seq(C) /\ ToSet(<<>>) = {}
    BY DEF ToSet
  <2>. QED
    BY <2>1
<1>2. ASSUME NEW u \in Seq(C), NEW x \in C, u \in A PROVE Append(u, x) \in A
  <2> DEFINE w == Append(u, x)
             o == Only(u, K)
             n == Len(u)
  <2>1. /\ w \in Seq(C) /\ Len(w) = n + 1 /\ n \in Nat /\ w[n + 1] = x
        /\ \A i \in 1 .. n : w[i] = u[i]
    OBVIOUS
  <2>2. ToSet(w) = ToSet(u) \union {x}
    BY SetOf
  <2>3. /\ x \in K => Only(w, K) = Append(o, x)
        /\ x \notin K => Only(w, K) = o
    BY OnlyAppend
  <2>4. o \in Seq(C)
    BY OnlyType
  <2>5. ToSet(u) \intersect K # {} => LastOf(u)
    BY <1>2
  <2> HIDE DEF w, o
  <2>6. CASE x \in K
    <3>1. Reverse(Append(o, x)) = <<x>> \o Reverse(o) /\ Reverse(o) \in Seq(C)
      BY <2>4, ReverseAppend, ReverseIs
    <3>2. (<<x>> \o Reverse(o))[1] = x
      BY <3>1
    <3>3. Reverse(Only(w, K))[1] = w[n + 1]
      BY <2>1, <2>3, <2>6, <3>1, <3>2
    <3>4. n + 1 \in 1 .. n + 1 /\ \A j \in 1 .. n + 1 : j <= n + 1
      BY <2>1
    <3>5. LastOf(w)
      BY <2>1, <2>6, <3>3, <3>4
    <3>. QED
      BY <2>1, <3>5 DEF w
  <2>7. CASE x \notin K
    <3>1. ASSUME ToSet(w) \intersect K # {} PROVE LastOf(w)
      <4>1. ToSet(u) \intersect K # {}
        BY <2>2, <2>7, <3>1
      <4>2. PICK i \in 1 .. n : /\ u[i] \in K
                                /\ \A j \in 1 .. n : u[j] \in K => j <= i
                                /\ Reverse(o)[1] = u[i]
        BY <2>5, <4>1 DEF o
      <4>3. i \in 1 .. n + 1 /\ w[i] = u[i] /\ \A j \in 1 .. n + 1 : j \in 1 .. n \/ j = n + 1
        BY <2>1
      <4>4. \A j \in 1 .. n + 1 : w[j] \in K => j <= i
        BY <2>1, <2>7, <4>2, <4>3
      <4>5. Reverse(Only(w, K))[1] = w[i]
        BY <2>3, <2>7, <4>2, <4>3
      <4>. QED
        BY <2>1, <4>2, <4>3, <4>4, <4>5
    <3>. QED
      BY <2>1, <3>1 DEF w
  <2>. QED
    BY <2>6, <2>7
<1>3. Seq(C) \subseteq A
  <2> HIDE DEF A
  <2>. QED
    BY <1>1, <1>2, SeqInduct
<1>. QED
  BY <1>3

(* The elements of two sequences in a row.                                 *)
LEMMA JoinAt ==
  ASSUME NEW C, NEW s, s \in Seq(C), NEW t, t \in Seq(C)
  PROVE  /\ s \o t \in Seq(C) /\ Len(s \o t) = Len(s) + Len(t)
         /\ \A i \in 1 .. Len(s) : (s \o t)[i] = s[i]
         /\ \A i \in 1 .. Len(t) : (s \o t)[Len(s) + i] = t[i]
<1>1. Len(s) \in Nat /\ Len(t) \in Nat
  OBVIOUS
<1>2. s \o t \in Seq(C) /\ Len(s \o t) = Len(s) + Len(t)
  OBVIOUS
<1>3. \A i \in 1 .. Len(s) : (s \o t)[i] = s[i]
  OBVIOUS
<1>4. \A i \in 1 .. Len(t) : (s \o t)[Len(s) + i] = t[i]
  OBVIOUS
<1>. QED
  BY <1>2, <1>3, <1>4

(* A sequence is what comes before place i, the element there and the      *)
(* rest.                                                                   *)
Before(s, i) == SubSeq(s, 1, i - 1)
After(s, i) == SubSeq(s, i + 1, Len(s))

(* b and a are what comes before and after place i of s.                   *)
PartsOf(s, i, b, a) ==
  /\ Len(b) = i - 1 /\ \A j \in 1 .. i - 1 : b[j] = s[j]
  /\ Len(a) = Len(s) - i /\ \A j \in 1 .. Len(s) - i : a[j] = s[i + j]
  /\ s = (b \o <<s[i]>>) \o a
  /\ RemoveAt(s, i) = b \o a

(* Before and After are.                                                   *)
LEMMA Parts ==
  ASSUME NEW C, NEW s, s \in Seq(C), NEW i, i \in 1 .. Len(s)
  PROVE  /\ Before(s, i) \in Seq(C) /\ After(s, i) \in Seq(C)
         /\ PartsOf(s, i, Before(s, i), After(s, i))
<1> DEFINE b == Before(s, i)
           a == After(s, i)
           o == <<s[i]>>
           w == (b \o o) \o a
<1>0. Len(s) \in Nat /\ i \in Nat /\ i >= 1 /\ i <= Len(s)
  OBVIOUS
<1>1. b \in Seq(C) /\ Len(b) = i - 1 /\ \A j \in 1 .. i - 1 : b[j] = s[j]
  BY DEF Before
<1>2. a \in Seq(C) /\ Len(a) = Len(s) - i /\ \A j \in 1 .. Len(s) - i : a[j] = s[i + j]
  BY DEF After
<1>3. RemoveAt(s, i) = b \o a
  BY DEF Before, After, RemoveAt
<1>4. o \in Seq(C) /\ Len(o) = 1 /\ o[1] = s[i]
  OBVIOUS
<1> HIDE DEF a, b, o
<1> DEFINE v == b \o o
<1>8. v \in Seq(C) /\ Len(v) = i /\ v[i] = s[i] /\ \A j \in 1 .. i - 1 : v[j] = b[j]
  <2>1. b \in Seq(C) /\ o \in Seq(C)
    BY <1>1, <1>4
  <2>2. /\ v \in Seq(C) /\ Len(v) = Len(b) + Len(o)
        /\ \A j \in 1 .. Len(b) : v[j] = b[j]
        /\ \A j \in 1 .. Len(o) : v[Len(b) + j] = o[j]
    BY <2>1, JoinAt
  <2> HIDE DEF v
  <2>3. 1 \in 1 .. Len(o) /\ Len(b) + 1 = i
    BY <1>0, <1>1, <1>4
  <2>4. v[i] = s[i]
    BY <1>4, <2>2, <2>3
  <2>. QED
    BY <1>0, <1>1, <1>4, <2>2, <2>4
<1> HIDE DEF v
<1>9. /\ v \o a \in Seq(C) /\ Len(v \o a) = Len(s)
      /\ \A j \in 1 .. i : (v \o a)[j] = v[j]
      /\ \A j \in 1 .. Len(s) - i : (v \o a)[i + j] = a[j]
  <2>1. v \in Seq(C) /\ a \in Seq(C)
    BY <1>2, <1>8
  <2> DEFINE u == v \o a
  <2>2. /\ u \in Seq(C) /\ Len(u) = Len(v) + Len(a)
        /\ \A j \in 1 .. Len(v) : u[j] = v[j]
        /\ \A j \in 1 .. Len(a) : u[Len(v) + j] = a[j]
    BY <2>1, JoinAt
  <2> HIDE DEF u
  <2>3. /\ u \in Seq(C) /\ Len(u) = Len(s)
        /\ \A j \in 1 .. i : u[j] = v[j]
        /\ \A j \in 1 .. Len(s) - i : u[i + j] = a[j]
    BY <1>0, <1>2, <1>8, <2>2
  <2>. QED
    BY <2>3 DEF u
<1>5. /\ w \in Seq(C) /\ Len(w) = Len(s) /\ w[i] = s[i]
      /\ \A j \in 1 .. i - 1 : w[j] = b[j]
      /\ \A j \in 1 .. Len(s) - i : w[i + j] = a[j]
  <2>1. w = v \o a
    BY DEF v
  <2> HIDE DEF w
  <2>2. \A j \in 1 .. i - 1 : j \in 1 .. i
    BY <1>0
  <2>3. i \in 1 .. i
    BY <1>0
  <2> DEFINE u == v \o a
  <2>4. /\ u \in Seq(C) /\ Len(u) = Len(s)
        /\ \A j \in 1 .. i : u[j] = v[j]
        /\ \A j \in 1 .. Len(s) - i : u[i + j] = a[j]
    BY <1>9
  <2>5. w = u
    BY <2>1
  <2> HIDE DEF u
  <2>. QED
    BY <1>8, <2>2, <2>3, <2>4, <2>5
<1> HIDE DEF w
<1>6. ASSUME NEW k \in 1 .. Len(s) PROVE s[k] = w[k]
  <2>1. CASE k < i
    BY <1>0, <1>1, <1>5, <2>1
  <2>2. CASE k > i
    <3>1. k - i \in 1 .. Len(s) - i /\ i + (k - i) = k
      BY <1>0, <2>2
    <3>. QED
      BY <1>2, <1>5, <3>1
  <2>3. CASE k = i
    BY <1>5, <2>3
  <2>. QED
    BY <1>0, <2>1, <2>2, <2>3
<1>7. s = w
  BY <1>5, <1>6, SameSeq
<1>. QED
  BY <1>1, <1>2, <1>3, <1>7 DEF a, b, o, w, PartsOf

(* All but the element at i, of a sequence without repetition.             *)
LEMMA OnlyButOne ==
  ASSUME NEW C, NEW s, s \in Seq(C), NEW i, i \in 1 .. Len(s), IsInjective(s)
  PROVE  Only(s, ToSet(s) \ {s[i]}) = RemoveAt(s, i)
<1> DEFINE b == Before(s, i)
           a == After(s, i)
           o == <<s[i]>>
           K == ToSet(s) \ {s[i]}
<1>0. Len(s) \in Nat /\ i \in Nat /\ i >= 1 /\ i <= Len(s) /\ DOMAIN s = 1 .. Len(s) /\ s[i] \in C
  OBVIOUS
<1>1. /\ b \in Seq(C) /\ Len(b) = i - 1 /\ \A j \in 1 .. i - 1 : b[j] = s[j]
      /\ a \in Seq(C) /\ Len(a) = Len(s) - i /\ \A j \in 1 .. Len(s) - i : a[j] = s[i + j]
      /\ s = (b \o o) \o a /\ RemoveAt(s, i) = b \o a
  <2>1. b \in Seq(C) /\ a \in Seq(C) /\ PartsOf(s, i, b, a)
    BY Parts
  <2>. QED
    BY <2>1 DEF PartsOf
<1>2. ASSUME NEW j \in 1 .. Len(s), j # i PROVE s[j] \in K
  BY <1>0, <1>2 DEF ToSet, IsInjective
<1>3. ToSet(b) \subseteq K
  <2>1. ASSUME NEW j \in 1 .. i - 1 PROVE b[j] \in K
    <3>1. j \in 1 .. Len(s) /\ j # i
      BY <1>0
    <3>. QED
      BY <1>1, <1>2, <3>1
  <2>2. DOMAIN b = 1 .. i - 1
    BY <1>1
  <2> HIDE DEF b, K
  <2>. QED
    BY <2>1, <2>2 DEF ToSet
<1>4. ToSet(a) \subseteq K
  <2>1. ASSUME NEW j \in 1 .. Len(s) - i PROVE a[j] \in K
    <3>1. i + j \in 1 .. Len(s) /\ i + j # i
      BY <1>0
    <3>. QED
      BY <1>1, <1>2, <3>1
  <2>2. DOMAIN a = 1 .. Len(s) - i
    BY <1>1
  <2> HIDE DEF a, K
  <2>. QED
    BY <2>1, <2>2 DEF ToSet
<1>5. s[i] \notin K
  OBVIOUS
<1> HIDE DEF a, b, K
<1>6. Only(b, K) = b /\ Only(a, K) = a
  BY <1>1, <1>3, <1>4, OnlyAll
<1>7. Only(o, K) = <<>>
  <2> DEFINE none == <<>>
  <2>1. none \in Seq(C) /\ o = Append(none, s[i])
    OBVIOUS
  <2> HIDE DEF none, o
  <2>2. Only(o, K) = Only(none, K)
    BY <1>0, <1>5, <2>1, OnlyAppend
  <2>. QED
    BY <2>2, OnlyEmpty DEF none
<1>8. o \in Seq(C) /\ b \o o \in Seq(C)
  BY <1>0, <1>1
<1> HIDE DEF o
<1>9. Only((b \o o) \o a, K) = Only(b \o o, K) \o Only(a, K)
  <2> DEFINE p == b \o o
  <2>1. p \in Seq(C) /\ a \in Seq(C)
    BY <1>1, <1>8
  <2> HIDE DEF p
  <2>2. Only(p \o a, K) = Only(p, K) \o Only(a, K)
    BY <2>1, OnlyConcat
  <2>. QED
    BY <2>2 DEF p
<1>10. Only(b \o o, K) = Only(b, K) \o Only(o, K)
  <2>1. b \in Seq(C) /\ o \in Seq(C)
    BY <1>1, <1>8
  <2>. QED
    BY <2>1, OnlyConcat
<1>11. b \o <<>> = b
  BY <1>1
<1>12. Only(s, K) = b \o a
  BY <1>1, <1>6, <1>7, <1>9, <1>10, <1>11
<1>. QED
  BY <1>1, <1>12 DEF K

(* The image of all but the element at i.                                  *)
LEMMA MappedRemove ==
  ASSUME NEW N, NEW E, NEW node, IsMap(node, N, E), NEW s, s \in Seq(N), NEW i, i \in 1 .. Len(s)
  PROVE  Mapped(node, RemoveAt(s, i)) = RemoveAt(Mapped(node, s), i)
<1> DEFINE m == Mapped(node, s)
           p == Mapped(node, Before(s, i))
           q == Mapped(node, After(s, i))
<1>0. Len(s) \in Nat /\ i \in Nat /\ i >= 1 /\ i <= Len(s)
  OBVIOUS
<1>1. m \in Seq(E) /\ ImageOf(m, node, s)
  BY MappedIs
<1>2. Before(s, i) \in Seq(N) /\ After(s, i) \in Seq(N) /\ PartsOf(s, i, Before(s, i), After(s, i))
  BY Parts
<1>3. /\ p \in Seq(E) /\ ImageOf(p, node, Before(s, i))
      /\ q \in Seq(E) /\ ImageOf(q, node, After(s, i))
  BY <1>2, MappedIs
<1>4. Mapped(node, Before(s, i) \o After(s, i)) = p \o q
  <2>1. Before(s, i) \in Seq(N) /\ After(s, i) \in Seq(N)
    BY <1>2
  <2>. QED
    BY <2>1, MappedConcat
<1> HIDE DEF m, p, q
<1>a. Len(m) = Len(s) /\ i \in 1 .. Len(m)
  BY <1>1 DEF ImageOf
<1> DEFINE b == Before(m, i)
           a == After(m, i)
<1>5. b \in Seq(E) /\ a \in Seq(E) /\ PartsOf(m, i, b, a)
  BY <1>1, <1>a, Parts
<1> HIDE DEF b, a
<1>6. p = b
  <2>1. Len(p) = i - 1 /\ Len(b) = i - 1
    BY <1>2, <1>3, <1>5 DEF ImageOf, PartsOf
  <2>2. ASSUME NEW j \in 1 .. i - 1 PROVE p[j] = b[j]
    <3>1. j \in 1 .. Len(s)
      BY <1>0
    <3>2. p[j] = node[s[j]]
      BY <1>2, <1>3, <2>1 DEF ImageOf, PartsOf
    <3>3. b[j] = node[s[j]]
      BY <1>1, <1>5, <3>1 DEF ImageOf, PartsOf
    <3>. QED
      BY <3>2, <3>3
  <2>. QED
    BY <1>3, <1>5, <2>1, <2>2, SameSeq
<1>7. q = a
  <2>1. Len(q) = Len(s) - i /\ Len(a) = Len(s) - i
    BY <1>2, <1>3, <1>5, <1>a DEF ImageOf, PartsOf
  <2>2. ASSUME NEW j \in 1 .. Len(s) - i PROVE q[j] = a[j]
    <3>1. i + j \in 1 .. Len(s)
      BY <1>0
    <3>2. q[j] = node[s[i + j]]
      <4>1. After(s, i)[j] = s[i + j] /\ j \in 1 .. Len(After(s, i))
        BY <1>2, <2>1 DEF PartsOf
      <4>2. q[j] = node[After(s, i)[j]]
        BY <1>3, <4>1 DEF ImageOf
      <4>. QED
        BY <4>1, <4>2
    <3>3. a[j] = node[s[i + j]]
      <4>1. a[j] = m[i + j]
        BY <1>5, <1>a DEF PartsOf
      <4>. QED
        BY <1>1, <3>1, <4>1 DEF ImageOf
    <3>. QED
      BY <3>2, <3>3
  <2>. QED
    BY <1>3, <1>5, <2>1, <2>2, SameSeq
<1>8. RemoveAt(s, i) = Before(s, i) \o After(s, i) /\ RemoveAt(m, i) = b \o a
  BY <1>2, <1>5 DEF PartsOf
<1>. QED
  BY <1>4, <1>6, <1>7, <1>8 DEF m

-----------------------------------------------------------------------------
(* A record is sound when its fields are of their types, its list repeats  *)
(* no node, and the chains are what hashing the list gives.                *)

(* The nodes of bucket c of a table of count, and the table.               *)
Bucketed(list, node, count, c) == {n \in ToSet(list) : (Hash[node[n].key] % count) + 1 = c}
Chains(list, node, count) == [c \in 1 .. count |-> Reverse(Only(list, Bucketed(list, node, count, c)))]

Good(r) ==
  /\ r \in Records(ToSet(r.list))
  /\ r.size = Len(r.list)
  /\ IsInjective(r.list)
  /\ BucketCount(r) > 0
  /\ r.chain = Chains(r.list, r.node, BucketCount(r))

Loaded(r) == r.size <= BucketCount(r)

(* A sequence is one of its own elements.                                  *)
LEMMA OwnSeq ==
  ASSUME NEW C, NEW s \in Seq(C)
  PROVE  s \in Seq(ToSet(s)) /\ ToSet(s) \subseteq C /\ DOMAIN s = 1 .. Len(s) /\ Len(s) \in Nat
<1>1. DOMAIN s = 1 .. Len(s) /\ Len(s) \in Nat /\ \A i \in 1 .. Len(s) : s[i] \in ToSet(s)
  BY DEF ToSet
<1>2. s = [i \in 1 .. Len(s) |-> s[i]]
  BY <1>1
<1> DEFINE T == ToSet(s)
           n == Len(s)
<1> HIDE DEF T, n
<1>3. n \in Nat /\ s = [i \in 1 .. n |-> s[i]] /\ \A i \in 1 .. n : s[i] \in T
  BY <1>1, <1>2 DEF T, n
<1>4. s \in Seq(T)
  BY <1>3
<1>. QED
  BY <1>1, <1>4, SetOf DEF T

(* A hash falls in a bucket.                                               *)
LEMMA BucketIn ==
  ASSUME NEW e \in Entries, NEW count \in Nat, count > 0
  PROVE  (Hash[e.key] % count) + 1 \in 1 .. count
<1>1. Hash[e.key] \in Nat
  BY HashAssumption DEF Keys
<1> DEFINE h == Hash[e.key]
<1> HIDE DEF h
<1>2. h \in Nat => h % count \in 0 .. count - 1
  OBVIOUS
<1>3. h % count \in 0 .. count - 1
  BY <1>1, <1>2 DEF h
<1> DEFINE m == h % count
<1> HIDE DEF m
<1>4. m \in 0 .. count - 1 => m + 1 \in 1 .. count
  OBVIOUS
<1>. QED
  BY <1>3, <1>4 DEF h, m

(* The table is a sequence of sequences.                                   *)
LEMMA ChainsType ==
  ASSUME NEW list \in Seq(Nat), NEW node, NEW count \in Nat
  PROVE  /\ Chains(list, node, count) \in Seq(Seq(Nat)) /\ Len(Chains(list, node, count)) = count
         /\ DOMAIN Chains(list, node, count) = 1 .. count
         /\ \A c \in 1 .. count :
              Chains(list, node, count)[c] = Reverse(Only(list, Bucketed(list, node, count, c)))
<1>1. ASSUME NEW c PROVE Reverse(Only(list, Bucketed(list, node, count, c))) \in Seq(Nat)
  <2> DEFINE K == Bucketed(list, node, count, c)
  <2> HIDE DEF K
  <2>1. Only(list, K) \in Seq(Nat)
    BY OnlyType
  <2>2. Reverse(Only(list, K)) \in Seq(Nat)
    BY <2>1, ReverseIs
  <2>. QED
    BY <2>2 DEF K
<1>. QED
  BY <1>1 DEF Chains

(* The count of an empty table is enough, and not zero.                    *)
LEMMA RoundedIs ==
  ASSUME NEW count \in Nat
  PROVE  Rounded(count) \in Nat /\ Rounded(count) >= count /\ Rounded(count) > 0
<1> DEFINE unit == Header + Inline
           m == Header + count + unit - 1
           q == m \div unit
<1>1. Header \in Nat /\ Inline \in Nat /\ Header > 0 /\ Inline > 0 /\ unit \in Nat /\ unit > Header
  BY LayoutAssumption
<1>2. m \in Nat /\ m = Header + count + unit - 1
  BY <1>1
<1>a. Rounded(count) = q * unit - Header
  BY DEF Rounded
<1> HIDE DEF unit, m
<1> DEFINE p == unit * q
           x == m % unit
<1>3. m = p + x /\ x \in 0 .. unit - 1 /\ q \in Nat
  <2>1. m \in Nat /\ unit \in Nat /\ unit > 0
    BY <1>1, <1>2
  <2>. QED
    BY <2>1
<1> HIDE DEF q
<1>4. p = q * unit /\ p \in Nat
  BY <1>1, <1>3
<1> HIDE DEF p, x
<1>5. p \in Nat /\ x \in 0 .. unit - 1 /\ m = p + x
  BY <1>3, <1>4
<1>6. p >= Header + count
  BY <1>1, <1>2, <1>5
<1>7. p # 0
  BY <1>1, <1>6
<1>8. q >= 1
  BY <1>1, <1>3, <1>7 DEF p
<1>9. p >= unit
  <2>1. q >= 1 => unit * q >= unit
    BY <1>1, <1>3
  <2>. QED
    BY <1>8, <2>1 DEF p
<1>10. p - Header \in Nat /\ p - Header >= count /\ p - Header > 0
  BY <1>1, <1>5, <1>6, <1>9
<1>. QED
  BY <1>a, <1>4, <1>10

(* A record without nodes, of n buckets, is sound and has no entries.      *)
Bare(n) == [Free EXCEPT !.ref = 1, !.chain = [b \in 1 .. n |-> <<>>]]

(* That record has no entries, and is sound.                               *)
LEMMA BareIs ==
  ASSUME NEW n \in Nat, n > 0
  PROVE  /\ Good(Bare(n)) /\ Bare(n).ref = 1 /\ EntriesOf(Bare(n)) = <<>>
         /\ Bare(n).size = 0 /\ BucketCount(Bare(n)) = n
<1> DEFINE r == Bare(n)
           none == <<>>
<1>1. none \in Seq(Nat) /\ ToSet(none) = {} /\ Len(none) = 0 /\ IsInjective(none)
  BY DEF ToSet, IsInjective
<1>2. Reverse(none) = none
  BY DEF Reverse
<1>3. Free.size = 0 /\ Free.list = none /\ Free \in Records({})
  BY DEF Free, Records
<1>4. /\ r.ref = 1 /\ r.size = 0 /\ r.list = none /\ r.node = Free.node
      /\ r.chain = [b \in 1 .. n |-> none]
  BY <1>3 DEF Bare, Records
<1>5. \A c \in Seq(Seq(Nat)) : r.chain = c => r \in Records({})
  BY <1>3 DEF Bare, Records
<1> HIDE DEF r
<1>6. ASSUME NEW c PROVE Reverse(Only(none, Bucketed(none, r.node, n, c))) = none
  <2>1. Only(none, Bucketed(none, r.node, n, c)) = none
    BY OnlyEmpty DEF none
  <2>. QED
    BY <1>2, <2>1
<1> HIDE DEF none
<1>7. r.chain = Chains(none, r.node, n)
  BY <1>4, <1>6 DEF Chains
<1>8. r.chain \in Seq(Seq(Nat)) /\ Len(r.chain) = n
  <2>1. none \in Seq(Nat) /\ n \in Nat
    BY <1>1
  <2>. QED
    BY <1>7, <2>1, ChainsType
<1>9. r \in Records(ToSet(r.list))
  BY <1>1, <1>4, <1>5, <1>8
<1>10. EntriesOf(r) = none
  BY <1>1, <1>4 DEF EntriesOf, none
<1>11. Good(r)
  BY <1>1, <1>4, <1>7, <1>8, <1>9 DEF Good, BucketCount
<1>. QED
  BY <1>4, <1>8, <1>10, <1>11 DEF BucketCount, r, none

(* So is a new record.                                                     *)
LEMMA EmptyIs ==
  ASSUME NEW count \in Nat
  PROVE  /\ Good(Empty(count)) /\ Empty(count).ref = 1 /\ EntriesOf(Empty(count)) = <<>>
         /\ Empty(count).size = 0 /\ BucketCount(Empty(count)) = Rounded(count)
<1>1. Rounded(count) \in Nat /\ Rounded(count) > 0
  BY RoundedIs
<1>2. Empty(count) = Bare(Rounded(count))
  BY DEF Empty, Bare
<1>. QED
  BY <1>1, <1>2, BareIs

(* The image depends on the nodes of the sequence alone.                   *)
LEMMA MappedSame ==
  ASSUME NEW C, NEW s \in Seq(C), NEW node, NEW next, \A x \in ToSet(s) : node[x] = next[x]
  PROVE  Mapped(node, s) = Mapped(next, s)
BY DEF Mapped, ToSet

(* A record's entries are the image of its list.                           *)
LEMMA EntriesAre ==
  ASSUME NEW r
  PROVE  EntriesOf(r) = Mapped(r.node, r.list)
BY DEF EntriesOf, Mapped

(* What a sound record's fields are.                                       *)
LEMMA GoodFields ==
  ASSUME NEW r, Good(r)
  PROVE  /\ r.ref \in Nat /\ r.size \in Nat /\ r.list \in Seq(Nat) /\ r.list \in Seq(ToSet(r.list))
         /\ IsMap(r.node, ToSet(r.list), Entries) /\ r.node \in [ToSet(r.list) -> Entries]
         /\ BucketCount(r) \in Nat /\ BucketCount(r) > 0
         /\ r.chain \in Seq(Seq(Nat)) /\ DOMAIN r.chain = 1 .. BucketCount(r)
         /\ r.size = Len(r.list) /\ ToSet(r.list) \subseteq Nat
<1>1. r \in Records(ToSet(r.list)) /\ r.size = Len(r.list) /\ BucketCount(r) > 0
  BY DEF Good
<1>2. r.list \in Seq(Nat)
  BY <1>1 DEF Records
<1>3. r.list \in Seq(ToSet(r.list)) /\ ToSet(r.list) \subseteq Nat
  BY <1>2, OwnSeq
<1>. QED
  BY <1>1, <1>2, <1>3 DEF Records, BucketCount, IsMap

(* Three fields of a record are replaced.                                  *)
Replaced(q, r, S, node, T, list, n) ==
  /\ r \in Records(S) /\ node \in [T -> Entries] /\ list \in Seq(Nat) /\ n \in Nat
  /\ q = [r EXCEPT !.node = node, !.list = list, !.size = n]

(* The others stay.                                                        *)
LEMMA ThreeFields ==
  ASSUME NEW S, NEW T, NEW r, NEW node, NEW list, NEW n, NEW q, Replaced(q, r, S, node, T, list, n)
  PROVE  /\ q \in Records(T) /\ q.ref = r.ref /\ q.size = n
         /\ q.list = list /\ q.node = node /\ q.chain = r.chain
<1>1. q.ref = r.ref /\ q.size = n /\ q.list = list /\ q.node = node /\ q.chain = r.chain
  BY DEF Records, Replaced
<1>2. q \in Records(T)
  BY DEF Records, Replaced
<1>. QED
  BY <1>1, <1>2

(* q is r with node n in its chain.                                        *)
Hashed(q, r, n) ==
  /\ q.ref = r.ref /\ q.size = r.size /\ q.list = r.list /\ q.node = r.node
  /\ q.chain = [r.chain EXCEPT ![(Hash[r.node[n].key] % BucketCount(r)) + 1] = <<n>> \o @]

(* add_to_hash changes one chain.                                          *)
LEMMA AddToHashIs ==
  ASSUME NEW S, NEW r, r \in Records(S), NEW n, n \in S, n \in Nat, BucketCount(r) > 0,
         NEW q, q = AddToHash(r, n)
  PROVE  q \in Records(S) /\ Hashed(q, r, n)
<1> DEFINE b == (Hash[r.node[n].key] % BucketCount(r)) + 1
           c == [r.chain EXCEPT ![b] = <<n>> \o @]
<1>1. r.node[n] \in Entries /\ BucketCount(r) \in Nat /\ r.chain \in Seq(Seq(Nat))
  BY DEF Records, BucketCount
<1>2. b \in 1 .. BucketCount(r)
  <2> DEFINE e == r.node[n]
             count == BucketCount(r)
  <2>1. e \in Entries /\ count \in Nat /\ count > 0
    BY <1>1
  <2> HIDE DEF e, count
  <2>2. (Hash[e.key] % count) + 1 \in 1 .. count
    BY <2>1, BucketIn, Zenon
  <2>. QED
    BY <2>2 DEF e, count
<1>3. q = [r EXCEPT !.chain[b] = <<n>> \o @]
  BY DEF AddToHash, Bucket
<1> HIDE DEF b
<1>4. q.ref = r.ref /\ q.size = r.size /\ q.list = r.list /\ q.node = r.node /\ q.chain = c
  BY <1>3 DEF Records
<1>5. c \in Seq(Seq(Nat))
  <2>1. b \in 1 .. Len(r.chain) /\ r.chain[b] \in Seq(Nat)
    BY <1>1, <1>2 DEF BucketCount
  <2>2. <<n>> \o r.chain[b] \in Seq(Nat)
    BY <2>1
  <2>. QED
    BY <1>1, <2>1, <2>2
<1>6. q \in Records(S)
  BY <1>3, <1>5 DEF Records
<1>. QED
  BY <1>4, <1>6 DEF b, Hashed

(* What is asked of a record with one entry more.                          *)
Extends(q, r, e) ==
  /\ Good(q) /\ q.ref = r.ref /\ q.size = r.size + 1
  /\ EntriesOf(q) = Append(EntriesOf(r), e)

(* insert_node adds an entry, and keeps the table.                         *)
LEMMA InsertNodeIs ==
  ASSUME NEW r, Good(r), NEW e, e \in Entries
  PROVE  Extends(InsertNode(r, e), r, e) /\ BucketCount(InsertNode(r, e)) = BucketCount(r)
<1> DEFINE n == NewNode(r)
           S == ToSet(r.list)
           T == S \union {n}
           node == [m \in T |-> IF m = n THEN e ELSE r.node[m]]
           list == Append(r.list, n)
           s == [r EXCEPT !.node = node, !.list = list, !.size = r.size + 1]
           q == InsertNode(r, e)
           count == BucketCount(r)
           b == (Hash[e.key] % count) + 1
<1>1. /\ r \in Records(S) /\ r.size = Len(r.list) /\ IsInjective(r.list) /\ count > 0
      /\ r.chain = Chains(r.list, r.node, count)
  BY DEF Good
<1>2. /\ r.ref \in Nat /\ r.size \in Nat /\ r.list \in Seq(Nat) /\ r.list \in Seq(S)
      /\ IsMap(r.node, S, Entries) /\ r.node \in [S -> Entries] /\ count \in Nat
      /\ r.chain \in Seq(Seq(Nat)) /\ DOMAIN r.chain = 1 .. count /\ S \subseteq Nat
  BY GoodFields
<1>3. n \in 1 .. Len(r.list) + 1 /\ n \notin S
  <2>1. \E m \in 1 .. Len(r.list) + 1 : m \notin S /\ \A k \in 1 .. m - 1 : k \in S
    BY <1>2, Fresh
  <2>. QED
    BY <2>1 DEF NewNode
<1>4. n \in Nat
  BY <1>2, <1>3
<1>5. q = AddToHash(s, n)
  BY DEF InsertNode
<1> HIDE DEF n, S, q, count
<1>6. node \in [T -> Entries] /\ node[n] = e /\ n \in T /\ \A m \in S : node[m] = r.node[m] /\ m # n
  BY <1>2, <1>3
<1>7. /\ list \in Seq(Nat) /\ ToSet(list) = T /\ Len(list) = r.size + 1 /\ IsInjective(list)
  <2>1. ToSet(list) = S \union {n}
    <3>1. r.list \in Seq(Nat) /\ n \in Nat
      BY <1>2, <1>4
    <3>2. ToSet(Append(r.list, n)) = ToSet(r.list) \union {n}
      BY <3>1, SetOf
    <3>. QED
      BY <3>2 DEF S
  <2>2. IsInjective(list)
    BY <1>1, <1>2, <1>3, <1>4, InjectiveAppend DEF S
  <2>. QED
    BY <1>1, <1>2, <1>4, <2>1, <2>2
<1> HIDE DEF node, list, T, b
<1>8. /\ s.ref = r.ref /\ s.size = r.size + 1 /\ s.list = list /\ s.node = node /\ s.chain = r.chain
      /\ s \in Records(T)
  <2>1. r \in Records(S) /\ node \in [T -> Entries] /\ list \in Seq(Nat) /\ r.size + 1 \in Nat
    BY <1>1, <1>2, <1>6, <1>7
  <2> DEFINE m == r.size + 1
  <2>2. Replaced(s, r, S, node, T, list, m)
    BY <2>1 DEF Replaced
  <2> HIDE DEF s, m
  <2>4. /\ s \in Records(T) /\ s.ref = r.ref /\ s.size = m
        /\ s.list = list /\ s.node = node /\ s.chain = r.chain
    BY <2>2, ThreeFields
  <2>. QED
    BY <2>4 DEF m
<1> HIDE DEF s
<1>a. BucketCount(s) = count
  BY <1>8 DEF BucketCount, count
<1>9. /\ q \in Records(T) /\ b \in 1 .. count
      /\ q.ref = r.ref /\ q.size = r.size + 1 /\ q.list = list /\ q.node = node
      /\ q.chain = [r.chain EXCEPT ![b] = <<n>> \o @]
  <2>1. s \in Records(T) /\ n \in T /\ n \in Nat /\ BucketCount(s) > 0
    BY <1>1, <1>4, <1>6, <1>8, <1>a
  <2>2. q \in Records(T) /\ Hashed(q, s, n)
    BY <1>5, <2>1, AddToHashIs
  <2>3. b \in 1 .. count
    BY <1>1, <1>2, BucketIn DEF b
  <2>. QED
    BY <1>6, <1>8, <1>a, <2>2, <2>3 DEF Hashed, b
<1>10. BucketCount(q) = count
  BY <1>2, <1>9 DEF BucketCount, count
<1>11. q.chain = Chains(list, node, count)
  <2>1. DOMAIN q.chain = 1 .. count /\ q.chain \in Seq(Seq(Nat))
    BY <1>2, <1>9 DEF Records
  <2>2. /\ DOMAIN Chains(list, node, count) = 1 .. count
        /\ Chains(list, node, count) \in Seq(Seq(Nat)) /\ Len(Chains(list, node, count)) = count
        /\ \A c \in 1 .. count :
             Chains(list, node, count)[c] = Reverse(Only(list, Bucketed(list, node, count, c)))
    BY <1>2, <1>7, ChainsType
  <2>3. \A c \in 1 .. count : r.chain[c] = Reverse(Only(r.list, Bucketed(r.list, r.node, count, c)))
    <3>1. r.list \in Seq(Nat) /\ count \in Nat
      BY <1>2
    <3>2. \A c \in 1 .. count :
            Chains(r.list, r.node, count)[c] = Reverse(Only(r.list, Bucketed(r.list, r.node, count, c)))
      BY <3>1, ChainsType
    <3>. QED
      BY <1>1, <3>2
  <2>4. ASSUME NEW c \in 1 .. count PROVE q.chain[c] = Chains(list, node, count)[c]
    <3> DEFINE K == Bucketed(r.list, r.node, count, c)
               J == Bucketed(list, node, count, c)
               o == Only(r.list, J)
    <3>1. \A x \in ToSet(r.list) : x \in K <=> x \in J
      BY <1>6, <1>7 DEF Bucketed, S, T
    <3>2. n \in J <=> c = b
      BY <1>6, <1>7 DEF Bucketed, b
    <3> HIDE DEF K, J
    <3>3. Only(r.list, K) = o /\ o \in Seq(Nat)
      BY <1>2, <3>1, OnlySame, OnlyType
    <3>4. /\ n \in J => Only(list, J) = Append(o, n)
          /\ n \notin J => Only(list, J) = o
      BY <1>2, <1>4, OnlyAppend DEF list
    <3> HIDE DEF o
    <3>5. Reverse(Append(o, n)) = <<n>> \o Reverse(o)
      BY <1>4, <3>3, ReverseAppend
    <3>6. r.chain[c] = Reverse(o)
      BY <2>3, <3>3 DEF K
    <3>7. Chains(list, node, count)[c] = Reverse(Only(list, J))
      BY <2>2 DEF J
    <3>8. CASE c = b
      BY <1>2, <1>9, <3>2, <3>4, <3>5, <3>6, <3>7, <3>8
    <3>9. CASE c # b
      BY <1>2, <1>9, <3>2, <3>4, <3>6, <3>7, <3>9
    <3>. QED
      BY <3>8, <3>9
  <2>5. Len(q.chain) = count
    BY <1>10 DEF BucketCount
  <2>6. Len(q.chain) = Len(Chains(list, node, count))
    BY <2>2, <2>5
  <2>7. \A c \in 1 .. Len(q.chain) : q.chain[c] = Chains(list, node, count)[c]
    BY <2>4, <2>5
  <2>. QED
    BY <2>1, <2>2, <2>6, <2>7, SameSeq
<1>12. Good(q)
  BY <1>1, <1>7, <1>9, <1>10, <1>11 DEF Good
<1>13. EntriesOf(q) = Append(EntriesOf(r), e)
  <2>1. EntriesOf(q) = Mapped(node, list) /\ EntriesOf(r) = Mapped(r.node, r.list)
    BY <1>9, EntriesAre
  <2>2. Mapped(node, r.list) = Mapped(r.node, r.list)
    BY <1>2, <1>6, MappedSame DEF S
  <2>3. IsMap(node, T, Entries) /\ r.list \in Seq(T) /\ n \in T
    BY <1>2, <1>6 DEF IsMap, T
  <2>4. Mapped(node, Append(r.list, n)) = Append(Mapped(node, r.list), node[n])
    BY <2>3, MappedAppend
  <2>. QED
    BY <1>6, <2>1, <2>2, <2>4 DEF list
<1>. QED
  BY <1>9, <1>10, <1>12, <1>13 DEF Extends, q, count
-----------------------------------------------------------------------------
(* The records that calls are folded over.                                 *)
AllRecords == [ref : Nat, size : Nat, list : Seq(Nat), node : UNION {[S -> Entries] : S \in SUBSET Nat},
               chain : Seq(Seq(Nat))]
GoodRecords == {r \in AllRecords : Good(r)}

(* Every sound record is one of them.                                      *)
LEMMA GoodIn ==
  ASSUME NEW r, Good(r)
  PROVE  r \in GoodRecords
<1> DEFINE S == ToSet(r.list)
           N == UNION {[T -> Entries] : T \in SUBSET Nat}
<1>1. r \in Records(S) /\ S \subseteq Nat
  BY GoodFields DEF Good
<1> HIDE DEF S
<1>2. r.node \in N
  <2>1. r.node \in [S -> Entries]
    BY <1>1 DEF Records
  <2>. QED
    BY <1>1, <2>1
<1> HIDE DEF N
<1>3. r \in [ref : Nat, size : Nat, list : Seq(Nat), node : N, chain : Seq(Seq(Nat))]
  BY <1>1, <1>2 DEF Records
<1>. QED
  BY <1>3 DEF GoodRecords, AllRecords, N

(* insert_node as a step.                                                  *)
InsertStep == [re \in GoodRecords \X Entries |-> InsertNode(re[1], re[2])]

(* The fold of InsertNode is the fold of that step.                      *)
LEMMA InsertIsFold ==
  ASSUME NEW v, NEW s \in Seq(Entries), Foldable(GoodRecords, Entries, InsertStep, v)
  PROVE  FoldLeft(InsertNode, v, s) = Fold(InsertStep, v, s)
<1> DEFINE D == SUBSET (DOMAIN s)
           Solves(g) == g = [S \in D |-> IF S = {} THEN v ELSE InsertNode(g[S \ {Max(S)}], s[Max(S)])]
           f == CHOOSE g : Solves(g)
<1>1. FoldLeft(InsertNode, v, s) = f[DOMAIN s]
  BY DEF FoldLeft, MapThenFoldSet
<1>2. Len(s) \in Nat /\ DOMAIN s = 1 .. Len(s)
  OBVIOUS
<1>3. \A t \in GoodRecords, x \in Entries : InsertNode(t, x) = InsertStep[<<t, x>>]
  BY DEF InsertStep
<1>4. Solves(f)
  <2>1. PICK g : IsFoldIter(g, GoodRecords, InsertStep, v, s)
    BY FoldIter
  <2>2. ASSUME NEW S \in D, S # {} PROVE g[S] = InsertNode(g[S \ {Max(S)}], s[Max(S)])
    <3>1. Max(S) \in 1 .. Len(s)
      <4>1. S \subseteq 0 .. Len(s)
        BY <1>2
      <4>. QED
        BY <1>2, <2>2, <4>1, MaxOf
    <3>2. g[S \ {Max(S)}] \in GoodRecords /\ s[Max(S)] \in Entries
      BY <2>1, <3>1 DEF IsFoldIter
    <3>. QED
      BY <1>3, <2>1, <2>2, <3>2 DEF IsFoldIter
  <2>3. Solves(g)
    BY <2>1, <2>2 DEF IsFoldIter
  <2>4. \E g1 : Solves(g1)
    <3> HIDE DEF Solves
    <3>. QED
      BY <2>3
  <2>. QED
    <3> HIDE DEF Solves
    <3>. QED
      BY <2>4
<1> HIDE DEF f
<1>5. Follows(f, GoodRecords, InsertStep, v, s)
  <2>1. f[{}] = v
    BY <1>4
  <2>2. ASSUME NEW k \in 1 .. Len(s), f[1 .. (k - 1)] \in GoodRecords
        PROVE  f[1 .. k] = InsertStep[<<f[1 .. (k - 1)], s[k]>>]
    <3>1. 1 .. k \in D /\ 1 \in 1 .. k /\ s[k] \in Entries /\ k \in Nat /\ k # 0
      BY <1>2
    <3>2. Max(1 .. k) = k /\ (1 .. k) \ {Max(1 .. k)} = 1 .. (k - 1)
      BY <3>1, MaxOfInterval
    <3>3. f[1 .. k] = InsertNode(f[1 .. (k - 1)], s[k])
      BY <1>4, <3>1, <3>2
    <3>. QED
      BY <1>3, <2>2, <3>1, <3>3
  <2>. QED
    BY <2>1, <2>2 DEF Follows
<1>. QED
  BY <1>1, <1>5, FoldOfIter

(* Entries are added one after another: what the record becomes.           *)
ExtendsBy(q, r, es) ==
  /\ Good(q) /\ q.ref = r.ref /\ q.size = r.size + Len(es)
  /\ EntriesOf(q) = EntriesOf(r) \o es

(* The entries of a sound record.                                          *)
LEMMA EntriesType ==
  ASSUME NEW r, Good(r)
  PROVE  EntriesOf(r) \in Seq(Entries) /\ Len(EntriesOf(r)) = r.size /\ r.size \in Nat
<1>1. /\ r.list \in Seq(ToSet(r.list)) /\ IsMap(r.node, ToSet(r.list), Entries)
      /\ r.size = Len(r.list) /\ r.size \in Nat
  BY GoodFields
<1>2. Mapped(r.node, r.list) \in Seq(Entries) /\ ImageOf(Mapped(r.node, r.list), r.node, r.list)
  BY <1>1, MappedIs
<1>. QED
  BY <1>1, <1>2, EntriesAre DEF ImageOf

(* One more than those is one more.                                        *)
LEMMA ExtendsNext ==
  ASSUME NEW r, NEW q, NEW p, NEW es, NEW e, Good(r), es \in Seq(Entries), e \in Entries,
         ExtendsBy(q, r, es), Extends(p, q, e)
  PROVE  ExtendsBy(p, r, Append(es, e))
<1>1. EntriesOf(r) \in Seq(Entries) /\ r.size \in Nat
  BY EntriesType
<1> DEFINE a == EntriesOf(r)
           b == EntriesOf(q)
           c == EntriesOf(p)
<1>2. /\ Good(q) /\ q.ref = r.ref /\ q.size = r.size + Len(es) /\ b = a \o es
      /\ Good(p) /\ p.ref = q.ref /\ p.size = q.size + 1 /\ c = Append(b, e)
  BY DEF ExtendsBy, Extends
<1> HIDE DEF a, b, c
<1>3. Len(Append(es, e)) = Len(es) + 1 /\ Len(es) \in Nat
  OBVIOUS
<1>4. Append(a \o es, e) = a \o Append(es, e)
  BY <1>1, JoinFacts DEF a
<1>5. p.size = r.size + Len(Append(es, e))
  <2> DEFINE n == Len(es)
             m == r.size
  <2>1. p.size = (m + n) + 1 /\ Len(Append(es, e)) = n + 1 /\ n \in Nat /\ m \in Nat
    BY <1>1, <1>2, <1>3
  <2> HIDE DEF n, m
  <2>2. (m + n) + 1 = m + (n + 1)
    BY <2>1
  <2>. QED
    BY <2>1, <2>2 DEF m
<1>6. c = a \o Append(es, e)
  BY <1>2, <1>4
<1>. QED
  BY <1>2, <1>5, <1>6 DEF ExtendsBy, a, c

(* Nothing is added by none.                                               *)
LEMMA ExtendsNone ==
  ASSUME NEW r, Good(r)
  PROVE  ExtendsBy(r, r, <<>>)
<1>1. EntriesOf(r) \in Seq(Entries) /\ r.size \in Nat
  BY EntriesType
<1>2. EntriesOf(r) \o <<>> = EntriesOf(r)
  BY <1>1
<1>3. Len(<<>>) = 0 /\ r.size + 0 = r.size
  BY <1>1
<1>. QED
  BY <1>2, <1>3 DEF ExtendsBy

(* insert_node in a loop adds the entries, and keeps the table.            *)
LEMMA InsertFold ==
  ASSUME NEW r, Good(r), NEW es, es \in Seq(Entries)
  PROVE  /\ ExtendsBy(FoldLeft(InsertNode, r, es), r, es)
         /\ BucketCount(FoldLeft(InsertNode, r, es)) = BucketCount(r)
<1> DEFINE Q(u) == Fold(InsertStep, r, u)
           A == {u \in Seq(Entries) : ExtendsBy(Q(u), r, u) /\ BucketCount(Q(u)) = BucketCount(r)}
<1>1. Foldable(GoodRecords, Entries, InsertStep, r)
  <2>1. \A q \in GoodRecords, e \in Entries : InsertNode(q, e) \in GoodRecords
    <3> SUFFICES ASSUME NEW q \in GoodRecords, NEW e \in Entries PROVE InsertNode(q, e) \in GoodRecords
      OBVIOUS
    <3>1. Good(q)
      BY DEF GoodRecords
    <3>2. Good(InsertNode(q, e))
      BY <3>1, InsertNodeIs DEF Extends
    <3>. QED
      BY <3>2, GoodIn
  <2>. QED
    BY <2>1, GoodIn DEF Foldable, InsertStep
<1>2. <<>> \in A
  <2>1. <<>> \in Seq(Entries)
    OBVIOUS
  <2>2. Q(<<>>) = r
    BY <1>1, FoldEmpty
  <2>. QED
    BY <2>1, <2>2, ExtendsNone
<1>3. ASSUME NEW u \in Seq(Entries), NEW e \in Entries, u \in A PROVE Append(u, e) \in A
  <2> DEFINE q == Q(u)
             p == Q(Append(u, e))
  <2>1. ExtendsBy(q, r, u) /\ BucketCount(q) = BucketCount(r)
    BY <1>3
  <2>2. p = InsertStep[<<q, e>>]
    BY <1>1, FoldAppend
  <2> HIDE DEF p, q
  <2>3. Good(q)
    BY <2>1 DEF ExtendsBy
  <2>4. p = InsertNode(q, e)
    BY <2>2, <2>3, GoodIn DEF InsertStep
  <2>5. Extends(p, q, e) /\ BucketCount(p) = BucketCount(q)
    BY <2>3, <2>4, InsertNodeIs
  <2>6. ExtendsBy(p, r, Append(u, e))
    BY <2>1, <2>5, ExtendsNext
  <2>7. Append(u, e) \in Seq(Entries)
    OBVIOUS
  <2>. QED
    BY <2>1, <2>5, <2>6, <2>7 DEF p
<1>4. Seq(Entries) \subseteq A
  <2> HIDE DEF A
  <2>. QED
    BY <1>2, <1>3, SeqInduct
<1>5. FoldLeft(InsertNode, r, es) = Q(es)
  BY <1>1, InsertIsFold
<1>. QED
  BY <1>4, <1>5
-----------------------------------------------------------------------------
(* Hashing the list anew.                                                  *)

(* The records that differ from r in their chains alone, of a table of     *)
(* count, and add_to_hash of a node as a step.                             *)
SameBut(q, r, count) ==
  /\ q.ref = r.ref /\ q.size = r.size /\ q.list = r.list /\ q.node = r.node
  /\ BucketCount(q) = count
Tables(r, count) == {q \in Records(ToSet(r.list)) : SameBut(q, r, count)}
HashStep(r, count) == [qn \in Tables(r, count) \X ToSet(r.list) |-> AddToHash(qn[1], qn[2])]

(* The fold of AddToHash is the fold of that step.                       *)
LEMMA HashIsFold ==
  ASSUME NEW r, NEW count, NEW v, NEW s \in Seq(ToSet(r.list)),
         Foldable(Tables(r, count), ToSet(r.list), HashStep(r, count), v)
  PROVE  FoldLeft(AddToHash, v, s) = Fold(HashStep(r, count), v, s)
<1> DEFINE D == SUBSET (DOMAIN s)
           Solves(g) == g = [S \in D |-> IF S = {} THEN v ELSE AddToHash(g[S \ {Max(S)}], s[Max(S)])]
           f == CHOOSE g : Solves(g)
<1>1. FoldLeft(AddToHash, v, s) = f[DOMAIN s]
  BY DEF FoldLeft, MapThenFoldSet
<1>2. Len(s) \in Nat /\ DOMAIN s = 1 .. Len(s)
  OBVIOUS
<1>3. \A t \in Tables(r, count), x \in ToSet(r.list) : AddToHash(t, x) = HashStep(r, count)[<<t, x>>]
  BY DEF HashStep
<1>4. Solves(f)
  <2>1. PICK g : IsFoldIter(g, Tables(r, count), HashStep(r, count), v, s)
    BY FoldIter
  <2>2. ASSUME NEW S \in D, S # {} PROVE g[S] = AddToHash(g[S \ {Max(S)}], s[Max(S)])
    <3>1. Max(S) \in 1 .. Len(s)
      <4>1. S \subseteq 0 .. Len(s)
        BY <1>2
      <4>. QED
        BY <1>2, <2>2, <4>1, MaxOf
    <3>2. g[S \ {Max(S)}] \in Tables(r, count) /\ s[Max(S)] \in ToSet(r.list)
      BY <2>1, <3>1 DEF IsFoldIter
    <3>. QED
      BY <1>3, <2>1, <2>2, <3>2 DEF IsFoldIter
  <2>3. Solves(g)
    BY <2>1, <2>2 DEF IsFoldIter
  <2>4. \E g1 : Solves(g1)
    <3> HIDE DEF Solves
    <3>. QED
      BY <2>3
  <2>. QED
    <3> HIDE DEF Solves
    <3>. QED
      BY <2>4
<1> HIDE DEF f
<1>5. Follows(f, Tables(r, count), HashStep(r, count), v, s)
  <2>1. f[{}] = v
    BY <1>4
  <2>2. ASSUME NEW k \in 1 .. Len(s), f[1 .. (k - 1)] \in Tables(r, count)
        PROVE  f[1 .. k] = HashStep(r, count)[<<f[1 .. (k - 1)], s[k]>>]
    <3>1. 1 .. k \in D /\ 1 \in 1 .. k /\ s[k] \in ToSet(r.list) /\ k \in Nat /\ k # 0
      BY <1>2
    <3>2. Max(1 .. k) = k /\ (1 .. k) \ {Max(1 .. k)} = 1 .. (k - 1)
      BY <3>1, MaxOfInterval
    <3>3. f[1 .. k] = AddToHash(f[1 .. (k - 1)], s[k])
      BY <1>4, <3>1, <3>2
    <3>. QED
      BY <1>3, <2>2, <3>1, <3>3
  <2>. QED
    BY <2>1, <2>2 DEF Follows
<1>. QED
  BY <1>1, <1>5, FoldOfIter

(* add_to_hash stays within those records.                                 *)
LEMMA HashFoldable ==
  ASSUME NEW r, Good(r), NEW count, count \in Nat, count > 0, NEW v, v \in Tables(r, count)
  PROVE  Foldable(Tables(r, count), ToSet(r.list), HashStep(r, count), v)
<1>1. ASSUME NEW q \in Tables(r, count), NEW n \in ToSet(r.list) PROVE AddToHash(q, n) \in Tables(r, count)
  <2> DEFINE S == ToSet(r.list)
             p == AddToHash(q, n)
  <2>1. q \in Records(S) /\ SameBut(q, r, count) /\ BucketCount(q) > 0
    BY DEF Tables, SameBut
  <2>2. n \in Nat /\ n \in S
    BY GoodFields
  <2> HIDE DEF S, p
  <2>3. p \in Records(S) /\ Hashed(p, q, n)
    BY <2>1, <2>2, AddToHashIs DEF p
  <2>4. BucketCount(p) = BucketCount(q)
    <3>1. q.chain \in Seq(Seq(Nat))
      BY <2>1 DEF Records
    <3>3. p.chain \in Seq(Seq(Nat))
      BY <2>3 DEF Records
    <3>2. DOMAIN p.chain = DOMAIN q.chain
      <4>1. p.chain = [q.chain EXCEPT ![(Hash[q.node[n].key] % BucketCount(q)) + 1] = <<n>> \o @]
        BY <2>3, Zenon DEF Hashed
      <4>. QED
        BY <4>1, Zenon
    <3>. QED
      BY <3>1, <3>2, <3>3 DEF BucketCount
  <2>5. SameBut(p, r, count)
    BY <2>1, <2>3, <2>4 DEF SameBut, Hashed
  <2>. QED
    BY <2>3, <2>5 DEF Tables, S, p
<1>. QED
  BY <1>1 DEF Foldable, HashStep

(* The chains after the nodes u have been added to an empty table.         *)
Filled(q, r, count, u) ==
  /\ q \in Tables(r, count)
  /\ q.chain = [c \in 1 .. count |-> Reverse(Only(u, Bucketed(r.list, r.node, count, c)))]

(* A node more.                                                            *)
LEMMA FillOne ==
  ASSUME NEW r, Good(r), NEW count, count \in Nat, count > 0,
         NEW q, NEW u, u \in Seq(ToSet(r.list)), Filled(q, r, count, u),
         NEW n, n \in ToSet(r.list), NEW p, p = AddToHash(q, n), p \in Tables(r, count)
  PROVE  Filled(p, r, count, Append(u, n))
<1> DEFINE S == ToSet(r.list)
           b == (Hash[r.node[n].key] % count) + 1
           K(c) == Bucketed(r.list, r.node, count, c)
<1>1. q \in Records(S) /\ SameBut(q, r, count) /\ BucketCount(q) > 0
  BY DEF Filled, Tables, SameBut
<1>2. n \in Nat /\ n \in S /\ u \in Seq(S)
  BY GoodFields
<1> HIDE DEF S
<1>3. Hashed(p, q, n)
  <2>1. q \in Records(S) /\ n \in S /\ n \in Nat /\ BucketCount(q) > 0
    BY <1>1, <1>2
  <2>. QED
    BY <2>1, AddToHashIs
<1>4. p.chain = [q.chain EXCEPT ![b] = <<n>> \o @] /\ q.node = r.node
  BY <1>1, <1>3 DEF Hashed, SameBut
<1>5. q.chain = [c \in 1 .. count |-> Reverse(Only(u, K(c)))]
  BY DEF Filled
<1>6. ASSUME NEW c \in 1 .. count PROVE p.chain[c] = Reverse(Only(Append(u, n), K(c)))
  <2> DEFINE o == Only(u, K(c))
  <2>1. n \in K(c) <=> c = b
    BY DEF Bucketed
  <2> HIDE DEF K, b
  <2>2. /\ n \in K(c) => Only(Append(u, n), K(c)) = Append(o, n)
        /\ n \notin K(c) => Only(Append(u, n), K(c)) = o
    BY <1>2, OnlyAppend
  <2>3. o \in Seq(S)
    BY <1>2, OnlyType
  <2>4. q.chain[c] = Reverse(o)
    BY <1>5
  <2> HIDE DEF o
  <2>5. Reverse(Append(o, n)) = <<n>> \o Reverse(o)
    BY <1>2, <2>3, ReverseAppend
  <2>6. CASE c = b
    <3>1. p.chain[c] = <<n>> \o q.chain[c]
      BY <1>4, <1>5, <2>6
    <3>. QED
      BY <2>1, <2>2, <2>4, <2>5, <2>6, <3>1
  <2>7. CASE c # b
    <3>1. c \in DOMAIN q.chain
      BY <1>5
    <3>2. p.chain[c] = q.chain[c]
      BY <1>4, <2>7, <3>1
    <3>. QED
      BY <2>1, <2>2, <2>4, <2>7, <3>2
  <2>. QED
    BY <2>6, <2>7
<1>7. p.chain = [c \in 1 .. count |-> p.chain[c]]
  BY <1>4, <1>5
<1>8. p.chain = [c \in 1 .. count |-> Reverse(Only(Append(u, n), K(c)))]
  BY <1>6, <1>7
<1>. QED
  BY <1>8 DEF Filled

(* What rehash must keep.                                                  *)
Rehashed(q, r, extra) ==
  /\ Good(q) /\ q.ref = r.ref /\ q.size = r.size /\ EntriesOf(q) = EntriesOf(r)
  /\ BucketCount(q) >= r.size + extra

(* rehash makes a sound record of the same list, with room for extra more. *)
LEMMA RehashIs ==
  ASSUME NEW r, Good(r), NEW extra, extra \in Nat
  PROVE  Rehashed(Rehash(r, extra), r, extra)
<1> DEFINE half == r.size \div 2
           more == IF extra > half THEN extra ELSE half
           count == Rounded(r.size + more)
           none == [b \in 1 .. count |-> <<>>]
           bare == [r EXCEPT !.chain = none]
           S == ToSet(r.list)
           V == Tables(r, count)
           step == HashStep(r, count)
           q == Rehash(r, extra)
<1>1. /\ r \in Records(S) /\ r.size = Len(r.list) /\ IsInjective(r.list) /\ r.size \in Nat
      /\ r.list \in Seq(S) /\ r.list \in Seq(Nat)
  BY GoodFields DEF Good
<1>2. half \in Nat
  <2>1. \A x \in Nat : x \div 2 \in Nat
    OBVIOUS
  <2>2. r.size \in Nat
    BY <1>1
  <2>. QED
    BY <2>1, <2>2
<1>a. q = FoldLeft(AddToHash, bare, r.list)
  BY DEF Rehash
<1> HIDE DEF half
<1>3. more \in Nat /\ more >= extra
  BY <1>2
<1> HIDE DEF more
<1>4. count \in Nat /\ count > 0 /\ count >= r.size + more
  <2>1. r.size + more \in Nat
    BY <1>1, <1>3
  <2>. QED
    BY <2>1, RoundedIs
<1>5. count >= r.size + extra
  BY <1>1, <1>3, <1>4
<1> HIDE DEF count, S, q
<1>6. /\ bare.ref = r.ref /\ bare.size = r.size /\ bare.list = r.list /\ bare.node = r.node
      /\ bare.chain = none
  BY <1>1 DEF Records
<1>7. none \in Seq(Seq(Nat)) /\ Len(none) = count
  <2>1. \A b \in 1 .. count : <<>> \in Seq(Nat)
    OBVIOUS
  <2>. QED
    BY <1>4, <2>1
<1>8. bare \in Records(S)
  BY <1>1, <1>7 DEF Records
<1> HIDE DEF bare, none
<1>9. bare \in V
  BY <1>6, <1>7, <1>8 DEF Tables, SameBut, BucketCount, S
<1>10. Foldable(V, S, step, bare)
  BY <1>4, <1>9, HashFoldable DEF S
<1> DEFINE Q(u) == Fold(step, bare, u)
           A == {u \in Seq(S) : Filled(Q(u), r, count, u)}
<1>11. <<>> \in A
  <2>1. <<>> \in Seq(S)
    OBVIOUS
  <2>2. Q(<<>>) = bare
    BY <1>10, FoldEmpty
  <2>3. ASSUME NEW c PROVE Reverse(Only(<<>>, Bucketed(r.list, r.node, count, c))) = <<>>
    <3>1. Only(<<>>, Bucketed(r.list, r.node, count, c)) = <<>>
      BY OnlyEmpty
    <3>2. Reverse(<<>>) = <<>>
      BY DEF Reverse
    <3>. QED
      BY <3>1, <3>2
  <2>4. none = [c \in 1 .. count |-> Reverse(Only(<<>>, Bucketed(r.list, r.node, count, c)))]
    BY <2>3 DEF none
  <2>5. Filled(bare, r, count, <<>>)
    BY <1>6, <1>9, <2>4 DEF Filled
  <2>. QED
    BY <2>1, <2>2, <2>5
<1>12. ASSUME NEW u \in Seq(S), NEW n \in S, u \in A PROVE Append(u, n) \in A
  <2> DEFINE s == Q(u)
             t == Q(Append(u, n))
  <2>1. Filled(s, r, count, u) /\ s \in V
    BY <1>12 DEF Filled
  <2>2. t = step[<<s, n>>]
    BY <1>10, FoldAppend
  <2>3. step[<<s, n>>] \in V
    BY <1>10, <2>1 DEF Foldable
  <2>4. step[<<s, n>>] = AddToHash(s, n)
    BY <2>1 DEF HashStep, S
  <2> HIDE DEF s, t, V, step
  <2>5. t = AddToHash(s, n) /\ t \in Tables(r, count)
    BY <2>2, <2>3, <2>4 DEF V
  <2>6. u \in Seq(ToSet(r.list)) /\ n \in ToSet(r.list)
    BY DEF S
  <2>7. Filled(t, r, count, Append(u, n))
    BY <1>4, <2>1, <2>5, <2>6, FillOne
  <2>8. Append(u, n) \in Seq(S)
    OBVIOUS
  <2>. QED
    BY <2>7, <2>8 DEF t, step
<1>13. Seq(S) \subseteq A
  <2> HIDE DEF A
  <2>. QED
    BY <1>11, <1>12, SeqInduct
<1>14. q = Q(r.list)
  <2>1. r.list \in Seq(ToSet(r.list)) /\ Foldable(Tables(r, count), ToSet(r.list), HashStep(r, count), bare)
    BY <1>1, <1>10 DEF S
  <2>2. FoldLeft(AddToHash, bare, r.list) = Fold(HashStep(r, count), bare, r.list)
    BY <2>1, HashIsFold
  <2>. QED
    BY <1>a, <2>2
<1>15. Filled(q, r, count, r.list)
  BY <1>1, <1>13, <1>14
<1>16. /\ q \in Records(S) /\ q.ref = r.ref /\ q.size = r.size /\ q.list = r.list /\ q.node = r.node
       /\ BucketCount(q) = count /\ q.chain = Chains(r.list, r.node, count)
  BY <1>15 DEF Filled, Tables, SameBut, Chains, S
<1>17. Good(q)
  BY <1>1, <1>4, <1>16 DEF Good, S
<1>18. EntriesOf(q) = EntriesOf(r)
  BY <1>16 DEF EntriesOf
<1>. QED
  BY <1>5, <1>16, <1>17, <1>18 DEF Rehashed, q

-----------------------------------------------------------------------------
(* What the calls make of a record: a sound one, not overloaded, of n      *)
(* references and the entries es.                                          *)
Has(q, n, es) == Good(q) /\ Loaded(q) /\ q.ref = n /\ EntriesOf(q) = es

(* emplace adds an entry, after a rehash where the table is full.          *)
LEMMA EmplacedIs ==
  ASSUME NEW r, Good(r), Loaded(r), NEW e, e \in Entries
  PROVE  Extends(Emplaced(r, e), r, e) /\ Loaded(Emplaced(r, e))
<1> DEFINE s == IF r.size = BucketCount(r) THEN Rehash(r, 1) ELSE r
           q == Emplaced(r, e)
<1>1. r.size \in Nat /\ BucketCount(r) \in Nat
  BY GoodFields
<1>2. Rehashed(s, r, 1)
  <2>1. CASE r.size = BucketCount(r)
    <3>1. Rehashed(Rehash(r, 1), r, 1)
      BY RehashIs
    <3>. QED
      BY <2>1, <3>1
  <2>2. CASE r.size # BucketCount(r)
    <3>1. s = r /\ BucketCount(r) >= r.size + 1
      BY <1>1, <2>2 DEF Loaded
    <3>. QED
      BY <3>1 DEF Rehashed
  <2>. QED
    BY <2>1, <2>2
<1>3. q = InsertNode(s, e)
  BY DEF Emplaced
<1> HIDE DEF s, q
<1>4. /\ Good(s) /\ s.ref = r.ref /\ s.size = r.size /\ EntriesOf(s) = EntriesOf(r)
      /\ BucketCount(s) >= r.size + 1
  BY <1>2 DEF Rehashed
<1>5. Extends(q, s, e) /\ BucketCount(q) = BucketCount(s)
  BY <1>3, <1>4, InsertNodeIs
<1>6. Extends(q, r, e) /\ q.size = r.size + 1
  BY <1>4, <1>5 DEF Extends
<1>7. Loaded(q)
  BY <1>4, <1>5, <1>6 DEF Loaded
<1>. QED
  BY <1>6, <1>7 DEF q

(* emplace as a step.                                                      *)
LoadedRecords == {r \in GoodRecords : Loaded(r)}
EmplaceStep == [re \in LoadedRecords \X Entries |-> Emplaced(re[1], re[2])]

(* The fold of Emplaced is the fold of that step.                        *)
LEMMA EmplaceIsFold ==
  ASSUME NEW v, NEW s \in Seq(Entries), Foldable(LoadedRecords, Entries, EmplaceStep, v)
  PROVE  FoldLeft(Emplaced, v, s) = Fold(EmplaceStep, v, s)
<1> DEFINE D == SUBSET (DOMAIN s)
           Solves(g) == g = [S \in D |-> IF S = {} THEN v ELSE Emplaced(g[S \ {Max(S)}], s[Max(S)])]
           f == CHOOSE g : Solves(g)
<1>1. FoldLeft(Emplaced, v, s) = f[DOMAIN s]
  BY DEF FoldLeft, MapThenFoldSet
<1>2. Len(s) \in Nat /\ DOMAIN s = 1 .. Len(s)
  OBVIOUS
<1>3. \A t \in LoadedRecords, x \in Entries : Emplaced(t, x) = EmplaceStep[<<t, x>>]
  BY DEF EmplaceStep
<1>4. Solves(f)
  <2>1. PICK g : IsFoldIter(g, LoadedRecords, EmplaceStep, v, s)
    BY FoldIter
  <2>2. ASSUME NEW S \in D, S # {} PROVE g[S] = Emplaced(g[S \ {Max(S)}], s[Max(S)])
    <3>1. Max(S) \in 1 .. Len(s)
      <4>1. S \subseteq 0 .. Len(s)
        BY <1>2
      <4>. QED
        BY <1>2, <2>2, <4>1, MaxOf
    <3>2. g[S \ {Max(S)}] \in LoadedRecords /\ s[Max(S)] \in Entries
      BY <2>1, <3>1 DEF IsFoldIter
    <3>. QED
      BY <1>3, <2>1, <2>2, <3>2 DEF IsFoldIter
  <2>3. Solves(g)
    BY <2>1, <2>2 DEF IsFoldIter
  <2>4. \E g1 : Solves(g1)
    <3> HIDE DEF Solves
    <3>. QED
      BY <2>3
  <2>. QED
    <3> HIDE DEF Solves
    <3>. QED
      BY <2>4
<1> HIDE DEF f
<1>5. Follows(f, LoadedRecords, EmplaceStep, v, s)
  <2>1. f[{}] = v
    BY <1>4
  <2>2. ASSUME NEW k \in 1 .. Len(s), f[1 .. (k - 1)] \in LoadedRecords
        PROVE  f[1 .. k] = EmplaceStep[<<f[1 .. (k - 1)], s[k]>>]
    <3>1. 1 .. k \in D /\ 1 \in 1 .. k /\ s[k] \in Entries /\ k \in Nat /\ k # 0
      BY <1>2
    <3>2. Max(1 .. k) = k /\ (1 .. k) \ {Max(1 .. k)} = 1 .. (k - 1)
      BY <3>1, MaxOfInterval
    <3>3. f[1 .. k] = Emplaced(f[1 .. (k - 1)], s[k])
      BY <1>4, <3>1, <3>2
    <3>. QED
      BY <1>3, <2>2, <3>1, <3>3
  <2>. QED
    BY <2>1, <2>2 DEF Follows
<1>. QED
  BY <1>1, <1>5, FoldOfIter

(* emplace in a loop adds the entries.                                     *)
LEMMA EmplaceFold ==
  ASSUME NEW r, Good(r), Loaded(r), NEW es, es \in Seq(Entries)
  PROVE  Has(FoldLeft(Emplaced, r, es), r.ref, EntriesOf(r) \o es)
<1> DEFINE Q(u) == Fold(EmplaceStep, r, u)
           A == {u \in Seq(Entries) : ExtendsBy(Q(u), r, u) /\ Loaded(Q(u))}
<1>1. Foldable(LoadedRecords, Entries, EmplaceStep, r)
  <2>1. \A q \in LoadedRecords, e \in Entries : Emplaced(q, e) \in LoadedRecords
    <3> SUFFICES ASSUME NEW q \in LoadedRecords, NEW e \in Entries PROVE Emplaced(q, e) \in LoadedRecords
      OBVIOUS
    <3>1. Good(q) /\ Loaded(q)
      BY DEF LoadedRecords, GoodRecords
    <3>2. Good(Emplaced(q, e)) /\ Loaded(Emplaced(q, e))
      BY <3>1, EmplacedIs DEF Extends
    <3>. QED
      BY <3>2, GoodIn DEF LoadedRecords
  <2>. QED
    BY <2>1, GoodIn DEF Foldable, EmplaceStep, LoadedRecords
<1>2. <<>> \in A
  <2>1. <<>> \in Seq(Entries)
    OBVIOUS
  <2>2. Q(<<>>) = r
    BY <1>1, FoldEmpty
  <2>. QED
    BY <2>1, <2>2, ExtendsNone
<1>3. ASSUME NEW u \in Seq(Entries), NEW e \in Entries, u \in A PROVE Append(u, e) \in A
  <2> DEFINE q == Q(u)
             p == Q(Append(u, e))
  <2>1. ExtendsBy(q, r, u) /\ Loaded(q)
    BY <1>3
  <2>2. p = EmplaceStep[<<q, e>>]
    BY <1>1, FoldAppend
  <2> HIDE DEF p, q
  <2>3. Good(q)
    BY <2>1 DEF ExtendsBy
  <2>4. p = Emplaced(q, e)
    BY <2>1, <2>2, <2>3, GoodIn DEF EmplaceStep, LoadedRecords
  <2>5. Extends(p, q, e) /\ Loaded(p)
    BY <2>1, <2>3, <2>4, EmplacedIs
  <2>6. ExtendsBy(p, r, Append(u, e))
    BY <2>1, <2>5, ExtendsNext
  <2>7. Append(u, e) \in Seq(Entries)
    OBVIOUS
  <2>. QED
    BY <2>5, <2>6, <2>7 DEF p
<1>4. Seq(Entries) \subseteq A
  <2> HIDE DEF A
  <2>. QED
    BY <1>2, <1>3, SeqInduct
<1>5. FoldLeft(Emplaced, r, es) = Q(es)
  BY <1>1, EmplaceIsFold
<1>6. ExtendsBy(Q(es), r, es) /\ Loaded(Q(es))
  BY <1>4
<1>. QED
  BY <1>5, <1>6 DEF ExtendsBy, Has

(* insert of several makes room for them, and adds them.                   *)
LEMMA InsertedIs ==
  ASSUME NEW r, Good(r), Loaded(r), NEW es, es \in Seq(Entries)
  PROVE  Has(Inserted(r, es), r.ref, EntriesOf(r) \o es)
<1> DEFINE s == IF BucketCount(r) - r.size < Len(es) THEN Rehash(r, Len(es)) ELSE r
           q == Inserted(r, es)
           n == Len(es)
<1>1. r.size \in Nat /\ BucketCount(r) \in Nat /\ n \in Nat
  BY GoodFields
<1>2. Rehashed(s, r, n)
  <2>1. CASE BucketCount(r) - r.size < Len(es)
    <3>1. Rehashed(Rehash(r, n), r, n)
      BY <1>1, RehashIs
    <3>. QED
      BY <2>1, <3>1
  <2>2. CASE ~ (BucketCount(r) - r.size < Len(es))
    <3>1. s = r /\ BucketCount(r) >= r.size + n
      BY <1>1, <2>2
    <3>. QED
      BY <3>1 DEF Rehashed
  <2>. QED
    BY <2>1, <2>2
<1>3. q = FoldLeft(InsertNode, s, es)
  BY DEF Inserted
<1> HIDE DEF s, q
<1>4. /\ Good(s) /\ s.ref = r.ref /\ s.size = r.size /\ EntriesOf(s) = EntriesOf(r)
      /\ BucketCount(s) >= r.size + n
  BY <1>2 DEF Rehashed
<1>5. ExtendsBy(q, s, es) /\ BucketCount(q) = BucketCount(s)
  BY <1>3, <1>4, InsertFold
<1>6. Good(q) /\ q.ref = r.ref /\ q.size = r.size + n /\ EntriesOf(q) = EntriesOf(r) \o es
  BY <1>4, <1>5 DEF ExtendsBy
<1>7. Loaded(q)
  BY <1>4, <1>5, <1>6 DEF Loaded
<1>. QED
  BY <1>6, <1>7 DEF Has, q

(* A copy is a record of one reference, with the same entries.             *)
LEMMA CopyIs ==
  ASSUME NEW r, Good(r)
  PROVE  Has(CopyOf(r), 1, EntriesOf(r))
<1> DEFINE s == Empty(r.size)
           q == CopyOf(r)
           es == EntriesOf(r)
<1>1. es \in Seq(Entries) /\ Len(es) = r.size /\ r.size \in Nat
  BY EntriesType
<1>2. Good(s) /\ s.ref = 1 /\ EntriesOf(s) = <<>> /\ s.size = 0 /\ BucketCount(s) = Rounded(r.size)
  BY <1>1, EmptyIs
<1>3. q = FoldLeft(InsertNode, s, es)
  BY DEF CopyOf
<1> HIDE DEF s, q, es
<1>4. ExtendsBy(q, s, es) /\ BucketCount(q) = BucketCount(s)
  BY <1>1, <1>2, <1>3, InsertFold
<1>5. <<>> \o es = es /\ 0 + Len(es) = r.size
  BY <1>1
<1>6. Good(q) /\ q.ref = 1 /\ q.size = r.size /\ EntriesOf(q) = es
  BY <1>2, <1>4, <1>5 DEF ExtendsBy
<1>7. Loaded(q)
  BY <1>1, <1>2, <1>4, <1>6, RoundedIs DEF Loaded
<1>. QED
  BY <1>6, <1>7 DEF Has, q, es

(* A new record has no entries.                                            *)
LEMMA EmptyHas ==
  ASSUME NEW count, count \in Nat
  PROVE  Has(Empty(count), 1, <<>>)
<1>1. /\ Good(Empty(count)) /\ Empty(count).ref = 1 /\ EntriesOf(Empty(count)) = <<>>
      /\ Empty(count).size = 0 /\ BucketCount(Empty(count)) = Rounded(count)
  BY EmptyIs
<1>2. Loaded(Empty(count))
  BY <1>1, RoundedIs DEF Loaded
<1>. QED
  BY <1>1, <1>2 DEF Has

-----------------------------------------------------------------------------
(* Erasing nodes.                                                          *)

(* Four fields of a record are replaced.                                   *)
Shrunk(q, r, S, node, T, list, n, chain) ==
  /\ r \in Records(S) /\ node \in [T -> Entries] /\ list \in Seq(Nat) /\ n \in Nat
  /\ chain \in Seq(Seq(Nat))
  /\ q = [r EXCEPT !.list = list, !.chain = chain, !.node = node, !.size = n]

(* The fifth stays.                                                        *)
LEMMA FourFields ==
  ASSUME NEW S, NEW T, NEW r, NEW node, NEW list, NEW n, NEW q, NEW chain,
         Shrunk(q, r, S, node, T, list, n, chain)
  PROVE  /\ q \in Records(T) /\ q.ref = r.ref /\ q.size = n
         /\ q.list = list /\ q.node = node /\ q.chain = chain
<1>1. q.ref = r.ref /\ q.size = n /\ q.list = list /\ q.node = node /\ q.chain = chain
  BY DEF Records, Shrunk
<1>2. q \in Records(T)
  BY DEF Records, Shrunk
<1>. QED
  BY <1>1, <1>2

(* Without the nodes gone, a record is sound and lists the others.         *)
LEMMA WithoutIs ==
  ASSUME NEW r, Good(r), Loaded(r), NEW gone, gone \subseteq ToSet(r.list)
  PROVE  Has(Without(r, gone), r.ref, Mapped(r.node, Only(r.list, ToSet(r.list) \ gone)))
<1> DEFINE S == ToSet(r.list)
           rest == S \ gone
           list == Only(r.list, rest)
           node == [n \in rest |-> r.node[n]]
           count == BucketCount(r)
           chain == [b \in DOMAIN r.chain |-> Only(r.chain[b], rest)]
           size == r.size - Cardinality(gone)
           q == Without(r, gone)
<1>1. /\ r \in Records(S) /\ r.size = Len(r.list) /\ IsInjective(r.list) /\ count > 0
      /\ r.chain = Chains(r.list, r.node, count)
  BY DEF Good
<1>2. /\ r.size \in Nat /\ r.list \in Seq(Nat) /\ r.node \in [S -> Entries] /\ count \in Nat
      /\ r.chain \in Seq(Seq(Nat)) /\ DOMAIN r.chain = 1 .. count /\ S \subseteq Nat
  BY GoodFields
<1>3. list \in Seq(Nat) /\ ToSet(list) = rest /\ IsInjective(list)
  <2> DEFINE K == rest
  <2>1. r.list \in Seq(Nat) /\ IsInjective(r.list)
    BY <1>1, <1>2
  <2> HIDE DEF K
  <2>2. /\ Only(r.list, K) \in Seq(Nat) /\ IsInjective(Only(r.list, K))
        /\ ToSet(Only(r.list, K)) = ToSet(r.list) \intersect K
    BY <2>1, OnlyType, OnlySet, InjectiveOnly
  <2>. QED
    BY <2>2 DEF K
<1>4. size = Len(list) /\ size \in Nat
  <2>1. IsFiniteSet(S) /\ Cardinality(S) = r.size
    BY <1>1, <1>2, CountOf
  <2>2. Cardinality(rest) = Len(list) /\ Len(list) \in Nat
    <3>1. list \in Seq(Nat) /\ IsInjective(list)
      BY <1>3
    <3>2. Cardinality(ToSet(list)) = Len(list) /\ Cardinality(ToSet(list)) \in Nat
      <4> HIDE DEF list
      <4>. QED
        BY <3>1, CountOf
    <3>. QED
      BY <1>3, <3>2
  <2>3. IsFiniteSet(gone) /\ Cardinality(gone) \in Nat
    <3>1. IsFiniteSet(gone)
      BY <2>1, FS_Subset
    <3>. QED
      BY <3>1, FS_CardinalityType
  <2>4. Cardinality(S \ gone) = Cardinality(S) - Cardinality(S \intersect gone)
    BY <2>1, FS_Difference
  <2>5. S \intersect gone = gone
    OBVIOUS
  <2> HIDE DEF S, list
  <2>. QED
    BY <1>2, <2>1, <2>2, <2>3, <2>4, <2>5
<1>5. node \in [rest -> Entries] /\ \A n \in rest : node[n] = r.node[n]
  BY <1>2
<1>6. \A b \in 1 .. count : r.chain[b] \in Seq(Nat)
  BY <1>2
<1>7. chain \in Seq(Seq(Nat)) /\ DOMAIN chain = 1 .. count /\ Len(chain) = count
  <2>1. \A b \in 1 .. count : Only(r.chain[b], rest) \in Seq(Nat)
    <3> DEFINE K == rest
    <3> HIDE DEF K
    <3>1. \A b \in 1 .. count : Only(r.chain[b], K) \in Seq(Nat)
      BY <1>6, OnlyType
    <3>. QED
      BY <3>1 DEF K
  <2> HIDE DEF rest, count
  <2>2. chain = [b \in 1 .. count |-> Only(r.chain[b], rest)]
    BY <1>2
  <2>. QED
    BY <1>2, <2>1, <2>2
<1>8. Shrunk(q, r, S, node, rest, list, size, chain)
  <2>1. q = [r EXCEPT !.list = list, !.chain = chain, !.node = node, !.size = size]
    BY DEF Without
  <2>. QED
    BY <1>1, <1>3, <1>4, <1>5, <1>7, <2>1 DEF Shrunk
<1> HIDE DEF size, chain, node, list, q
<1>9. /\ q \in Records(rest) /\ q.ref = r.ref /\ q.size = size
      /\ q.list = list /\ q.node = node /\ q.chain = chain
  BY <1>8, FourFields
<1>10. chain = Chains(list, node, count)
  <2>1. /\ DOMAIN Chains(list, node, count) = 1 .. count
        /\ Chains(list, node, count) \in Seq(Seq(Nat)) /\ Len(Chains(list, node, count)) = count
        /\ \A c \in 1 .. count :
             Chains(list, node, count)[c] = Reverse(Only(list, Bucketed(list, node, count, c)))
    <3>1. list \in Seq(Nat) /\ count \in Nat
      BY <1>2, <1>3
    <3>. QED
      BY <3>1, ChainsType
  <2>2. \A c \in 1 .. count : r.chain[c] = Reverse(Only(r.list, Bucketed(r.list, r.node, count, c)))
    <3>1. r.list \in Seq(Nat) /\ count \in Nat
      BY <1>2
    <3>2. \A c \in 1 .. count :
            Chains(r.list, r.node, count)[c] = Reverse(Only(r.list, Bucketed(r.list, r.node, count, c)))
      BY <3>1, ChainsType
    <3>. QED
      BY <1>1, <3>2
  <2>3. ASSUME NEW c \in 1 .. count PROVE chain[c] = Chains(list, node, count)[c]
    <3> DEFINE K == Bucketed(r.list, r.node, count, c)
               J == Bucketed(list, node, count, c)
               R == rest
               o == Only(r.list, K)
    <3>1. K \intersect R = R \intersect J
      BY <1>3, <1>5 DEF Bucketed
    <3> HIDE DEF K, J, R, o
    <3>2. o \in Seq(Nat) /\ r.list \in Seq(Nat)
      BY <1>2, OnlyType DEF o
    <3>3. Only(Reverse(o), R) = Reverse(Only(o, R))
      BY <3>2, OnlyReverse
    <3>4. Only(o, R) = Only(r.list, K \intersect R)
      BY <3>2, OnlyTwice DEF o
    <3>5. Only(list, J) = Only(r.list, R \intersect J)
      <4>1. Only(Only(r.list, R), J) = Only(r.list, R \intersect J)
        BY <3>2, OnlyTwice
      <4>. QED
        BY <4>1 DEF list, R
    <3>6. chain[c] = Only(r.chain[c], R)
      BY <1>2 DEF chain, R
    <3>7. r.chain[c] = Reverse(o)
      BY <2>2 DEF o, K
    <3>8. Chains(list, node, count)[c] = Reverse(Only(list, J))
      BY <2>1 DEF J
    <3>. QED
      BY <3>1, <3>3, <3>4, <3>5, <3>6, <3>7, <3>8
  <2>4. /\ Len(chain) = Len(Chains(list, node, count))
        /\ \A c \in 1 .. Len(chain) : chain[c] = Chains(list, node, count)[c]
    BY <1>7, <2>1, <2>3
  <2>. QED
    BY <1>7, <2>1, <2>4, SameSeq
<1>11. BucketCount(q) = count
  BY <1>7, <1>9 DEF BucketCount
<1>12. Good(q)
  BY <1>1, <1>3, <1>4, <1>9, <1>10, <1>11 DEF Good
<1>13. Loaded(q)
  <2>1. size <= r.size
    <3>1. IsFiniteSet(S)
      BY <1>2, CountOf
    <3>2. IsFiniteSet(gone)
      BY <3>1, FS_Subset
    <3>3. Cardinality(gone) \in Nat
      BY <3>2, FS_CardinalityType
    <3>. QED
      BY <1>2, <3>3 DEF size
  <2>2. r.size <= count
    BY DEF Loaded
  <2>. QED
    BY <1>2, <1>4, <1>9, <1>11, <2>1, <2>2 DEF Loaded
<1>14. EntriesOf(q) = Mapped(r.node, list)
  <2>1. EntriesOf(q) = Mapped(node, list)
    BY <1>9, EntriesAre
  <2>2. list \in Seq(Nat) /\ \A x \in ToSet(list) : node[x] = r.node[x]
    BY <1>3, <1>5
  <2>3. Mapped(node, list) = Mapped(r.node, list)
    BY <2>2, MappedSame
  <2>. QED
    BY <2>1, <2>3
<1>. QED
  BY <1>9, <1>12, <1>13, <1>14 DEF Has, q, list
(* The nodes of key k.                                                     *)
OfKey(r, k) == {n \in ToSet(r.list) : r.node[n].key = k}

(* find_impl's matches are the nodes of the key, newest first.             *)
LEMMA MatchesAre ==
  ASSUME NEW r, Good(r), NEW k, k \in Keys
  PROVE  Matches(r, k) = Reverse(Only(r.list, OfKey(r, k)))
<1> DEFINE count == BucketCount(r)
           b == (Hash[k] % count) + 1
           K == Bucketed(r.list, r.node, count, b)
           M == {n \in ToSet(r.list) : r.node[n].key = k /\ Hash[r.node[n].key] = Hash[k]}
           o == Only(r.list, K)
<1>1. r.list \in Seq(Nat) /\ count \in Nat /\ count > 0 /\ r.chain = Chains(r.list, r.node, count)
  BY GoodFields DEF Good
<1>2. b \in 1 .. count
  <2>1. PICK e \in Entries : e.key = k
    BY DEF Keys
  <2>2. (Hash[e.key] % count) + 1 \in 1 .. count
    BY <1>1, BucketIn
  <2>. QED
    BY <2>1, <2>2
<1>3. M = OfKey(r, k)
  BY DEF OfKey
<1>4. K \intersect M = OfKey(r, k)
  BY <1>3 DEF Bucketed, OfKey
<1>5. Matches(r, k) = Only(r.chain[b], M)
  BY DEF Matches, Bucket
<1> HIDE DEF b, count, M, K
<1>6. r.chain[b] = Reverse(o)
  <2>1. r.list \in Seq(Nat) /\ count \in Nat
    BY <1>1
  <2>2. \A c \in 1 .. count :
          Chains(r.list, r.node, count)[c] = Reverse(Only(r.list, Bucketed(r.list, r.node, count, c)))
    BY <2>1, ChainsType
  <2>. QED
    BY <1>1, <1>2, <2>2 DEF K
<1> HIDE DEF o
<1>7. o \in Seq(Nat)
  BY <1>1, OnlyType DEF o
<1>8. Only(Reverse(o), M) = Reverse(Only(o, M))
  BY <1>7, OnlyReverse
<1>9. Only(o, M) = Only(r.list, K \intersect M)
  <2>1. r.list \in Seq(Nat)
    BY <1>1
  <2>. QED
    BY <2>1, OnlyTwice DEF o
<1>. QED
  BY <1>4, <1>5, <1>6, <1>8, <1>9

(* erase of the node at place i takes that entry out.                      *)
LEMMA EraseAtIs ==
  ASSUME NEW r, Good(r), Loaded(r), NEW i, i \in 1 .. r.size
  PROVE  Has(Without(r, {r.list[i]}), r.ref, RemoveAt(EntriesOf(r), i))
<1> DEFINE S == ToSet(r.list)
<1>1. /\ r.list \in Seq(S) /\ r.list \in Seq(Nat) /\ IsMap(r.node, S, Entries) /\ i \in 1 .. Len(r.list)
      /\ IsInjective(r.list)
  BY GoodFields DEF Good
<1>2. {r.list[i]} \subseteq S
  <2>1. r.list[i] \in S
    BY <1>1, SetOf
  <2>. QED
    BY <2>1
<1>3. Has(Without(r, {r.list[i]}), r.ref, Mapped(r.node, Only(r.list, S \ {r.list[i]})))
  BY <1>2, WithoutIs
<1>4. Only(r.list, S \ {r.list[i]}) = RemoveAt(r.list, i)
  <2>1. r.list \in Seq(Nat) /\ i \in 1 .. Len(r.list) /\ IsInjective(r.list)
    BY <1>1
  <2>. QED
    BY <2>1, OnlyButOne
<1>5. Mapped(r.node, RemoveAt(r.list, i)) = RemoveAt(Mapped(r.node, r.list), i)
  <2> HIDE DEF S
  <2>1. r.list \in Seq(S) /\ IsMap(r.node, S, Entries) /\ i \in 1 .. Len(r.list)
    BY <1>1
  <2>. QED
    BY <2>1, MappedRemove
<1>. QED
  BY <1>3, <1>4, <1>5, EntriesAre

(* erase of a key takes its entries out.                                   *)
LEMMA EraseKeyIs ==
  ASSUME NEW r, Good(r), Loaded(r), NEW k, k \in Keys
  PROVE  Has(WithoutKey(r, k), r.ref, List!Others(EntriesOf(r), k))
<1> DEFINE S == ToSet(r.list)
           M == OfKey(r, k)
           K == {e \in Entries : e.key # k}
           s == EntriesOf(r)
<1>1. r.list \in Seq(S) /\ r.list \in Seq(Nat) /\ IsMap(r.node, S, Entries) /\ r.node \in [S -> Entries]
  BY GoodFields
<1>2. ToSet(Matches(r, k)) = M
  <2>1. Matches(r, k) = Reverse(Only(r.list, M))
    BY MatchesAre
  <2>2. M \subseteq S
    BY DEF OfKey
  <2> HIDE DEF M
  <2>3. Only(r.list, M) \in Seq(Nat) /\ ToSet(Only(r.list, M)) = ToSet(r.list) \intersect M
    BY <1>1, OnlyType, OnlySet
  <2>4. ToSet(Reverse(Only(r.list, M))) = ToSet(Only(r.list, M))
    BY <2>3, ReverseIs
  <2>. QED
    BY <2>1, <2>2, <2>3, <2>4
<1>3. WithoutKey(r, k) = Without(r, M) /\ M \subseteq S
  BY <1>2 DEF WithoutKey, OfKey
<1>4. Has(Without(r, M), r.ref, Mapped(r.node, Only(r.list, S \ M)))
  BY <1>3, WithoutIs
<1>5. S \ M = {n \in S : r.node[n] \in K}
  BY <1>1 DEF OfKey
<1>6. Only(Mapped(r.node, r.list), K) = Mapped(r.node, Only(r.list, {n \in S : r.node[n] \in K}))
  <2> HIDE DEF S, K
  <2>1. r.list \in Seq(S) /\ IsMap(r.node, S, Entries)
    BY <1>1
  <2>. QED
    BY <2>1, MappedOnly
<1>7. List!Others(s, k) = Only(s, K)
  BY OnlyOfLists DEF List!Others
<1> HIDE DEF S, M, K
<1>8. List!Others(s, k) = Mapped(r.node, Only(r.list, S \ M))
  BY <1>5, <1>6, <1>7, EntriesAre
<1>. QED
  BY <1>3, <1>4, <1>8

(* The value of the node that find_impl finds.                             *)
Assigned(r, e) == [r EXCEPT !.node[FindNode(r, e.key)].val = e.val]

(* The node found is that of the newest entry of the key.                  *)
LEMMA FoundIs ==
  ASSUME NEW r, Good(r), NEW k, k \in Keys
  PROVE  /\ Found(r, k) <=> List!Has(EntriesOf(r), k)
         /\ Found(r, k) => /\ List!Newest(EntriesOf(r), k) \in 1 .. Len(r.list)
                           /\ FindNode(r, k) = r.list[List!Newest(EntriesOf(r), k)]
                           /\ r.node[FindNode(r, k)].key = k
<1> DEFINE M == OfKey(r, k)
           s == EntriesOf(r)
           n == Len(r.list)
           o == Only(r.list, M)
           N(i) == i \in DOMAIN s /\ s[i].key = k /\ \A j \in DOMAIN s : s[j].key = k => j <= i
<1>1. r.list \in Seq(Nat) /\ n \in Nat /\ DOMAIN r.list = 1 .. n
  BY GoodFields
<1>2. DOMAIN s = 1 .. n /\ \A i \in 1 .. n : s[i] = r.node[r.list[i]]
  BY <1>1 DEF EntriesOf
<1>3. \A i \in 1 .. n : r.list[i] \in M <=> s[i].key = k
  <2>1. \A i \in 1 .. n : r.list[i] \in ToSet(r.list)
    BY <1>1, SetOf
  <2>. QED
    BY <1>2, <2>1 DEF OfKey
<1>4. Matches(r, k) = Reverse(o)
  BY MatchesAre
<1> HIDE DEF M, s, n
<1>5. o \in Seq(Nat) /\ ToSet(o) = ToSet(r.list) \intersect M
  BY <1>1, OnlyType, OnlySet
<1> HIDE DEF o
<1>6. Reverse(o) \in Seq(Nat) /\ ToSet(Reverse(o)) = ToSet(o)
  BY <1>5, ReverseIs
<1>7. CASE ToSet(r.list) \intersect M = {}
  <2>1. ToSet(Reverse(o)) = {}
    BY <1>5, <1>6, <1>7
  <2>2. Reverse(o) = <<>>
    <3> DEFINE t == Reverse(o)
    <3>1. t \in Seq(Nat) /\ ToSet(t) = {}
      BY <1>6, <2>1
    <3> HIDE DEF t
    <3>2. Len(t) = 0
      <4>1. \A i \in 1 .. Len(t) : t[i] \in ToSet(t)
        BY <3>1, SetOf
      <4>2. 1 \notin 1 .. Len(t) /\ Len(t) \in Nat
        BY <3>1, <4>1
      <4>. QED
        BY <4>2
    <3>3. t = <<>>
      BY <3>1, <3>2
    <3>. QED
      BY <3>3 DEF t
  <2>3. ~ Found(r, k)
    BY <1>4, <2>2 DEF Found
  <2>4. \A i \in 1 .. n : r.list[i] \in ToSet(r.list)
    BY <1>1, SetOf DEF n
  <2>5. ~ List!Has(s, k)
    BY <1>2, <1>3, <1>7, <2>4 DEF List!Has
  <2>. QED
    BY <2>3, <2>5 DEF s
<1>8. CASE ToSet(r.list) \intersect M # {}
  <2>1. PICK i \in 1 .. n : /\ r.list[i] \in M
                            /\ \A j \in 1 .. n : r.list[j] \in M => j <= i
                            /\ Reverse(o)[1] = r.list[i]
    BY <1>1, <1>8, OnlyLast DEF n, o
  <2>2. Reverse(o) # <<>>
    <3>1. ToSet(Reverse(o)) # {}
      BY <1>5, <1>6, <1>8
    <3>2. ToSet(<<>>) = {}
      BY DEF ToSet
    <3>. QED
      BY <3>1, <3>2
  <2>3. Found(r, k) /\ FindNode(r, k) = r.list[i]
    BY <1>4, <2>1, <2>2 DEF Found, FindNode
  <2>4. List!Has(s, k)
    BY <1>2, <1>3, <2>1 DEF List!Has
  <2>5. N(i) /\ \A j : N(j) => j = i
    <3>1. N(i)
      BY <1>2, <1>3, <2>1
    <3>2. ASSUME NEW j, N(j) PROVE j = i
      <4>1. j \in 1 .. n /\ j <= i /\ i <= j /\ i \in 1 .. n
        BY <1>2, <1>3, <2>1, <3>2, <3>1
      <4>. QED
        BY <1>1, <4>1
    <3>. QED
      BY <3>1, <3>2
  <2>6. List!Newest(s, k) = i
    BY <2>5 DEF List!Newest
  <2>7. r.node[r.list[i]].key = k
    BY <2>1 DEF OfKey, M
  <2>. QED
    BY <2>1, <2>3, <2>4, <2>6, <2>7 DEF s, n
<1>. QED
  BY <1>7, <1>8

(* The node's field of a record is replaced.                               *)
LEMMA NodeField ==
  ASSUME NEW S, NEW r, r \in Records(S), NEW node, node \in [S -> Entries],
         NEW q, q = [r EXCEPT !.node = node]
  PROVE  /\ q \in Records(S) /\ q.ref = r.ref /\ q.size = r.size
         /\ q.list = r.list /\ q.node = node /\ q.chain = r.chain
<1>1. q.ref = r.ref /\ q.size = r.size /\ q.list = r.list /\ q.node = node /\ q.chain = r.chain
  BY DEF Records
<1>2. q \in Records(S)
  BY DEF Records
<1>. QED
  BY <1>1, <1>2

(* The value assigned through a key is that of its newest entry.           *)
LEMMA AssignedIs ==
  ASSUME NEW r, Good(r), Loaded(r), NEW e, e \in Entries, Found(r, e.key)
  PROVE  /\ List!Has(EntriesOf(r), e.key)
         /\ Has(Assigned(r, e), r.ref, [EntriesOf(r) EXCEPT ![List!Newest(EntriesOf(r), e.key)] = e])
<1> DEFINE S == ToSet(r.list)
           i == List!Newest(EntriesOf(r), e.key)
           n == FindNode(r, e.key)
           node == [r.node EXCEPT ![n] = e]
           q == Assigned(r, e)
           count == BucketCount(r)
<1>0. e.key \in Keys
  BY DEF Keys
<1>1. List!Has(EntriesOf(r), e.key) /\ i \in 1 .. Len(r.list) /\ n = r.list[i] /\ r.node[n].key = e.key
  BY <1>0, FoundIs
<1>2. /\ r \in Records(S) /\ r.size = Len(r.list) /\ IsInjective(r.list) /\ count > 0
      /\ r.chain = Chains(r.list, r.node, count)
  BY DEF Good
<1>3. /\ r.list \in Seq(Nat) /\ r.node \in [S -> Entries] /\ DOMAIN r.list = 1 .. Len(r.list)
  BY GoodFields
<1>4. n \in S
  <2>1. \A j \in 1 .. Len(r.list) : r.list[j] \in S
    BY <1>3, SetOf
  <2>. QED
    BY <1>1, <2>1
<1> HIDE DEF i, n, S
<1>5. node \in [S -> Entries] /\ node[n] = e /\ \A m \in S : m # n => node[m] = r.node[m]
  BY <1>3, <1>4
<1>6. q = [r EXCEPT !.node = node]
  <2>1. [r.node[n] EXCEPT !.val = e.val] = e
    <3>1. r.node[n] \in Entries /\ r.node[n].key = e.key
      BY <1>1, <1>3, <1>4
    <3>. QED
      BY <3>1, EntryAssumption
  <2>2. q = [r EXCEPT !.node = [r.node EXCEPT ![n] = [r.node[n] EXCEPT !.val = e.val]]]
    BY <1>2 DEF Assigned, n, Records
  <2>. QED
    BY <2>1, <2>2
<1> HIDE DEF node, q, count
<1>7. /\ q \in Records(S) /\ q.ref = r.ref /\ q.size = r.size
      /\ q.list = r.list /\ q.node = node /\ q.chain = r.chain
  BY <1>2, <1>5, <1>6, NodeField
<1>8. \A m \in S : node[m].key = r.node[m].key
  BY <1>1, <1>5
<1>9. \A c : Bucketed(r.list, node, count, c) = Bucketed(r.list, r.node, count, c)
  BY <1>8 DEF Bucketed, S
<1>10. Chains(r.list, node, count) = Chains(r.list, r.node, count)
  BY <1>9 DEF Chains
<1>11. BucketCount(q) = count
  BY <1>7 DEF BucketCount, count
<1>12. Good(q)
  BY <1>2, <1>7, <1>10, <1>11 DEF Good, S
<1>13. Loaded(q)
  BY <1>7, <1>11 DEF Loaded, count
<1>14. EntriesOf(q) = [EntriesOf(r) EXCEPT ![i] = e]
  <2>1. EntriesOf(r) = [j \in DOMAIN r.list |-> r.node[r.list[j]]]
    BY DEF EntriesOf
  <2>2. EntriesOf(q) = [j \in DOMAIN r.list |-> node[r.list[j]]]
    BY <1>7 DEF EntriesOf
  <2>3. ASSUME NEW j \in DOMAIN r.list PROVE node[r.list[j]] = IF j = i THEN e ELSE r.node[r.list[j]]
    <3>1. r.list[j] \in S
      BY <1>3, SetOf DEF S
    <3>2. j # i => r.list[j] # n
      BY <1>1, <1>2, <1>3 DEF IsInjective
    <3>. QED
      BY <1>1, <1>5, <3>1, <3>2
  <2>. QED
    BY <2>1, <2>2, <2>3
<1>. QED
  BY <1>1, <1>7, <1>12, <1>13, <1>14 DEF Has, i, q

-----------------------------------------------------------------------------
(* The blocks and the variables.  A state is sound when a block's counter  *)
(* is the number of its holders, and every block that is held is a sound   *)
(* record of no more entries than buckets.                                 *)
Vars == [Handles -> Blocks \cup {NoBlock}]
States == [rec : [Blocks -> AllRecords], var : Vars]
Holders(v, b) == {h \in Handles : v[h] = b}

Sound(S) ==
  /\ S \in States
  /\ \A b \in Blocks : S.rec[b] \in Records(ToSet(S.rec[b].list))
  /\ \A b \in Blocks : S.rec[b].ref = Cardinality(Holders(S.var, b))
  /\ \A b \in Blocks : S.rec[b].ref > 0 => Good(S.rec[b]) /\ Loaded(S.rec[b])

ListOf(S, h) == IF S.var[h] = NoBlock THEN <<>> ELSE EntriesOf(Held(S, h))
ListsOf(S) == [h \in Handles |-> ListOf(S, h)]

(* A record of the nodes of its list is one of all records.                *)
LEMMA RecordIn ==
  ASSUME NEW r, r \in Records(ToSet(r.list))
  PROVE  r \in AllRecords
<1> DEFINE S == ToSet(r.list)
           N == UNION {[T -> Entries] : T \in SUBSET Nat}
<1>1. r.list \in Seq(Nat)
  BY DEF Records
<1>2. S \subseteq Nat
  BY <1>1, OwnSeq
<1>3. r \in Records(S)
  OBVIOUS
<1> HIDE DEF S
<1>4. r.node \in N
  <2>1. r.node \in [S -> Entries]
    BY <1>3 DEF Records
  <2>. QED
    BY <1>2, <2>1
<1> HIDE DEF N
<1>5. r \in [ref : Nat, size : Nat, list : Seq(Nat), node : N, chain : Seq(Seq(Nat))]
  BY <1>3, <1>4 DEF Records
<1>. QED
  BY <1>5 DEF AllRecords, N

(* The holders of a block can be counted, and a block that is held has one.*)
LEMMA HoldersCount ==
  ASSUME NEW v, NEW b
  PROVE  /\ IsFiniteSet(Holders(v, b)) /\ Cardinality(Holders(v, b)) \in Nat
         /\ \A h \in Handles : v[h] = b => Cardinality(Holders(v, b)) > 0
         /\ Cardinality(Holders(v, b)) = 1 =>
              \A h, g \in Handles : v[h] = b /\ v[g] = b => g = h
<1> DEFINE H == Holders(v, b)
<1>1. H \subseteq Handles
  BY DEF Holders
<1>2. IsFiniteSet(H) /\ Cardinality(H) \in Nat
  <2>1. IsFiniteSet(H)
    BY <1>1, MemoryAssumption, FS_Subset
  <2>. QED
    BY <2>1, FS_CardinalityType
<1>3. ASSUME NEW h \in Handles, v[h] = b PROVE Cardinality(H) > 0
  <2>1. h \in H
    BY <1>3 DEF Holders
  <2>2. Cardinality(H) # 0
    BY <1>2, <2>1, FS_EmptySet
  <2>. QED
    BY <1>2, <2>2
<1>4. ASSUME Cardinality(H) = 1, NEW h \in Handles, NEW g \in Handles, v[h] = b, v[g] = b PROVE g = h
  <2>1. h \in H /\ g \in H
    BY <1>4 DEF Holders
  <2>2. \E x : H = {x}
    BY <1>2, <1>4, FS_Singleton
  <2>. QED
    BY <2>1, <2>2
<1>. QED
  BY <1>2, <1>3, <1>4

(* A variable that moves is one holder less here and one more there.       *)
LEMMA HoldersMove ==
  ASSUME NEW v, v \in Vars, NEW h \in Handles, NEW t \in Blocks \cup {NoBlock}, t # v[h],
         NEW w, w = [v EXCEPT ![h] = t]
  PROVE  /\ Cardinality(Holders(w, t)) = Cardinality(Holders(v, t)) + 1
         /\ Cardinality(Holders(w, v[h])) = Cardinality(Holders(v, v[h])) - 1
         /\ \A c : c # t /\ c # v[h] => Holders(w, c) = Holders(v, c)
<1>1. w[h] = t /\ \A g \in Handles : g # h => w[g] = v[g]
  BY DEF Vars
<1>2. /\ Holders(w, t) = Holders(v, t) \cup {h} /\ h \notin Holders(v, t)
      /\ Holders(w, v[h]) = Holders(v, v[h]) \ {h} /\ h \in Holders(v, v[h])
      /\ \A c : c # t /\ c # v[h] => Holders(w, c) = Holders(v, c)
  BY <1>1 DEF Holders
<1>3. IsFiniteSet(Holders(v, t)) /\ IsFiniteSet(Holders(v, v[h]))
  BY HoldersCount
<1>4. Cardinality(Holders(w, t)) = Cardinality(Holders(v, t)) + 1
  BY <1>2, <1>3, FS_AddElement, Zenon
<1>5. Cardinality(Holders(w, v[h])) = Cardinality(Holders(v, v[h])) - 1
  BY <1>2, <1>3, FS_RemoveElement, Zenon
<1>. QED
  BY <1>2, <1>4, <1>5

(* A record whose counter changes is as sound, and has the same entries.   *)
LEMMA RefIs ==
  ASSUME NEW r, Good(r), Loaded(r), NEW n, n \in Nat, NEW q, q = [r EXCEPT !.ref = n]
  PROVE  Has(q, n, EntriesOf(r))
<1> DEFINE S == ToSet(r.list)
<1>1. r \in Records(S)
  BY DEF Good
<1> HIDE DEF S
<1>2. q.ref = n /\ q.size = r.size /\ q.list = r.list /\ q.node = r.node /\ q.chain = r.chain
  BY <1>1 DEF Records
<1>3. q \in Records(S)
  BY <1>1 DEF Records
<1>. QED
  BY <1>2, <1>3 DEF Has, Good, Loaded, BucketCount, EntriesOf, S

(* A free block is a record without nodes.                                 *)
LEMMA FreeIs == Free \in Records(ToSet(Free.list)) /\ Free.ref = 0 /\ Free \in AllRecords
<1>1. Free.list = <<>> /\ Free.ref = 0
  BY DEF Free
<1>2. ToSet(<<>>) = {}
  BY DEF ToSet
<1>3. Free \in Records({})
  <2>1. <<>> \in Seq(Nat) /\ <<>> \in Seq(Seq(Nat))
    OBVIOUS
  <2>2. [n \in {} |-> n] \in [{} -> Entries]
    OBVIOUS
  <2>. QED
    BY <2>1, <2>2 DEF Free, Records
<1>4. Free \in Records(ToSet(Free.list))
  BY <1>1, <1>2, <1>3
<1>. QED
  BY <1>1, <1>4, RecordIn
-----------------------------------------------------------------------------
(* One variable moves from its block to another, t, which then is r: the   *)
(* old block has one reference less, or is free.                           *)
Dropped(r) == IF r.ref > 1 THEN [r EXCEPT !.ref = r.ref - 1] ELSE Free

Moved(T, S, h, t, r) ==
  /\ T \in States
  /\ T.var = [S.var EXCEPT ![h] = t]
  /\ t # S.var[h]
  /\ \A c \in Blocks : /\ c = t => T.rec[c] = r
                       /\ c # t /\ c = S.var[h] => T.rec[c] = Dropped(S.rec[c])
                       /\ c # t /\ c # S.var[h] => T.rec[c] = S.rec[c]

Joins(S, t, r) ==
  t \in Blocks => /\ Good(r) /\ Loaded(r) /\ r.ref = S.rec[t].ref + 1
                  /\ S.rec[t].ref > 0 => EntriesOf(r) = EntriesOf(S.rec[t])

(* What a block may have become when its holders read it as before.        *)
Kept(q, r, n) ==
  /\ q \in Records(ToSet(q.list))
  /\ q.ref = n
  /\ n > 0 => Good(q) /\ Loaded(q) /\ EntriesOf(q) = EntriesOf(r)

(* A reference less, and the entries of the others stay.                   *)
LEMMA DroppedIs ==
  ASSUME NEW r, r.ref > 0, Good(r), Loaded(r)
  PROVE  Kept(Dropped(r), r, r.ref - 1)
<1>1. r.ref \in Nat
  BY GoodFields
<1>2. CASE r.ref > 1
  <2> DEFINE n == r.ref - 1
             q == [r EXCEPT !.ref = n]
  <2>1. n \in Nat
    BY <1>1, <1>2
  <2>2. Dropped(r) = q
    BY <1>2 DEF Dropped
  <2> HIDE DEF n, q
  <2>3. Has(q, n, EntriesOf(r))
    BY <2>1, RefIs DEF q
  <2>. QED
    BY <2>2, <2>3 DEF Has, Kept, Good, n
<1>3. CASE ~ (r.ref > 1)
  <2>1. Dropped(r) = Free /\ r.ref - 1 = 0
    BY <1>1, <1>3 DEF Dropped
  <2>. QED
    BY <2>1, FreeIs DEF Kept
<1>. QED
  BY <1>2, <1>3

(* The block of a variable of a sound state is a sound record.             *)
LEMMA HeldIs ==
  ASSUME NEW S, Sound(S), NEW h \in Handles, S.var[h] # NoBlock
  PROVE  /\ S.var[h] \in Blocks /\ Held(S, h).ref > 0 /\ Held(S, h).ref \in Nat
         /\ Good(Held(S, h)) /\ Loaded(Held(S, h))
<1> DEFINE b == S.var[h]
<1>1. b \in Blocks
  BY DEF Sound, States, Vars
<1>2. Cardinality(Holders(S.var, b)) > 0 /\ Cardinality(Holders(S.var, b)) \in Nat
  BY HoldersCount
<1>3. S.rec[b].ref = Cardinality(Holders(S.var, b))
  BY <1>1 DEF Sound
<1>. QED
  BY <1>1, <1>2, <1>3 DEF Sound, Held

(* A move keeps a sound state sound.                                       *)
LEMMA MovedSound ==
  ASSUME NEW S, Sound(S), NEW h \in Handles, NEW t \in Blocks \cup {NoBlock},
         NEW r, Joins(S, t, r), NEW T, Moved(T, S, h, t, r)
  PROVE  /\ Sound(T)
         /\ \A c \in Blocks : c # t /\ T.rec[c].ref > 0 =>
              S.rec[c].ref > 0 /\ EntriesOf(T.rec[c]) = EntriesOf(S.rec[c])
<1> DEFINE o == S.var[h]
           N(c) == Cardinality(Holders(S.var, c))
           M(c) == Cardinality(Holders(T.var, c))
<1>1. S.var \in Vars /\ o \in Blocks \cup {NoBlock}
  BY DEF Sound, States, Vars
<1>2. t # o /\ T.var = [S.var EXCEPT ![h] = t]
  BY DEF Moved
<1>3. M(t) = N(t) + 1 /\ M(o) = N(o) - 1 /\ \A c : c # t /\ c # o => M(c) = N(c)
  BY <1>1, <1>2, HoldersMove
<1>4. \A c \in Blocks : S.rec[c].ref = N(c) /\ N(c) \in Nat
  BY HoldersCount DEF Sound
<1> HIDE DEF o, N, M
<1>5. ASSUME NEW c \in Blocks
      PROVE  /\ T.rec[c] \in Records(ToSet(T.rec[c].list))
             /\ T.rec[c].ref = M(c)
             /\ T.rec[c].ref > 0 => Good(T.rec[c]) /\ Loaded(T.rec[c])
             /\ c # t /\ T.rec[c].ref > 0 =>
                  S.rec[c].ref > 0 /\ EntriesOf(T.rec[c]) = EntriesOf(S.rec[c])
  <2>1. CASE c = t
    <3>1. T.rec[c] = r
      BY <2>1 DEF Moved
    <3>2. Good(r) /\ Loaded(r) /\ r.ref = S.rec[c].ref + 1
      BY <2>1 DEF Joins
    <3>3. r \in Records(ToSet(r.list))
      BY <3>2 DEF Good
    <3>. QED
      BY <1>3, <1>4, <2>1, <3>1, <3>2, <3>3
  <2>2. CASE c # t /\ c = o
    <3>1. T.rec[c] = Dropped(S.rec[c])
      BY <2>2 DEF Moved, o
    <3>2. S.var[h] # NoBlock
      BY <2>2 DEF o, Blocks, NoBlock
    <3>3. S.rec[c].ref > 0 /\ Good(S.rec[c]) /\ Loaded(S.rec[c])
      BY <2>2, <3>2, HeldIs DEF o, Held
    <3>4. Kept(T.rec[c], S.rec[c], S.rec[c].ref - 1)
      BY <3>1, <3>3, DroppedIs
    <3>5. /\ T.rec[c] \in Records(ToSet(T.rec[c].list)) /\ T.rec[c].ref = S.rec[c].ref - 1
          /\ T.rec[c].ref > 0 => Good(T.rec[c]) /\ Loaded(T.rec[c]) /\ EntriesOf(T.rec[c]) = EntriesOf(S.rec[c])
      BY <3>4 DEF Kept
    <3>. QED
      BY <1>3, <1>4, <2>2, <3>3, <3>5
  <2>3. CASE c # t /\ c # o
    <3>1. T.rec[c] = S.rec[c]
      BY <2>3 DEF Moved, o
    <3>2. /\ S.rec[c] \in Records(ToSet(S.rec[c].list))
          /\ S.rec[c].ref > 0 => Good(S.rec[c]) /\ Loaded(S.rec[c])
      BY DEF Sound
    <3>. QED
      BY <1>3, <1>4, <2>3, <3>1, <3>2
  <2>. QED
    BY <2>1, <2>2, <2>3
<1>6. Sound(T)
  BY <1>5 DEF Sound, Moved, M
<1>. QED
  BY <1>5, <1>6

(* A move is seen by the variable that moves, and by no other.             *)
LEMMA MovedIs ==
  ASSUME NEW S, Sound(S), NEW h \in Handles, NEW t \in Blocks \cup {NoBlock},
         NEW r, Joins(S, t, r), NEW T, Moved(T, S, h, t, r)
  PROVE  /\ Sound(T) /\ T.var[h] = t
         /\ ListsOf(T) = [ListsOf(S) EXCEPT ![h] = IF t = NoBlock THEN <<>> ELSE EntriesOf(r)]
<1>1. /\ Sound(T)
      /\ \A c \in Blocks : c # t /\ T.rec[c].ref > 0 =>
           S.rec[c].ref > 0 /\ EntriesOf(T.rec[c]) = EntriesOf(S.rec[c])
  BY MovedSound
<1>2. S.var \in Vars
  BY DEF Sound, States
<1>3. T.var[h] = t /\ \A g \in Handles : g # h => T.var[g] = S.var[g]
  BY <1>2 DEF Moved, Vars
<1>4. NoBlock \notin Blocks
  BY DEF NoBlock, Blocks
<1>5. ListOf(T, h) = IF t = NoBlock THEN <<>> ELSE EntriesOf(r)
  BY <1>3, <1>4 DEF ListOf, Held, Moved
<1>6. ASSUME NEW g \in Handles, g # h PROVE ListOf(T, g) = ListOf(S, g)
  <2>1. CASE S.var[g] = NoBlock
    BY <1>3, <1>6, <2>1 DEF ListOf
  <2>2. CASE S.var[g] # NoBlock
    <3> DEFINE c == S.var[g]
    <3>1. T.var[g] = c
      BY <1>3, <1>6
    <3>2. c \in Blocks /\ T.rec[c].ref > 0
      BY <1>1, <2>2, <3>1, HeldIs DEF Held
    <3>3. S.rec[c].ref > 0
      BY <2>2, HeldIs DEF Held
    <3>4. EntriesOf(T.rec[c]) = EntriesOf(S.rec[c])
      <4>1. CASE c = t
        BY <3>2, <3>3, <4>1 DEF Moved, Joins
      <4>2. CASE c # t
        BY <1>1, <3>2, <4>2
      <4>. QED
        BY <4>1, <4>2
    <3>. QED
      BY <2>2, <3>1, <3>4 DEF ListOf, Held
  <2>. QED
    BY <2>1, <2>2
<1>. QED
  BY <1>1, <1>3, <1>5, <1>6 DEF ListsOf

(* There is a block for the record of a call: fewer are held than there    *)
(* are.                                                                    *)
LEMMA NewIs ==
  ASSUME NEW S, Sound(S)
  PROVE  New(S) \in Blocks /\ S.rec[New(S)].ref = 0
<1> DEFINE U == Unused(S)
           pick == [b \in Blocks |-> CHOOSE h \in Handles : S.var[h] = b]
<1>1. /\ IsFiniteSet(Blocks) /\ Cardinality(Blocks) = MaxBlocks
      /\ IsFiniteSet(Handles) /\ Cardinality(Handles) < MaxBlocks
  <2>1. MaxBlocks \in Nat /\ 1 \in Int /\ MaxBlocks \in Int
    BY SizeAssumption
  <2>2. /\ IsFiniteSet(1 .. MaxBlocks)
        /\ Cardinality(1 .. MaxBlocks) = IF 1 > MaxBlocks THEN 0 ELSE MaxBlocks - 1 + 1
    BY <2>1, FS_Interval
  <2>. QED
    BY <2>1, <2>2, MemoryAssumption DEF Blocks
<1>2. U # {}
  <2> SUFFICES ASSUME U = {} PROVE FALSE
    OBVIOUS
  <2>1. ASSUME NEW b \in Blocks PROVE \E h \in Handles : S.var[h] = b
    <3>1. S.rec[b].ref # 0
      BY DEF Unused
    <3>2. S.rec[b].ref = Cardinality(Holders(S.var, b))
      BY DEF Sound
    <3>3. Holders(S.var, b) # {}
      BY <3>1, <3>2, FS_EmptySet
    <3>. QED
      BY <3>3 DEF Holders
  <2>2. pick \in [Blocks -> Handles] /\ \A b \in Blocks : S.var[pick[b]] = b
    BY <2>1
  <2> HIDE DEF pick
  <2>3. \E b, c \in Blocks : b # c /\ pick[b] = pick[c]
    BY <1>1, <2>2, FS_PigeonHole
  <2>. QED
    BY <2>2, <2>3
<1>3. PICK b \in U : \A c \in U : b <= c
  <2>1. U \subseteq Nat
    BY SizeAssumption DEF Unused, Blocks
  <2>. QED
    BY <1>2, <2>1, LeastNat
<1>4. New(S) \in U
  BY <1>3 DEF New
<1>. QED
  BY <1>4 DEF Unused

(* The record of a variable that shares it with none is replaced.          *)
Put(T, S, h, q) ==
  /\ T \in States
  /\ T.var = S.var
  /\ \A c \in Blocks : T.rec[c] = IF c = S.var[h] THEN q ELSE S.rec[c]

(* That is seen by no other variable.                                      *)
LEMMA PutIs ==
  ASSUME NEW S, Sound(S), NEW h \in Handles, S.var[h] # NoBlock, Held(S, h).ref = 1,
         NEW q, NEW es, Has(q, 1, es), NEW T, Put(T, S, h, q)
  PROVE  Sound(T) /\ T.var[h] # NoBlock /\ ListsOf(T) = [ListsOf(S) EXCEPT ![h] = es]
<1> DEFINE b == S.var[h]
<1>1. b \in Blocks /\ S.rec[b].ref = 1
  BY HeldIs DEF Held
<1>2. \A g \in Handles : S.var[g] = b => g = h
  <2>1. Cardinality(Holders(S.var, b)) = 1
    BY <1>1 DEF Sound
  <2>. QED
    BY <2>1, HoldersCount
<1>3. Good(q) /\ Loaded(q) /\ q.ref = 1 /\ EntriesOf(q) = es /\ q \in Records(ToSet(q.list))
  BY DEF Has, Good
<1>4. T.var = S.var /\ T.rec[b] = q /\ \A c \in Blocks : c # b => T.rec[c] = S.rec[c]
  BY <1>1 DEF Put
<1>5. T \in States
  BY DEF Put
<1> HIDE DEF b
<1>6. Sound(T)
  <2>1. ASSUME NEW c \in Blocks
        PROVE  /\ T.rec[c] \in Records(ToSet(T.rec[c].list))
               /\ T.rec[c].ref = Cardinality(Holders(T.var, c))
               /\ T.rec[c].ref > 0 => Good(T.rec[c]) /\ Loaded(T.rec[c])
    <3>1. /\ S.rec[c] \in Records(ToSet(S.rec[c].list))
          /\ S.rec[c].ref = Cardinality(Holders(S.var, c))
          /\ S.rec[c].ref > 0 => Good(S.rec[c]) /\ Loaded(S.rec[c])
      BY DEF Sound
    <3>. QED
      BY <1>1, <1>3, <1>4, <3>1
  <2>. QED
    BY <1>5, <2>1 DEF Sound
<1>7. ListOf(T, h) = es /\ T.var[h] # NoBlock
  BY <1>3, <1>4 DEF ListOf, Held, b
<1>8. ASSUME NEW g \in Handles, g # h PROVE ListOf(T, g) = ListOf(S, g)
  <2>1. S.var[g] # NoBlock => S.var[g] \in Blocks
    BY HeldIs
  <2>2. S.var[g] # b
    BY <1>2, <1>8
  <2>. QED
    BY <1>4, <2>1, <2>2 DEF ListOf, Held
<1>. QED
  BY <1>6, <1>7, <1>8 DEF ListsOf

(* One block, or one variable, is written.                                 *)
BlockSet(T, S, b, r) == T = [S EXCEPT !.rec[b] = r]
VarSet(T, S, h, t) == T = [S EXCEPT !.var[h] = t]

(* What stays when a block is written.                                     *)
LEMMA BlockPut ==
  ASSUME NEW S, S \in States, NEW b \in Blocks, NEW r, r \in AllRecords, NEW T, BlockSet(T, S, b, r)
  PROVE  /\ T \in States /\ T.var = S.var /\ T.rec[b] = r
         /\ \A c \in Blocks : c # b => T.rec[c] = S.rec[c]
<1>1. S.rec \in [Blocks -> AllRecords] /\ S.var \in Vars
  BY DEF States
<1>2. T.rec = [S.rec EXCEPT ![b] = r] /\ T.var = S.var
  BY DEF States, BlockSet
<1>3. T.rec \in [Blocks -> AllRecords] /\ T.rec[b] = r /\ \A c \in Blocks : c # b => T.rec[c] = S.rec[c]
  BY <1>1, <1>2
<1>4. T \in States
  BY <1>1, <1>2, <1>3 DEF States, BlockSet
<1>. QED
  BY <1>2, <1>3, <1>4

(* What stays when a variable is written.                                  *)
LEMMA VarPut ==
  ASSUME NEW S, S \in States, NEW h \in Handles, NEW t \in Blocks \cup {NoBlock}, NEW T,
         VarSet(T, S, h, t)
  PROVE  T \in States /\ T.rec = S.rec /\ T.var = [S.var EXCEPT ![h] = t]
<1>1. S.rec \in [Blocks -> AllRecords] /\ S.var \in Vars
  BY DEF States
<1>2. T.rec = S.rec /\ T.var = [S.var EXCEPT ![h] = t]
  BY DEF States, VarSet
<1>3. [S.var EXCEPT ![h] = t] \in Vars
  BY <1>1 DEF Vars
<1>4. T \in States
  BY <1>1, <1>2, <1>3 DEF States, VarSet
<1>. QED
  BY <1>2, <1>4

(* unref drops one block, where there is one.                              *)
LEMMA UnrefIs ==
  ASSUME NEW S, S \in States, NEW o \in Blocks \cup {NoBlock}
  PROVE  /\ Unref(S, o) \in States /\ Unref(S, o).var = S.var
         /\ \A c \in Blocks : Unref(S, o).rec[c] = IF c = o THEN Dropped(S.rec[c]) ELSE S.rec[c]
<1>1. NoBlock \notin Blocks
  BY DEF NoBlock, Blocks
<1>2. CASE o = NoBlock
  BY <1>1, <1>2 DEF Unref
<1>3. CASE o # NoBlock
  <2> DEFINE r == S.rec[o]
  <2>1. o \in Blocks /\ r \in AllRecords
    BY <1>3 DEF States
  <2>2. Dropped(r) \in AllRecords
    <3>1. CASE r.ref > 1
      <4> DEFINE n == r.ref - 1
      <4>1. n \in Nat
        BY <2>1, <3>1 DEF AllRecords
      <4>2. Dropped(r) = [r EXCEPT !.ref = n]
        BY <3>1 DEF Dropped
      <4> HIDE DEF n, r
      <4>. QED
        BY <2>1, <4>1, <4>2 DEF AllRecords
    <3>2. CASE ~ (r.ref > 1)
      BY <3>2, FreeIs DEF Dropped
    <3>. QED
      BY <3>1, <3>2
  <2>3. Unref(S, o) = [S EXCEPT !.rec[o] = Dropped(r)]
    <3>1. CASE r.ref > 1
      <4>1. Unref(S, o) = [S EXCEPT !.rec[o] = [r EXCEPT !.ref = r.ref - 1]]
        BY <1>3, <3>1 DEF Unref, States
      <4>. QED
        BY <3>1, <4>1 DEF Dropped
    <3>2. CASE ~ (r.ref > 1)
      BY <1>3, <3>2 DEF Unref, Dropped
    <3>. QED
      BY <3>1, <3>2
  <2>4. BlockSet(Unref(S, o), S, o, Dropped(r))
    BY <2>3 DEF BlockSet
  <2>. QED
    BY <2>1, <2>2, <2>4, BlockPut
<1>. QED
  BY <1>2, <1>3

(* reset is a move to a new block.                                         *)
LEMMA ResetMoves ==
  ASSUME NEW S, Sound(S), NEW h \in Handles, NEW r, r \in AllRecords
  PROVE  /\ Moved(Reset(S, h, r), S, h, New(S), r)
         /\ New(S) \in Blocks /\ S.rec[New(S)].ref = 0
<1> DEFINE b == New(S)
           o == S.var[h]
           M == [S EXCEPT !.rec[b] = r]
           N == [M EXCEPT !.var[h] = b]
           T == Reset(S, h, r)
<1>1. b \in Blocks /\ S.rec[b].ref = 0
  BY NewIs
<1>2. b # o
  <2>1. o # NoBlock => S.rec[o].ref > 0
    BY HeldIs DEF Held
  <2>2. NoBlock \notin Blocks
    BY DEF NoBlock, Blocks
  <2>. QED
    BY <1>1, <2>1, <2>2
<1>3. S \in States /\ o \in Blocks \cup {NoBlock}
  BY DEF Sound, States, Vars
<1>4. T = Unref(N, o)
  BY DEF Reset
<1> HIDE DEF b, o, T
<1>5. BlockSet(M, S, b, r) /\ VarSet(N, M, h, b)
  BY DEF BlockSet, VarSet
<1> HIDE DEF M, N
<1>6. /\ M \in States /\ M.var = S.var /\ M.rec[b] = r
      /\ \A c \in Blocks : c # b => M.rec[c] = S.rec[c]
  BY <1>1, <1>3, <1>5, BlockPut
<1>7. N \in States /\ N.rec = M.rec /\ N.var = [M.var EXCEPT ![h] = b]
  BY <1>1, <1>5, <1>6, VarPut
<1>8. /\ T \in States /\ T.var = N.var
      /\ \A c \in Blocks : T.rec[c] = IF c = o THEN Dropped(N.rec[c]) ELSE N.rec[c]
  BY <1>3, <1>4, <1>7, UnrefIs
<1>9. Moved(T, S, h, b, r)
  BY <1>2, <1>6, <1>7, <1>8 DEF Moved, o
<1>. QED
  BY <1>1, <1>9 DEF T, b

(* After it the variable has the record for itself.                        *)
Renewed(T, S, h, r) ==
  /\ Sound(T) /\ T.var[h] # NoBlock /\ Held(T, h) = r
  /\ ListsOf(T) = [ListsOf(S) EXCEPT ![h] = EntriesOf(r)]

(* That is what reset leads to.                                            *)
LEMMA ResetIs ==
  ASSUME NEW S, Sound(S), NEW h \in Handles, NEW r, NEW es, Has(r, 1, es)
  PROVE  Renewed(Reset(S, h, r), S, h, r)
<1> DEFINE b == New(S)
           T == Reset(S, h, r)
<1>1. Good(r) /\ Loaded(r) /\ r.ref = 1 /\ r \in AllRecords
  BY RecordIn DEF Has, Good
<1>2. Moved(T, S, h, b, r) /\ b \in Blocks /\ S.rec[b].ref = 0
  BY <1>1, ResetMoves
<1>3. Joins(S, b, r)
  BY <1>1, <1>2 DEF Joins
<1>4. b # NoBlock
  BY <1>2 DEF NoBlock, Blocks
<1> HIDE DEF b, T
<1>5. /\ Sound(T) /\ T.var[h] = b
      /\ ListsOf(T) = [ListsOf(S) EXCEPT ![h] = IF b = NoBlock THEN <<>> ELSE EntriesOf(r)]
  BY <1>2, <1>3, MovedIs
<1>6. T.rec[b] = r
  BY <1>2 DEF Moved
<1>. QED
  BY <1>4, <1>5, <1>6 DEF Renewed, Held, T

(* make_unique: the lists stay, and h shares its record with none.         *)
Owned(T, S, h) ==
  /\ Sound(T) /\ T.var[h] # NoBlock /\ Held(T, h).ref = 1
  /\ ListsOf(T) = ListsOf(S) /\ EntriesOf(Held(T, h)) = ListsOf(S)[h]

(* That is what make_unique leads to, by a copy or by nothing.             *)
LEMMA UniqueIs ==
  ASSUME NEW S, Sound(S), NEW h \in Handles, S.var[h] # NoBlock
  PROVE  Owned(MakeUnique(S, h), S, h)
<1> DEFINE r == Held(S, h)
           q == CopyOf(r)
           T == MakeUnique(S, h)
<1>1. Good(r) /\ r.ref > 0 /\ r.ref \in Nat
  BY HeldIs
<1>2. ListsOf(S)[h] = EntriesOf(r)
  BY DEF ListsOf, ListOf
<1>3. CASE Shared(S, h)
  <2>1. Has(q, 1, EntriesOf(r))
    BY <1>1, CopyIs
  <2>2. T = Reset(S, h, q)
    BY <1>3 DEF MakeUnique
  <2> HIDE DEF q, T, r
  <2>3. Renewed(T, S, h, q)
    BY <2>1, <2>2, ResetIs
  <2>4. [ListsOf(S) EXCEPT ![h] = ListsOf(S)[h]] = ListsOf(S)
    BY DEF ListsOf
  <2>. QED
    BY <1>2, <2>1, <2>3, <2>4 DEF Renewed, Owned, Has, T
<1>4. CASE ~ Shared(S, h)
  <2>1. T = S /\ r.ref = 1
    BY <1>1, <1>4 DEF MakeUnique, Shared
  <2>. QED
    BY <1>2, <2>1 DEF Owned
<1>. QED
  BY <1>3, <1>4

(* The record of a variable that shares it with none is written.           *)
LEMMA WrittenIs ==
  ASSUME NEW S, NEW U, NEW h \in Handles, Owned(U, S, h), NEW q, NEW es, Has(q, 1, es),
         NEW T, BlockSet(T, U, U.var[h], q)
  PROVE  Sound(T) /\ T.var[h] # NoBlock /\ ListsOf(T) = [ListsOf(S) EXCEPT ![h] = es]
<1>1. Sound(U) /\ U.var[h] # NoBlock /\ Held(U, h).ref = 1 /\ ListsOf(U) = ListsOf(S)
  BY DEF Owned
<1>2. U.var[h] \in Blocks /\ U \in States
  BY <1>1, HeldIs DEF Sound
<1>3. q \in AllRecords
  BY RecordIn DEF Has, Good
<1>4. /\ T \in States /\ T.var = U.var /\ T.rec[U.var[h]] = q
      /\ \A c \in Blocks : c # U.var[h] => T.rec[c] = U.rec[c]
  BY <1>2, <1>3, BlockPut
<1>5. Put(T, U, h, q)
  BY <1>4 DEF Put
<1>6. Sound(T) /\ T.var[h] # NoBlock /\ ListsOf(T) = [ListsOf(U) EXCEPT ![h] = es]
  BY <1>1, <1>5, PutIs
<1>. QED
  BY <1>1, <1>6

(* A null value becomes an empty record, and that is no change of lists.   *)
LEMMA AsRecordIs ==
  ASSUME NEW S, Sound(S), NEW h \in Handles, S.var[h] = NoBlock, NEW n, n \in Nat
  PROVE  /\ Sound(Reset(S, h, Empty(n))) /\ Reset(S, h, Empty(n)).var[h] # NoBlock
         /\ ListsOf(Reset(S, h, Empty(n))) = ListsOf(S)
<1> DEFINE r == Empty(n)
           T == Reset(S, h, r)
<1>1. Has(r, 1, <<>>)
  BY EmptyHas
<1> HIDE DEF r
<1>2. Renewed(T, S, h, r)
  BY <1>1, ResetIs
<1>3. EntriesOf(r) = <<>> /\ ListsOf(S)[h] = <<>>
  BY <1>1 DEF Has, ListsOf, ListOf
<1>4. [ListsOf(S) EXCEPT ![h] = ListsOf(S)[h]] = ListsOf(S)
  BY DEF ListsOf
<1>. QED
  BY <1>2, <1>3, <1>4 DEF Renewed, r

(* init_as_record, and what a call writes to: the record of h alone.       *)
Ready(S, h) == MakeUnique(InitAsRecord(S, h), h)

(* init_as_record changes no list.                                         *)
LEMMA InitIs ==
  ASSUME NEW S, Sound(S), NEW h \in Handles
  PROVE  /\ Sound(InitAsRecord(S, h)) /\ InitAsRecord(S, h).var[h] # NoBlock
         /\ ListsOf(InitAsRecord(S, h)) = ListsOf(S)
<1>1. CASE S.var[h] = NoBlock
  <2>1. 0 \in Nat /\ InitAsRecord(S, h) = Reset(S, h, Empty(0))
    BY <1>1 DEF InitAsRecord
  <2>. QED
    BY <1>1, <2>1, AsRecordIs
<1>2. CASE S.var[h] # NoBlock
  BY <1>2 DEF InitAsRecord
<1>. QED
  BY <1>1, <1>2

(* What the record is that a call writes to.                               *)
LEMMA ReadyIs ==
  ASSUME NEW S, Sound(S), NEW h \in Handles
  PROVE  Owned(Ready(S, h), S, h)
<1> DEFINE I == InitAsRecord(S, h)
<1>1. Sound(I) /\ I.var[h] # NoBlock /\ ListsOf(I) = ListsOf(S)
  BY InitIs
<1>2. Owned(MakeUnique(I, h), I, h)
  BY <1>1, UniqueIs
<1>. QED
  BY <1>1, <1>2 DEF Ready, Owned

(* clear leaves h an empty record of its own.                              *)
LEMMA ClearedIs ==
  ASSUME NEW S, Sound(S), NEW h \in Handles, S.var[h] # NoBlock, NEW n, n \in Nat
  PROVE  /\ Sound(Cleared(S, h, n)) /\ Cleared(S, h, n).var[h] # NoBlock
         /\ ListsOf(Cleared(S, h, n)) = [ListsOf(S) EXCEPT ![h] = <<>>]
<1>1. CASE Held(S, h).ref # 1
  <2> DEFINE r == Empty(n)
             T == Reset(S, h, r)
  <2>1. Cleared(S, h, n) = T
    BY <1>1 DEF Cleared
  <2>2. Has(r, 1, <<>>)
    BY EmptyHas
  <2> HIDE DEF r
  <2>3. Renewed(T, S, h, r)
    BY <2>2, ResetIs
  <2> HIDE DEF T
  <2>. QED
    BY <2>1, <2>2, <2>3 DEF Renewed, Has
<1>2. CASE Held(S, h).ref = 1
  <2> DEFINE m == BucketCount(Held(S, h))
             q == Bare(m)
             T == Cleared(S, h, n)
  <2>1. m \in Nat /\ m > 0
    BY HeldIs, GoodFields
  <2>2. Has(q, 1, <<>>)
    BY <2>1, BareIs DEF Has, Loaded
  <2>3. BlockSet(T, S, S.var[h], q)
    BY <1>2 DEF Cleared, Bare, BlockSet
  <2> HIDE DEF T, q, m
  <2>4. Owned(S, S, h)
    <3>1. S.var[h] # NoBlock
      OBVIOUS
    <3>. QED
      BY <1>2, <3>1 DEF Owned, ListsOf, ListOf
  <2>. QED
    BY <2>2, <2>3, <2>4, WrittenIs DEF T
<1>. QED
  BY <1>1, <1>2

-----------------------------------------------------------------------------
(* The calls.  Each leads to a sound state, whose lists are what a call of *)
(* EntryList makes of those before.                                        *)
Answers ==
  \E T : /\ Sound(T) /\ rec' = T.rec /\ var' = T.var /\ UNCHANGED crashed
         /\ List!Call(ListsOf(State), ListsOf(T))

(* What a call that is done has done.                                      *)
LEMMA DoneIs ==
  ASSUME NEW T, Done(T)
  PROVE  rec' = T.rec /\ var' = T.var /\ UNCHANGED crashed
BY DEF Done

(* A write of the record of h, q, is a call if it leads to the list es.    *)
LEMMA WriteAnswers ==
  ASSUME NEW S, Sound(S), NEW h \in Handles, NEW q, NEW es, Has(q, 1, es), NEW T,
         BlockSet(T, Ready(S, h), Ready(S, h).var[h], q), Done(T),
         List!Call(ListsOf(State), [ListsOf(S) EXCEPT ![h] = es])
  PROVE  Answers
<1>1. Owned(Ready(S, h), S, h)
  BY ReadyIs
<1>2. Sound(T) /\ ListsOf(T) = [ListsOf(S) EXCEPT ![h] = es]
  BY <1>1, WrittenIs
<1>. QED
  BY <1>2, DoneIs DEF Answers

(* What the record that is written holds before.                           *)
LEMMA ReadyHolds ==
  ASSUME NEW S, Sound(S), NEW h \in Handles
  PROVE  Has(Held(Ready(S, h), h), 1, ListsOf(S)[h])
<1>1. Owned(Ready(S, h), S, h)
  BY ReadyIs
<1>2. Good(Held(Ready(S, h), h)) /\ Loaded(Held(Ready(S, h), h))
  BY <1>1, HeldIs DEF Owned
<1>. QED
  BY <1>1, <1>2 DEF Owned, Has

(* emplace.                                                                *)
LEMMA EmplaceAnswers ==
  ASSUME Sound(State), Emplace
  PROVE  Answers
<1>1. PICK h \in Handles, e \in Entries :
        LET Op(r) == Emplaced(r, e) IN Done(Written(State, h, Op))
  BY DEF Emplace
<1> DEFINE U == Ready(State, h)
           r == Held(U, h)
           q == Emplaced(r, e)
           T == [U EXCEPT !.rec[U.var[h]] = q]
<1>2. Done(T)
  BY <1>1 DEF Written, Ready, Held
<1>3. Has(r, 1, ListsOf(State)[h])
  BY ReadyHolds
<1>4. BlockSet(T, U, U.var[h], q)
  BY DEF BlockSet
<1>5. Has(q, 1, Append(ListsOf(State)[h], e))
  BY <1>3, EmplacedIs DEF Has, Extends
<1>6. List!Call(ListsOf(State), [ListsOf(State) EXCEPT ![h] = Append(ListsOf(State)[h], e)])
  BY DEF List!Call, List!Add, List!To
<1> HIDE DEF T, q, r
<1>. QED
  BY <1>2, <1>4, <1>5, <1>6, WriteAnswers DEF U

(* The list of a variable has as many entries as its record.               *)
LEMMA SizeIs ==
  ASSUME NEW S, Sound(S), NEW h \in Handles
  PROVE  /\ ListsOf(S)[h] \in Seq(Entries) /\ Size(S, h) = Len(ListsOf(S)[h])
         /\ Size(S, h) \in Nat /\ DOMAIN ListsOf(S)[h] = 1 .. Size(S, h)
         /\ S.var[h] # NoBlock => ListsOf(S)[h] = EntriesOf(Held(S, h))
         /\ S.var[h] = NoBlock => ListsOf(S)[h] = <<>>
<1>1. ListsOf(S)[h] = IF S.var[h] = NoBlock THEN <<>> ELSE EntriesOf(Held(S, h))
  BY DEF ListsOf, ListOf
<1>2. CASE S.var[h] = NoBlock
  <2>1. <<>> \in Seq(Entries) /\ Len(<<>>) = 0 /\ DOMAIN <<>> = 1 .. 0
    OBVIOUS
  <2>. QED
    BY <1>1, <1>2, <2>1 DEF Size
<1>3. CASE S.var[h] # NoBlock
  <2> DEFINE s == EntriesOf(Held(S, h))
  <2>1. s \in Seq(Entries) /\ Len(s) = Held(S, h).size /\ Held(S, h).size \in Nat
    BY <1>3, HeldIs, EntriesType
  <2> HIDE DEF s
  <2>2. DOMAIN s = 1 .. Len(s)
    BY <2>1
  <2>. QED
    BY <1>1, <1>3, <2>1, <2>2 DEF Size, s
<1>. QED
  BY <1>2, <1>3

(* operator[] and what is assigned through it.                             *)
LEMMA SetAnswers ==
  ASSUME Sound(State), Set
  PROVE  Answers
<1>1. PICK h \in Handles, e \in Entries :
        LET Op(r) == IF Found(r, e.key) THEN Assigned(r, e) ELSE Emplaced(r, e)
        IN  Done(Written(State, h, Op))
  BY DEF Set, Assigned
<1> DEFINE U == Ready(State, h)
           r == Held(U, h)
           q == IF Found(r, e.key) THEN Assigned(r, e) ELSE Emplaced(r, e)
           T == [U EXCEPT !.rec[U.var[h]] = q]
           s == ListsOf(State)[h]
           t == IF List!Has(s, e.key) THEN [s EXCEPT ![List!Newest(s, e.key)] = e] ELSE Append(s, e)
<1>2. Done(T)
  BY <1>1 DEF Written, Ready, Held
<1>3. Has(r, 1, s)
  BY ReadyHolds
<1>4. BlockSet(T, U, U.var[h], q)
  BY DEF BlockSet
<1> HIDE DEF r, U
<1>5. Has(q, 1, t)
  <2>1. Good(r) /\ Loaded(r) /\ r.ref = 1 /\ EntriesOf(r) = s
    BY <1>3 DEF Has
  <2>2. e.key \in Keys
    BY DEF Keys
  <2>3. Found(r, e.key) <=> List!Has(s, e.key)
    BY <2>1, <2>2, FoundIs
  <2> HIDE DEF s
  <2>4. CASE Found(r, e.key)
    <3>1. Has(Assigned(r, e), r.ref, [EntriesOf(r) EXCEPT ![List!Newest(EntriesOf(r), e.key)] = e])
      BY <2>1, <2>4, AssignedIs
    <3>. QED
      BY <2>1, <2>3, <2>4, <3>1
  <2>5. CASE ~ Found(r, e.key)
    <3>1. Has(Emplaced(r, e), 1, Append(s, e))
      BY <2>1, EmplacedIs DEF Has, Extends
    <3>. QED
      BY <2>3, <2>5, <3>1
  <2>. QED
    BY <2>4, <2>5
<1>6. List!Call(ListsOf(State), [ListsOf(State) EXCEPT ![h] = t])
  BY DEF List!Call, List!Set, List!To
<1> HIDE DEF T, q, t
<1>. QED
  BY <1>2, <1>4, <1>5, <1>6, WriteAnswers DEF U

(* A call that changes no list assigns its own to one of the variables.    *)
LEMMA SameAnswers ==
  ASSUME NEW h \in Handles
  PROVE  List!Call(ListsOf(State), ListsOf(State))
<1>1. ListsOf(State) = [ListsOf(State) EXCEPT ![h] = ListsOf(State)[h]]
  BY DEF ListsOf
<1>2. List!Copy(ListsOf(State), ListsOf(State))
  BY <1>1 DEF List!Copy, List!To
<1>. QED
  BY <1>2 DEF List!Call

(* begin and the others that are not const.                                *)
LEMMA ViewAnswers ==
  ASSUME Sound(State), View
  PROVE  Answers
<1>1. PICK h \in Handles : var[h] # NoBlock /\ Done(MakeUnique(State, h))
  BY DEF View
<1>2. State.var[h] # NoBlock
  BY <1>1 DEF State
<1>3. Owned(MakeUnique(State, h), State, h)
  BY <1>2, UniqueIs
<1>. QED
  BY <1>1, <1>3, SameAnswers, DoneIs DEF Answers, Owned

(* insert and assign, of entries that are another's or are given: all of   *)

(* them are added, to the list or to none.                                 *)
LEMMA AddAllIs ==
  ASSUME NEW S, NEW h \in Handles, NEW es,
         es \in [1 .. 2 -> Entries] \/ \E g \in Handles : es = ListsOf(State)[g],
         \/ ListsOf(S) = ListsOf(State)
         \/ ListsOf(S) = [ListsOf(State) EXCEPT ![h] = <<>>] /\ ListsOf(S)[h] = <<>>
  PROVE  List!Call(ListsOf(State), [ListsOf(S) EXCEPT ![h] = ListsOf(S)[h] \o es])
<1> DEFINE t == ListsOf(State)
           s == ListsOf(S)
           u == [s EXCEPT ![h] = s[h] \o es]
<1>1. es \in {t[g] : g \in Handles} \cup [1 .. 2 -> Entries]
  OBVIOUS
<1> HIDE DEF t
<1>2. CASE s = t
  <2>1. u = [t EXCEPT ![h] = (IF "old" = "old" THEN t[h] ELSE <<>>) \o es]
    BY <1>2
  <2>. QED
    BY <1>1, <2>1 DEF List!Call, List!AddAll, List!To, t
<1>3. CASE s = [t EXCEPT ![h] = <<>>] /\ s[h] = <<>>
  <2>1. u = [t EXCEPT ![h] = (IF "none" = "old" THEN t[h] ELSE <<>>) \o es]
    BY <1>3
  <2>. QED
    BY <1>1, <2>1 DEF List!Call, List!AddAll, List!To, t
<1>. QED
  BY <1>2, <1>3 DEF t

(* insert of another variable's entries.                                   *)
LEMMA InsertAnswers ==
  ASSUME Sound(State), Insert
  PROVE  Answers
<1> DEFINE es(g) == EntriesOf(rec[var[g]])
<1>1. PICK h \in Handles, g \in Handles :
        /\ var[g] # NoBlock
        /\ LET Op(r) == FoldLeft(Emplaced, r, es(g)) IN Done(Written(State, h, Op))
  BY DEF Insert
<1>2. es(g) = ListsOf(State)[g] /\ es(g) \in Seq(Entries)
  BY <1>1, SizeIs DEF State, Held
<1> DEFINE U == Ready(State, h)
           r == Held(U, h)
           q == FoldLeft(Emplaced, r, es(g))
           T == [U EXCEPT !.rec[U.var[h]] = q]
           s == ListsOf(State)[h]
<1>3. Done(T)
  BY <1>1 DEF Written, Ready, Held
<1>4. Has(r, 1, s)
  BY ReadyHolds
<1>5. BlockSet(T, U, U.var[h], q)
  BY DEF BlockSet
<1> HIDE DEF r, es, s
<1>6. Has(q, 1, s \o es(g))
  BY <1>2, <1>4, EmplaceFold DEF Has
<1>7. List!Call(ListsOf(State), [ListsOf(State) EXCEPT ![h] = s \o es(g)])
  BY <1>2, AddAllIs DEF s
<1> HIDE DEF T, q
<1>. QED
  BY <1>3, <1>5, <1>6, <1>7, WriteAnswers DEF U

(* A null value gets a table to fit.                                       *)
LEMMA FittedIs ==
  ASSUME Sound(State), NEW h \in Handles,
         NEW S, S = IF var[h] = NoBlock THEN Reset(State, h, Empty(2)) ELSE State
  PROVE  Sound(S) /\ ListsOf(S) = ListsOf(State) /\ S.var[h] # NoBlock
<1>1. State.var[h] = var[h] /\ 2 \in Nat
  BY DEF State
<1>2. CASE var[h] = NoBlock
  BY <1>1, <1>2, AsRecordIs
<1>3. CASE var[h] # NoBlock
  BY <1>1, <1>3
<1>. QED
  BY <1>2, <1>3

(* Two entries are a sequence.                                             *)
LEMMA TwoAreSeq ==
  ASSUME NEW C, NEW s \in [1 .. 2 -> C]
  PROVE  s \in Seq(C)
<1>1. 2 \in Nat
  OBVIOUS
<1> DEFINE n == 2
<1>2. s \in [1 .. n -> C] /\ n \in Nat
  BY <1>1
<1> HIDE DEF n
<1>. QED
  BY <1>2

(* insert of a list of entries.                                            *)
LEMMA InsertListAnswers ==
  ASSUME Sound(State), InsertList
  PROVE  Answers
<1> DEFINE Fitted(h) == IF var[h] = NoBlock THEN Reset(State, h, Empty(2)) ELSE State
<1>1. PICK h \in Handles, es \in [1 .. 2 -> Entries] :
        LET Op(r) == Inserted(r, es) IN Done(Written(Fitted(h), h, Op))
  BY DEF InsertList
<1> DEFINE S == Fitted(h)
           U == Ready(S, h)
           r == Held(U, h)
           q == Inserted(r, es)
           T == [U EXCEPT !.rec[U.var[h]] = q]
           s == ListsOf(S)[h]
<1>2. Done(T)
  BY <1>1 DEF Written, Ready, Held
<1> HIDE DEF Fitted
<1>3. S = IF var[h] = NoBlock THEN Reset(State, h, Empty(2)) ELSE State
  BY DEF Fitted
<1> HIDE DEF S
<1>4. Sound(S) /\ ListsOf(S) = ListsOf(State)
  BY <1>3, FittedIs
<1>5. Has(r, 1, s)
  BY <1>4, ReadyHolds
<1>6. BlockSet(T, U, U.var[h], q)
  BY DEF BlockSet
<1> HIDE DEF r
<1>7. Has(q, 1, s \o es)
  <2>1. es \in Seq(Entries)
    BY TwoAreSeq
  <2>. QED
    BY <1>5, <2>1, InsertedIs DEF Has
<1>8. List!Call(ListsOf(State), [ListsOf(S) EXCEPT ![h] = s \o es])
  BY <1>4, AddAllIs
<1> HIDE DEF T, q, s
<1>. QED
  BY <1>2, <1>4, <1>6, <1>7, <1>8, WriteAnswers DEF U

(* assign clears first.                                                    *)
LEMMA AssignFromAnswers ==
  ASSUME Sound(State), AssignFrom
  PROVE  Answers
<1> DEFINE es(g) == EntriesOf(rec[var[g]])
           Emptied(h) == Cleared(InitAsRecord(State, h), h, 0)
<1>1. PICK h \in Handles, g \in Handles :
        /\ var[g] # NoBlock
        /\ LET Op(r) == FoldLeft(Emplaced, r, es(g)) IN Done(Written(Emptied(h), h, Op))
  BY DEF AssignFrom
<1>2. es(g) = ListsOf(State)[g] /\ es(g) \in Seq(Entries)
  BY <1>1, SizeIs DEF State, Held
<1> DEFINE S == Emptied(h)
           U == Ready(S, h)
           r == Held(U, h)
           q == FoldLeft(Emplaced, r, es(g))
           T == [U EXCEPT !.rec[U.var[h]] = q]
           s == ListsOf(S)[h]
<1>3. Done(T)
  BY <1>1 DEF Written, Ready, Held
<1> HIDE DEF Emptied, es
<1>4. Sound(S) /\ ListsOf(S) = [ListsOf(State) EXCEPT ![h] = <<>>] /\ s = <<>>
  <2> DEFINE I == InitAsRecord(State, h)
  <2>1. Sound(I) /\ I.var[h] # NoBlock /\ ListsOf(I) = ListsOf(State) /\ 0 \in Nat
    BY InitIs
  <2>2. S = Cleared(I, h, 0)
    BY DEF Emptied
  <2> HIDE DEF S, I
  <2>3. Sound(S) /\ ListsOf(S) = [ListsOf(I) EXCEPT ![h] = <<>>]
    BY <2>1, <2>2, ClearedIs
  <2>. QED
    BY <2>1, <2>3 DEF ListsOf
<1> HIDE DEF S
<1>5. Has(r, 1, s)
  BY <1>4, ReadyHolds
<1>6. BlockSet(T, U, U.var[h], q)
  BY DEF BlockSet
<1> HIDE DEF r, s
<1>7. Has(q, 1, s \o es(g))
  BY <1>2, <1>5, EmplaceFold DEF Has
<1>8. List!Call(ListsOf(State), [ListsOf(S) EXCEPT ![h] = s \o es(g)])
  BY <1>2, <1>4, AddAllIs DEF s
<1> HIDE DEF T, q
<1>. QED
  BY <1>3, <1>4, <1>6, <1>7, <1>8, WriteAnswers DEF U

(* assign of a list of entries.                                            *)
LEMMA AssignListAnswers ==
  ASSUME Sound(State), AssignList
  PROVE  Answers
<1> DEFINE Fitted(h) == IF var[h] = NoBlock THEN Reset(State, h, Empty(2)) ELSE State
<1>1. PICK h \in Handles, es \in [1 .. 2 -> Entries] :
        LET Op(r) == Inserted(r, es) IN Done(Written(Cleared(Fitted(h), h, 2), h, Op))
  BY DEF AssignList
<1> DEFINE F == Fitted(h)
           S == Cleared(F, h, 2)
           U == Ready(S, h)
           r == Held(U, h)
           q == Inserted(r, es)
           T == [U EXCEPT !.rec[U.var[h]] = q]
           s == ListsOf(S)[h]
<1>2. Done(T)
  BY <1>1 DEF Written, Ready, Held
<1> HIDE DEF Fitted
<1>3. F = IF var[h] = NoBlock THEN Reset(State, h, Empty(2)) ELSE State
  BY DEF Fitted
<1> HIDE DEF F
<1>4. Sound(S) /\ ListsOf(S) = [ListsOf(State) EXCEPT ![h] = <<>>] /\ s = <<>>
  <2>1. Sound(F) /\ ListsOf(F) = ListsOf(State) /\ F.var[h] # NoBlock /\ 2 \in Nat
    BY <1>3, FittedIs
  <2>2. Sound(S) /\ ListsOf(S) = [ListsOf(F) EXCEPT ![h] = <<>>]
    BY <2>1, ClearedIs
  <2> HIDE DEF S
  <2>. QED
    BY <2>1, <2>2 DEF ListsOf
<1> HIDE DEF S
<1>5. Has(r, 1, s)
  BY <1>4, ReadyHolds
<1>6. BlockSet(T, U, U.var[h], q)
  BY DEF BlockSet
<1> HIDE DEF r
<1>7. Has(q, 1, s \o es)
  <2>1. es \in Seq(Entries)
    BY TwoAreSeq
  <2> HIDE DEF s
  <2>. QED
    BY <1>5, <2>1, InsertedIs DEF Has
<1>8. List!Call(ListsOf(State), [ListsOf(S) EXCEPT ![h] = s \o es])
  BY <1>4, AddAllIs
<1> HIDE DEF T, q, s
<1>. QED
  BY <1>2, <1>4, <1>6, <1>7, <1>8, WriteAnswers DEF U

(* erase of an iterator.                                                   *)
LEMMA EraseAtAnswers ==
  ASSUME Sound(State), EraseAt
  PROVE  Answers
<1>1. PICK h \in Handles, i \in 1 .. MaxSize :
        /\ i <= Size(State, h)
        /\ LET Op(r) == Without(r, {r.list[i]}) IN Done(Written(State, h, Op))
  BY DEF EraseAt
<1> DEFINE U == Ready(State, h)
           r == Held(U, h)
           q == Without(r, {r.list[i]})
           T == [U EXCEPT !.rec[U.var[h]] = q]
           s == ListsOf(State)[h]
<1>2. Done(T)
  BY <1>1 DEF Written, Ready, Held
<1>3. Has(r, 1, s)
  BY ReadyHolds
<1>4. BlockSet(T, U, U.var[h], q)
  BY DEF BlockSet
<1>5. /\ s \in Seq(Entries) /\ Size(State, h) = Len(s) /\ Size(State, h) \in Nat
      /\ DOMAIN s = 1 .. Size(State, h)
  BY SizeIs
<1>6. i \in 1 .. Size(State, h)
  BY <1>1, <1>5, SizeAssumption
<1> HIDE DEF r, s
<1>7. Has(q, 1, RemoveAt(s, i))
  <2>1. Good(r) /\ Loaded(r) /\ r.ref = 1 /\ EntriesOf(r) = s
    BY <1>3 DEF Has
  <2>2. i \in 1 .. r.size
    BY <1>5, <1>6, <2>1, EntriesType
  <2>. QED
    BY <2>1, <2>2, EraseAtIs
<1>8. List!Call(ListsOf(State), [ListsOf(State) EXCEPT ![h] = RemoveAt(s, i)])
  <2>1. List!RemoveAt(s, i) = RemoveAt(s, i)
    BY DEF List!RemoveAt, RemoveAt
  <2>2. i \in DOMAIN ListsOf(State)[h]
    BY <1>5, <1>6 DEF s
  <2>. QED
    BY <2>1, <2>2 DEF List!Call, List!EraseOne, List!To, s
<1> HIDE DEF T, q
<1>. QED
  BY <1>2, <1>4, <1>7, <1>8, WriteAnswers DEF U

(* erase of a key.                                                         *)
LEMMA KeyErased ==
  ASSUME Sound(State), NEW h \in Handles, NEW k \in Keys,
         LET Op(r) == WithoutKey(r, k) IN Done(Written(State, h, Op))
  PROVE  Answers
<1> DEFINE U == Ready(State, h)
           r == Held(U, h)
           q == WithoutKey(r, k)
           T == [U EXCEPT !.rec[U.var[h]] = q]
           s == ListsOf(State)[h]
<1>1. Done(T)
  BY DEF Written, Ready, Held
<1>2. Has(r, 1, s)
  BY ReadyHolds
<1>3. BlockSet(T, U, U.var[h], q)
  BY DEF BlockSet
<1> HIDE DEF r
<1>4. Has(q, 1, List!Others(s, k))
  BY <1>2, EraseKeyIs DEF Has
<1>5. List!Call(ListsOf(State), [ListsOf(State) EXCEPT ![h] = List!Others(s, k)])
  <2>1. k \in List!Keys
    BY DEF Keys, List!Keys
  <2>. QED
    BY <2>1 DEF List!Call, List!EraseKey, List!To
<1> HIDE DEF T, q, s
<1>. QED
  BY <1>1, <1>3, <1>4, <1>5, WriteAnswers DEF U

(* erase of a key that is none of the record.                              *)
LEMMA EraseKeyAnswers ==
  ASSUME Sound(State), EraseKey
  PROVE  Answers
<1>1. PICK h \in Handles, k \in Keys : LET Op(r) == WithoutKey(r, k) IN Done(Written(State, h, Op))
  BY DEF EraseKey
<1>. QED
  BY <1>1, KeyErased

(* erase with the record's own key, where it reads nothing destroyed.      *)
Crashes ==
  \E h \in Handles, i \in 1 .. MaxSize :
    /\ i <= Size(State, h)
    /\ ~ Shared(State, h)
    /\ KeyReadAfter(Held(State, h), Held(State, h).list[i])
    /\ crashed' = TRUE /\ UNCHANGED <<rec, var>>

(* Or it does, and that is the crash.                                      *)
LEMMA EraseOwnKeyAnswers ==
  ASSUME Sound(State), EraseOwnKey
  PROVE  Answers \/ Crashes
<1> DEFINE r(h) == Held(State, h)
           k(h, i) == r(h).node[r(h).list[i]].key
<1>1. PICK h \in Handles, i \in 1 .. MaxSize :
        /\ i <= Size(State, h)
        /\ \/ /\ ~ Shared(State, h) /\ KeyReadAfter(r(h), r(h).list[i])
              /\ crashed' = TRUE /\ UNCHANGED <<rec, var>>
           \/ LET Op(q) == WithoutKey(q, k(h, i)) IN Done(Written(State, h, Op))
  BY DEF EraseOwnKey
<1>2. k(h, i) \in Keys
  <2> DEFINE s == ListsOf(State)[h]
  <2>1. /\ s \in Seq(Entries) /\ DOMAIN s = 1 .. Size(State, h) /\ Size(State, h) \in Nat
        /\ State.var[h] # NoBlock => s = EntriesOf(r(h))
        /\ State.var[h] = NoBlock => s = <<>>
    BY SizeIs
  <2>2. i \in DOMAIN s
    BY <1>1, <2>1, SizeAssumption
  <2>3. State.var[h] # NoBlock
    BY <2>1, <2>2
  <2>4. s[i] \in Entries
    BY <2>1, <2>2
  <2>5. s[i] = r(h).node[r(h).list[i]]
    BY <2>1, <2>2, <2>3 DEF EntriesOf
  <2>. QED
    BY <2>4, <2>5 DEF Keys
<1>3. CASE /\ ~ Shared(State, h) /\ KeyReadAfter(r(h), r(h).list[i])
           /\ crashed' = TRUE /\ UNCHANGED <<rec, var>>
  BY <1>1, <1>3 DEF Crashes
<1>4. CASE LET Op(q) == WithoutKey(q, k(h, i)) IN Done(Written(State, h, Op))
  <2> HIDE DEF k
  <2>. QED
    BY <1>2, <1>4, KeyErased
<1>. QED
  BY <1>1, <1>3, <1>4

(* clear.                                                                  *)
LEMMA ClearAnswers ==
  ASSUME Sound(State), Clear
  PROVE  Answers
<1>1. PICK h \in Handles : var[h] # NoBlock /\ Done(Cleared(State, h, 0))
  BY DEF Clear
<1>2. State.var[h] # NoBlock /\ 0 \in Nat
  BY <1>1 DEF State
<1> DEFINE T == Cleared(State, h, 0)
<1>3. Sound(T) /\ ListsOf(T) = [ListsOf(State) EXCEPT ![h] = <<>>]
  BY <1>2, ClearedIs
<1> HIDE DEF T
<1>4. List!Call(ListsOf(State), ListsOf(T))
  BY <1>3 DEF List!Call, List!Clear, List!To
<1>. QED
  BY <1>1, <1>3, <1>4, DoneIs DEF Answers, T

(* A state of the same blocks and variables is as sound.                   *)
LEMMA SameState ==
  ASSUME NEW S, Sound(S), NEW T, T \in States, T.var = S.var,
         \A c \in Blocks : T.rec[c] = S.rec[c]
  PROVE  Sound(T) /\ ListsOf(T) = ListsOf(S)
<1>1. Sound(T)
  BY DEF Sound
<1>2. ASSUME NEW h \in Handles PROVE ListOf(T, h) = ListOf(S, h)
  <2>1. S.var[h] # NoBlock => S.var[h] \in Blocks
    BY HeldIs
  <2>. QED
    BY <2>1 DEF ListOf, Held
<1>. QED
  BY <1>1, <1>2 DEF ListsOf

(* A reference less and one more.                                          *)
LEMMA RefBack ==
  ASSUME NEW r, r \in AllRecords
  PROVE  [[r EXCEPT !.ref = r.ref - 1] EXCEPT !.ref = [r EXCEPT !.ref = r.ref - 1].ref + 1] = r
<1> DEFINE q == [r EXCEPT !.ref = r.ref - 1]
<1>1. r.ref \in Nat
  BY DEF AllRecords
<1>2. q.ref = r.ref - 1
  BY DEF AllRecords
<1>3. q.ref + 1 = r.ref
  BY <1>1, <1>2
<1>4. [q EXCEPT !.ref = r.ref] = [r EXCEPT !.ref = r.ref]
  BY DEF AllRecords
<1>5. [r EXCEPT !.ref = r.ref] = r
  BY DEF AllRecords
<1>. QED
  BY <1>3, <1>4, <1>5

(* operator= of another variable.                                          *)
Joined(T, S, t) == T = IF t = NoBlock THEN S ELSE [S EXCEPT !.rec[t].ref = @ + 1]

(* Its block has one reference more, and the old one less.                 *)
LEMMA CopyMoves ==
  ASSUME Sound(State), NEW h \in Handles, NEW g \in Handles, h # g, var[h] # var[g],
         NEW S, VarSet(S, Unref(State, var[h]), h, var[g]),
         NEW T, Joined(T, S, var[g])
  PROVE  Sound(T) /\ ListsOf(T) = [ListsOf(State) EXCEPT ![h] = ListsOf(State)[g]]
<1> DEFINE t == var[g]
           o == var[h]
           U == Unref(State, o)
           p == State.rec[t]
           r == [p EXCEPT !.ref = p.ref + 1]
<1>1. /\ State \in States /\ t \in Blocks \cup {NoBlock} /\ o \in Blocks \cup {NoBlock}
      /\ State.var = var /\ t # o /\ NoBlock \notin Blocks
  BY DEF Sound, States, Vars, State, NoBlock, Blocks
<1>2. /\ U \in States /\ U.var = State.var
      /\ \A c \in Blocks : U.rec[c] = IF c = o THEN Dropped(State.rec[c]) ELSE State.rec[c]
  BY <1>1, UnrefIs
<1>3. VarSet(S, U, h, t) /\ o = State.var[h] /\ t = State.var[g]
  BY <1>1
<1>7. T = IF t = NoBlock THEN S ELSE [S EXCEPT !.rec[t] = [S.rec[t] EXCEPT !.ref = S.rec[t].ref + 1]]
  BY DEF Joined
<1> HIDE DEF U, t, o
<1>4. S \in States /\ S.rec = U.rec /\ S.var = [U.var EXCEPT ![h] = t]
  BY <1>1, <1>2, <1>3, VarPut
<1>5. CASE t = NoBlock
  <2>1. T = S
    BY <1>5, <1>7
  <2>2. Moved(T, State, h, t, Free)
    BY <1>1, <1>2, <1>3, <1>4, <1>5, <2>1 DEF Moved
  <2>3. Joins(State, t, Free)
    BY <1>5 DEF Joins, NoBlock, Blocks
  <2>4. Sound(T) /\ ListsOf(T) = [ListsOf(State) EXCEPT ![h] = <<>>]
    BY <1>1, <1>5, <2>2, <2>3, MovedIs
  <2>5. ListsOf(State)[g] = <<>>
    BY <1>3, <1>5, SizeIs
  <2>. QED
    BY <2>4, <2>5
<1>6. CASE t # NoBlock
  <2>1. t \in Blocks /\ p.ref > 0 /\ p.ref \in Nat /\ Good(p) /\ Loaded(p)
    BY <1>3, <1>6, HeldIs DEF Held
  <2>2. Has(r, p.ref + 1, EntriesOf(p))
    <3> DEFINE n == p.ref + 1
    <3>1. n \in Nat
      BY <2>1
    <3> HIDE DEF n, p
    <3>. QED
      BY <2>1, <3>1, RefIs DEF n
  <2>3. BlockSet(T, S, t, r)
    <3>1. S.rec[t] = p
      BY <1>1, <1>2, <1>4, <2>1
    <3>2. T = [S EXCEPT !.rec[t] = [S.rec[t] EXCEPT !.ref = S.rec[t].ref + 1]]
      BY <1>6, <1>7
    <3>. QED
      BY <3>1, <3>2 DEF BlockSet
  <2> HIDE DEF r, p
  <2>4. r \in AllRecords
    BY <2>2, RecordIn DEF Has, Good
  <2>5. /\ T \in States /\ T.var = S.var /\ T.rec[t] = r
        /\ \A c \in Blocks : c # t => T.rec[c] = S.rec[c]
    BY <1>4, <2>1, <2>3, <2>4, BlockPut
  <2>6. Moved(T, State, h, t, r)
    BY <1>1, <1>2, <1>3, <1>4, <2>5 DEF Moved
  <2>7. Joins(State, t, r)
    BY <2>2 DEF Joins, Has, p
  <2>8. Sound(T) /\ ListsOf(T) = [ListsOf(State) EXCEPT ![h] = EntriesOf(r)]
    BY <1>1, <1>6, <2>6, <2>7, MovedIs
  <2>9. ListsOf(State)[g] = EntriesOf(r)
    BY <1>3, <1>6, <2>2, SizeIs DEF Has, Held, p
  <2>. QED
    BY <2>8, <2>9
<1>. QED
  BY <1>5, <1>6

(* So is that of one of the variables that share a record to another.      *)
LEMMA CopyStays ==
  ASSUME Sound(State), NEW h \in Handles, NEW g \in Handles, h # g, var[h] = var[g],
         NEW S, VarSet(S, Unref(State, var[h]), h, var[g]),
         NEW T, Joined(T, S, var[g])
  PROVE  Sound(T) /\ ListsOf(T) = ListsOf(State)
<1> DEFINE t == var[g]
           U == Unref(State, t)
           p == State.rec[t]
<1>1. /\ State \in States /\ t \in Blocks \cup {NoBlock} /\ t = var[h] /\ t = State.var[h]
      /\ t = State.var[g] /\ State.var = var /\ NoBlock \notin Blocks
  BY DEF Sound, States, Vars, State, NoBlock, Blocks
<1>2. T = IF t = NoBlock THEN S ELSE [S EXCEPT !.rec[t] = [S.rec[t] EXCEPT !.ref = S.rec[t].ref + 1]]
  BY DEF Joined
<1>3. VarSet(S, U, h, t)
  BY <1>1
<1>4. /\ U \in States /\ U.var = State.var
      /\ \A c \in Blocks : U.rec[c] = IF c = t THEN Dropped(State.rec[c]) ELSE State.rec[c]
  BY <1>1, UnrefIs
<1> HIDE DEF U, t
<1>5. S \in States /\ S.rec = U.rec /\ S.var = [U.var EXCEPT ![h] = t]
  BY <1>1, <1>3, <1>4, VarPut
<1>6. S.var = State.var
  <2>1. State.var \in [Handles -> Blocks \cup {NoBlock}]
    BY <1>1 DEF States, Vars
  <2>. QED
    BY <1>1, <1>4, <1>5, <2>1
<1>7. CASE t = NoBlock
  <2>1. T = S
    BY <1>2, <1>7
  <2>. QED
    BY <1>1, <1>4, <1>5, <1>6, <1>7, <2>1, SameState
<1>8. CASE t # NoBlock
  <2>1. t \in Blocks /\ p.ref > 0 /\ p.ref \in Nat /\ Good(p) /\ p \in AllRecords
    <3>1. t \in Blocks /\ p.ref > 0 /\ p.ref \in Nat /\ Good(p)
      BY <1>1, <1>8, HeldIs DEF Held
    <3>. QED
      BY <3>1, RecordIn DEF Good
  <2>2. p.ref > 1
    <3>1. p.ref = Cardinality(Holders(State.var, t))
      BY <2>1 DEF Sound
    <3>2. Cardinality(Holders(State.var, t)) # 1
      BY <1>1, HoldersCount
    <3>. QED
      BY <2>1, <3>1, <3>2
  <2>3. S.rec[t] = [p EXCEPT !.ref = p.ref - 1]
    BY <1>4, <1>5, <2>1, <2>2 DEF Dropped
  <2>4. BlockSet(T, S, t, p)
    <3> DEFINE q == S.rec[t]
    <3>1. T = [S EXCEPT !.rec[t] = [q EXCEPT !.ref = q.ref + 1]]
      BY <1>2, <1>8
    <3>2. [q EXCEPT !.ref = q.ref + 1] = p
      <4> HIDE DEF p
      <4>. QED
        BY <2>1, <2>3, RefBack
    <3> HIDE DEF q, p
    <3>. QED
      BY <3>1, <3>2 DEF BlockSet
  <2> HIDE DEF p
  <2>5. /\ T \in States /\ T.var = S.var /\ T.rec[t] = p
        /\ \A c \in Blocks : c # t => T.rec[c] = S.rec[c]
    BY <1>5, <2>1, <2>4, BlockPut
  <2>6. \A c \in Blocks : T.rec[c] = State.rec[c]
    BY <1>4, <1>5, <2>5 DEF p
  <2>. QED
    BY <1>6, <2>5, <2>6, SameState
<1>. QED
  BY <1>7, <1>8

(* Both cases of operator=.                                                *)
LEMMA CopyAnswers ==
  ASSUME Sound(State), Copy
  PROVE  Answers
<1> DEFINE S(h, g) == [Unref(State, var[h]) EXCEPT !.var[h] = var[g]]
           T(h, g) == IF var[g] = NoBlock THEN S(h, g) ELSE [S(h, g) EXCEPT !.rec[var[g]].ref = @ + 1]
<1>1. PICK h \in Handles, g \in Handles : h # g /\ Done(T(h, g))
  BY DEF Copy
<1>2. VarSet(S(h, g), Unref(State, var[h]), h, var[g])
  BY DEF VarSet
<1> HIDE DEF S
<1>3. Joined(T(h, g), S(h, g), var[g])
  BY DEF Joined
<1> HIDE DEF T
<1>4. CASE var[h] # var[g]
  <2>1. Sound(T(h, g)) /\ ListsOf(T(h, g)) = [ListsOf(State) EXCEPT ![h] = ListsOf(State)[g]]
    BY <1>1, <1>2, <1>3, <1>4, CopyMoves
  <2>2. List!Call(ListsOf(State), ListsOf(T(h, g)))
    BY <2>1 DEF List!Call, List!Copy, List!To
  <2>. QED
    BY <1>1, <2>1, <2>2, DoneIs DEF Answers
<1>5. CASE var[h] = var[g]
  <2>1. Sound(T(h, g)) /\ ListsOf(T(h, g)) = ListsOf(State)
    BY <1>1, <1>2, <1>3, <1>5, CopyStays
  <2>. QED
    BY <1>1, <2>1, SameAnswers, DoneIs DEF Answers
<1>. QED
  BY <1>4, <1>5

(* A variable becomes null.                                                *)
LEMMA DestroyAnswers ==
  ASSUME Sound(State), Destroy
  PROVE  Answers
<1> DEFINE T(h) == [Unref(State, var[h]) EXCEPT !.var[h] = NoBlock]
<1>1. PICK h \in Handles : Done(T(h))
  BY DEF Destroy
<1> DEFINE o == var[h]
           U == Unref(State, o)
<1>2. VarSet(T(h), U, h, NoBlock)
  BY DEF VarSet
<1> HIDE DEF T
<1>3. /\ State \in States /\ NoBlock \in Blocks \cup {NoBlock} /\ o \in Blocks \cup {NoBlock}
      /\ State.var = var /\ State.var[h] = o /\ NoBlock \notin Blocks
  BY DEF Sound, States, Vars, State, NoBlock, Blocks
<1>4. /\ U \in States /\ U.var = State.var
      /\ \A c \in Blocks : U.rec[c] = IF c = o THEN Dropped(State.rec[c]) ELSE State.rec[c]
  BY <1>3, UnrefIs
<1> HIDE DEF U
<1>5. T(h) \in States /\ T(h).rec = U.rec /\ T(h).var = [U.var EXCEPT ![h] = NoBlock]
  BY <1>2, <1>3, <1>4, VarPut
<1> HIDE DEF o
<1>6. CASE o = NoBlock
  <2>1. T(h).var = State.var
    <3>1. State.var \in [Handles -> Blocks \cup {NoBlock}]
      BY <1>3 DEF States, Vars
    <3>. QED
      BY <1>3, <1>4, <1>5, <1>6, <3>1
  <2>2. Sound(T(h)) /\ ListsOf(T(h)) = ListsOf(State)
    BY <1>3, <1>4, <1>5, <1>6, <2>1, SameState
  <2>. QED
    BY <1>1, <2>2, SameAnswers, DoneIs DEF Answers
<1>7. CASE o # NoBlock
  <2>1. Moved(T(h), State, h, NoBlock, Free)
    BY <1>3, <1>4, <1>5, <1>7 DEF Moved
  <2>2. Joins(State, NoBlock, Free)
    BY <1>3 DEF Joins
  <2>3. Sound(T(h)) /\ ListsOf(T(h)) = [ListsOf(State) EXCEPT ![h] = <<>>]
    BY <1>3, <2>1, <2>2, MovedIs
  <2>4. List!Call(ListsOf(State), ListsOf(T(h)))
    BY <2>3 DEF List!Call, List!Clear, List!To
  <2>. QED
    BY <1>1, <2>3, <2>4, DoneIs DEF Answers
<1>. QED
  BY <1>6, <1>7

-----------------------------------------------------------------------------
(* Every call but the one that reads a destroyed key.                      *)
LEMMA NextAnswers ==
  ASSUME Sound(State), Next
  PROVE  Answers \/ Crashes
<1>1. CASE Emplace      BY <1>1, EmplaceAnswers
<1>2. CASE Set          BY <1>2, SetAnswers
<1>3. CASE View         BY <1>3, ViewAnswers
<1>4. CASE Insert       BY <1>4, InsertAnswers
<1>5. CASE InsertList   BY <1>5, InsertListAnswers
<1>6. CASE AssignFrom   BY <1>6, AssignFromAnswers
<1>7. CASE AssignList   BY <1>7, AssignListAnswers
<1>8. CASE EraseAt      BY <1>8, EraseAtAnswers
<1>9. CASE EraseKey     BY <1>9, EraseKeyAnswers
<1>10. CASE EraseOwnKey BY <1>10, EraseOwnKeyAnswers
<1>11. CASE Clear       BY <1>11, ClearAnswers
<1>12. CASE Copy        BY <1>12, CopyAnswers
<1>13. CASE Destroy     BY <1>13, DestroyAnswers
<1>. QED
  BY <1>1, <1>2, <1>3, <1>4, <1>5, <1>6, <1>7, <1>8, <1>9, <1>10, <1>11, <1>12, <1>13 DEF Next

(* No call is made after a crash.                                          *)
LEMMA NextAlive ==
  ASSUME Next
  PROVE  ~ crashed
BY DEF Next, Emplace, Set, View, Insert, InsertList, AssignFrom, AssignList, EraseAt, EraseKey,
       EraseOwnKey, Clear, Copy, Destroy, Alive

(* What the invariant says of the memory is that its state is sound.       *)
Memory == TypeOK /\ RefExact /\ ChainsExact /\ LoadHolds

(* The chains of a sound record, as the invariant puts them.               *)
LEMMA ChainsAre ==
  ASSUME NEW r, BucketCount(r) \in Nat
  PROVE  (r.chain = Chains(r.list, r.node, BucketCount(r)) =>
            \A c \in DOMAIN r.chain :
              r.chain[c] = Reverse(Only(r.list, {n \in ToSet(r.list) : Bucket(r, r.node[n].key) = c})))
BY DEF Chains, Bucketed, Bucket

(* The invariant gives a sound state.                                      *)
LEMMA MemorySound ==
  ASSUME Memory
  PROVE  Sound(State)
<1>1. /\ State.rec = rec /\ State.var = var
  BY DEF State
<1>2. /\ \A b \in Blocks : rec[b] \in Records(ToSet(rec[b].list))
      /\ var \in Vars /\ rec = [b \in Blocks |-> rec[b]]
  BY DEF Memory, TypeOK, Vars
<1>3. \A b \in Blocks : rec[b] \in AllRecords
  BY <1>2, RecordIn
<1>4. State \in States
  <2>1. rec \in [Blocks -> AllRecords]
    BY <1>2, <1>3
  <2>. QED
    BY <1>2, <2>1 DEF State, States
<1>5. \A b \in Blocks : rec[b].ref = Cardinality(Holders(var, b))
  BY DEF Memory, RefExact, Holders
<1>6. ASSUME NEW b \in Blocks, rec[b].ref > 0 PROVE Good(rec[b]) /\ Loaded(rec[b])
  <2> DEFINE r == rec[b]
             count == BucketCount(r)
  <2>1. r \in Records(ToSet(r.list))
    BY <1>2
  <2>2. /\ r.size = Len(r.list) /\ IsInjective(r.list)
        /\ \A c \in DOMAIN r.chain :
             r.chain[c] = Reverse(Only(r.list, {n \in ToSet(r.list) : Bucket(r, r.node[n].key) = c}))
    BY <1>6 DEF Memory, ChainsExact
  <2>3. count > 0 /\ r.size <= count
    BY <1>6 DEF Memory, LoadHolds
  <2>4. r.chain = Chains(r.list, r.node, count)
    <3>1. r.chain \in Seq(Seq(Nat))
      BY <2>1 DEF Records
    <3>2. DOMAIN r.chain = 1 .. count /\ r.chain = [c \in DOMAIN r.chain |-> r.chain[c]]
      BY <3>1 DEF BucketCount
    <3>3. \A c : {n \in ToSet(r.list) : Bucket(r, r.node[n].key) = c} = Bucketed(r.list, r.node, count, c)
      BY DEF Bucket, Bucketed
    <3> HIDE DEF r, count
    <3>. QED
      BY <2>2, <3>2, <3>3 DEF Chains
  <2>. QED
    BY <2>1, <2>2, <2>3, <2>4 DEF Good, Loaded
<1>. QED
  BY <1>1, <1>2, <1>4, <1>5, <1>6 DEF Sound

(* And a sound state gives that part of the invariant.                     *)
LEMMA SoundMemory ==
  ASSUME Sound(State), crashed \in BOOLEAN
  PROVE  Memory
<1>1. State.rec = rec /\ State.var = var
  BY DEF State
<1>2. TypeOK
  <2>1. rec \in [Blocks -> AllRecords] /\ var \in Vars
    BY <1>1 DEF Sound, States
  <2>2. \A b \in Blocks : rec[b] \in Records(ToSet(rec[b].list))
    BY <1>1 DEF Sound
  <2>. QED
    BY <2>1, <2>2 DEF TypeOK, Vars
<1>3. RefExact
  BY <1>1 DEF Sound, RefExact, Holders
<1>4. ASSUME NEW b \in Blocks, rec[b].ref > 0 PROVE Good(rec[b]) /\ Loaded(rec[b])
  BY <1>1, <1>4 DEF Sound
<1>5. ChainsExact
  <2> SUFFICES ASSUME NEW b \in Blocks, rec[b].ref > 0
               PROVE  /\ rec[b].size = Len(rec[b].list)
                      /\ IsInjective(rec[b].list)
                      /\ \A c \in DOMAIN rec[b].chain :
                           rec[b].chain[c] =
                             Reverse(Only(rec[b].list,
                                          {n \in ToSet(rec[b].list) : Bucket(rec[b], rec[b].node[n].key) = c}))
    BY DEF ChainsExact
  <2> DEFINE r == rec[b]
  <2>1. Good(r)
    BY <1>4
  <2>2. BucketCount(r) \in Nat
    BY <2>1, GoodFields
  <2>. QED
    BY <2>1, <2>2, ChainsAre DEF Good
<1>6. LoadHolds
  BY <1>4 DEF LoadHolds, Good, Loaded
<1>. QED
  BY <1>2, <1>3, <1>5, <1>6 DEF Memory

(* A key that is read after its node went is that of another entry of the  *)
(* same hash.                                                              *)
LEMMA KeyReadIs ==
  ASSUME NEW r, Good(r), NEW n, n \in ToSet(r.list), KeyReadAfter(r, n)
  PROVE  \E i, j \in DOMAIN EntriesOf(r) :
           i # j /\ Hash[EntriesOf(r)[i].key] = Hash[EntriesOf(r)[j].key]
<1> DEFINE k == r.node[n].key
           b == Bucket(r, k)
           c == r.chain[b]
           K == Bucketed(r.list, r.node, BucketCount(r), b)
           o == Only(r.list, K)
<1>1. PICK i \in DOMAIN c, j \in DOMAIN c : c[i] = n /\ j > i /\ Hash[r.node[c[j]].key] = Hash[k]
  BY DEF KeyReadAfter
<1>2. /\ r.list \in Seq(Nat) /\ r.node \in [ToSet(r.list) -> Entries]
      /\ BucketCount(r) \in Nat /\ BucketCount(r) > 0
      /\ IsInjective(r.list) /\ r.chain = Chains(r.list, r.node, BucketCount(r))
  BY GoodFields DEF Good
<1>3. b \in 1 .. BucketCount(r)
  BY <1>2, BucketIn DEF Bucket
<1> HIDE DEF b
<1>4. c = Reverse(o)
  BY <1>2, <1>3, ChainsType
<1> HIDE DEF K
<1>5. /\ o \in Seq(Nat) /\ IsInjective(o) /\ ToSet(o) \subseteq ToSet(r.list)
  BY <1>2, OnlyType, OnlySet, InjectiveOnly
<1> HIDE DEF o
<1>6. Reverse(o) \in Seq(Nat) /\ IsInjective(Reverse(o)) /\ ToSet(Reverse(o)) = ToSet(o)
  BY <1>5, ReverseIs, InjectiveReverse
<1> HIDE DEF c
<1>7. c[j] # n /\ c[j] \in ToSet(r.list)
  <2>1. c \in Seq(Nat) /\ IsInjective(c) /\ ToSet(c) \subseteq ToSet(r.list)
    BY <1>4, <1>5, <1>6
  <2>2. i \in Nat /\ j \in Nat /\ i # j
    BY <1>1, <2>1
  <2>3. c[i] # c[j]
    BY <1>1, <2>1, <2>2 DEF IsInjective
  <2>4. c[j] \in ToSet(c)
    BY DEF ToSet
  <2>. QED
    BY <1>1, <2>1, <2>3, <2>4
<1>8. PICK p \in DOMAIN r.list, q \in DOMAIN r.list : r.list[p] = n /\ r.list[q] = c[j]
  BY <1>7 DEF ToSet
<1>9. DOMAIN EntriesOf(r) = DOMAIN r.list /\ EntriesOf(r)[p].key = k /\ EntriesOf(r)[q] = r.node[c[j]]
  BY <1>8 DEF EntriesOf
<1>10. p # q /\ Hash[EntriesOf(r)[q].key] = Hash[k]
  BY <1>1, <1>7, <1>8, <1>9
<1>. QED
  BY <1>9, <1>10

(* So the call that crashes was given such a key.                          *)
LEMMA CrashIs ==
  ASSUME Sound(State), Crashes
  PROVE  /\ UNCHANGED <<rec, var>> /\ crashed' = TRUE
         /\ \E h \in Handles :
              /\ var[h] # NoBlock
              /\ rec[var[h]].ref = 1
              /\ LET es == EntriesOf(rec[var[h]])
                 IN  \E i, j \in DOMAIN es : i # j /\ Hash[es[i].key] = Hash[es[j].key]
<1>1. PICK h \in Handles, i \in 1 .. MaxSize :
        /\ i <= Size(State, h) /\ ~ Shared(State, h)
        /\ KeyReadAfter(Held(State, h), Held(State, h).list[i])
        /\ crashed' = TRUE /\ UNCHANGED <<rec, var>>
  BY DEF Crashes
<1> DEFINE r == Held(State, h)
<1>2. r = rec[var[h]] /\ State.var[h] = var[h]
  BY DEF Held, State
<1>3. State.var[h] # NoBlock
  BY <1>1, SizeAssumption DEF Size
<1>4. Good(r) /\ r.ref > 0 /\ r.ref \in Nat
  BY <1>3, HeldIs
<1>5. r.ref = 1
  BY <1>1, <1>4 DEF Shared
<1>6. r.list[i] \in ToSet(r.list)
  <2>1. r.size = Len(r.list) /\ r.list \in Seq(Nat) /\ r.size \in Nat
    BY <1>4, GoodFields
  <2>2. i \in 1 .. Len(r.list)
    BY <1>1, <1>3, <2>1, SizeAssumption DEF Size
  <2> HIDE DEF r
  <2>. QED
    BY <2>1, <2>2 DEF ToSet
<1> HIDE DEF r
<1>7. KeyReadAfter(r, r.list[i])
  BY <1>1 DEF r
<1>8. \E p, q \in DOMAIN EntriesOf(r) : p # q /\ Hash[EntriesOf(r)[p].key] = Hash[EntriesOf(r)[q].key]
  BY <1>4, <1>6, <1>7, KeyReadIs
<1>. QED
  BY <1>1, <1>2, <1>3, <1>5, <1>8
-----------------------------------------------------------------------------
(* The memory stays sound through every sequence of calls: Inv is          *)
(* inductive.                                                              *)
LEMMA InitSound == Init => Sound(State) /\ Inv /\ ListsOf(State) = [h \in Handles |-> <<>>]
<1> SUFFICES ASSUME Init PROVE Sound(State) /\ Inv /\ ListsOf(State) = [h \in Handles |-> <<>>]
  OBVIOUS
<1>1. /\ \A b \in Blocks : rec[b] = Free
      /\ rec = [b \in Blocks |-> rec[b]] /\ var = [h \in Handles |-> NoBlock] /\ crashed = FALSE
  BY DEF Init
<1>2. State.rec = rec /\ State.var = var /\ NoBlock \notin Blocks
  BY DEF State, NoBlock, Blocks
<1>3. State \in States
  <2>1. rec \in [Blocks -> AllRecords] /\ var \in Vars
    BY <1>1, FreeIs DEF Vars
  <2>. QED
    BY <2>1 DEF State, States
<1>4. \A b \in Blocks : Cardinality(Holders(var, b)) = 0
  <2>1. \A b \in Blocks : Holders(var, b) = {}
    BY <1>1, <1>2 DEF Holders
  <2>. QED
    BY <2>1, FS_EmptySet
<1>5. Sound(State)
  BY <1>1, <1>2, <1>3, <1>4, FreeIs DEF Sound
<1>6. Memory
  BY <1>1, <1>5, SoundMemory
<1>7. Inv
  BY <1>1, <1>6 DEF Inv, Memory, CrashOnlyOnOwnKey
<1>8. ListsOf(State) = [h \in Handles |-> <<>>]
  BY <1>1, <1>2 DEF ListsOf, ListOf
<1>. QED
  BY <1>5, <1>7, <1>8

(* What is seen of a state that a call leads to.                           *)
Seen(v, r) == [h \in Handles |-> IF v[h] = NoBlock THEN <<>> ELSE EntriesOf(r[v[h]])]

(* It is a matter of the variables and the blocks.                         *)
LEMMA SeenIs ==
  ASSUME NEW S
  PROVE  ListsOf(S) = Seen(S.var, S.rec)
BY DEF ListsOf, ListOf, Held, Seen

(* A step keeps the invariant, and is a call of the lists or none.         *)
LEMMA NextSound ==
  ASSUME Inv, Next
  PROVE  Inv' /\ (\/ List!Call(Seen(var, rec), Seen(var', rec'))
                  \/ UNCHANGED <<rec, var>>)
<1>1. Sound(State) /\ crashed \in BOOLEAN
  BY MemorySound DEF Inv, Memory, TypeOK
<1>2. ListsOf(State) = Seen(var, rec)
  BY SeenIs DEF State
<1>3. CASE Answers
  <2>1. PICK T : /\ Sound(T) /\ rec' = T.rec /\ var' = T.var /\ UNCHANGED crashed
                 /\ List!Call(ListsOf(State), ListsOf(T))
    BY <1>3 DEF Answers
  <2>2. Sound(State')
    <3>1. State'.rec = T.rec /\ State'.var = T.var
      BY <2>1 DEF State
    <3>2. State' \in States
      <4>1. T.rec \in [Blocks -> AllRecords] /\ T.var \in Vars
        BY <2>1 DEF Sound, States
      <4>. QED
        BY <2>1, <4>1 DEF State, States
    <3>. QED
      BY <2>1, <3>1, <3>2, SameState
  <2>3. Memory'
    <3>1. Sound(State)' /\ (crashed \in BOOLEAN)'
      BY <1>1, <2>1, <2>2
    <3>. QED
      BY <3>1, SoundMemory, PTL
  <2>4. ~ crashed'
    BY <2>1, NextAlive
  <2>5. List!Call(Seen(var, rec), Seen(var', rec'))
    BY <1>2, <2>1, SeenIs
  <2>. QED
    BY <2>3, <2>4, <2>5 DEF Inv, Memory, CrashOnlyOnOwnKey
<1>4. CASE Crashes
  <2>1. /\ UNCHANGED <<rec, var>> /\ crashed' = TRUE
        /\ \E h \in Handles :
              /\ var[h] # NoBlock
              /\ rec[var[h]].ref = 1
              /\ LET es == EntriesOf(rec[var[h]])
                 IN  \E i, j \in DOMAIN es : i # j /\ Hash[es[i].key] = Hash[es[j].key]
    BY <1>1, <1>4, CrashIs
  <2>2. CrashOnlyOnOwnKey'
    BY <2>1 DEF CrashOnlyOnOwnKey
  <2>3. TypeOK' /\ RefExact' /\ ChainsExact' /\ LoadHolds'
    BY <2>1 DEF Inv, TypeOK, RefExact, ChainsExact, LoadHolds
  <2>. QED
    BY <2>1, <2>2, <2>3 DEF Inv
<1>. QED
  BY <1>1, <1>3, <1>4, NextAnswers

(* The invariant: a block's counter is the number of its holders, the      *)

(* chains are exactly those of the list's nodes by hash, newest first, the *)
(* table has a bucket per entry and one at least, and a destroyed key is   *)
(* read only by an erase of the record's own.                              *)
THEOREM InvHolds == Spec => []Inv
<1>1. Init => Inv
  BY InitSound
<1>2. Inv /\ [Next]_vars => Inv'
  <2> SUFFICES ASSUME Inv, [Next]_vars PROVE Inv'
    OBVIOUS
  <2>1. CASE Next
    BY <2>1, NextSound
  <2>2. CASE UNCHANGED vars
    <3>1. rec' = rec /\ var' = var /\ crashed' = crashed
      BY <2>2 DEF vars
    <3>2. TypeOK' /\ RefExact' /\ ChainsExact' /\ LoadHolds'
      BY <3>1 DEF Inv, TypeOK, RefExact, ChainsExact, LoadHolds
    <3>3. CrashOnlyOnOwnKey'
      BY <3>1 DEF Inv, CrashOnlyOnOwnKey
    <3>. QED
      BY <3>2, <3>3 DEF Inv
  <2>. QED
    BY <2>1, <2>2
<1>. QED
  BY <1>1, <1>2, PTL DEF Spec

(* Sharing, hashing and rehashing are invisible: the record implements the *)

(* list of entries of EntryList, of each variable its own.                 *)
THEOREM ImplementsList == Spec => IsAList
<1>1. Init => List!Init
  BY InitSound, SeenIs DEF List!Init, Seen, State
<1>2. Inv /\ [Next]_vars => [List!Next]_(Seen(var, rec))
  <2> SUFFICES ASSUME Inv, [Next]_vars
               PROVE  List!Next \/ Seen(var, rec)' = Seen(var, rec)
    OBVIOUS
  <2>1. CASE Next
    <3>1. CASE List!Call(Seen(var, rec), Seen(var', rec'))
      BY <3>1 DEF List!Next, Seen
    <3>2. CASE UNCHANGED <<rec, var>>
      BY <3>2 DEF Seen
    <3>. QED
      BY <2>1, <3>1, <3>2, NextSound
  <2>2. CASE UNCHANGED vars
    BY <2>2 DEF vars, Seen
  <2>. QED
    BY <2>1, <2>2
<1>. QED
  BY <1>1, <1>2, InvHolds, PTL DEF Spec, IsAList, List!Spec, Seen

=============================================================================
