---------------------------- MODULE ByteSeqProofs ----------------------------

(***************************************************************************)
(* Proofs about ByteSeq, for every set of bytes and every size of a chunk  *)
(* and of the sequence.                                                    *)
(***************************************************************************)
EXTENDS ByteSeq, FoldProofs

Bytes == Seq(Byte)
Ring == Seq(Chunk)

-----------------------------------------------------------------------------

(* Sequences of bytes.                                                     *)
LEMMA BytesConcat ==
  ASSUME NEW s \in Bytes, NEW t \in Bytes
  PROVE  /\ s \o t \in Bytes /\ Len(s \o t) = Len(s) + Len(t)
         /\ Len(s) \in Nat /\ Len(t) \in Nat
         /\ \A i \in 1 .. Len(s) : (s \o t)[i] = s[i]
         /\ \A i \in 1 .. Len(t) : (s \o t)[Len(s) + i] = t[i]
BY DEF Bytes

(* Byte texts of one length that agree everywhere are equal.               *)
LEMMA BytesEqual ==
  ASSUME NEW s \in Bytes, NEW t \in Bytes, Len(s) = Len(t), \A i \in 1 .. Len(s) : s[i] = t[i]
  PROVE  s = t
BY DEF Bytes

(* The empty text is neutral.                                              *)
LEMMA BytesEmpty ==
  ASSUME NEW s \in Bytes
  PROVE  <<>> \in Bytes /\ s \o <<>> = s /\ <<>> \o s = s
BY DEF Bytes

(* Putting texts together may be grouped either way.                       *)
LEMMA BytesAssoc ==
  ASSUME NEW s \in Bytes, NEW t \in Bytes, NEW u \in Bytes
  PROVE  (s \o t) \o u = s \o (t \o u)
BY DEF Bytes

(* What SubSeq cuts out of a text.                                         *)
LEMMA BytesPart ==
  ASSUME NEW s \in Bytes, NEW m \in Nat, NEW n \in Nat, n <= Len(s)
  PROVE  /\ SubSeq(s, m + 1, n) \in Bytes
         /\ Len(SubSeq(s, m + 1, n)) = IF m <= n THEN n - m ELSE 0
         /\ \A i \in 1 .. n - m : SubSeq(s, m + 1, n)[i] = s[m + i]
<1>1. Len(s) \in Nat
  BY DEF Bytes
<1>2. SubSeq(s, m + 1, n) \in Bytes
  BY <1>1 DEF Bytes
<1>3. Len(SubSeq(s, m + 1, n)) = IF m + 1 <= n THEN n - (m + 1) + 1 ELSE 0
  BY <1>1 DEF Bytes
<1>4. Len(SubSeq(s, m + 1, n)) = IF m <= n THEN n - m ELSE 0
  BY <1>3
<1>5. ASSUME NEW i \in 1 .. n - m PROVE SubSeq(s, m + 1, n)[i] = s[m + i]
  BY <1>1, <1>5 DEF Bytes
<1>. QED
  BY <1>2, <1>4, <1>5

(* The zeros that memset writes.                                           *)
LEMMA ZerosType ==
  ASSUME NEW n \in Nat
  PROVE  Zeros(n) \in Bytes /\ Len(Zeros(n)) = n /\ \A i \in 1 .. n : Zeros(n)[i] = 0
BY ByteSeqAssumption DEF Zeros, Bytes

(* Zeros after zeros are zeros: growing in steps is growing at once.       *)
LEMMA ZerosConcat ==
  ASSUME NEW m \in Nat, NEW n \in Nat
  PROVE  Zeros(m) \o Zeros(n) = Zeros(m + n)
<1> DEFINE a == Zeros(m)
           b == Zeros(n)
           c == Zeros(m + n)
           w == a \o b
<1>1. /\ a \in Bytes /\ b \in Bytes /\ c \in Bytes /\ Len(a) = m /\ Len(b) = n /\ Len(c) = m + n
      /\ (\A i \in 1 .. m : a[i] = 0) /\ (\A i \in 1 .. n : b[i] = 0) /\ (\A i \in 1 .. m + n : c[i] = 0)
  <2>1. m + n \in Nat
    OBVIOUS
  <2>. QED
    BY <2>1, ZerosType
<1> HIDE DEF a, b, c
<1>2. /\ w \in Bytes /\ Len(w) = m + n
      /\ (\A i \in 1 .. m : w[i] = a[i]) /\ (\A i \in 1 .. n : w[m + i] = b[i])
  <2>1. a \in Bytes /\ b \in Bytes /\ Len(a) = m /\ Len(b) = n
    BY <1>1
  <2>. QED
    BY <2>1, BytesConcat
<1> HIDE DEF w
<1>3. \A i \in 1 .. Len(w) : w[i] = c[i]
  <2> SUFFICES ASSUME NEW i \in 1 .. m + n PROVE w[i] = c[i]
    BY <1>2
  <2>1. CASE i <= m
    BY <1>1, <1>2, <2>1
  <2>2. CASE i > m
    <3> DEFINE k == i - m
    <3>1. k \in 1 .. n /\ m + k = i
      BY <2>2
    <3> HIDE DEF k
    <3>2. w[i] = b[k] /\ b[k] = 0 /\ c[i] = 0
      BY <1>1, <1>2, <3>1
    <3>. QED
      BY <3>2
  <2>. QED
    BY <2>1, <2>2
<1>4. w = c
  BY <1>1, <1>2, <1>3, BytesEqual
<1>. QED
  BY <1>4 DEF w, a, b, c

(* The first n of m zeros are n zeros.                                     *)
LEMMA ZerosPart ==
  ASSUME NEW m \in Nat, NEW n \in Nat, n <= m
  PROVE  SubSeq(Zeros(m), 1, n) = Zeros(n)
<1> DEFINE a == Zeros(m)
           c == Zeros(n)
           w == SubSeq(a, 0 + 1, n)
<1>1. /\ a \in Bytes /\ c \in Bytes /\ Len(a) = m /\ Len(c) = n
      /\ (\A i \in 1 .. m : a[i] = 0) /\ (\A i \in 1 .. n : c[i] = 0)
  BY ZerosType
<1> HIDE DEF a, c
<1>2. w \in Bytes /\ Len(w) = n /\ \A i \in 1 .. n : w[i] = a[i]
  BY <1>1, BytesPart
<1> HIDE DEF w
<1>3. w = c
  BY <1>1, <1>2, BytesEqual
<1>. QED
  BY <1>3 DEF w, a, c

-----------------------------------------------------------------------------

(* What a ring holds is a fold over its chunks, and is cut as the ring is. *)
FlatStep == [vc \in Bytes \X Chunk |-> vc[1] \o vc[2].data]

(* Flat's step stays within texts.                                         *)
LEMMA FlatFoldable ==
  ASSUME NEW v \in Bytes
  PROVE  Foldable(Bytes, Chunk, FlatStep, v)
<1>1. \A vc \in Bytes \X Chunk : vc[1] \o vc[2].data \in Bytes
  BY BytesConcat DEF Chunk, Bytes
<1>. QED
  BY <1>1 DEF Foldable, FlatStep

(* make_vector's copy is a fold over the chunks, so FoldProofs applies.    *)
LEMMA FlatIsFold ==
  ASSUME NEW s \in Ring
  PROVE  Flat(s) = Fold(FlatStep, <<>>, s)
<1> DEFINE v == <<>>
           D == SUBSET (DOMAIN s)
           Solves(g) == g = [S \in D |-> IF S = {} THEN v ELSE g[S \ {Max(S)}] \o s[Max(S)].data]
           f == CHOOSE g : Solves(g)
<1>a. v \in Bytes
  BY DEF Bytes
<1>0. Foldable(Bytes, Chunk, FlatStep, v)
  BY <1>a, FlatFoldable
<1>1. Flat(s) = f[DOMAIN s]
  BY DEF Flat, FoldLeft, MapThenFoldSet
<1> HIDE DEF v
<1>2. Len(s) \in Nat /\ DOMAIN s = 1 .. Len(s)
  BY DEF Ring
<1>3. s \in Seq(Chunk)
  BY DEF Ring
<1>4. Solves(f)
  <2>1. PICK g : IsFoldIter(g, Bytes, FlatStep, v, s)
    BY <1>0, <1>3, FoldIter
  <2>2. ASSUME NEW S \in D, S # {} PROVE g[S] = g[S \ {Max(S)}] \o s[Max(S)].data
    <3>1. Max(S) \in 1 .. Len(s)
      <4>1. S \subseteq 0 .. Len(s)
        BY <1>2
      <4>. QED
        BY <1>2, <2>2, <4>1, MaxOf
    <3>2. g[S \ {Max(S)}] \in Bytes /\ s[Max(S)] \in Chunk
      BY <1>3, <2>1, <3>1 DEF IsFoldIter
    <3>. QED
      BY <2>1, <2>2, <3>2 DEF IsFoldIter, FlatStep
  <2>3. Solves(g)
    BY <2>1, <2>2 DEF IsFoldIter
  <2>4. \E g1 : Solves(g1)
    <3> HIDE DEF Solves
    <3>. QED
      BY <2>3
  <2>. QED
    <3> HIDE DEF Solves
    <3>. QED
      BY <2>4
<1> HIDE DEF f
<1>5. Follows(f, Bytes, FlatStep, v, s)
  <2>1. f[{}] = v
    BY <1>4
  <2>2. ASSUME NEW k \in 1 .. Len(s), f[1 .. (k - 1)] \in Bytes
        PROVE  f[1 .. k] = FlatStep[<<f[1 .. (k - 1)], s[k]>>]
    <3>1. 1 .. k \in D /\ 1 \in 1 .. k /\ s[k] \in Chunk /\ k \in Nat /\ k # 0
      BY <1>2, <1>3
    <3>2. Max(1 .. k) = k /\ (1 .. k) \ {Max(1 .. k)} = 1 .. (k - 1)
      BY <3>1, MaxOfInterval
    <3>3. f[1 .. k] = f[1 .. (k - 1)] \o s[k].data
      BY <1>4, <3>1, <3>2
    <3>. QED
      BY <2>2, <3>1, <3>3 DEF FlatStep
  <2>. QED
    BY <2>1, <2>2 DEF Follows
<1>. QED
  BY <1>0, <1>1, <1>3, <1>5, FoldOfIter DEF v

(* The flat bytes of a ring are a text.                                    *)
LEMMA FlatType ==
  ASSUME NEW s \in Ring
  PROVE  Flat(s) \in Bytes /\ Len(Flat(s)) \in Nat
<1>1. s \in Seq(Chunk) /\ <<>> \in Bytes
  BY DEF Ring, Bytes
<1>2. Foldable(Bytes, Chunk, FlatStep, <<>>)
  BY <1>1, FlatFoldable
<1>3. Flat(s) \in Bytes
  BY <1>1, <1>2, FoldType, FlatIsFold
<1>. QED
  BY <1>3 DEF Bytes

(* A sequence without chunks has no bytes.                                 *)
LEMMA FlatEmpty == <<>> \in Ring /\ Flat(<<>>) = <<>>
<1>1. <<>> \in Ring /\ <<>> \in Bytes
  BY DEF Ring, Bytes
<1>2. Foldable(Bytes, Chunk, FlatStep, <<>>)
  BY <1>1, FlatFoldable
<1>. QED
  BY <1>1, <1>2, FoldEmpty, FlatIsFold

(* A chunk at the end adds its data at the end.                            *)
LEMMA FlatAppend ==
  ASSUME NEW s \in Ring, NEW c \in Chunk
  PROVE  Append(s, c) \in Ring /\ c.data \in Bytes /\ Flat(Append(s, c)) = Flat(s) \o c.data
<1>1. s \in Seq(Chunk) /\ Append(s, c) \in Ring /\ <<>> \in Bytes /\ c.data \in Bytes
  BY DEF Ring, Bytes, Chunk
<1>2. Foldable(Bytes, Chunk, FlatStep, <<>>)
  BY <1>1, FlatFoldable
<1>3. Fold(FlatStep, <<>>, Append(s, c)) = FlatStep[<<Fold(FlatStep, <<>>, s), c>>]
  BY <1>1, <1>2, FoldAppend
<1>4. Flat(Append(s, c)) = FlatStep[<<Flat(s), c>>]
  BY <1>1, <1>3, FlatIsFold
<1>5. Flat(s) \in Bytes
  BY FlatType
<1>. QED
  BY <1>1, <1>4, <1>5 DEF FlatStep

(* Rings put together, and a chunk after them.                             *)
LEMMA RingConcat ==
  ASSUME NEW s \in Ring, NEW t \in Ring, NEW c \in Chunk
  PROVE  s \o t \in Ring /\ Append(t, c) \in Ring /\ s \o Append(t, c) = Append(s \o t, c) /\ s \o <<>> = s
BY DEF Ring

(* The bytes of two rings in a row are the bytes of each in a row.         *)
LEMMA FlatConcat ==
  ASSUME NEW s \in Ring, NEW t \in Ring
  PROVE  s \o t \in Ring /\ Flat(s \o t) = Flat(s) \o Flat(t)
<1> DEFINE A == {u \in Ring : Flat(s \o u) = Flat(s) \o Flat(u)}
<1>1. <<>> \in A
  <2>1. s \o <<>> = s
    BY DEF Ring
  <2>2. Flat(s) \o <<>> = Flat(s)
    BY FlatType, BytesEmpty
  <2>. QED
    BY <2>1, <2>2, FlatEmpty
<1>2. ASSUME NEW u \in Seq(Chunk), NEW c \in Chunk, u \in A PROVE Append(u, c) \in A
  <2>1. u \in Ring /\ Flat(s \o u) = Flat(s) \o Flat(u)
    BY <1>2
  <2>2. s \o u \in Ring /\ Append(u, c) \in Ring /\ s \o Append(u, c) = Append(s \o u, c)
    BY <2>1, RingConcat
  <2>3. Flat(Append(s \o u, c)) = Flat(s \o u) \o c.data /\ Flat(Append(u, c)) = Flat(u) \o c.data
        /\ c.data \in Bytes
    BY <2>1, <2>2, FlatAppend
  <2>4. Flat(s) \in Bytes /\ Flat(u) \in Bytes
    BY <2>1, FlatType
  <2>5. (Flat(s) \o Flat(u)) \o c.data = Flat(s) \o (Flat(u) \o c.data)
    BY <2>3, <2>4, BytesAssoc
  <2>. QED
    BY <2>1, <2>2, <2>3, <2>5
<1> HIDE DEF A
<1>3. Seq(Chunk) \subseteq A
  BY <1>1, <1>2, SeqInduct
<1>4. t \in A
  BY <1>3 DEF Ring
<1>. QED
  BY <1>4 DEF A, Ring

(* The bytes of one chunk are its data.                                    *)
LEMMA FlatOne ==
  ASSUME NEW c \in Chunk
  PROVE  <<c>> \in Ring /\ Flat(<<c>>) = c.data /\ c.data \in Bytes
<1>1. Append(<<>>, c) = <<c>>
  OBVIOUS
<1>2. Append(<<>>, c) \in Ring /\ c.data \in Bytes /\ Flat(Append(<<>>, c)) = <<>> \o c.data
  BY FlatEmpty, FlatAppend
<1>. QED
  BY <1>1, <1>2, BytesEmpty

-----------------------------------------------------------------------------

(* The chunks from the i-th to the one before the j-th, and where a chunk  *)
(* starts.                                                                 *)
Cuts(ch, i, j) == ch \in Ring /\ i \in Nat /\ j \in Nat /\ 1 <= i /\ i <= j /\ j <= Len(ch) + 1

Part(ch, i, j) == SubSeq(ch, i, j - 1)
IsPart(ch, i, j, w) == w \in Ring /\ Len(w) = j - i /\ \A k \in 1 .. j - i : w[k] = ch[i + k - 1]

(* What a part of a ring is.                                               *)
LEMMA RingPart ==
  ASSUME NEW ch, NEW i, NEW j, Cuts(ch, i, j)
  PROVE  IsPart(ch, i, j, Part(ch, i, j))
<1>1. ch \in Seq(Chunk) /\ Len(ch) \in Nat /\ i \in Nat /\ j \in Nat /\ 1 <= i /\ i <= j /\ j <= Len(ch) + 1
  BY DEF Cuts, Ring
<1> DEFINE w == SubSeq(ch, i, j - 1)
<1>2. Len(w) = IF i <= j - 1 THEN (j - 1) - i + 1 ELSE 0
  BY <1>1
<1>3. Len(w) = j - i
  BY <1>1, <1>2
<1>4. w \in Seq(Chunk)
  BY <1>1
<1>5. \A k \in 1 .. j - i : w[k] = ch[i + k - 1]
  BY <1>1
<1>. QED
  BY <1>3, <1>4, <1>5 DEF Ring, IsPart, Part

(* Rings of one length with the same chunks are equal.                     *)
LEMMA RingEqual ==
  ASSUME NEW s \in Ring, NEW t \in Ring, Len(s) = Len(t), \A i \in 1 .. Len(s) : s[i] = t[i]
  PROVE  s = t
BY DEF Ring

(* What two rings in a row are, chunk by chunk.                            *)
LEMMA RingJoin ==
  ASSUME NEW s \in Ring, NEW t \in Ring
  PROVE  /\ s \o t \in Ring /\ Len(s \o t) = Len(s) + Len(t) /\ Len(s) \in Nat /\ Len(t) \in Nat
         /\ \A i \in 1 .. Len(s) : (s \o t)[i] = s[i]
         /\ \A i \in 1 .. Len(t) : (s \o t)[Len(s) + i] = t[i]
BY DEF Ring

(* A part cut in two.                                                      *)
LEMMA RingCut ==
  ASSUME NEW ch, NEW i, NEW j, NEW k, Cuts(ch, i, j), Cuts(ch, j, k)
  PROVE  Part(ch, i, k) = Part(ch, i, j) \o Part(ch, j, k)
<1> DEFINE s == Part(ch, i, j)
           t == Part(ch, j, k)
           u == Part(ch, i, k)
           w == s \o t
<1>0. /\ ch \in Ring /\ i \in Nat /\ j \in Nat /\ k \in Nat /\ Len(ch) \in Nat /\ 1 <= i /\ i <= j /\ j <= k
      /\ k <= Len(ch) + 1
  BY DEF Cuts, Ring
<1>1. Cuts(ch, i, k)
  BY <1>0 DEF Cuts
<1>a. IsPart(ch, i, j, s) /\ IsPart(ch, j, k, t) /\ IsPart(ch, i, k, u)
  BY <1>1, RingPart
<1> HIDE DEF s, t, u
<1>2. /\ s \in Ring /\ Len(s) = j - i /\ \A p \in 1 .. j - i : s[p] = ch[i + p - 1]
  BY <1>a DEF IsPart
<1>3. /\ t \in Ring /\ Len(t) = k - j /\ \A p \in 1 .. k - j : t[p] = ch[j + p - 1]
  BY <1>a DEF IsPart
<1>4. /\ u \in Ring /\ Len(u) = k - i /\ \A p \in 1 .. k - i : u[p] = ch[i + p - 1]
  BY <1>a DEF IsPart
<1>5. /\ w \in Ring /\ Len(w) = Len(s) + Len(t)
      /\ (\A p \in 1 .. Len(s) : w[p] = s[p]) /\ (\A p \in 1 .. Len(t) : w[Len(s) + p] = t[p])
  BY <1>2, <1>3, RingJoin
<1> HIDE DEF w
<1>6. Len(w) = Len(u)
  BY <1>0, <1>2, <1>3, <1>4, <1>5
<1>7. ASSUME NEW p \in 1 .. k - i PROVE u[p] = w[p]
  <2>1. CASE p <= j - i
    <3>1. p \in 1 .. j - i
      BY <1>0, <2>1
    <3>. QED
      BY <1>2, <1>4, <1>5, <3>1
  <2>2. CASE p > j - i
    <3>1. p - (j - i) \in 1 .. k - j /\ (j - i) + (p - (j - i)) = p /\ j + (p - (j - i)) - 1 = i + p - 1
      BY <1>0, <2>2
    <3>2. w[p] = t[p - (j - i)]
      BY <1>2, <1>3, <1>5, <3>1
    <3>3. t[p - (j - i)] = ch[i + p - 1]
      BY <1>3, <3>1
    <3>. QED
      BY <1>4, <3>2, <3>3
  <2>. QED
    BY <1>0, <2>1, <2>2
<1>8. u = w
  BY <1>4, <1>5, <1>6, <1>7, RingEqual
<1>. QED
  BY <1>8 DEF s, t, u, w

(* The part from the first chunk to the last is the ring.                  *)
LEMMA RingWhole ==
  ASSUME NEW ch \in Ring
  PROVE  Part(ch, 1, Len(ch) + 1) = ch /\ Len(ch) \in Nat /\ Cuts(ch, 1, Len(ch) + 1)
<1>1. Len(ch) \in Nat /\ (Len(ch) + 1) - 1 = Len(ch)
  BY DEF Ring
<1>2. Cuts(ch, 1, Len(ch) + 1)
  BY <1>1 DEF Cuts
<1>3. SubSeq(ch, 1, Len(ch)) = ch
  BY DEF Ring
<1>. QED
  BY <1>1, <1>2, <1>3 DEF Part

(* Where chunks start.                                                     *)
LEMMA Between ==
  ASSUME NEW ch, NEW i, NEW j, Cuts(ch, i, j)
  PROVE  /\ StartOf(ch, i) \in Nat /\ StartOf(ch, j) \in Nat /\ StartOf(ch, i) <= StartOf(ch, j)
         /\ Len(Flat(Part(ch, i, j))) = StartOf(ch, j) - StartOf(ch, i)
         /\ Flat(Part(ch, 1, j)) = Flat(Part(ch, 1, i)) \o Flat(Part(ch, i, j))
<1> DEFINE s == Part(ch, 1, i)
           t == Part(ch, i, j)
<1>1. Cuts(ch, 1, i) /\ Cuts(ch, 1, j)
  BY DEF Cuts
<1>2. Part(ch, 1, j) = s \o t
  BY <1>1, RingCut
<1>3. s \in Ring /\ t \in Ring
  BY <1>1, RingPart DEF IsPart
<1> HIDE DEF s, t
<1>4. /\ Flat(s \o t) = Flat(s) \o Flat(t) /\ Flat(s) \in Bytes /\ Flat(t) \in Bytes
  BY <1>3, FlatConcat, FlatType
<1>5. Len(Flat(s) \o Flat(t)) = Len(Flat(s)) + Len(Flat(t)) /\ Len(Flat(s)) \in Nat /\ Len(Flat(t)) \in Nat
  BY <1>4, BytesConcat
<1>6. StartOf(ch, i) = Len(Flat(s)) /\ StartOf(ch, j) = Len(Flat(s)) + Len(Flat(t))
  BY <1>2, <1>4, <1>5 DEF StartOf, s, Part
<1>7. /\ StartOf(ch, i) \in Nat /\ StartOf(ch, j) \in Nat /\ StartOf(ch, i) <= StartOf(ch, j)
      /\ Len(Flat(t)) = StartOf(ch, j) - StartOf(ch, i)
  BY <1>5, <1>6
<1>8. Flat(Part(ch, 1, j)) = Flat(s) \o Flat(t)
  BY <1>2, <1>4
<1>. QED
  BY <1>7, <1>8 DEF s, t

(* The first chunk starts at 0, and the one after the last at the end.     *)
LEMMA StartsAt ==
  ASSUME NEW ch \in Ring
  PROVE  StartOf(ch, 1) = 0 /\ StartOf(ch, Len(ch) + 1) = Len(Flat(ch)) /\ Len(Flat(ch)) \in Nat
<1>1. Part(ch, 1, Len(ch) + 1) = ch
  BY RingWhole
<1>2. Part(ch, 1, 1) = <<>>
  BY DEF Ring, Part
<1>3. Len(<<>>) = 0
  OBVIOUS
<1>. QED
  BY <1>1, <1>2, <1>3, FlatEmpty, FlatType DEF StartOf, Part

(* A chunk starts where the one before it ends: what seek adds up.         *)
LEMMA StartNext ==
  ASSUME NEW ch \in Ring, NEW i \in 1 .. Len(ch)
  PROVE  /\ ch[i] \in Chunk /\ ch[i].data \in Bytes /\ ch[i].cap \in Nat /\ Len(ch[i].data) \in Nat
         /\ StartOf(ch, i) \in Nat /\ StartOf(ch, i + 1) = StartOf(ch, i) + Len(ch[i].data)
         /\ Flat(Part(ch, i, i + 1)) = ch[i].data
<1>1. ch[i] \in Chunk /\ ch[i].data \in Bytes /\ ch[i].cap \in Nat /\ Len(ch[i].data) \in Nat
  <2>1. ch[i] \in Chunk
    BY DEF Ring
  <2>2. ch[i].data \in Bytes /\ ch[i].cap \in Nat
    BY <2>1, ByteSeqAssumption DEF Chunk, Bytes
  <2>. QED
    BY <2>1, <2>2 DEF Bytes
<1>2. Cuts(ch, i, i + 1)
  BY DEF Cuts, Ring
<1> DEFINE s == Part(ch, i, i + 1)
<1>3. s = <<ch[i]>>
  <2>1. s \in Ring /\ Len(s) = (i + 1) - i /\ \A k \in 1 .. (i + 1) - i : s[k] = ch[i + k - 1]
    <3>1. IsPart(ch, i, i + 1, s)
      BY <1>2, RingPart
    <3>. QED
      BY <3>1 DEF IsPart
  <2> HIDE DEF s
  <2>2. i \in Nat /\ 1 \in 1 .. (i + 1) - i /\ i + 1 - 1 = i /\ (i + 1) - i = 1
    OBVIOUS
  <2>3. Len(s) = 1 /\ s[1] = ch[i]
    BY <2>1, <2>2
  <2>. QED
    BY <2>1, <2>3 DEF Ring
<1>4. Flat(s) = ch[i].data
  BY <1>1, <1>3, FlatOne
<1>5. StartOf(ch, i) \in Nat /\ StartOf(ch, i + 1) \in Nat /\ Len(Flat(s)) = StartOf(ch, i + 1) - StartOf(ch, i)
  BY <1>2, Between
<1>. QED
  BY <1>1, <1>4, <1>5

(* Parts that hold the same chunks.                                        *)
Agree(a, b, i, j) == Cuts(a, i, j) /\ Cuts(b, i, j) /\ \A k \in i .. j - 1 : a[k] = b[k]

(* Rings that agree from i to j have the same part there.                  *)
LEMMA SamePart ==
  ASSUME NEW a, NEW b, NEW i, NEW j, Agree(a, b, i, j)
  PROVE  Part(a, i, j) = Part(b, i, j)
<1> DEFINE s == Part(a, i, j)
           t == Part(b, i, j)
<1>1. IsPart(a, i, j, s) /\ IsPart(b, i, j, t)
  BY RingPart DEF Agree
<1> HIDE DEF s, t
<1>2. /\ s \in Ring /\ Len(s) = j - i /\ \A k \in 1 .. j - i : s[k] = a[i + k - 1]
      /\ t \in Ring /\ Len(t) = j - i /\ \A k \in 1 .. j - i : t[k] = b[i + k - 1]
  BY <1>1 DEF IsPart
<1>3. i \in Nat /\ j \in Nat /\ \A k \in 1 .. j - i : i + k - 1 \in i .. j - 1
  BY DEF Agree, Cuts
<1>4. \A k \in 1 .. j - i : s[k] = t[k]
  BY <1>2, <1>3 DEF Agree
<1>5. s = t
  BY <1>2, <1>4, RingEqual
<1>. QED
  BY <1>5 DEF s, t

(* A ring is what is before a chunk, the chunk, and what is after it.      *)
Ahead(ch, i) == Flat(Part(ch, 1, i))
Behind(ch, i) == Flat(Part(ch, i + 1, Len(ch) + 1))

(* The bytes of a ring are those ahead of a chunk, its own, and those      *)
(* behind.                                                                 *)
LEMMA FlatAround ==
  ASSUME NEW ch \in Ring, NEW i \in 1 .. Len(ch)
  PROVE  /\ Ahead(ch, i) \in Bytes /\ Len(Ahead(ch, i)) = StartOf(ch, i) /\ Behind(ch, i) \in Bytes
         /\ Flat(ch) = (Ahead(ch, i) \o ch[i].data) \o Behind(ch, i)
         /\ i = Len(ch) => Behind(ch, i) = <<>>
<1>0. Len(ch) \in Nat /\ i \in Nat
  BY DEF Ring
<1>1. Cuts(ch, 1, i) /\ Cuts(ch, i, i + 1) /\ Cuts(ch, 1, i + 1) /\ Cuts(ch, i + 1, Len(ch) + 1)
  BY <1>0 DEF Cuts
<1>2. Part(ch, 1, Len(ch) + 1) = ch
  BY RingWhole
<1>3. Flat(Part(ch, 1, i + 1)) = Ahead(ch, i) \o ch[i].data
  <2>1. Flat(Part(ch, i, i + 1)) = ch[i].data
    BY StartNext
  <2>2. Flat(Part(ch, 1, i + 1)) = Flat(Part(ch, 1, i)) \o Flat(Part(ch, i, i + 1))
    BY <1>1, Between
  <2>. QED
    BY <2>1, <2>2 DEF Ahead
<1>4. Flat(Part(ch, 1, Len(ch) + 1)) = Flat(Part(ch, 1, i + 1)) \o Flat(Part(ch, i + 1, Len(ch) + 1))
  BY <1>1, Between
<1>5. Part(ch, 1, i) \in Ring /\ Part(ch, i + 1, Len(ch) + 1) \in Ring
  <2>1. IsPart(ch, 1, i, Part(ch, 1, i)) /\ IsPart(ch, i + 1, Len(ch) + 1, Part(ch, i + 1, Len(ch) + 1))
    BY <1>1, RingPart
  <2>. QED
    BY <2>1 DEF IsPart
<1>6. Ahead(ch, i) \in Bytes /\ Behind(ch, i) \in Bytes
  BY <1>5, FlatType DEF Ahead, Behind
<1>7. Len(Ahead(ch, i)) = StartOf(ch, i)
  BY DEF Ahead, StartOf, Part
<1>8. ASSUME i = Len(ch) PROVE Behind(ch, i) = <<>>
  <2>1. Part(ch, i + 1, Len(ch) + 1) = <<>>
    BY <1>0, <1>8 DEF Part, Ring
  <2>. QED
    BY <2>1, FlatEmpty DEF Behind
<1>. QED
  BY <1>2, <1>3, <1>4, <1>6, <1>7, <1>8 DEF Behind

(* The same ring with other bytes in one of its chunks.                    *)
Put(ch, i, d) == [ch EXCEPT ![i].data = d]
IsPut(ch, i, d, w) ==
  /\ w \in Ring /\ Len(w) = Len(ch)
  /\ w[i] \in Chunk /\ w[i].cap = ch[i].cap /\ w[i].data = d
  /\ \A j \in 1 .. Len(ch) : j # i => w[j] = ch[j]

(* A ring in which one chunk's data is replaced.                           *)
LEMMA RingPut ==
  ASSUME NEW ch \in Ring, NEW i \in 1 .. Len(ch), NEW d \in Bytes
  PROVE  IsPut(ch, i, d, Put(ch, i, d))
<1> DEFINE c == [ch[i] EXCEPT !.data = d]
           w == [ch EXCEPT ![i] = c]
<1>1. ch[i] \in Chunk
  BY DEF Ring
<1>2. c \in Chunk /\ c.cap = ch[i].cap /\ c.data = d
  BY <1>1 DEF Chunk, Bytes
<1> HIDE DEF c
<1>3. w \in Seq(Chunk) /\ Len(w) = Len(ch) /\ w[i] = c /\ \A j \in 1 .. Len(ch) : j # i => w[j] = ch[j]
  BY <1>2 DEF Ring
<1>4. Put(ch, i, d) = w
  BY DEF Put, c
<1> HIDE DEF w
<1>. QED
  BY <1>2, <1>3, <1>4 DEF IsPut, Ring

(* Replacing one chunk's data replaces its stretch of the bytes and moves  *)
(* no chunk that starts before its end.                                    *)
LEMMA FlatPut ==
  ASSUME NEW ch \in Ring, NEW i \in 1 .. Len(ch), NEW d \in Bytes, NEW w, IsPut(ch, i, d, w)
  PROVE  /\ Flat(w) = (Ahead(ch, i) \o d) \o Behind(ch, i)
         /\ \A j \in 1 .. i : StartOf(w, j) = StartOf(ch, j)
         /\ d = ch[i].data => w = ch
<1>1. /\ w \in Ring /\ Len(w) = Len(ch) /\ w[i].data = d /\ w[i] \in Chunk /\ w[i].cap = ch[i].cap
      /\ (\A j \in 1 .. Len(ch) : j # i => w[j] = ch[j]) /\ Len(ch) \in Nat /\ i \in Nat
  BY DEF IsPut, Ring
<1>2. ASSUME NEW j \in 1 .. i PROVE StartOf(w, j) = StartOf(ch, j) /\ Part(w, 1, j) = Part(ch, 1, j)
  <2>1. Cuts(w, 1, j) /\ Cuts(ch, 1, j)
    BY <1>1 DEF Cuts
  <2>2. \A k \in 1 .. j - 1 : k \in 1 .. Len(ch) /\ k # i
    BY <1>1
  <2>3. Agree(w, ch, 1, j)
    BY <1>1, <2>1, <2>2 DEF Agree
  <2>4. Part(w, 1, j) = Part(ch, 1, j)
    BY <2>3, SamePart
  <2>. QED
    BY <2>4 DEF StartOf, Part
<1>3. Ahead(w, i) = Ahead(ch, i)
  BY <1>1, <1>2 DEF Ahead
<1>4. Behind(w, i) = Behind(ch, i)
  <2>1. Cuts(w, i + 1, Len(ch) + 1) /\ Cuts(ch, i + 1, Len(ch) + 1)
    BY <1>1 DEF Cuts
  <2>2. \A k \in i + 1 .. (Len(ch) + 1) - 1 : k \in 1 .. Len(ch) /\ k # i
    BY <1>1
  <2>3. Agree(w, ch, i + 1, Len(ch) + 1)
    BY <1>1, <2>1, <2>2 DEF Agree
  <2>4. Part(w, i + 1, Len(ch) + 1) = Part(ch, i + 1, Len(ch) + 1)
    BY <2>3, SamePart
  <2>. QED
    BY <1>1, <2>4 DEF Behind
<1>5. Flat(w) = (Ahead(w, i) \o w[i].data) \o Behind(w, i)
  BY <1>1, FlatAround
<1>6. ASSUME d = ch[i].data PROVE w = ch
  <2>1. w[i] = ch[i]
    <3>1. ch[i] \in Chunk
      BY DEF Ring
    <3>. QED
      BY <1>1, <1>6, <3>1 DEF Chunk
  <2>2. \A j \in 1 .. Len(w) : w[j] = ch[j]
    BY <1>1, <2>1
  <2>. QED
    BY <1>1, <2>2, RingEqual
<1>. QED
  BY <1>1, <1>2, <1>3, <1>4, <1>5, <1>6

-----------------------------------------------------------------------------

(* Parts of a text made of three pieces.                                   *)
Three(a, d, b, w) ==
  /\ a \in Bytes /\ d \in Bytes /\ b \in Bytes /\ w = (a \o d) \o b

(* The bytes of three texts in a row, by position.                         *)
LEMMA ThreeFacts ==
  ASSUME NEW a, NEW d, NEW b, NEW w, Three(a, d, b, w)
  PROVE  /\ w \in Bytes /\ Len(w) = Len(a) + Len(d) + Len(b) /\ Len(w) \in Nat
         /\ Len(a) \in Nat /\ Len(d) \in Nat /\ Len(b) \in Nat
         /\ \A i \in 1 .. Len(a) : w[i] = a[i]
         /\ \A i \in 1 .. Len(d) : w[Len(a) + i] = d[i]
         /\ \A i \in 1 .. Len(b) : w[Len(a) + Len(d) + i] = b[i]
<1> DEFINE u == a \o d
<1>0. a \in Bytes /\ d \in Bytes /\ b \in Bytes /\ w = u \o b
  BY DEF Three
<1>1. /\ u \in Bytes /\ Len(u) = Len(a) + Len(d) /\ Len(a) \in Nat /\ Len(d) \in Nat
      /\ (\A i \in 1 .. Len(a) : u[i] = a[i]) /\ (\A i \in 1 .. Len(d) : u[Len(a) + i] = d[i])
  BY <1>0, BytesConcat
<1> HIDE DEF u
<1>2. /\ w \in Bytes /\ Len(w) = Len(u) + Len(b) /\ Len(b) \in Nat
      /\ (\A i \in 1 .. Len(u) : w[i] = u[i]) /\ (\A i \in 1 .. Len(b) : w[Len(u) + i] = b[i])
  <2>1. u \in Bytes /\ b \in Bytes
    BY <1>0, <1>1
  <2> DEFINE v == u \o b
  <2>2. /\ v \in Bytes /\ Len(v) = Len(u) + Len(b) /\ Len(b) \in Nat
        /\ (\A i \in 1 .. Len(u) : v[i] = u[i]) /\ (\A i \in 1 .. Len(b) : v[Len(u) + i] = b[i])
    BY <2>1, BytesConcat
  <2>3. w = v
    BY <1>0
  <2> HIDE DEF v
  <2>. QED
    BY <2>2, <2>3
<1>3. Len(w) = Len(a) + Len(d) + Len(b) /\ Len(w) \in Nat
  BY <1>1, <1>2
<1>4. \A i \in 1 .. Len(a) : w[i] = a[i]
  BY <1>1, <1>2
<1>5. ASSUME NEW i \in 1 .. Len(d) PROVE w[Len(a) + i] = d[i]
  <2>1. Len(a) + i \in 1 .. Len(u)
    BY <1>1
  <2>. QED
    BY <1>1, <1>2, <2>1
<1>6. \A i \in 1 .. Len(b) : w[Len(a) + Len(d) + i] = b[i]
  BY <1>1, <1>2
<1>. QED
  BY <1>1, <1>2, <1>3, <1>4, <1>5, <1>6

SamePiece(w, l, d, p, n) == SubSeq(w, l + p + 1, l + p + n) = SubSeq(d, p + 1, p + n)

(* A piece of the middle text is the same piece of the whole.              *)
LEMMA Middle ==
  ASSUME NEW a, NEW d, NEW b, NEW w, Three(a, d, b, w), NEW p \in Nat, NEW n \in Nat, p + n <= Len(d)
  PROVE  SamePiece(w, Len(a), d, p, n)
<1> DEFINE l == Len(a) + p
           u == SubSeq(w, l + 1, l + n)
           v == SubSeq(d, p + 1, p + n)
<1>1. /\ w \in Bytes /\ Len(w) = Len(a) + Len(d) + Len(b) /\ Len(w) \in Nat
      /\ Len(a) \in Nat /\ Len(d) \in Nat /\ Len(b) \in Nat
      /\ \A i \in 1 .. Len(d) : w[Len(a) + i] = d[i]
  BY ThreeFacts
<1>2. l \in Nat /\ l + n \in Nat /\ l + n <= Len(w) /\ p + n \in Nat /\ (l + n) - l = n /\ (p + n) - p = n
  BY <1>1
<1>3. d \in Bytes
  BY DEF Three
<1> HIDE DEF l
<1>4. u \in Bytes /\ Len(u) = (IF l <= l + n THEN (l + n) - l ELSE 0) /\ \A i \in 1 .. (l + n) - l : u[i] = w[l + i]
  BY <1>1, <1>2, BytesPart
<1>5. v \in Bytes /\ Len(v) = (IF p <= p + n THEN (p + n) - p ELSE 0) /\ \A i \in 1 .. (p + n) - p : v[i] = d[p + i]
  BY <1>1, <1>2, <1>3, BytesPart
<1> HIDE DEF u, v
<1>6. Len(u) = n /\ Len(v) = n
  BY <1>2, <1>4, <1>5
<1>7. ASSUME NEW i \in 1 .. n PROVE u[i] = v[i]
  <2>1. u[i] = w[l + i] /\ v[i] = d[p + i]
    BY <1>2, <1>4, <1>5
  <2>2. p + i \in 1 .. Len(d) /\ Len(a) + (p + i) = l + i
    BY <1>1 DEF l
  <2>. QED
    BY <1>1, <2>1, <2>2
<1>8. u = v
  BY <1>4, <1>5, <1>6, <1>7, BytesEqual
<1>. QED
  BY <1>8 DEF u, v, l, SamePiece

(* What is before and what is after the first k bytes.                     *)
UpTo(w, k) == SubSeq(w, 1, k)
From(w, k) == SubSeq(w, k + 1, Len(w))

(* The whole up to a point of the middle text.                             *)
LEMMA Prefix ==
  ASSUME NEW a, NEW d, NEW b, NEW w, Three(a, d, b, w), NEW p \in Nat, p <= Len(d)
  PROVE  UpTo(w, Len(a) + p) = a \o UpTo(d, p)
<1> DEFINE l == Len(a) + p
           u == SubSeq(w, 0 + 1, l)
           e == SubSeq(d, 0 + 1, p)
           v == a \o e
<1>1. /\ w \in Bytes /\ Len(w) = Len(a) + Len(d) + Len(b) /\ Len(w) \in Nat
      /\ Len(a) \in Nat /\ Len(d) \in Nat /\ Len(b) \in Nat
      /\ (\A i \in 1 .. Len(a) : w[i] = a[i])
      /\ \A i \in 1 .. Len(d) : w[Len(a) + i] = d[i]
  BY ThreeFacts
<1>2. l \in Nat /\ l <= Len(w) /\ l - 0 = l /\ p - 0 = p /\ 0 <= l /\ 0 <= p /\ 0 \in Nat
  BY <1>1
<1>3. d \in Bytes /\ a \in Bytes
  BY DEF Three
<1> HIDE DEF l
<1>4. u \in Bytes /\ Len(u) = (IF 0 <= l THEN l - 0 ELSE 0) /\ \A i \in 1 .. l - 0 : u[i] = w[0 + i]
  BY <1>1, <1>2, BytesPart
<1>5. e \in Bytes /\ Len(e) = (IF 0 <= p THEN p - 0 ELSE 0) /\ \A i \in 1 .. p - 0 : e[i] = d[0 + i]
  BY <1>1, <1>2, <1>3, BytesPart
<1> HIDE DEF u, e
<1>6. Len(u) = l /\ Len(e) = p /\ (\A i \in 1 .. l : u[i] = w[i]) /\ (\A i \in 1 .. p : e[i] = d[i])
  BY <1>2, <1>4, <1>5
<1>7. /\ v \in Bytes /\ Len(v) = Len(a) + Len(e)
      /\ (\A i \in 1 .. Len(a) : v[i] = a[i]) /\ (\A i \in 1 .. Len(e) : v[Len(a) + i] = e[i])
  <2>1. a \in Bytes /\ e \in Bytes
    BY <1>3, <1>5
  <2>. QED
    BY <2>1, BytesConcat
<1> HIDE DEF v
<1>8. ASSUME NEW i \in 1 .. l PROVE u[i] = v[i]
  <2>1. u[i] = w[i]
    BY <1>6
  <2>2. CASE i <= Len(a)
    <3>1. i \in 1 .. Len(a)
      BY <1>1, <1>2, <2>2
    <3>. QED
      BY <1>1, <1>7, <2>1, <3>1
  <2>3. CASE i > Len(a)
    <3> DEFINE k == i - Len(a)
    <3>1. k \in 1 .. p /\ Len(a) + k = i /\ k \in 1 .. Len(d)
      BY <1>1, <1>2, <2>3 DEF l
    <3> HIDE DEF k
    <3>. QED
      BY <1>1, <1>6, <1>7, <2>1, <3>1
  <2>. QED
    BY <1>1, <2>2, <2>3
<1>9. Len(v) = l
  BY <1>6, <1>7 DEF l
<1>10. u = v
  BY <1>4, <1>6, <1>7, <1>8, <1>9, BytesEqual
<1>. QED
  BY <1>10 DEF u, v, l, e, UpTo

(* The whole from a point of the middle text on.                           *)
LEMMA Suffix ==
  ASSUME NEW a, NEW d, NEW b, NEW w, Three(a, d, b, w), NEW p \in Nat,
         p <= Len(d) \/ b = <<>>
  PROVE  From(w, Len(a) + p) = From(d, p) \o b
<1> DEFINE l == Len(a) + p
           u == SubSeq(w, l + 1, Len(w))
           e == SubSeq(d, p + 1, Len(d))
           v == e \o b
           k == IF p <= Len(d) THEN Len(d) - p ELSE 0
<1>1. /\ w \in Bytes /\ Len(w) = Len(a) + Len(d) + Len(b) /\ Len(w) \in Nat
      /\ Len(a) \in Nat /\ Len(d) \in Nat /\ Len(b) \in Nat
      /\ (\A i \in 1 .. Len(d) : w[Len(a) + i] = d[i])
      /\ \A i \in 1 .. Len(b) : w[Len(a) + Len(d) + i] = b[i]
  BY ThreeFacts
<1>2. l \in Nat /\ k \in Nat /\ (p > Len(d) => Len(b) = 0)
  BY <1>1
<1>3. d \in Bytes /\ a \in Bytes /\ b \in Bytes
  BY DEF Three
<1>n. Len(w) <= Len(w) /\ Len(d) <= Len(d)
  BY <1>1
<1> HIDE DEF l
<1>4. u \in Bytes /\ Len(u) = (IF l <= Len(w) THEN Len(w) - l ELSE 0) /\ \A i \in 1 .. Len(w) - l : u[i] = w[l + i]
  BY <1>1, <1>2, <1>n, BytesPart
<1>5. e \in Bytes /\ Len(e) = k /\ \A i \in 1 .. Len(d) - p : e[i] = d[p + i]
  BY <1>1, <1>2, <1>3, <1>n, BytesPart
<1> HIDE DEF u, e
<1>7. /\ v \in Bytes /\ Len(v) = k + Len(b)
      /\ (\A i \in 1 .. k : v[i] = e[i]) /\ (\A i \in 1 .. Len(b) : v[k + i] = b[i])
  <2> HIDE DEF k
  <2>1. e \in Bytes /\ b \in Bytes /\ Len(e) = k
    BY <1>3, <1>5
  <2>. QED
    BY <2>1, BytesConcat
<1> HIDE DEF v
<1>8. Len(u) = k + Len(b)
  <2>1. CASE p <= Len(d)
    BY <1>1, <1>2, <1>4, <2>1 DEF l
  <2>2. CASE ~ (p <= Len(d))
    BY <1>1, <1>2, <1>4, <2>2 DEF l
  <2>. QED
    BY <2>1, <2>2
<1>9. ASSUME NEW i \in 1 .. k + Len(b) PROVE u[i] = v[i]
  <2>0. p <= Len(d) /\ k = Len(d) - p
    BY <1>1, <1>2
  <2>1. i \in 1 .. Len(w) - l
    BY <1>1, <1>2, <2>0 DEF l
  <2>2. u[i] = w[l + i]
    BY <1>4, <2>1
  <2>3. CASE i <= k
    <3>1. p + i \in 1 .. Len(d) /\ Len(a) + (p + i) = l + i /\ i \in 1 .. Len(d) - p /\ i \in 1 .. k
      BY <1>1, <1>2, <2>0, <2>3 DEF l
    <3> HIDE DEF k
    <3>. QED
      BY <1>1, <1>5, <1>7, <2>2, <3>1
  <2>4. CASE i > k
    <3> DEFINE j == i - k
    <3>1. j \in 1 .. Len(b) /\ k + j = i /\ Len(a) + Len(d) + j = l + i
      BY <1>1, <1>2, <2>0, <2>4 DEF l
    <3> HIDE DEF j, k
    <3>. QED
      BY <1>1, <1>7, <2>2, <3>1
  <2>. QED
    BY <1>2, <2>3, <2>4
<1> HIDE DEF k
<1>10. u = v
  BY <1>2, <1>4, <1>7, <1>8, <1>9, BytesEqual
<1>. QED
  BY <1>10 DEF u, v, l, e, From

(* A text written over another from its position q on.                     *)
Over(w, q, s) == UpTo(w, q) \o s \o From(w, q + Len(s))

Five(a, e, s, f, b) == a \in Bytes /\ e \in Bytes /\ s \in Bytes /\ f \in Bytes /\ b \in Bytes
Regroups(a, e, s, f, b) ==
  /\ (e \o s) \o f \in Bytes /\ Len((e \o s) \o f) = Len(e) + Len(s) + Len(f)
  /\ (a \o ((e \o s) \o f)) \o b = ((a \o e) \o s) \o (f \o b)

(* Five texts in a row, regrouped.                                         *)
LEMMA FourPieces ==
  ASSUME NEW a, NEW e, NEW s, NEW f, NEW b, Five(a, e, s, f, b)
  PROVE  Regroups(a, e, s, f, b)
<1> DEFINE es == e \o s
           aes == a \o es
<1>0. a \in Bytes /\ e \in Bytes /\ s \in Bytes /\ f \in Bytes /\ b \in Bytes
  BY DEF Five
<1>1. es \in Bytes /\ Len(es) = Len(e) + Len(s)
  BY <1>0, BytesConcat
<1>2. (a \o e) \o s = aes
  <2>1. a \in Bytes /\ e \in Bytes /\ s \in Bytes
    BY <1>0
  <2>. QED
    BY <2>1 DEF Bytes
<1> HIDE DEF es
<1>3. es \o f \in Bytes /\ Len(es \o f) = Len(es) + Len(f)
  BY <1>0, <1>1, BytesConcat
<1>4. aes \in Bytes
  BY <1>0, <1>1, BytesConcat
<1>5. aes \o f = a \o (es \o f)
  <2>1. a \in Bytes /\ es \in Bytes /\ f \in Bytes
    BY <1>0, <1>1
  <2>. QED
    BY <2>1 DEF Bytes
<1> HIDE DEF aes
<1>6. (aes \o f) \o b = aes \o (f \o b)
  <2>1. aes \in Bytes /\ f \in Bytes /\ b \in Bytes
    BY <1>0, <1>4
  <2>. QED
    BY <2>1 DEF Bytes
<1>7. (a \o (es \o f)) \o b = ((a \o e) \o s) \o (f \o b)
  BY <1>2, <1>5, <1>6
<1>8. Len(es \o f) = Len(e) + Len(s) + Len(f)
  BY <1>1, <1>3
<1>. QED
  BY <1>3, <1>7, <1>8 DEF es, Regroups

(* Overwriting in the middle text, past its end only if nothing follows,   *)
(* is overwriting in the whole.                                            *)
LEMMA Overwritten ==
  ASSUME NEW a, NEW d, NEW b, NEW w, Three(a, d, b, w), NEW s \in Bytes, NEW p \in Nat,
         p <= Len(d), p + Len(s) <= Len(d) \/ b = <<>>
  PROVE  /\ Over(d, p, s) \in Bytes
         /\ p + Len(s) <= Len(d) => Len(Over(d, p, s)) = Len(d)
         /\ p + Len(s) > Len(d) => Len(Over(d, p, s)) = p + Len(s)
         /\ (a \o Over(d, p, s)) \o b = Over(w, Len(a) + p, s)
<1> DEFINE l == Len(a) + p
           e == UpTo(d, p)
           m == p + Len(s)
           f == From(d, m)
<1>1. Len(a) \in Nat /\ Len(d) \in Nat /\ Len(s) \in Nat
  BY ThreeFacts DEF Bytes
<1>2. a \in Bytes /\ d \in Bytes /\ b \in Bytes
  BY DEF Three
<1>3. m \in Nat /\ Len(d) <= Len(d) /\ 0 \in Nat
  BY <1>1
<1>4. e \in Bytes /\ Len(e) = p
  <2>1. SubSeq(d, 0 + 1, p) \in Bytes /\ Len(SubSeq(d, 0 + 1, p)) = IF 0 <= p THEN p - 0 ELSE 0
    BY <1>2, <1>3, BytesPart
  <2>. QED
    BY <2>1 DEF UpTo
<1>5. f \in Bytes /\ Len(f) = IF m <= Len(d) THEN Len(d) - m ELSE 0
  <2> HIDE DEF m
  <2>. QED
    BY <1>1, <1>2, <1>3, BytesPart DEF From
<1>6. UpTo(w, l) = a \o e
  BY Prefix
<1>7. From(w, l + Len(s)) = f \o b
  <2>1. m <= Len(d) \/ b = <<>>
    OBVIOUS
  <2>2. From(w, Len(a) + m) = From(d, m) \o b
    <3> HIDE DEF m
    <3>. QED
      BY <1>3, <2>1, Suffix
  <2>3. Len(a) + m = l + Len(s)
    BY <1>1
  <2>. QED
    BY <2>2, <2>3
<1>8. Over(d, p, s) = (e \o s) \o f
  BY DEF Over
<1>9. Over(w, l, s) = ((a \o e) \o s) \o (f \o b)
  BY <1>6, <1>7 DEF Over
<1> HIDE DEF e, f, m, l
<1>10. /\ (e \o s) \o f \in Bytes /\ Len((e \o s) \o f) = Len(e) + Len(s) + Len(f)
       /\ (a \o ((e \o s) \o f)) \o b = ((a \o e) \o s) \o (f \o b)
  <2>1. Five(a, e, s, f, b)
    BY <1>2, <1>4, <1>5 DEF Five
  <2>2. Regroups(a, e, s, f, b)
    BY <2>1, FourPieces
  <2>. QED
    BY <2>2 DEF Regroups
<1>11. Len(Over(d, p, s)) = m + Len(f)
  <2> DEFINE o == Len(Over(d, p, s))
             x == Len(f)
  <2>1. o = Len(e) + Len(s) + x /\ Len(e) = p /\ x \in Nat
    BY <1>4, <1>5, <1>8, <1>10 DEF Bytes
  <2> HIDE DEF o, x
  <2>2. o = m + x
    BY <1>1, <2>1 DEF m
  <2>. QED
    BY <2>2 DEF o, x
<1>12. m <= Len(d) => Len(Over(d, p, s)) = Len(d)
  <2> DEFINE o == Len(Over(d, p, s))
  <2> HIDE DEF o
  <2>1. o = m + Len(f)
    BY <1>11 DEF o
  <2>2. m <= Len(d) => o = Len(d)
    BY <1>1, <1>3, <1>5, <2>1
  <2>. QED
    BY <2>2 DEF o
<1>13. m > Len(d) => Len(Over(d, p, s)) = m
  <2> DEFINE o == Len(Over(d, p, s))
  <2> HIDE DEF o
  <2>1. o = m + Len(f)
    BY <1>11 DEF o
  <2>2. m > Len(d) => o = m
    BY <1>1, <1>3, <1>5, <2>1
  <2>. QED
    BY <2>2 DEF o
<1>. QED
  BY <1>8, <1>9, <1>10, <1>12, <1>13 DEF l, m

-----------------------------------------------------------------------------

(* The rings the code makes: every chunk but the last is full.             *)
Packed(ch) ==
  /\ ch \in Ring
  /\ \A i \in 1 .. Len(ch) - 1 : Len(ch[i].data) = ch[i].cap
  /\ \A i \in 1 .. Len(ch) : Len(ch[i].data) <= ch[i].cap

(* The cursor p in the c-th chunk, which starts at p0.                     *)
Points(ch, c, p0, p) ==
  /\ c \in 1 .. Len(ch)
  /\ p0 = StartOf(ch, c)
  /\ p \in Nat
  /\ p0 <= p /\ p <= p0 + Len(ch[c].data)

At(ch, c, p0, p) ==
  /\ Points(ch, c, p0, p)
  /\ c # Len(ch) => p < p0 + Len(ch[c].data)

(* How much there is up to the end of a chunk, and in all.                 *)
LEMMA Starts ==
  ASSUME NEW ch \in Ring, NEW i \in 1 .. Len(ch), NEW j \in 1 .. Len(ch) + 1
  PROVE  /\ StartOf(ch, i) \in Nat /\ StartOf(ch, j) \in Nat /\ Len(Flat(ch)) \in Nat
         /\ ch[i] \in Chunk /\ ch[i].data \in Bytes /\ Len(ch[i].data) \in Nat
         /\ ch[i].cap \in 1 .. MaxSize + ChunkSize
         /\ StartOf(ch, i + 1) = StartOf(ch, i) + Len(ch[i].data)
         /\ StartOf(ch, i + 1) <= Len(Flat(ch))
         /\ i = Len(ch) => StartOf(ch, i) + Len(ch[i].data) = Len(Flat(ch))
         /\ i < j => StartOf(ch, i + 1) <= StartOf(ch, j)
         /\ i <= j => StartOf(ch, i) <= StartOf(ch, j)
         /\ StartOf(ch, 1) = 0
<1>1. Len(ch) \in Nat /\ i \in Nat /\ j \in Nat
  BY DEF Ring
<1>2. StartOf(ch, 1) = 0 /\ StartOf(ch, Len(ch) + 1) = Len(Flat(ch)) /\ Len(Flat(ch)) \in Nat
  BY StartsAt
<1>3. /\ ch[i] \in Chunk /\ ch[i].data \in Bytes /\ Len(ch[i].data) \in Nat
      /\ StartOf(ch, i) \in Nat /\ StartOf(ch, i + 1) = StartOf(ch, i) + Len(ch[i].data)
  BY StartNext
<1>4. ch[i].cap \in 1 .. MaxSize + ChunkSize
  BY <1>3 DEF Chunk
<1>5. Cuts(ch, i + 1, Len(ch) + 1) /\ Cuts(ch, 1, j)
  BY <1>1 DEF Cuts
<1>6. StartOf(ch, i + 1) <= StartOf(ch, Len(ch) + 1) /\ StartOf(ch, j) \in Nat
  BY <1>5, Between
<1>7. ASSUME i < j PROVE StartOf(ch, i + 1) <= StartOf(ch, j)
  <2>1. Cuts(ch, i + 1, j)
    BY <1>1, <1>7 DEF Cuts
  <2>. QED
    BY <2>1, Between
<1>8. ASSUME i <= j PROVE StartOf(ch, i) <= StartOf(ch, j)
  <2>1. Cuts(ch, i, j)
    BY <1>1, <1>8 DEF Cuts
  <2>. QED
    BY <2>1, Between
<1>. QED
  BY <1>2, <1>3, <1>4, <1>6, <1>7, <1>8

(* Bytes stored from the cursor on: the file is written over there, and    *)
(* longer if the bytes reach beyond its end.                               *)
IsStored(ch, c, p0, p, s, w) ==
  /\ Packed(w) /\ Len(w) = Len(ch)
  /\ Flat(w) = Over(Flat(ch), p, s)
  /\ StartOf(w, c) = p0
  /\ c # Len(ch) => Len(w[c].data) = Len(ch[c].data)
  /\ p + Len(s) <= p0 + Len(w[c].data)
  /\ p + Len(s) <= Len(Flat(ch)) => Len(Flat(w)) = Len(Flat(ch))
  /\ p + Len(s) > Len(Flat(ch)) => Len(Flat(w)) = p + Len(s)

Storable(ch, c, p0, p, s) ==
  /\ Packed(ch) /\ Points(ch, c, p0, p)
  /\ s \in Bytes
  /\ (p - p0) + Len(s) <= ch[c].cap
  /\ c # Len(ch) => (p - p0) + Len(s) <= Len(ch[c].data)

Lengths(a, d, b, e, q, n) ==
  /\ a \in Nat /\ d \in Nat /\ b \in Nat /\ e \in Nat /\ q \in Nat /\ n \in Nat
  /\ q + n <= d => e = d
  /\ q + n > d => e = q + n
  /\ q + n <= d \/ b = 0

(* The lengths that a store leads to.                                      *)
LEMMA StoredLengths ==
  ASSUME NEW a, NEW d, NEW b, NEW e, NEW q, NEW n, Lengths(a, d, b, e, q, n)
  PROVE  /\ q + n <= e
         /\ (a + q) + n <= a + e
         /\ (a + q) + n <= a + d + b => a + e + b = a + d + b
         /\ (a + q) + n > a + d + b => a + e + b = (a + q) + n
BY DEF Lengths

(* A store into a chunk writes exactly the bytes at the position into the  *)
(* flat text, and the ring stays packed.                                   *)
LEMMA StoredIs ==
  ASSUME NEW ch, NEW c, NEW p0, NEW p, NEW s, Storable(ch, c, p0, p, s)
  PROVE  IsStored(ch, c, p0, p, s, Stored(ch, c, p - p0, s))
<1> DEFINE q == p - p0
           a == Ahead(ch, c)
           d == ch[c].data
           b == Behind(ch, c)
           e == Over(d, q, s)
           w == Put(ch, c, e)
           f == Flat(ch)
<1>1. /\ ch \in Ring /\ c \in 1 .. Len(ch) /\ s \in Bytes /\ Len(s) \in Nat
      /\ p0 = StartOf(ch, c) /\ p \in Nat /\ p0 <= p /\ p <= p0 + Len(d)
      /\ q + Len(s) <= ch[c].cap
      /\ c # Len(ch) => q + Len(s) <= Len(d)
      /\ Len(ch) \in Nat
  BY DEF Storable, Packed, Points, Bytes, Ring
<1>2. /\ p0 \in Nat /\ d \in Bytes /\ Len(d) \in Nat /\ ch[c].cap \in Nat
      /\ p0 + Len(d) <= Len(f) /\ Len(f) \in Nat
      /\ c = Len(ch) => p0 + Len(d) = Len(f)
  <2>1. c \in 1 .. Len(ch) + 1
    BY <1>1
  <2>2. /\ StartOf(ch, c) \in Nat /\ d \in Bytes /\ Len(d) \in Nat /\ ch[c].cap \in 1 .. MaxSize + ChunkSize
        /\ StartOf(ch, c + 1) = StartOf(ch, c) + Len(d) /\ StartOf(ch, c + 1) <= Len(f) /\ Len(f) \in Nat
        /\ c = Len(ch) => StartOf(ch, c) + Len(d) = Len(f)
    BY <1>1, <2>1, Starts
  <2>3. ch[c].cap \in Nat
    BY <2>2
  <2>. QED
    BY <1>1, <2>2, <2>3
<1>3. /\ a \in Bytes /\ Len(a) = p0 /\ b \in Bytes /\ f = (a \o d) \o b /\ (c = Len(ch) => b = <<>>)
  BY <1>1, FlatAround
<1>4. q \in Nat /\ q <= Len(d) /\ Len(a) + q = p /\ (q + Len(s) <= Len(d) \/ b = <<>>)
  <2>1. q + Len(s) <= Len(d) \/ b = <<>>
    BY <1>1, <1>3
  <2>2. p0 \in Nat /\ p \in Nat /\ Len(d) \in Nat /\ p0 <= p /\ p <= p0 + Len(d) /\ Len(a) = p0
    BY <1>1, <1>2, <1>3
  <2> HIDE DEF a, b, d
  <2>3. q \in Nat /\ q <= Len(d) /\ p0 + q = p
    BY <2>2
  <2>. QED
    BY <2>1, <2>2, <2>3
<1> HIDE DEF q, a, b, d, f
<1>5. Three(a, d, b, f)
  BY <1>2, <1>3 DEF Three
<1>6. /\ e \in Bytes
      /\ q + Len(s) <= Len(d) => Len(e) = Len(d)
      /\ q + Len(s) > Len(d) => Len(e) = q + Len(s)
      /\ (a \o e) \o b = Over(f, Len(a) + q, s)
  <2>1. /\ Three(a, d, b, f) /\ s \in Bytes /\ q \in Nat /\ q <= Len(d)
        /\ q + Len(s) <= Len(d) \/ b = <<>>
    BY <1>1, <1>4, <1>5
  <2>. QED
    BY <2>1, Overwritten
<1> HIDE DEF e
<1>7. IsPut(ch, c, e, w)
  BY <1>1, <1>6, RingPut
<1> HIDE DEF w
<1>8. Flat(w) = (a \o e) \o b /\ \A j \in 1 .. c : StartOf(w, j) = StartOf(ch, j)
  <2>1. ch \in Ring /\ c \in 1 .. Len(ch) /\ e \in Bytes
    BY <1>1, <1>6
  <2>. QED
    BY <2>1, <1>7, FlatPut DEF a, b
<1>9. StartOf(w, c) = p0
  BY <1>1, <1>8
<1>10. /\ w \in Ring /\ Len(w) = Len(ch) /\ w[c].cap = ch[c].cap /\ w[c].data = e
       /\ \A j \in 1 .. Len(ch) : j # c => w[j] = ch[j]
  BY <1>7 DEF IsPut
<1>11. Len(e) \in Nat /\ q + Len(s) <= Len(e) /\ Len(e) <= ch[c].cap /\ (c # Len(ch) => Len(e) = Len(d))
  <2>1. Len(d) <= ch[c].cap
    BY <1>1 DEF Storable, Packed, d
  <2>2. Len(e) \in Nat
    BY <1>6 DEF Bytes
  <2>3. q + Len(s) <= Len(d) \/ Len(b) = 0
    BY <1>4
  <2>4. Len(b) \in Nat
    BY <1>3 DEF Bytes
  <2>5. q + Len(s) <= Len(e)
    <3>1. q + Len(s) <= Len(d) \/ q + Len(s) > Len(d)
      BY <1>1, <1>2, <1>4
    <3>. QED
      BY <1>1, <1>2, <1>4, <1>6, <3>1
  <2>6. Len(e) <= ch[c].cap
    <3>1. Len(e) = Len(d) \/ Len(e) = q + Len(s)
      BY <1>1, <1>2, <1>4, <1>6
    <3>. QED
      BY <1>1, <2>1, <3>1
  <2>7. c # Len(ch) => Len(e) = Len(d)
    BY <1>1, <1>6
  <2>. QED
    BY <2>2, <2>5, <2>6, <2>7
<1>12. Packed(w)
  <2>1. ASSUME NEW i \in 1 .. Len(ch) - 1 PROVE Len(w[i].data) = w[i].cap
    <3>1. i \in 1 .. Len(ch) /\ i # Len(ch) /\ Len(ch[i].data) = ch[i].cap
      BY <1>1 DEF Storable, Packed
    <3>2. CASE i = c
      BY <1>10, <1>11, <3>1, <3>2 DEF d
    <3>3. CASE i # c
      BY <1>10, <3>1, <3>3
    <3>. QED
      BY <3>2, <3>3
  <2>2. ASSUME NEW i \in 1 .. Len(ch) PROVE Len(w[i].data) <= w[i].cap
    <3>1. Len(ch[i].data) <= ch[i].cap
      BY <1>1 DEF Storable, Packed
    <3>2. CASE i = c
      BY <1>10, <1>11, <3>2
    <3>3. CASE i # c
      BY <1>10, <3>1, <3>3
    <3>. QED
      BY <3>2, <3>3
  <2>. QED
    BY <1>10, <2>1, <2>2 DEF Packed
<1>13. Len(Flat(w)) = Len(a) + Len(e) + Len(b) /\ Len(f) = Len(a) + Len(d) + Len(b) /\ Len(b) \in Nat
  <2>1. Three(a, e, b, Flat(w))
    BY <1>3, <1>6, <1>8 DEF Three
  <2>. QED
    BY <1>5, <2>1, ThreeFacts
<1>14. /\ p + Len(s) <= p0 + Len(e)
       /\ p + Len(s) <= Len(f) => Len(Flat(w)) = Len(f)
       /\ p + Len(s) > Len(f) => Len(Flat(w)) = p + Len(s)
  <2>1. Len(a) \in Nat /\ Len(b) \in Nat /\ Len(a) = p0
    BY <1>2, <1>3, <1>13
  <2>2. q + Len(s) <= Len(d) \/ Len(b) = 0
    BY <1>4
  <2>3. /\ (Len(a) + q) + Len(s) <= Len(a) + Len(e)
        /\ (Len(a) + q) + Len(s) <= Len(a) + Len(d) + Len(b) => Len(a) + Len(e) + Len(b) = Len(a) + Len(d) + Len(b)
        /\ (Len(a) + q) + Len(s) > Len(a) + Len(d) + Len(b) => Len(a) + Len(e) + Len(b) = (Len(a) + q) + Len(s)
    <3>1. Lengths(Len(a), Len(d), Len(b), Len(e), q, Len(s))
      BY <1>1, <1>2, <1>4, <1>6, <1>11, <2>1, <2>2 DEF Lengths
    <3>. QED
      BY <3>1, StoredLengths
  <2>. QED
    BY <1>4, <1>13, <2>1, <2>3
<1>15. Flat(w) = Over(f, p, s)
  BY <1>4, <1>6, <1>8
<1>16. IsStored(ch, c, p0, p, s, w)
  BY <1>9, <1>10, <1>11, <1>12, <1>14, <1>15 DEF IsStored, f, d
<1>17. Stored(ch, c, p - p0, s) = w
  BY DEF Stored, w, Put, e, Over, UpTo, From, d, q
<1>. QED
  BY <1>16, <1>17

(* A ring of one chunk.                                                    *)
IsOne(d, w) == Packed(w) /\ Len(w) = 1 /\ Flat(w) = d /\ StartOf(w, 1) = 0

(* A ring of one chunk within its capacity is packed.                      *)
LEMMA OneChunk ==
  ASSUME NEW cap \in 1 .. MaxSize + ChunkSize, NEW d \in Bytes, Len(d) <= cap
  PROVE  IsOne(d, <<[cap |-> cap, data |-> d]>>)
<1> DEFINE c == [cap |-> cap, data |-> d]
           w == <<c>>
<1>1. c \in Chunk /\ c.data = d /\ c.cap = cap
  BY DEF Chunk, Bytes
<1> HIDE DEF c
<1>2. w \in Ring /\ Flat(w) = d
  BY <1>1, FlatOne
<1>3. Len(w) = 1 /\ w[1] = c
  OBVIOUS
<1> HIDE DEF w
<1>4. StartOf(w, 1) = 0
  BY <1>2, StartsAt
<1>5. \A i \in 1 .. Len(w) : i = 1 /\ w[i].data = d /\ w[i].cap = cap
  BY <1>1, <1>3
<1>6. \A i \in 1 .. Len(w) - 1 : FALSE
  BY <1>3
<1>7. Packed(w)
  BY <1>2, <1>5, <1>6 DEF Packed
<1>8. IsOne(d, w)
  BY <1>2, <1>3, <1>4, <1>7 DEF IsOne
<1>. QED
  BY <1>8 DEF w, c

(* The chunk that create_head_chunk makes.                                 *)
LEMMA NewChunkIs ==
  ASSUME ByteSeqAssumption, NEW cap \in 1 .. MaxSize + ChunkSize
  PROVE  /\ NewChunk(cap) \in Chunk /\ NewChunk(cap).data = <<>> /\ NewChunk(cap).cap = cap
         /\ IsOne(<<>>, <<NewChunk(cap)>>)
         /\ ChunkSize \in 1 .. MaxSize + ChunkSize
<1>1. <<>> \in Bytes /\ Len(<<>>) = 0
  BY DEF Bytes
<1>2. IsOne(<<>>, <<[cap |-> cap, data |-> <<>>]>>)
  BY <1>1, OneChunk
<1>3. NewChunk(cap) = [cap |-> cap, data |-> <<>>]
  BY DEF NewChunk
<1>4. NewChunk(cap) \in Chunk
  BY <1>1, <1>3 DEF Chunk, Bytes
<1>. QED
  BY <1>2, <1>3, <1>4 DEF ByteSeqAssumption

(* A further chunk after the last, which is full.                          *)
Full(ch) == Packed(ch) /\ Len(ch) # 0 /\ Len(ch[Len(ch)].data) = ch[Len(ch)].cap

IsLonger(ch, w) ==
  /\ Packed(w) /\ Len(w) = Len(ch) + 1 /\ Flat(w) = Flat(ch)
  /\ StartOf(w, Len(w)) = Len(Flat(ch))
  /\ w[Len(w)] = NewChunk(ChunkSize)

(* An empty chunk after a full one: the ring stays packed and the bytes    *)
(* the same.                                                               *)
LEMMA FurtherChunk ==
  ASSUME ByteSeqAssumption, NEW ch, Full(ch)
  PROVE  IsLonger(ch, Append(ch, NewChunk(ChunkSize)))
<1> DEFINE c == NewChunk(ChunkSize)
           w == Append(ch, c)
           n == Len(ch)
<1>1. ch \in Ring /\ n \in Nat /\ n # 0
  BY DEF Full, Packed, Ring
<1>2. c \in Chunk /\ c.data = <<>> /\ c.cap = ChunkSize /\ ChunkSize \in Nat
  <2>1. ChunkSize \in 1 .. MaxSize + ChunkSize
    BY DEF ByteSeqAssumption
  <2>. QED
    BY <2>1, NewChunkIs
<1> HIDE DEF c
<1>3. w \in Ring /\ Flat(w) = Flat(ch) \o c.data /\ Flat(ch) \in Bytes
  BY <1>1, <1>2, FlatAppend, FlatType
<1>4. Flat(w) = Flat(ch)
  BY <1>2, <1>3, BytesEmpty
<1>5. Len(w) = n + 1 /\ w[n + 1] = c /\ \A i \in 1 .. n : w[i] = ch[i]
  BY <1>1 DEF Ring
<1> HIDE DEF w
<1>6. Len(c.data) = 0 /\ 0 <= c.cap
  BY <1>2
<1>7. \A i \in 1 .. n : Len(ch[i].data) = ch[i].cap
  BY <1>1 DEF Full, Packed
<1>8. Packed(w)
  <2>1. ASSUME NEW i \in 1 .. Len(w) - 1 PROVE Len(w[i].data) = w[i].cap
    <3>1. i \in 1 .. n
      BY <1>1, <1>5
    <3>. QED
      BY <1>5, <1>7, <3>1
  <2>2. ASSUME NEW i \in 1 .. Len(w) PROVE Len(w[i].data) <= w[i].cap
    <3>1. CASE i = n + 1
      BY <1>5, <1>6, <3>1
    <3>2. CASE i # n + 1
      <4>1. i \in 1 .. n
        BY <1>1, <1>5, <3>2
      <4>2. Len(ch[i].data) <= ch[i].cap
        BY <4>1 DEF Full, Packed
      <4>. QED
        BY <1>5, <4>1, <4>2
    <3>. QED
      BY <3>1, <3>2
  <2>. QED
    BY <1>3, <2>1, <2>2 DEF Packed
<1>9. StartOf(w, n + 1) = Len(Flat(w))
  <2>1. n + 1 \in 1 .. Len(w) /\ n + 1 \in 1 .. Len(w) + 1
    BY <1>1, <1>5
  <2>2. /\ StartOf(w, n + 1) \in Nat
        /\ n + 1 = Len(w) => StartOf(w, n + 1) + Len(w[n + 1].data) = Len(Flat(w))
    BY <1>3, <2>1, Starts
  <2>3. StartOf(w, n + 1) + 0 = Len(Flat(w))
    BY <1>5, <1>6, <2>2
  <2> DEFINE b == StartOf(w, n + 1)
  <2> HIDE DEF b
  <2>4. b + 0 = b
    BY <2>2 DEF b
  <2>. QED
    BY <2>3, <2>4 DEF b
<1>10. IsLonger(ch, w)
  BY <1>4, <1>5, <1>8, <1>9 DEF IsLonger, c
<1>. QED
  BY <1>10 DEF w, c

(* Zeros put at the end of the last chunk.                                 *)
Room(ch) == ch[Len(ch)].cap - Len(ch[Len(ch)].data)

IsFilled(ch, z, w) ==
  /\ Packed(w) /\ Len(w) = Len(ch)
  /\ Flat(w) = Flat(ch) \o Zeros(z)
  /\ Room(w) = Room(ch) - z

(* Filling up the head with zeros appends zeros.                           *)
LEMMA FilledIs ==
  ASSUME ByteSeqAssumption, NEW ch, Packed(ch), Len(ch) # 0, NEW z \in Nat, z <= Room(ch)
  PROVE  IsFilled(ch, z, Put(ch, Len(ch), ch[Len(ch)].data \o Zeros(z)))
<1> DEFINE n == Len(ch)
           d == ch[n].data
           a == Ahead(ch, n)
           b == Behind(ch, n)
           e == d \o Zeros(z)
           w == Put(ch, n, e)
<1>1. ch \in Ring /\ n \in Nat /\ n \in 1 .. n
  BY DEF Packed, Ring
<1>2. d \in Bytes /\ Len(d) \in Nat /\ ch[n].cap \in Nat
  <2>1. ch[n] \in Chunk
    BY <1>1 DEF Ring
  <2>. QED
    BY <2>1 DEF Chunk, Bytes
<1>3. Zeros(z) \in Bytes /\ Len(Zeros(z)) = z
  BY ZerosType
<1>4. a \in Bytes /\ b = <<>> /\ Flat(ch) = (a \o d) \o b
  BY <1>1, FlatAround
<1>5. Len(d) + z <= ch[n].cap
  BY <1>2 DEF Room
<1> HIDE DEF a, b, d
<1>6. e \in Bytes /\ Len(e) = Len(d) + z
  BY <1>2, <1>3, BytesConcat
<1>7. a \o e = (a \o d) \o Zeros(z) /\ a \o d \in Bytes /\ a \o e \in Bytes
  <2>1. a \in Bytes /\ d \in Bytes /\ Zeros(z) \in Bytes
    BY <1>2, <1>3, <1>4
  <2> DEFINE y == Zeros(z)
  <2> HIDE DEF y
  <2>2. (a \o d) \o y = a \o (d \o y)
    BY <2>1 DEF Bytes, y
  <2>3. a \o d \in Bytes
    BY <2>1, BytesConcat
  <2>4. a \o e \in Bytes
    <3> HIDE DEF e
    <3>. QED
      BY <1>6, <2>1, BytesConcat
  <2>. QED
    BY <2>2, <2>3, <2>4 DEF y
<1>8. Flat(ch) = a \o d
  BY <1>4, <1>7, BytesEmpty
<1> HIDE DEF e
<1>9. IsPut(ch, n, e, w)
  BY <1>1, <1>6, RingPut
<1> HIDE DEF w
<1>10. Flat(w) = (a \o e) \o b
  <2>1. Flat(w) = (Ahead(ch, n) \o e) \o Behind(ch, n)
    <3>1. ch \in Ring /\ n \in 1 .. Len(ch) /\ e \in Bytes /\ IsPut(ch, n, e, w)
      BY <1>1, <1>6, <1>9
    <3> HIDE DEF n
    <3>. QED
      BY <3>1, FlatPut
  <2>. QED
    BY <2>1 DEF a, b
<1>11. Flat(w) = Flat(ch) \o Zeros(z)
  BY <1>4, <1>7, <1>8, <1>10, BytesEmpty
<1>12. /\ w \in Ring /\ Len(w) = n /\ w[n].cap = ch[n].cap /\ w[n].data = e
       /\ \A j \in 1 .. n : j # n => w[j] = ch[j]
  BY <1>9 DEF IsPut
<1>13. Packed(w)
  <2>1. ASSUME NEW i \in 1 .. n - 1 PROVE Len(w[i].data) = w[i].cap
    <3>1. i \in 1 .. n /\ i # n /\ Len(ch[i].data) = ch[i].cap
      BY <1>1 DEF Packed
    <3>. QED
      BY <1>12, <3>1
  <2>2. ASSUME NEW i \in 1 .. n PROVE Len(w[i].data) <= w[i].cap
    <3>1. Len(ch[i].data) <= ch[i].cap
      BY DEF Packed
    <3>2. CASE i = n
      BY <1>5, <1>6, <1>12, <3>2
    <3>3. CASE i # n
      BY <1>12, <3>1, <3>3
    <3>. QED
      BY <3>2, <3>3
  <2>. QED
    BY <1>12, <2>1, <2>2 DEF Packed
<1>14. Room(w) = Room(ch) - z
  <2>1. Room(w) = ch[n].cap - Len(e) /\ Room(ch) = ch[n].cap - Len(d)
    BY <1>12 DEF Room, d
  <2>. QED
    BY <1>2, <1>6, <2>1
<1>15. IsFilled(ch, z, w)
  BY <1>11, <1>12, <1>13, <1>14 DEF IsFilled
<1>. QED
  BY <1>15 DEF w, e, d

(* The next chunk of a ring that grows.                                    *)
Rings == {w \in Ring : Packed(w) /\ Len(w) # 0}
Filler == Zeros(MaxSize + ChunkSize)

IsNext(ch, w) ==
  /\ w \in Rings
  /\ Flat(w) = Flat(ch) \o Zeros(Room(ch))
  /\ Room(w) = ChunkSize

(* The room left in the head.                                              *)
LEMMA RoomIs ==
  ASSUME NEW ch \in Rings
  PROVE  /\ Room(ch) \in Nat /\ Room(ch) <= MaxSize + ChunkSize
         /\ Len(ch) \in Nat /\ Len(ch) \in 1 .. Len(ch) /\ Packed(ch)
         /\ Flat(ch) \in Bytes /\ Len(Flat(ch)) \in Nat
<1> DEFINE n == Len(ch)
<1>1. ch \in Ring /\ n \in Nat /\ n \in 1 .. n
  BY DEF Rings, Ring
<1>2. Packed(ch)
  BY DEF Rings
<1>3. ch[n].cap \in 1 .. MaxSize + ChunkSize /\ Len(ch[n].data) \in Nat
  <2>1. n \in 1 .. Len(ch) + 1
    BY <1>1
  <2>. QED
    BY <1>1, <2>1, Starts
<1>4. Len(ch[n].data) <= ch[n].cap
  BY <1>1, <1>2 DEF Packed
<1>5. Room(ch) = ch[n].cap - Len(ch[n].data)
  BY DEF Room
<1>6. MaxSize + ChunkSize \in Nat
  BY ByteSeqAssumption DEF ByteSeqAssumption
<1>7. Room(ch) \in Nat /\ Room(ch) <= MaxSize + ChunkSize
  BY <1>3, <1>4, <1>5, <1>6
<1>8. Flat(ch) \in Bytes /\ Len(Flat(ch)) \in Nat
  BY <1>1, FlatType
<1>. QED
  BY <1>1, <1>2, <1>7, <1>8

(* create_next_chunk, called after the memset: the room left becomes       *)
(* zeros, and an empty chunk follows.                                      *)
LEMMA NextChunk ==
  ASSUME NEW ch \in Rings
  PROVE  IsNext(ch, WithNextChunk(ch, Filler))
<1> DEFINE n == Len(ch)
           z == Room(ch)
           w0 == Put(ch, n, ch[n].data \o Zeros(z))
           w == Append(w0, NewChunk(ChunkSize))
<1>1. /\ z \in Nat /\ z <= MaxSize + ChunkSize /\ n \in Nat /\ n \in 1 .. n /\ Packed(ch)
      /\ MaxSize + ChunkSize \in Nat /\ Flat(ch) \in Bytes
  BY RoomIs, ByteSeqAssumption DEF ByteSeqAssumption
<1>2. SubSeq(Filler, 1, z) = Zeros(z)
  BY <1>1, ZerosPart DEF Filler
<1>3. WithNextChunk(ch, Filler) = w
  BY <1>2 DEF WithNextChunk, Put, Room
<1> HIDE DEF z
<1>4. IsFilled(ch, z, w0)
  <2>1. n # 0 /\ z <= Room(ch)
    BY <1>1 DEF z
  <2>. QED
    BY <1>1, <2>1, FilledIs, ByteSeqAssumption
<1> HIDE DEF w0
<1>5. Packed(w0) /\ Len(w0) = n /\ Flat(w0) = Flat(ch) \o Zeros(z) /\ Room(w0) = Room(ch) - z
  BY <1>4 DEF IsFilled
<1>6. w0 \in Rings
  BY <1>1, <1>5 DEF Rings, Packed
<1>7. Full(w0)
  <2>1. Room(w0) = 0
    BY <1>1, <1>5 DEF z
  <2>2. n \in 1 .. Len(w0) /\ n \in 1 .. Len(w0) + 1 /\ w0 \in Ring
    BY <1>1, <1>5, <1>6 DEF Rings
  <2>3. w0[n].cap \in 1 .. MaxSize + ChunkSize /\ Len(w0[n].data) \in Nat
    BY <2>2, Starts
  <2>4. w0[n].cap - Len(w0[n].data) = 0
    BY <1>5, <2>1 DEF Room
  <2>5. Len(w0[n].data) = w0[n].cap
    BY <2>3, <2>4
  <2>. QED
    BY <1>1, <1>5, <2>5 DEF Full
<1>8. IsLonger(w0, w)
  BY <1>7, FurtherChunk, ByteSeqAssumption
<1> HIDE DEF w
<1>9. /\ Packed(w) /\ Len(w) = n + 1 /\ Flat(w) = Flat(ch) \o Zeros(z) /\ w[n + 1] = NewChunk(ChunkSize)
  BY <1>5, <1>8 DEF IsLonger
<1>10. Room(w) = ChunkSize
  <2>1. NewChunk(ChunkSize).data = <<>> /\ NewChunk(ChunkSize).cap = ChunkSize
    BY DEF NewChunk
  <2>2. Room(w) = ChunkSize - Len(<<>>)
    BY <1>9, <2>1 DEF Room
  <2>3. Len(<<>>) = 0 /\ ChunkSize \in Nat
    BY ByteSeqAssumption DEF ByteSeqAssumption
  <2>. QED
    BY <2>2, <2>3
<1>11. w \in Rings
  BY <1>1, <1>9 DEF Rings, Packed
<1>12. IsNext(ch, w)
  BY <1>9, <1>10, <1>11 DEF IsNext, z
<1>. QED
  BY <1>3, <1>12

(* What resize() adds chunk by chunk is a fold.                            *)
GrowStep == [wi \in Rings \X Nat |-> WithNextChunk(wi[1], Filler)]
Growth(first, s) == FoldLeft(LAMBDA acc, i : WithNextChunk(acc, Zeros(MaxSize + ChunkSize)), first, s)

(* The loop of resize stays within packed rings.                           *)
LEMMA GrowFoldable ==
  ASSUME NEW v \in Rings
  PROVE  Foldable(Rings, Nat, GrowStep, v)
<1>1. \A ch \in Rings : WithNextChunk(ch, Filler) \in Rings
  BY NextChunk DEF IsNext
<1>2. \A wi \in Rings \X Nat : WithNextChunk(wi[1], Filler) \in Rings
  BY <1>1
<1> HIDE DEF Filler
<1>. QED
  BY <1>2 DEF Foldable, GrowStep

(* The loop of resize is a fold, one create_next_chunk each.               *)
LEMMA GrowIsFold ==
  ASSUME NEW v \in Rings, NEW s \in Seq(Nat)
  PROVE  Growth(v, s) = Fold(GrowStep, v, s)
<1> DEFINE D == SUBSET (DOMAIN s)
           Solves(g) == g = [S \in D |-> IF S = {} THEN v ELSE WithNextChunk(g[S \ {Max(S)}], Zeros(MaxSize + ChunkSize))]
           f == CHOOSE g : Solves(g)
<1>0. Foldable(Rings, Nat, GrowStep, v)
  BY GrowFoldable
<1>1. Growth(v, s) = f[DOMAIN s]
  BY DEF Growth, FoldLeft, MapThenFoldSet
<1>2. Len(s) \in Nat /\ DOMAIN s = 1 .. Len(s)
  OBVIOUS
<1>3. \A ch \in Rings, i \in Nat : GrowStep[<<ch, i>>] = WithNextChunk(ch, Zeros(MaxSize + ChunkSize))
  BY DEF GrowStep, Filler
<1>4. Solves(f)
  <2>1. PICK g : IsFoldIter(g, Rings, GrowStep, v, s)
    BY <1>0, FoldIter
  <2>2. ASSUME NEW S \in D, S # {} PROVE g[S] = WithNextChunk(g[S \ {Max(S)}], Zeros(MaxSize + ChunkSize))
    <3>1. Max(S) \in 1 .. Len(s)
      <4>1. S \subseteq 0 .. Len(s)
        BY <1>2
      <4>. QED
        BY <1>2, <2>2, <4>1, MaxOf
    <3>2. g[S \ {Max(S)}] \in Rings /\ s[Max(S)] \in Nat
      BY <2>1, <3>1 DEF IsFoldIter
    <3>. QED
      BY <1>3, <2>1, <2>2, <3>2 DEF IsFoldIter
  <2>3. Solves(g)
    BY <2>1, <2>2 DEF IsFoldIter
  <2>4. \E g1 : Solves(g1)
    <3> HIDE DEF Solves
    <3>. QED
      BY <2>3
  <2>. QED
    <3> HIDE DEF Solves
    <3>. QED
      BY <2>4
<1> HIDE DEF f
<1>5. Follows(f, Rings, GrowStep, v, s)
  <2>1. f[{}] = v
    BY <1>4
  <2>2. ASSUME NEW k \in 1 .. Len(s), f[1 .. (k - 1)] \in Rings
        PROVE  f[1 .. k] = GrowStep[<<f[1 .. (k - 1)], s[k]>>]
    <3>1. 1 .. k \in D /\ 1 \in 1 .. k /\ s[k] \in Nat /\ k \in Nat /\ k # 0
      BY <1>2
    <3>2. Max(1 .. k) = k /\ (1 .. k) \ {Max(1 .. k)} = 1 .. (k - 1)
      BY <3>1, MaxOfInterval
    <3>3. f[1 .. k] = WithNextChunk(f[1 .. (k - 1)], Zeros(MaxSize + ChunkSize))
      BY <1>4, <3>1, <3>2
    <3>. QED
      BY <1>3, <2>2, <3>1, <3>3
  <2>. QED
    BY <2>1, <2>2 DEF Follows
<1>. QED
  BY <1>0, <1>1, <1>5, FoldOfIter

(* After k chunks.                                                         *)
IsGrown(v, k, w) ==
  /\ w \in Rings
  /\ \E z \in Nat : /\ Flat(w) = Flat(v) \o Zeros(z)
                    /\ z + Room(w) = Room(v) + k * ChunkSize
                    /\ k = 0 => z = 0
                    /\ k # 0 => Room(w) = ChunkSize

(* What the loop has done after any number of turns.                       *)
LEMMA GrownBy ==
  ASSUME NEW v \in Rings, NEW s \in Seq(Nat)
  PROVE  IsGrown(v, Len(s), Growth(v, s))
<1> DEFINE A == {t \in Seq(Nat) : IsGrown(v, Len(t), Fold(GrowStep, v, t))}
<1>0. Foldable(Rings, Nat, GrowStep, v)
  BY GrowFoldable
<1>c. ChunkSize \in Nat
  BY ByteSeqAssumption DEF ByteSeqAssumption
<1>1. <<>> \in A
  <2>1. Fold(GrowStep, v, <<>>) = v
    BY <1>0, FoldEmpty
  <2>2. Flat(v) \in Bytes /\ Room(v) \in Nat
    BY RoomIs
  <2>3. Zeros(0) = <<>>
    BY DEF Zeros
  <2>4. Flat(v) \o Zeros(0) = Flat(v)
    BY <2>2, <2>3, BytesEmpty
  <2>5. 0 + Room(v) = Room(v) + 0 * ChunkSize
    BY <1>c, <2>2
  <2>6. IsGrown(v, 0, v)
    BY <2>4, <2>5 DEF IsGrown
  <2>7. <<>> \in Seq(Nat) /\ Len(<<>>) = 0
    OBVIOUS
  <2>. QED
    BY <2>1, <2>6, <2>7
<1>2. ASSUME NEW t \in Seq(Nat), NEW i \in Nat, t \in A PROVE Append(t, i) \in A
  <2> DEFINE a == Fold(GrowStep, v, t)
             b == WithNextChunk(a, Filler)
             k == Len(t)
  <2>1. IsGrown(v, k, a) /\ k \in Nat
    BY <1>2
  <2>2. Append(t, i) \in Seq(Nat) /\ Len(Append(t, i)) = k + 1
    OBVIOUS
  <2>3. Fold(GrowStep, v, Append(t, i)) = GrowStep[<<a, i>>]
    BY <1>0, FoldAppend
  <2> HIDE DEF a
  <2>4. PICK z \in Nat : /\ a \in Rings
                         /\ Flat(a) = Flat(v) \o Zeros(z)
                         /\ z + Room(a) = Room(v) + k * ChunkSize
    BY <2>1 DEF IsGrown
  <2>5. Fold(GrowStep, v, Append(t, i)) = b
    BY <2>3, <2>4 DEF GrowStep
  <2>6. IsNext(a, b)
    BY <2>4, NextChunk
  <2> HIDE DEF b, k
  <2>7. b \in Rings /\ Flat(b) = Flat(a) \o Zeros(Room(a)) /\ Room(b) = ChunkSize
    BY <2>6 DEF IsNext
  <2>8. Room(a) \in Nat /\ Room(v) \in Nat /\ Flat(v) \in Bytes
    BY <2>4, RoomIs
  <2> DEFINE y == z + Room(a)
  <2>9. Flat(b) = Flat(v) \o Zeros(y)
    <3>1. Zeros(z) \in Bytes /\ Zeros(Room(a)) \in Bytes
      BY <2>8, ZerosType
    <3>2. (Flat(v) \o Zeros(z)) \o Zeros(Room(a)) = Flat(v) \o (Zeros(z) \o Zeros(Room(a)))
      BY <2>8, <3>1, BytesAssoc
    <3>3. Zeros(z) \o Zeros(Room(a)) = Zeros(y)
      BY <2>8, ZerosConcat
    <3>. QED
      BY <2>4, <2>7, <3>2, <3>3
  <2>10. y \in Nat /\ y + Room(b) = Room(v) + (k + 1) * ChunkSize
    <3> DEFINE m == k * ChunkSize
    <3>1. m \in Nat /\ (k + 1) * ChunkSize = m + ChunkSize
      BY <1>c, <2>1
    <3>2. /\ Room(a) \in Nat /\ Room(v) \in Nat /\ Room(b) = ChunkSize
          /\ y = z + Room(a) /\ z + Room(a) = Room(v) + m
      BY <2>4, <2>7, <2>8
    <3> HIDE DEF m, y
    <3>. QED
      BY <1>c, <3>1, <3>2
  <2>11. k + 1 # 0
    BY <2>1
  <2> HIDE DEF y
  <2>12. IsGrown(v, k + 1, b)
    BY <2>7, <2>9, <2>10, <2>11 DEF IsGrown
  <2>. QED
    BY <2>2, <2>5, <2>12 DEF k
<1> HIDE DEF A
<1>3. Seq(Nat) \subseteq A
  BY <1>1, <1>2, SeqInduct
<1>4. s \in A
  BY <1>3
<1>5. Growth(v, s) = Fold(GrowStep, v, s)
  BY GrowIsFold
<1>. QED
  BY <1>4, <1>5 DEF A

(* resize() to a larger size: the bytes are there, and zeros follow.       *)
IsEnlarged(ch, sz, w) == w \in Rings /\ Flat(w) = Flat(ch) \o Zeros(sz - Len(Flat(ch)))

(* A product is no less than its factor.                                   *)
LEMMA AtLeast ==
  ASSUME NEW e \in Nat, NEW c \in Nat, c # 0
  PROVE  e <= e * c
<1>1. PICK d \in Nat : c = d + 1
  <2>1. c - 1 \in Nat /\ c = (c - 1) + 1
    OBVIOUS
  <2>. QED
    BY <2>1
<1>2. e * c = e * d + e /\ e * d \in Nat
  BY <1>1
<1>. QED
  BY <1>2

(* One chunk less.                                                         *)
LEMMA OneLess ==
  ASSUME NEW k \in Nat, NEW c \in Nat
  PROVE  (k - 1) * c = k * c - c
OBVIOUS

(* resize to more bytes: the old bytes, then zeros, in a packed ring.      *)
LEMMA GrownIs ==
  ASSUME NEW ch, Packed(ch), NEW sz \in Nat, sz > Len(Flat(ch))
  PROVE  IsEnlarged(ch, sz, Grown(ch, sz))
<1> DEFINE first == IF ch = <<>> THEN <<NewChunk(ChunkSize)>> ELSE ch
           free == Room(first)
           extra == sz - Len(Flat(ch))
           K == {k \in 0 .. extra : extra <= free + k * ChunkSize}
           more == Min(K)
           full == [i \in 1 .. more |-> i]
           grown == Growth(first, full)
           last == Len(grown)
           rest == sz - Len(Flat(grown))
           w == Put(grown, last, grown[last].data \o Zeros(rest))
<1>0. Grown(ch, sz) = w
  BY DEF Grown, Growth, Put, Room
<1>c. ChunkSize \in Nat /\ ChunkSize # 0 /\ ChunkSize \in 1 .. MaxSize + ChunkSize
  BY ByteSeqAssumption DEF ByteSeqAssumption
<1>1. first \in Rings /\ Flat(first) = Flat(ch)
  <2>1. CASE ch = <<>>
    <3>1. IsOne(<<>>, first)
      BY <1>c, <2>1, NewChunkIs, ByteSeqAssumption
    <3> HIDE DEF first
    <3>2. Packed(first) /\ Len(first) = 1 /\ Flat(first) = <<>>
      BY <3>1 DEF IsOne
    <3>3. first \in Ring /\ Len(first) # 0
      BY <3>2 DEF Packed
    <3>4. first \in Rings
      BY <3>2, <3>3 DEF Rings
    <3>. QED
      BY <2>1, <3>2, <3>4, FlatEmpty
  <2>2. CASE ch # <<>>
    <3>1. ch \in Ring /\ Len(ch) # 0
      BY <2>2 DEF Packed, Ring
    <3>. QED
      BY <2>2, <3>1 DEF Rings
  <2>. QED
    BY <2>1, <2>2
<1> HIDE DEF first
<1>2. free \in Nat /\ extra \in Nat /\ extra # 0 /\ Flat(ch) \in Bytes /\ Len(Flat(ch)) \in Nat
  <2>1. free \in Nat /\ Flat(ch) \in Bytes /\ Len(Flat(ch)) \in Nat
    BY <1>1, RoomIs
  <2>. QED
    BY <2>1
<1> HIDE DEF free, extra
<1>3. /\ more \in Nat /\ extra <= free + more * ChunkSize
      /\ more # 0 => extra > free + (more - 1) * ChunkSize
  <2>1. extra \in K
    BY <1>c, <1>2, AtLeast
  <2>2. K \subseteq Nat /\ K # {}
    BY <2>1
  <2>3. more \in K /\ \A y \in K : more <= y
    <3> HIDE DEF K
    <3>. QED
      BY <2>2, MinOf
  <2> HIDE DEF more
  <2>4. more \in Nat /\ more <= extra /\ extra <= free + more * ChunkSize
    BY <1>2, <2>3
  <2>5. ASSUME more # 0 PROVE extra > free + (more - 1) * ChunkSize
    <3> DEFINE m == more - 1
    <3>1. m \in 0 .. extra /\ m < more /\ m \in Nat
      BY <1>2, <2>4, <2>5
    <3> HIDE DEF m
    <3>2. m \notin K
      BY <2>3, <2>4, <3>1
    <3>3. ~ (extra <= free + m * ChunkSize)
      BY <3>1, <3>2
    <3>4. free + m * ChunkSize \in Nat
      BY <1>c, <1>2, <3>1
    <3>5. extra > free + m * ChunkSize
      BY <1>2, <3>3, <3>4
    <3>. QED
      BY <3>5 DEF m
  <2>. QED
    BY <2>4, <2>5
<1> HIDE DEF more
<1>4. IsGrown(first, more, grown)
  <2>1. full \in Seq(Nat) /\ Len(full) = more
    BY <1>3
  <2> HIDE DEF full
  <2>. QED
    BY <1>1, <2>1, GrownBy
<1> HIDE DEF grown
<1>5. PICK z \in Nat : /\ grown \in Rings
                       /\ Flat(grown) = Flat(ch) \o Zeros(z)
                       /\ z + Room(grown) = free + more * ChunkSize
                       /\ more = 0 => z = 0
                       /\ more # 0 => Room(grown) = ChunkSize
  BY <1>1, <1>4 DEF IsGrown, free
<1>6. z <= extra
  <2>1. CASE more = 0
    BY <1>2, <1>5, <2>1
  <2>2. CASE more # 0
    <3>1. (more - 1) * ChunkSize = more * ChunkSize - ChunkSize
      BY <1>c, <1>3, OneLess
    <3> DEFINE x == more * ChunkSize
    <3>2. x \in Nat
      BY <1>c, <1>3
    <3>3. extra > free + (x - ChunkSize) /\ z + ChunkSize = free + x
      BY <1>3, <1>5, <2>2, <3>1
    <3> HIDE DEF x
    <3>. QED
      BY <1>c, <1>2, <3>2, <3>3
  <2>. QED
    BY <2>1, <2>2
<1>7. Room(grown) \in Nat /\ Len(grown) # 0 /\ Packed(grown)
  BY <1>5, RoomIs DEF Rings
<1>8. /\ Zeros(z) \in Bytes /\ Len(Flat(grown)) = Len(Flat(ch)) + z
  <2>1. Zeros(z) \in Bytes /\ Len(Zeros(z)) = z
    BY ZerosType
  <2>2. Len(Flat(ch) \o Zeros(z)) = Len(Flat(ch)) + Len(Zeros(z))
    BY <1>2, <2>1, BytesConcat
  <2>. QED
    BY <1>5, <2>1, <2>2
<1>9. rest \in Nat /\ rest <= Room(grown) /\ z + rest = extra
  <2>1. rest = extra - z
    <3> DEFINE l == Len(Flat(ch))
               g == Len(Flat(grown))
    <3>1. l \in Nat /\ extra = sz - l /\ g = l + z /\ rest = sz - g
      BY <1>2, <1>8 DEF extra
    <3> HIDE DEF l, g, rest
    <3>. QED
      BY <3>1
  <2>2. more * ChunkSize \in Nat
    BY <1>c, <1>3
  <2> HIDE DEF rest
  <2> DEFINE x == more * ChunkSize
             o == Room(grown)
  <2>3. extra <= free + x /\ z + o = free + x /\ x \in Nat /\ o \in Nat
    BY <1>3, <1>5, <1>7, <2>2
  <2> HIDE DEF x, o
  <2>4. rest \in Nat /\ rest <= o /\ z + rest = extra
    BY <1>2, <1>6, <2>1, <2>3
  <2>. QED
    BY <2>4 DEF o
<1> HIDE DEF rest
<1>10. IsFilled(grown, rest, w)
  BY <1>7, <1>9, FilledIs, ByteSeqAssumption
<1> HIDE DEF w
<1>11. Packed(w) /\ Len(w) = Len(grown) /\ Flat(w) = Flat(grown) \o Zeros(rest)
  BY <1>10 DEF IsFilled
<1>12. w \in Rings
  BY <1>7, <1>11 DEF Rings, Packed
<1>13. Flat(w) = Flat(ch) \o Zeros(extra)
  <2>1. Zeros(rest) \in Bytes
    BY <1>9, ZerosType
  <2>2. (Flat(ch) \o Zeros(z)) \o Zeros(rest) = Flat(ch) \o (Zeros(z) \o Zeros(rest))
    BY <1>2, <1>8, <2>1, BytesAssoc
  <2>3. Zeros(z) \o Zeros(rest) = Zeros(extra)
    BY <1>9, ZerosConcat
  <2>. QED
    BY <1>5, <1>11, <2>2, <2>3
<1>14. IsEnlarged(ch, sz, w)
  BY <1>12, <1>13 DEF IsEnlarged, extra
<1>. QED
  BY <1>0, <1>14

(* The last chunk that does not start behind a position.                   *)
Holds(ch, sz, m) ==
  /\ m \in 1 .. Len(ch)
  /\ StartOf(ch, m) <= sz
  /\ \A j \in m + 1 .. Len(ch) : sz < StartOf(ch, j)

IsHeld(ch, sz, m) ==
  /\ Holds(ch, sz, m)
  /\ sz - StartOf(ch, m) \in Nat
  /\ sz - StartOf(ch, m) <= Len(ch[m].data)
  /\ \A c, p0 : At(ch, c, p0, sz) => c = m

(* Some chunk is the last that starts at or before a size.                 *)
LEMMA HolderExists ==
  ASSUME NEW ch \in Rings, NEW sz \in Nat
  PROVE  \E m \in 1 .. Len(ch) : Holds(ch, sz, m)
<1> DEFINE n == Len(ch)
           S == {i \in 1 .. n : StartOf(ch, i) <= sz}
<1>1. ch \in Ring /\ n \in Nat /\ 1 \in 1 .. n
  BY RoomIs DEF Rings
<1>2. StartOf(ch, 1) = 0
  BY <1>1, StartsAt
<1>3. 1 \in S /\ S \subseteq 0 .. n
  BY <1>1, <1>2
<1> DEFINE m == Max(S)
<1>4. m \in S /\ \A y \in S : m >= y
  <2> HIDE DEF S
  <2>1. S # {}
    BY <1>3
  <2>. QED
    BY <1>1, <1>3, <2>1, MaxOf
<1> HIDE DEF m
<1>5. ASSUME NEW j \in m + 1 .. n PROVE sz < StartOf(ch, j)
  <2>1. j \in 1 .. n /\ j > m /\ j \in 1 .. Len(ch) + 1
    BY <1>1, <1>4
  <2>2. StartOf(ch, j) \in Nat
    BY <1>1, <2>1, Starts
  <2>3. ~ (StartOf(ch, j) <= sz)
    <3>1. SUFFICES ASSUME StartOf(ch, j) <= sz PROVE FALSE
      OBVIOUS
    <3>2. j \in S
      BY <2>1, <3>1
    <3>3. m >= j
      BY <1>4, <3>2
    <3>4. m \in Nat
      BY <1>4
    <3>. QED
      BY <2>1, <3>3, <3>4
  <2>. QED
    BY <2>2, <2>3
<1>6. Holds(ch, sz, m)
  BY <1>4, <1>5 DEF Holds
<1>. QED
  BY <1>4, <1>6

(* That size lies in it or at its end.                                     *)
LEMMA HeldIs ==
  ASSUME NEW ch \in Rings, NEW sz \in Nat, sz <= Len(Flat(ch)), NEW m, Holds(ch, sz, m)
  PROVE  IsHeld(ch, sz, m)
<1> DEFINE n == Len(ch)
           l == Len(ch[m].data)
           b == StartOf(ch, m)
           f == Len(Flat(ch))
<1>1. /\ ch \in Ring /\ m \in 1 .. n /\ b <= sz /\ n \in Nat
      /\ \A j \in m + 1 .. n : sz < StartOf(ch, j)
  BY RoomIs DEF Holds, Rings
<1>2. /\ b \in Nat /\ l \in Nat /\ f \in Nat /\ StartOf(ch, m + 1) = b + l
      /\ m = n => b + l = f
  <2>1. m \in 1 .. Len(ch) + 1
    BY <1>1
  <2>. QED
    BY <1>1, <2>1, Starts
<1>3. sz <= b + l
  <2>1. CASE m = n
    BY <1>2, <2>1
  <2>2. CASE m # n
    <3>1. m + 1 \in m + 1 .. n
      BY <1>1, <2>2
    <3>. QED
      BY <1>1, <1>2, <3>1
  <2>. QED
    BY <2>1, <2>2
<1>4. ASSUME NEW c, NEW p0, At(ch, c, p0, sz) PROVE c = m
  <2>1. /\ c \in 1 .. n /\ StartOf(ch, c) <= sz
        /\ c # n => sz < StartOf(ch, c) + Len(ch[c].data)
    BY <1>4 DEF At, Points
  <2>2. m \in 1 .. Len(ch) + 1
    BY <1>1
  <2>3. /\ StartOf(ch, c) \in Nat /\ StartOf(ch, c + 1) = StartOf(ch, c) + Len(ch[c].data)
        /\ c < m => StartOf(ch, c + 1) <= b
        /\ Len(ch[c].data) \in Nat
    BY <1>1, <2>1, <2>2, Starts
  <2>4. ~ (c > m)
    <3>1. SUFFICES ASSUME c > m PROVE FALSE
      OBVIOUS
    <3>2. c \in m + 1 .. n
      BY <1>1, <2>1, <3>1
    <3>3. sz < StartOf(ch, c)
      BY <1>1, <3>2
    <3>. QED
      BY <2>1, <2>3, <3>3
  <2>5. ~ (c < m)
    <3>1. SUFFICES ASSUME c < m PROVE FALSE
      OBVIOUS
    <3>2. c # n
      BY <1>1, <2>1, <3>1
    <3>. QED
      BY <1>1, <1>2, <2>1, <2>3, <3>1, <3>2
  <2>. QED
    BY <1>1, <2>1, <2>4, <2>5
<1>5. sz - b \in Nat /\ sz - b <= l
  BY <1>1, <1>2, <1>3
<1>. QED
  BY <1>4, <1>5 DEF IsHeld

(* resize() to a size that is not larger: the first bytes are left, and a  *)
(* cursor at the new end is still in its chunk.                            *)
IsCut(ch, sz, w) ==
  /\ w \in Rings
  /\ Flat(w) = UpTo(Flat(ch), sz)
  /\ Len(Flat(w)) = sz
  /\ \A c, p0 : At(ch, c, p0, sz) => At(w, c, p0, sz)

CutAt(ch, sz, m) == Put(Part(ch, 1, m + 1), m, UpTo(ch[m].data, sz - StartOf(ch, m)))

(* Cutting the ring there leaves the first bytes of it.                    *)
LEMMA CutAtIs ==
  ASSUME NEW ch \in Rings, NEW sz \in Nat, NEW m, IsHeld(ch, sz, m)
  PROVE  IsCut(ch, sz, CutAt(ch, sz, m))
<1> DEFINE b == StartOf(ch, m)
           q == sz - b
           d == ch[m].data
           e == UpTo(d, q)
           u == Part(ch, 1, m + 1)
           w == Put(u, m, e)
<1>1. /\ ch \in Ring /\ Packed(ch) /\ m \in 1 .. Len(ch) /\ q \in Nat /\ q <= Len(d)
      /\ Len(ch) \in Nat /\ m \in Nat
      /\ \A c, p0 : At(ch, c, p0, sz) => c = m
  BY RoomIs DEF Rings, IsHeld, Holds
<1>2. b \in Nat /\ d \in Bytes /\ Len(d) \in Nat /\ ch[m].cap \in Nat /\ Len(d) <= ch[m].cap
  <2>1. m \in 1 .. Len(ch) + 1
    BY <1>1
  <2>2. b \in Nat /\ d \in Bytes /\ Len(d) \in Nat /\ ch[m].cap \in 1 .. MaxSize + ChunkSize
    BY <1>1, <2>1, Starts
  <2>3. Len(d) <= ch[m].cap
    BY <1>1 DEF Packed
  <2>. QED
    BY <2>2, <2>3
<1>3. e \in Bytes /\ Len(e) = q
  <2>1. /\ SubSeq(d, 0 + 1, q) \in Bytes
        /\ Len(SubSeq(d, 0 + 1, q)) = IF 0 <= q THEN q - 0 ELSE 0
    <3>1. 0 \in Nat /\ q \in Nat /\ d \in Bytes /\ q <= Len(d)
      BY <1>1, <1>2
    <3> HIDE DEF q, d
    <3>. QED
      BY <3>1, BytesPart
  <2>. QED
    <3> HIDE DEF q
    <3>. QED
      BY <1>1, <2>1 DEF UpTo
<1>4. u \in Ring /\ Len(u) = m /\ \A k \in 1 .. m : u[k] = ch[k]
  <2>1. Cuts(ch, 1, m + 1)
    BY <1>1 DEF Cuts
  <2>2. IsPart(ch, 1, m + 1, u)
    BY <2>1, RingPart
  <2> HIDE DEF u
  <2>3. u \in Ring /\ Len(u) = (m + 1) - 1 /\ \A k \in 1 .. (m + 1) - 1 : u[k] = ch[1 + k - 1]
    BY <2>2 DEF IsPart
  <2>4. (m + 1) - 1 = m /\ \A k \in 1 .. m : 1 + k - 1 = k
    BY <1>1
  <2>. QED
    BY <2>3, <2>4
<1>5. Part(u, 1, m) = Part(ch, 1, m)
  <2> HIDE DEF u
  <2>1. Cuts(u, 1, m) /\ Cuts(ch, 1, m)
    BY <1>1, <1>4 DEF Cuts
  <2>2. \A k \in 1 .. m - 1 : u[k] = ch[k]
    BY <1>1, <1>4
  <2>3. Agree(u, ch, 1, m)
    BY <2>1, <2>2 DEF Agree
  <2>. QED
    BY <2>3, SamePart
<1> HIDE DEF e, u
<1>6. IsPut(u, m, e, w)
  <2>1. m \in 1 .. Len(u)
    BY <1>1, <1>4
  <2>. QED
    BY <1>3, <1>4, <2>1, RingPut
<1> HIDE DEF w
<1>7. /\ Flat(w) = (Ahead(u, m) \o e) \o Behind(u, m)
      /\ StartOf(w, m) = StartOf(u, m)
      /\ Behind(u, m) = <<>>
  <2>1. m \in 1 .. Len(u) /\ m \in 1 .. m
    BY <1>1, <1>4
  <2>2. Flat(w) = (Ahead(u, m) \o e) \o Behind(u, m) /\ \A j \in 1 .. m : StartOf(w, j) = StartOf(u, j)
    BY <1>3, <1>4, <1>6, <2>1, FlatPut
  <2>3. Behind(u, m) = <<>>
    BY <1>4, <2>1, FlatAround
  <2>. QED
    BY <2>1, <2>2, <2>3
<1>8. Ahead(u, m) = Ahead(ch, m) /\ StartOf(u, m) = b
  BY <1>5 DEF Ahead, StartOf, Part
<1>9. Flat(w) = UpTo(Flat(ch), sz)
  <2> DEFINE a == Ahead(ch, m)
             z == Behind(ch, m)
  <2>1. a \in Bytes /\ Len(a) = b /\ z \in Bytes /\ Flat(ch) = (a \o d) \o z
    BY <1>1, FlatAround
  <2> HIDE DEF a, z
  <2>2. Three(a, d, z, Flat(ch))
    BY <1>2, <2>1 DEF Three
  <2> HIDE DEF d
  <2>3. UpTo(Flat(ch), Len(a) + q) = a \o UpTo(d, q)
    <3> HIDE DEF q
    <3>. QED
      BY <1>1, <2>2, Prefix
  <2>4. Len(a) + q = sz
    BY <1>2, <2>1
  <2>5. Flat(w) = (a \o e) \o <<>>
    BY <1>7, <1>8 DEF a
  <2>6. a \o e \in Bytes
    BY <1>3, <2>1, BytesConcat
  <2>7. Flat(w) = a \o e
    BY <2>5, <2>6, BytesEmpty
  <2>. QED
    BY <2>3, <2>4, <2>7 DEF e
<1>10. /\ w \in Ring /\ Len(w) = m /\ w[m].cap = ch[m].cap /\ w[m].data = e
       /\ \A j \in 1 .. m : j # m => w[j] = ch[j]
  <2>1. /\ w \in Ring /\ Len(w) = Len(u) /\ w[m].cap = u[m].cap /\ w[m].data = e
        /\ \A j \in 1 .. Len(u) : j # m => w[j] = u[j]
    BY <1>6 DEF IsPut
  <2>2. m \in 1 .. m
    BY <1>1
  <2>. QED
    BY <1>4, <2>1, <2>2
<1>11. Packed(w)
  <2>1. ASSUME NEW i \in 1 .. m - 1 PROVE Len(w[i].data) = w[i].cap
    <3>1. i \in 1 .. m /\ i # m /\ i \in 1 .. Len(ch) - 1
      BY <1>1
    <3>2. Len(ch[i].data) = ch[i].cap
      BY <1>1, <3>1 DEF Packed
    <3>. QED
      BY <1>10, <3>1, <3>2
  <2>2. ASSUME NEW i \in 1 .. m PROVE Len(w[i].data) <= w[i].cap
    <3>1. CASE i = m
      <4>1. Len(e) <= ch[m].cap
        <5> HIDE DEF q, d
        <5>. QED
          BY <1>1, <1>2, <1>3
      <4>. QED
        BY <1>10, <3>1, <4>1
    <3>2. CASE i # m
      <4>1. i \in 1 .. Len(ch)
        BY <1>1
      <4>2. Len(ch[i].data) <= ch[i].cap
        BY <1>1, <4>1 DEF Packed
      <4>. QED
        BY <1>10, <3>2, <4>2
    <3>. QED
      BY <3>1, <3>2
  <2>. QED
    BY <1>10, <2>1, <2>2 DEF Packed
<1>12. w \in Rings
  <2>1. Len(w) # 0
    BY <1>1, <1>10
  <2>. QED
    BY <1>10, <1>11, <2>1 DEF Rings
<1>13. Len(Flat(w)) = sz
  <2>1. m \in 1 .. Len(w) /\ m \in 1 .. Len(w) + 1 /\ m = Len(w)
    BY <1>1, <1>10
  <2>2. m = Len(w) => StartOf(w, m) + Len(w[m].data) = Len(Flat(w))
    BY <1>10, <2>1, Starts
  <2>3. b + q = Len(Flat(w))
    BY <1>3, <1>7, <1>8, <1>10, <2>1, <2>2
  <2> DEFINE f == Len(Flat(w))
  <2>4. b + q = f
    BY <2>3
  <2> HIDE DEF f, b
  <2>5. f = sz
    BY <1>2, <2>4
  <2>. QED
    BY <2>5 DEF f
<1>14. ASSUME NEW c, NEW p0, At(ch, c, p0, sz) PROVE At(w, c, p0, sz)
  <2>1. c = m /\ p0 = b
    <3>1. c = m
      BY <1>1, <1>14
    <3>. QED
      BY <1>14, <3>1 DEF At, Points
  <2>2. Len(w[m].data) = q
    BY <1>3, <1>10
  <2>3. p0 <= sz /\ sz <= p0 + q
    <3> HIDE DEF b
    <3>. QED
      BY <1>1, <1>2, <2>1
  <2>4. c \in 1 .. Len(w) /\ c = Len(w) /\ p0 = StartOf(w, c)
    BY <1>1, <1>7, <1>8, <1>10, <2>1
  <2>5. Points(w, c, p0, sz)
    <3>1. sz <= p0 + Len(w[c].data)
      BY <2>1, <2>2, <2>3
    <3> HIDE DEF q
    <3>. QED
      BY <2>3, <2>4, <3>1 DEF Points
  <2>. QED
    BY <2>4, <2>5 DEF At
<1>15. IsCut(ch, sz, w)
  BY <1>9, <1>12, <1>13, <1>14 DEF IsCut
<1>16. CutAt(ch, sz, m) = w
  BY DEF CutAt, w, u, e, q, d, b
<1>. QED
  BY <1>15, <1>16

(* resize to fewer bytes: the first of them, in a packed ring.             *)
LEMMA ShrunkIs ==
  ASSUME NEW ch \in Rings, NEW sz \in Nat, sz <= Len(Flat(ch))
  PROVE  IsCut(ch, sz, Shrunk(ch, sz))
<1> DEFINE last == CHOOSE i \in DOMAIN ch :
                     /\ \A j \in i + 1 .. Len(ch) : sz < StartOf(ch, j)
                     /\ sz >= StartOf(ch, i)
<1>1. ch \in Ring /\ Len(ch) \in Nat /\ DOMAIN ch = 1 .. Len(ch)
  BY DEF Rings, Ring
<1>2. PICK m \in 1 .. Len(ch) : Holds(ch, sz, m)
  BY HolderExists
<1>3. \A i \in 1 .. Len(ch) : StartOf(ch, i) \in Nat
  <2>1. ASSUME NEW i \in 1 .. Len(ch) PROVE StartOf(ch, i) \in Nat
    <3>1. i \in 1 .. Len(ch) + 1
      BY <1>1
    <3>. QED
      BY <1>1, <3>1, Starts
  <2>. QED
    BY <2>1
<1>4. Holds(ch, sz, last)
  <2>1. m \in DOMAIN ch /\ (\A j \in m + 1 .. Len(ch) : sz < StartOf(ch, j)) /\ sz >= StartOf(ch, m)
    BY <1>1, <1>2, <1>3 DEF Holds
  <2>2. last \in DOMAIN ch /\ (\A j \in last + 1 .. Len(ch) : sz < StartOf(ch, j)) /\ sz >= StartOf(ch, last)
    BY <2>1
  <2> HIDE DEF last
  <2>. QED
    BY <1>1, <1>3, <2>2 DEF Holds
<1>5. Shrunk(ch, sz) = CutAt(ch, sz, last)
  <2>1. last \in Nat /\ (last + 1) - 1 = last
    <3> HIDE DEF last
    <3>. QED
      BY <1>4 DEF Holds
  <2>2. Part(ch, 1, last + 1) = SubSeq(ch, 1, last)
    <3> HIDE DEF last
    <3>. QED
      BY <2>1 DEF Part
  <2>3. Shrunk(ch, sz) =
          [SubSeq(ch, 1, last) EXCEPT ![last].data = SubSeq(@, 1, sz - StartOf(ch, last))]
    BY Zenon DEF Shrunk, StartOf
  <2>4. CutAt(ch, sz, last) =
          [SubSeq(ch, 1, last) EXCEPT ![last].data = UpTo(ch[last].data, sz - StartOf(ch, last))]
    <3> HIDE DEF last
    <3>. QED
      BY <2>2, Zenon DEF CutAt, Put
  <2>5. SubSeq(ch, 1, last)[last] = ch[last]
    <3> HIDE DEF last
    <3>. QED
      BY <1>1, <1>4 DEF Holds, Rings, Ring
  <2>. QED
    <3> HIDE DEF last
    <3>. QED
      BY <2>3, <2>4, <2>5 DEF UpTo
<1> HIDE DEF last
<1>6. IsHeld(ch, sz, last)
  BY <1>4, HeldIs
<1>. QED
  BY <1>5, <1>6, CutAtIs

-----------------------------------------------------------------------------

(* The inductive invariant: what Inv says of the ring and the cursor, and  *)
(* what is true of the device between its calls.                           *)
Cursor ==
  /\ access # "none" /\ chunk # 0 => At(chunks, chunk, pos0, pos)
  /\ access # "none" /\ chunk = 0 => chunks = <<>> /\ pos = 0

(* There is no cursor without a device, and no chunk starts behind 0 when  *)
(* there is none.                                                          *)
NoCursor ==
  /\ access = "none" => chunk = 0 /\ pos = 0
  /\ chunk = 0 => pos0 = 0

(* A call that is not finished has a device and did not crash, and what it *)
(* still has to write fits; a device is in one call at a time.             *)
Calling ==
  /\ todo # <<>> => access = "rw" /\ ~crashed /\ pos + Len(todo) <= MaxSize
  /\ need > 0 => access # "none" /\ ~crashed /\ todo = <<>>

SInv ==
  /\ TypeOK /\ Packed(chunks) /\ SizeExact
  /\ Cursor /\ NoCursor /\ Calling /\ CrashOnlyWithoutChunks

(* Cursors in a ring.                                                      *)
LEMMA PointsIn ==
  ASSUME NEW ch \in Ring, NEW c, NEW p0, NEW p, Points(ch, c, p0, p)
  PROVE  /\ p0 \in Nat /\ p \in Nat /\ p <= Len(Flat(ch)) /\ Len(Flat(ch)) \in Nat
         /\ Len(ch) # 0 /\ c \in Nat /\ Len(ch) \in Nat
         /\ ch[c].data \in Bytes /\ Len(ch[c].data) \in Nat /\ ch[c].cap \in 1 .. MaxSize + ChunkSize
         /\ p0 + Len(ch[c].data) <= Len(Flat(ch))
<1>1. c \in 1 .. Len(ch) /\ p0 = StartOf(ch, c) /\ p \in Nat /\ p <= p0 + Len(ch[c].data) /\ Len(ch) \in Nat
  BY DEF Points, Ring
<1>2. c \in 1 .. Len(ch) + 1
  BY <1>1
<1>3. /\ StartOf(ch, c) \in Nat /\ Len(Flat(ch)) \in Nat
      /\ ch[c].data \in Bytes /\ Len(ch[c].data) \in Nat /\ ch[c].cap \in 1 .. MaxSize + ChunkSize
      /\ StartOf(ch, c + 1) = StartOf(ch, c) + Len(ch[c].data)
      /\ StartOf(ch, c + 1) <= Len(Flat(ch))
  BY <1>1, <1>2, Starts
<1>4. p0 + Len(ch[c].data) <= Len(Flat(ch))
  BY <1>1, <1>3
<1>5. p <= Len(Flat(ch))
  BY <1>1, <1>3, <1>4
<1>6. c \in Nat /\ Len(ch) # 0
  BY <1>1
<1>. QED
  BY <1>1, <1>3, <1>4, <1>5, <1>6

(* A chunk that is not the last is not empty.                              *)
LEMMA NotEmpty ==
  ASSUME NEW ch, Packed(ch), NEW c \in 1 .. Len(ch), c # Len(ch)
  PROVE  Len(ch[c].data) \in Nat /\ Len(ch[c].data) > 0
<1>1. ch \in Ring /\ Len(ch) \in Nat
  BY DEF Packed, Ring
<1>2. c \in 1 .. Len(ch) - 1 /\ c \in 1 .. Len(ch) + 1
  BY <1>1
<1>3. Len(ch[c].data) = ch[c].cap
  BY <1>2 DEF Packed
<1>4. ch[c].cap \in 1 .. MaxSize + ChunkSize
  BY <1>1, <1>2, Starts
<1>5. MaxSize + ChunkSize \in Nat
  BY ByteSeqAssumption DEF ByteSeqAssumption
<1>. QED
  BY <1>3, <1>4, <1>5

(* The first chunk and position 0 belong together.                         *)
LEMMA StartAt ==
  ASSUME NEW ch \in Rings
  PROVE  At(ch, 1, 0, 0)
<1>1. ch \in Ring /\ Packed(ch) /\ Len(ch) \in Nat /\ 1 \in 1 .. Len(ch) /\ 1 \in 1 .. Len(ch) + 1
  BY RoomIs DEF Rings
<1>2. StartOf(ch, 1) = 0 /\ Len(ch[1].data) \in Nat
  BY <1>1, Starts
<1>3. Points(ch, 1, 0, 0)
  BY <1>1, <1>2 DEF Points
<1>4. 1 # Len(ch) => 0 < 0 + Len(ch[1].data)
  <2>1. SUFFICES ASSUME 1 # Len(ch) PROVE 0 < 0 + Len(ch[1].data)
    OBVIOUS
  <2>2. Len(ch[1].data) > 0
    BY <1>1, <2>1, NotEmpty
  <2>. QED
    BY <1>2, <2>2
<1>. QED
  BY <1>3, <1>4 DEF At

(* The head, its start and the end of the bytes belong together.           *)
LEMMA EndAt ==
  ASSUME NEW ch \in Rings
  PROVE  At(ch, Len(ch), Len(Flat(ch)) - Len(Last(ch).data), Len(Flat(ch)))
<1> DEFINE n == Len(ch)
           f == Len(Flat(ch))
           l == Len(ch[n].data)
<1>1. ch \in Ring /\ n \in Nat /\ n \in 1 .. n /\ n \in 1 .. n + 1
  BY RoomIs DEF Rings
<1>2. StartOf(ch, n) \in Nat /\ f \in Nat /\ l \in Nat /\ StartOf(ch, n) + l = f
  BY <1>1, Starts
<1>3. Last(ch) = ch[n]
  BY DEF Last
<1>4. Points(ch, n, f - l, f)
  <2> DEFINE b == StartOf(ch, n)
  <2>1. b \in Nat /\ b + l = f
    BY <1>2
  <2> HIDE DEF b, f, l
  <2>2. f - l = b /\ f - l <= f /\ f <= (f - l) + l /\ f \in Nat
    BY <1>2, <2>1
  <2>. QED
    BY <1>1, <2>2 DEF Points, b, l
<1>. QED
  BY <1>3, <1>4 DEF At

(* The head has room for at least a byte in all.                           *)
LEMMA LastCap ==
  ASSUME NEW ch \in Rings
  PROVE  Last(ch).cap \in 1 .. MaxSize + ChunkSize
<1>1. Points(ch, Len(ch), Len(Flat(ch)) - Len(Last(ch).data), Len(Flat(ch)))
  BY EndAt DEF At
<1>2. ch[Len(ch)].cap \in 1 .. MaxSize + ChunkSize
  BY <1>1, PointsIn DEF Rings
<1>. QED
  BY <1>2 DEF Last

(* advance(): at the end of a chunk the device goes on to the next.        *)
LEMMA AdvanceAt ==
  ASSUME NEW ch \in Rings, NEW c, NEW p0, NEW q, Points(ch, c, p0, q)
  PROVE  IF c # Len(ch) /\ q - p0 >= Len(ch[c].data)
         THEN At(ch, c + 1, p0 + Len(ch[c].data), q)
         ELSE At(ch, c, p0, q)
<1> DEFINE n == Len(ch)
           l == Len(ch[c].data)
<1>1. /\ ch \in Ring /\ Packed(ch) /\ n \in Nat /\ c \in 1 .. n /\ p0 = StartOf(ch, c) /\ q \in Nat
      /\ p0 <= q /\ q <= p0 + l
  BY RoomIs DEF Rings, Points
<1>2. p0 \in Nat /\ l \in Nat
  BY <1>1, PointsIn
<1>3. CASE c # n /\ q - p0 >= l
  <2> DEFINE d == c + 1
  <2>1. d \in 1 .. n /\ d \in Nat /\ q = p0 + l /\ c \in 1 .. n + 1 /\ d \in 1 .. n + 1
    BY <1>1, <1>2, <1>3
  <2>2. StartOf(ch, c + 1) = StartOf(ch, c) + l
    BY <1>1, <2>1, Starts
  <2>3. StartOf(ch, d) = q
    BY <1>1, <2>1, <2>2
  <2> HIDE DEF d
  <2>4. Len(ch[d].data) \in Nat
    BY <1>1, <2>1, Starts
  <2>5. Points(ch, d, q, q)
    BY <1>1, <2>1, <2>3, <2>4 DEF Points
  <2>6. d # n => q < q + Len(ch[d].data)
    <3>1. SUFFICES ASSUME d # n PROVE q < q + Len(ch[d].data)
      OBVIOUS
    <3>2. Len(ch[d].data) > 0
      BY <1>1, <2>1, <3>1, NotEmpty
    <3>. QED
      BY <1>1, <2>4, <3>2
  <2>7. At(ch, d, q, q)
    BY <2>5, <2>6 DEF At
  <2>. QED
    BY <1>3, <2>1, <2>7 DEF d
<1>4. CASE ~ (c # n /\ q - p0 >= l)
  <2>1. c # n => q < p0 + l
    BY <1>1, <1>2, <1>4
  <2>2. At(ch, c, p0, q)
    BY <2>1 DEF At
  <2>. QED
    BY <1>4, <2>2
<1>. QED
  BY <1>3, <1>4

(* seek() forward: from chunk to chunk while the position is behind.       *)
Reached(ch, c, p, i) ==
  /\ i >= c
  /\ \A j \in c .. i - 1 : p - StartOf(ch, j) >= Len(ch[j].data)
  /\ i = Len(ch) \/ p - StartOf(ch, i) < Len(ch[i].data)

(* The loop of a seek forward stops at some chunk.                         *)
LEMMA ReachedExists ==
  ASSUME NEW ch \in Rings, NEW c \in 1 .. Len(ch), NEW p \in Nat, StartOf(ch, c) < p
  PROVE  \E i \in 1 .. Len(ch) : Reached(ch, c, p, i)
<1> DEFINE n == Len(ch)
<1>1. ch \in Ring /\ n \in Nat /\ c \in 1 .. n + 1
  BY RoomIs DEF Rings
<1>2. PICK m \in 1 .. n : Holds(ch, p, m)
  BY HolderExists
<1>3. StartOf(ch, m) <= p /\ \A j \in m + 1 .. n : p < StartOf(ch, j)
  BY <1>2 DEF Holds
<1>4. m \in 1 .. n + 1 /\ m \in Nat /\ c \in Nat
  BY <1>1
<1>5. /\ StartOf(ch, m) \in Nat /\ Len(ch[m].data) \in Nat /\ StartOf(ch, c) \in Nat
      /\ StartOf(ch, m + 1) = StartOf(ch, m) + Len(ch[m].data)
  BY <1>1, <1>4, Starts
<1>6. m >= c
  <2>1. SUFFICES ASSUME m < c PROVE FALSE
    BY <1>4
  <2>2. c \in m + 1 .. n
    BY <1>1, <1>4, <2>1
  <2>3. p < StartOf(ch, c)
    BY <1>3, <2>2
  <2>. QED
    BY <1>5, <2>3
<1>7. ASSUME NEW j \in c .. m - 1 PROVE p - StartOf(ch, j) >= Len(ch[j].data)
  <2>1. j \in 1 .. n /\ j < m
    BY <1>1, <1>4
  <2>2. /\ StartOf(ch, j) \in Nat /\ Len(ch[j].data) \in Nat
        /\ StartOf(ch, j + 1) = StartOf(ch, j) + Len(ch[j].data)
        /\ StartOf(ch, j + 1) <= StartOf(ch, m)
    BY <1>1, <1>4, <2>1, Starts
  <2>. QED
    BY <1>3, <1>5, <2>2
<1>8. m = n \/ p - StartOf(ch, m) < Len(ch[m].data)
  <2>1. SUFFICES ASSUME m # n PROVE p - StartOf(ch, m) < Len(ch[m].data)
    OBVIOUS
  <2>2. m + 1 \in m + 1 .. n
    BY <1>1, <1>4, <2>1
  <2>3. p < StartOf(ch, m + 1)
    BY <1>3, <2>2
  <2>. QED
    BY <1>5, <2>3
<1>9. Reached(ch, c, p, m)
  BY <1>6, <1>7, <1>8 DEF Reached
<1>. QED
  BY <1>9

(* Where it stops is the chunk of the position.                            *)
LEMMA ReachedAt ==
  ASSUME NEW ch \in Rings, NEW c \in 1 .. Len(ch), NEW p \in Nat, StartOf(ch, c) < p, p < Len(Flat(ch)),
         NEW i \in 1 .. Len(ch), Reached(ch, c, p, i)
  PROVE  At(ch, i, StartOf(ch, c) + Len(Flat(Part(ch, c, i))), p)
<1> DEFINE n == Len(ch)
           b == StartOf(ch, i)
           l == Len(ch[i].data)
<1>1. ch \in Ring /\ n \in Nat /\ c \in 1 .. n + 1 /\ i \in 1 .. n + 1 /\ i \in Nat /\ c \in Nat
  BY RoomIs DEF Rings
<1>2. /\ i >= c
      /\ \A j \in c .. i - 1 : p - StartOf(ch, j) >= Len(ch[j].data)
      /\ i = n \/ p - b < l
  BY DEF Reached
<1>3. /\ b \in Nat /\ l \in Nat /\ Len(Flat(ch)) \in Nat /\ StartOf(ch, c) \in Nat
      /\ i = n => b + l = Len(Flat(ch))
  BY <1>1, Starts
<1>4. b <= p
  <2>1. CASE i = c
    BY <1>3, <2>1
  <2>2. CASE i # c
    <3> DEFINE j == i - 1
    <3>1. j \in c .. i - 1 /\ j \in 1 .. n /\ j + 1 = i /\ j \in 1 .. n + 1
      BY <1>1, <1>2, <2>2
    <3> HIDE DEF j
    <3>2. p - StartOf(ch, j) >= Len(ch[j].data)
      BY <1>2, <3>1
    <3>3. StartOf(ch, j) \in Nat /\ Len(ch[j].data) \in Nat /\ StartOf(ch, j + 1) = StartOf(ch, j) + Len(ch[j].data)
      BY <1>1, <3>1, Starts
    <3>4. b = StartOf(ch, j) + Len(ch[j].data)
      BY <3>1, <3>3
    <3>. QED
      BY <1>3, <3>2, <3>3, <3>4
  <2>. QED
    BY <2>1, <2>2
<1>5. p <= b + l /\ (i # n => p < b + l)
  <2>1. CASE i = n
    BY <1>3, <2>1
  <2>2. CASE i # n
    BY <1>2, <1>3, <2>2
  <2>. QED
    BY <2>1, <2>2
<1>6. StartOf(ch, c) + Len(Flat(Part(ch, c, i))) = b
  <2>1. Cuts(ch, c, i)
    BY <1>1, <1>2 DEF Cuts
  <2>2. Len(Flat(Part(ch, c, i))) = StartOf(ch, i) - StartOf(ch, c)
    BY <2>1, Between
  <2>. QED
    BY <1>3, <2>2
<1>7. At(ch, i, b, p)
  BY <1>4, <1>5 DEF At, Points
<1>. QED
  BY <1>6, <1>7

(* seek() back: from chunk to chunk while they start behind the position.  *)
Starting(ch, c, p, S) ==
  S = {i \in 1 .. c - 1 : StartOf(ch, c) - Len(Flat(Part(ch, i, c))) <= p}

(* Where the loop of a seek back stops is the chunk of the position.       *)
LEMMA BackAt ==
  ASSUME NEW ch \in Rings, NEW c \in 1 .. Len(ch), NEW p \in Nat, p < StartOf(ch, c),
         NEW S, Starting(ch, c, p, S)
  PROVE  /\ Max(S) \in 1 .. Len(ch)
         /\ At(ch, Max(S), StartOf(ch, c) - Len(Flat(Part(ch, Max(S), c))), p)
<1> DEFINE n == Len(ch)
           m == Max(S)
<1>1. ch \in Ring /\ n \in Nat /\ c \in 1 .. n + 1 /\ c \in Nat
  BY RoomIs DEF Rings
<1>2. ASSUME NEW i \in 1 .. c - 1
      PROVE  /\ StartOf(ch, c) - Len(Flat(Part(ch, i, c))) = StartOf(ch, i)
             /\ StartOf(ch, i) \in Nat /\ Len(ch[i].data) \in Nat
             /\ StartOf(ch, i + 1) = StartOf(ch, i) + Len(ch[i].data)
  <2>1. Cuts(ch, i, c) /\ i \in 1 .. n
    BY <1>1 DEF Cuts
  <2>2. /\ Len(Flat(Part(ch, i, c))) = StartOf(ch, c) - StartOf(ch, i)
        /\ StartOf(ch, i) \in Nat /\ StartOf(ch, c) \in Nat
    BY <2>1, Between
  <2>3. Len(ch[i].data) \in Nat /\ StartOf(ch, i + 1) = StartOf(ch, i) + Len(ch[i].data)
    BY <1>1, <2>1, Starts
  <2>. QED
    BY <2>2, <2>3
<1>3. S = {i \in 1 .. c - 1 : StartOf(ch, i) <= p}
  BY <1>2 DEF Starting
<1>4. StartOf(ch, c) \in Nat /\ StartOf(ch, 1) = 0
  BY <1>1, Starts
<1>5. 1 \in S
  <2>1. c # 1
    BY <1>4
  <2>2. 1 \in 1 .. c - 1
    BY <1>1, <2>1
  <2>. QED
    BY <1>3, <1>4, <2>2
<1>6. m \in S /\ \A y \in S : m >= y
  <2>1. S \subseteq 0 .. n /\ S # {}
    BY <1>1, <1>3, <1>5
  <2>. QED
    BY <1>1, <2>1, MaxOf
<1> HIDE DEF m
<1>7. m \in 1 .. c - 1 /\ StartOf(ch, m) <= p /\ m \in Nat /\ m \in 1 .. n /\ m # n
  <2>1. m \in 1 .. c - 1 /\ StartOf(ch, m) <= p
    BY <1>3, <1>6
  <2>. QED
    BY <1>1, <2>1
<1>8. p < StartOf(ch, m) + Len(ch[m].data)
  <2>1. StartOf(ch, m + 1) = StartOf(ch, m) + Len(ch[m].data)
    BY <1>2, <1>7
  <2>2. CASE m + 1 = c
    BY <2>1, <2>2
  <2>3. CASE m + 1 # c
    <3> DEFINE k == m + 1
    <3>1. k \in 1 .. c - 1 /\ k > m
      BY <1>1, <1>7, <2>3
    <3> HIDE DEF k
    <3>2. k \notin S
      BY <1>1, <1>6, <1>7, <3>1
    <3>3. ~ (StartOf(ch, k) <= p)
      BY <1>3, <3>1, <3>2
    <3>4. StartOf(ch, k) \in Nat
      BY <1>2, <3>1
    <3>5. p < StartOf(ch, k)
      BY <3>3, <3>4
    <3>. QED
      BY <2>1, <3>5 DEF k
  <2>. QED
    BY <2>2, <2>3
<1>9. At(ch, m, StartOf(ch, m), p)
  <2>1. StartOf(ch, m) \in Nat /\ Len(ch[m].data) \in Nat
    BY <1>2, <1>7
  <2>2. p <= StartOf(ch, m) + Len(ch[m].data)
    BY <1>8, <2>1
  <2>3. Points(ch, m, StartOf(ch, m), p)
    BY <1>7, <2>2 DEF Points
  <2>. QED
    BY <1>8, <2>3 DEF At
<1>10. StartOf(ch, c) - Len(Flat(Part(ch, m, c))) = StartOf(ch, m)
  BY <1>2, <1>7
<1>. QED
  BY <1>7, <1>9, <1>10 DEF m

-----------------------------------------------------------------------------

(* The steps.                                                              *)
RingOK == Packed(chunks) /\ SizeExact /\ size \in 0 .. MaxSize

FileStep == File!Next \/ UNCHANGED File!vars

(* What the invariant says of the ring and of the device.                  *)
LEMMA Facts ==
  ASSUME SInv
  PROVE  /\ RingOK /\ chunks \in Ring /\ Flat(chunks) \in Bytes
         /\ size = Len(Flat(chunks)) /\ Len(Flat(chunks)) \in Nat /\ size \in Nat
         /\ MaxSize \in Nat /\ size <= MaxSize /\ HeadAt \in Nat
         /\ pos \in Nat /\ pos0 \in Nat /\ pos <= size
         /\ chunks = <<>> => chunk = 0 /\ pos = 0 /\ pos0 = 0 /\ size = 0
         /\ chunks # <<>> => chunks \in Rings
<1>1. /\ TypeOK /\ Packed(chunks) /\ SizeExact /\ Cursor /\ NoCursor
  BY DEF SInv
<1>2. chunks \in Ring /\ HeadAt \in Nat
  BY <1>1 DEF Packed, Ring, HeadAt
<1>3. Flat(chunks) \in Bytes /\ Len(Flat(chunks)) \in Nat
  BY <1>2, FlatType
<1>4. MaxSize \in Nat
  BY ByteSeqAssumption DEF ByteSeqAssumption
<1>5. /\ size = Len(Flat(chunks)) /\ size \in 0 .. MaxSize /\ pos \in Nat /\ pos0 \in Nat
      /\ chunk \in 0 .. HeadAt /\ size <= MaxSize
  BY <1>1, <1>4 DEF TypeOK, SizeExact
<1>6. chunks = <<>> => chunk = 0
  BY <1>5 DEF HeadAt
<1>7. chunk = 0 => pos = 0 /\ pos0 = 0
  BY <1>1 DEF Cursor, NoCursor
<1>8. pos <= size
  <2>1. CASE chunk = 0
    BY <1>3, <1>5, <1>7, <2>1
  <2>2. CASE chunk # 0
    <3>1. Points(chunks, chunk, pos0, pos)
      BY <1>1, <2>2 DEF Cursor, NoCursor, At
    <3>. QED
      BY <1>2, <1>5, <3>1, PointsIn
  <2>. QED
    BY <2>1, <2>2
<1>9. chunks = <<>> => size = 0
  BY <1>5, FlatEmpty
<1>10. chunks # <<>> => chunks \in Rings
  BY <1>1, <1>2 DEF Rings, Ring
<1>. QED
  BY <1>1, <1>2, <1>3, <1>4, <1>5, <1>6, <1>7, <1>8, <1>9, <1>10 DEF RingOK

(* A device that is at a place of the ring.                                *)
Placed(ch, c, p0, p) ==
  \/ ch # <<>> /\ At(ch, c, p0, p)
  \/ ch = <<>> /\ c = 0 /\ p0 = 0 /\ p = 0

(* The cursor of an open device is at the position's chunk.                *)
LEMMA PlacedIs ==
  ASSUME SInv, access # "none"
  PROVE  Placed(chunks, chunk, pos0, pos)
<1>1. Cursor /\ chunks = <<>> => chunk = 0 /\ pos = 0 /\ pos0 = 0
  BY Facts
<1>2. Cursor /\ chunk \in 0 .. HeadAt
  BY DEF SInv, TypeOK
<1>. QED
  BY <1>1, <1>2 DEF Cursor, Placed

(* What is left to show of a step that leaves a sound ring.                *)
LEMMA StillSound ==
  ASSUME RingOK',
         access' \in {"none", "ro", "rw"},
         access' # "none" => Placed(chunks', chunk', pos0', pos'),
         access' = "none" => chunk' = 0 /\ pos0' = 0 /\ pos' = 0,
         todo' \in Seq(Byte), need' \in Nat, seen' \in Seq(Byte), crashed' \in BOOLEAN,
         Calling', CrashOnlyWithoutChunks'
  PROVE  SInv'
<1>1. Packed(chunks') /\ SizeExact' /\ size' \in 0 .. MaxSize
  BY DEF RingOK
<1>2. chunks' \in Ring /\ Len(chunks') \in Nat
  BY <1>1 DEF Packed, Ring
<1>3. CASE access' = "none"
  <2>1. Cursor' /\ NoCursor'
    BY <1>3 DEF Cursor, NoCursor
  <2>2. TypeOK'
    BY <1>1, <1>2, <1>3 DEF TypeOK, Ring, HeadAt
  <2>. QED
    BY <1>1, <2>1, <2>2 DEF SInv
<1>4. CASE access' # "none" /\ At(chunks', chunk', pos0', pos')
  <2>1. Points(chunks', chunk', pos0', pos')
    BY <1>4 DEF At
  <2>2. chunk' \in 1 .. Len(chunks') /\ pos' \in Nat
    BY <2>1 DEF Points
  <2>3. pos0' \in Nat
    BY <1>2, <2>1, PointsIn
  <2>4. Cursor' /\ NoCursor'
    BY <1>2, <1>4, <2>2 DEF Cursor, NoCursor
  <2>5. TypeOK'
    <3>1. chunk' \in 0 .. Len(chunks')
      BY <1>2, <2>2
    <3>. QED
      BY <1>1, <1>2, <2>2, <2>3, <3>1 DEF TypeOK, Ring, HeadAt
  <2>. QED
    BY <1>1, <2>4, <2>5 DEF SInv
<1>5. CASE access' # "none" /\ chunks' = <<>> /\ chunk' = 0 /\ pos0' = 0 /\ pos' = 0
  <2>1. Cursor' /\ NoCursor'
    BY <1>5 DEF Cursor, NoCursor
  <2>2. TypeOK'
    BY <1>1, <1>2, <1>5 DEF TypeOK, Ring, HeadAt
  <2>. QED
    BY <1>1, <2>1, <2>2 DEF SInv
<1>. QED
  BY <1>3, <1>4, <1>5 DEF Placed

(* resize(sz).                                                             *)
IsResized(sz) ==
  /\ RingOK' /\ size' = sz /\ chunks' \in Rings /\ crashed' = crashed
  /\ Flat(chunks') = File!Resized(Flat(chunks), sz)
  /\ sz <= size => \A c, p0 : At(chunks, c, p0, sz) => At(chunks', c, p0, sz)

Crashes == chunks = <<>> /\ crashed' = TRUE /\ UNCHANGED ring

(* What resize does to the sequence, or that it has crashed.               *)
LEMMA ResizedIs ==
  ASSUME SInv, NEW sz \in 0 .. MaxSize, Resize(sz)
  PROVE  Crashes \/ IsResized(sz)
<1>1. /\ Packed(chunks) /\ Flat(chunks) \in Bytes /\ size = Len(Flat(chunks)) /\ size \in Nat
      /\ MaxSize \in Nat
      /\ chunks # <<>> => chunks \in Rings
  BY Facts DEF RingOK
<1>2. sz \in Nat
  OBVIOUS
<1>3. CASE sz > size
  <2>1. chunks' = Grown(chunks, sz) /\ size' = sz /\ crashed' = crashed
    BY <1>3 DEF Resize
  <2>2. IsEnlarged(chunks, sz, chunks')
    BY <1>1, <1>2, <1>3, <2>1, GrownIs
  <2>3. chunks' \in Rings /\ Flat(chunks') = Flat(chunks) \o Zeros(sz - size)
    BY <1>1, <2>2 DEF IsEnlarged
  <2>4. Flat(chunks') = File!Resized(Flat(chunks), sz)
    BY <1>1, <1>2, <1>3, <2>3 DEF File!Resized, File!Zeros, Zeros
  <2>5. Len(Flat(chunks')) = sz
    <3>1. sz - size \in Nat /\ size + (sz - size) = sz
      BY <1>1, <1>2, <1>3
    <3> DEFINE z == Zeros(sz - size)
    <3>2. z \in Bytes /\ Len(z) = sz - size
      BY <3>1, ZerosType
    <3> HIDE DEF z
    <3>3. Len(Flat(chunks) \o z) = size + Len(z)
      BY <1>1, <3>2, BytesConcat
    <3>. QED
      BY <2>3, <3>1, <3>2, <3>3 DEF z
  <2>6. RingOK'
    BY <2>1, <2>3, <2>5 DEF RingOK, Rings, SizeExact
  <2>. QED
    BY <1>1, <1>2, <1>3, <2>1, <2>3, <2>4, <2>6 DEF IsResized
<1>4. CASE ~ (sz > size) /\ chunks = <<>>
  BY <1>4 DEF Resize, Crashes
<1>5. CASE ~ (sz > size) /\ chunks # <<>>
  <2>1. chunks' = Shrunk(chunks, sz) /\ size' = sz /\ crashed' = crashed
    BY <1>5 DEF Resize
  <2>2. sz <= Len(Flat(chunks)) /\ chunks \in Rings
    BY <1>1, <1>2, <1>5
  <2>3. IsCut(chunks, sz, chunks')
    BY <1>2, <2>1, <2>2, ShrunkIs
  <2>4. /\ chunks' \in Rings /\ Flat(chunks') = SubSeq(Flat(chunks), 1, sz) /\ Len(Flat(chunks')) = sz
        /\ \A c, p0 : At(chunks, c, p0, sz) => At(chunks', c, p0, sz)
    BY <2>3 DEF IsCut, UpTo
  <2>5. Flat(chunks') = File!Resized(Flat(chunks), sz)
    BY <2>2, <2>4 DEF File!Resized
  <2>6. RingOK'
    BY <2>1, <2>4 DEF RingOK, Rings, SizeExact
  <2>. QED
    BY <2>1, <2>4, <2>5, <2>6 DEF IsResized
<1>. QED
  BY <1>3, <1>4, <1>5

(* clear().                                                                *)
LEMMA ClearedIs ==
  ASSUME SInv, Cleared
  PROVE  /\ RingOK' /\ Flat(chunks') = <<>>
         /\ chunks = <<>> => chunks' = <<>>
         /\ chunks # <<>> => chunks' \in Rings /\ Len(chunks') = 1
<1>1. RingOK /\ (chunks # <<>> => chunks \in Rings)
  BY Facts
<1>2. CASE chunks = <<>>
  BY <1>1, <1>2, FlatEmpty DEF Cleared, RingOK, SizeExact, ring
<1>3. CASE chunks # <<>>
  <2>1. chunks \in Rings /\ chunks' = <<NewChunk(Last(chunks).cap)>> /\ size' = 0
    BY <1>1, <1>3 DEF Cleared
  <2>2. Last(chunks).cap \in 1 .. MaxSize + ChunkSize
    BY <2>1, LastCap
  <2>3. IsOne(<<>>, chunks')
    BY <2>1, <2>2, NewChunkIs, ByteSeqAssumption
  <2>4. Packed(chunks') /\ Len(chunks') = 1 /\ Flat(chunks') = <<>>
    BY <2>3 DEF IsOne
  <2>5. chunks' \in Ring /\ Len(chunks') # 0
    BY <2>4 DEF Packed
  <2>6. chunks' \in Rings
    BY <2>4, <2>5 DEF Rings
  <2>7. MaxSize \in Nat
    BY ByteSeqAssumption DEF ByteSeqAssumption
  <2>8. RingOK'
    BY <2>1, <2>4, <2>7 DEF RingOK, SizeExact
  <2>. QED
    BY <1>3, <2>4, <2>6, <2>8
<1>. QED
  BY <1>2, <1>3

(* An operation on the sequence while there is no device.                  *)
LEMMA AloneSound ==
  ASSUME SInv, Alone, UNCHANGED <<device, todo, need, seen>>,
         RingOK', crashed' \in BOOLEAN, crashed' => chunks' = <<>>
  PROVE  SInv'
<1>1. /\ access = "none" /\ chunk = 0 /\ pos0 = 0 /\ pos = 0 /\ todo = <<>> /\ need = 0
      /\ seen \in Seq(Byte)
  BY DEF SInv, Alone, Idle, NoCursor, TypeOK
<1>2. /\ access' = access /\ chunk' = chunk /\ pos0' = pos0 /\ pos' = pos
      /\ todo' = todo /\ need' = need /\ seen' = seen
  BY DEF device
<1>3. Calling' /\ CrashOnlyWithoutChunks'
  BY <1>1, <1>2 DEF Calling, CrashOnlyWithoutChunks
<1>4. todo' \in Seq(Byte) /\ need' \in Nat /\ seen' \in Seq(Byte)
  BY <1>1, <1>2
<1>. QED
  BY <1>1, <1>2, <1>3, <1>4, StillSound

(* A change of the sequence while no device is open is a step of the file. *)
LEMMA FileChanges ==
  ASSUME Alone, UNCHANGED <<device, seen>>, File!Change(Flat(chunks')) => File!Next
  PROVE  FileStep
BY DEF Alone, FileStep, File!Change, device

(* resize keeps the invariant and is a step of the file.                   *)
LEMMA ResizeSeqStep ==
  ASSUME SInv, NEW sz \in 0 .. MaxSize, ResizeSeq(sz)
  PROVE  SInv' /\ FileStep
<1>1. Alone /\ Resize(sz) /\ UNCHANGED <<device, todo, need, seen>>
  BY DEF ResizeSeq
<1>2. RingOK /\ crashed = FALSE
  BY <1>1, Facts DEF Alone, Idle, SInv, TypeOK
<1>3. CASE Crashes
  <2>1. chunks' = chunks /\ size' = size /\ chunks = <<>> /\ crashed' = TRUE
    BY <1>3 DEF Crashes, ring
  <2>2. RingOK'
    BY <1>2, <2>1 DEF RingOK, SizeExact
  <2>3. SInv'
    BY <1>1, <2>1, <2>2, AloneSound
  <2>4. FileStep
    BY <1>1, <2>1 DEF FileStep, File!vars, device
  <2>. QED
    BY <2>3, <2>4
<1>4. CASE IsResized(sz)
  <2>1. RingOK' /\ crashed' = FALSE /\ Flat(chunks') = File!Resized(Flat(chunks), sz)
    BY <1>2, <1>4 DEF IsResized
  <2>2. SInv'
    BY <1>1, <2>1, AloneSound
  <2>3. File!Change(Flat(chunks')) => File!Next
    BY <2>1 DEF File!Next
  <2>4. FileStep
    BY <1>1, <2>3, FileChanges
  <2>. QED
    BY <2>2, <2>4
<1>. QED
  BY <1>1, <1>3, <1>4, ResizedIs

(* clear of the sequence keeps the invariant and is a step of the file.    *)
LEMMA ClearSeqStep ==
  ASSUME SInv, ClearSeq
  PROVE  SInv' /\ FileStep
<1>1. Alone /\ Cleared /\ UNCHANGED <<device, todo, need, seen, crashed>>
  BY DEF ClearSeq
<1>2. RingOK' /\ Flat(chunks') = <<>>
  BY <1>1, ClearedIs
<1>3. crashed' = FALSE
  BY <1>1 DEF Alone, Idle, SInv, TypeOK
<1>4. SInv'
  BY <1>1, <1>2, <1>3, AloneSound
<1>5. File!Change(Flat(chunks')) => File!Next
  BY <1>2 DEF File!Next
<1>. QED
  BY <1>1, <1>4, <1>5, FileChanges

(* freeing the sequence keeps the invariant and is a step of the file.     *)
LEMMA ReleaseStep ==
  ASSUME SInv, Release
  PROVE  SInv' /\ FileStep
<1>1. Alone /\ chunks' = <<>> /\ size' = 0 /\ UNCHANGED <<device, todo, need, seen, crashed>>
  BY DEF Release
<1>2. Packed(<<>>)
  BY FlatEmpty DEF Packed
<1>3. RingOK'
  BY <1>1, <1>2, FlatEmpty, ByteSeqAssumption DEF RingOK, SizeExact, ByteSeqAssumption
<1>4. crashed' = FALSE
  BY <1>1 DEF Alone, Idle, SInv, TypeOK
<1>5. SInv'
  BY <1>1, <1>3, <1>4, AloneSound
<1>6. File!Change(Flat(chunks')) => File!Next
  BY <1>1, FlatEmpty DEF File!Next
<1>. QED
  BY <1>1, <1>5, <1>6, FileChanges

(* The pieces that are stored are pieces of the file.                      *)
LEMMA FilePiece ==
  ASSUME NEW s \in Bytes, Len(s) # 0, Len(s) <= MaxSize
  PROVE  s \in File!Pieces
<1>1. MaxSize \in Nat /\ Len(s) \in Nat /\ s \in [1 .. Len(s) -> Byte]
  BY ByteSeqAssumption DEF ByteSeqAssumption, Bytes
<1>2. Len(s) \in 1 .. MaxSize
  BY <1>1
<1>. QED
  BY <1>1, <1>2 DEF File!Pieces

(* What callers assign and write.                                          *)
LEMMA PieceIs ==
  ASSUME NEW s \in Pieces
  PROVE  s \in Bytes /\ Len(s) # 0
<1>1. PICK n \in 1 .. ChunkSize + 1 : s \in [1 .. n -> Byte]
  BY DEF Pieces
<1>2. n \in Nat /\ n # 0
  BY <1>1
<1>. QED
  BY <1>1, <1>2 DEF Bytes

(* assign keeps the invariant and is a step of the file.                   *)
LEMMA AssignStep ==
  ASSUME SInv, NEW s \in Pieces \union {<<>>}, Fits(Len(s)), Assign(s)
  PROVE  SInv' /\ FileStep
<1>1. Alone /\ UNCHANGED <<device, todo, need, seen, crashed>>
  BY DEF Assign
<1>2. s \in Bytes /\ Len(s) \in Nat /\ (Len(s) = 0 => s = <<>>) /\ Len(s) <= MaxSize
  <2>1. s \in Bytes
    BY PieceIs, BytesEmpty, FlatEmpty, FlatType
  <2>. QED
    BY <2>1 DEF Fits, Bytes
<1>3. /\ RingOK /\ (chunks # <<>> => chunks \in Rings) /\ MaxSize \in Nat
      /\ ChunkSize \in Nat /\ ChunkSize # 0
  BY Facts, ByteSeqAssumption DEF ByteSeqAssumption
<1>4. crashed' = FALSE
  BY <1>1 DEF Alone, Idle, SInv, TypeOK
<1>5. RingOK' /\ Flat(chunks') = s
  <2>1. CASE chunks = <<>> /\ s = <<>>
    <3>1. UNCHANGED ring
      BY <2>1 DEF Assign
    <3>. QED
      BY <1>3, <2>1, <3>1, FlatEmpty DEF ring, RingOK, SizeExact
  <2>2. CASE ~ (chunks = <<>> /\ s = <<>>)
    <3>1. /\ size' = Len(s)
          /\ IF chunks # <<>> /\ Last(chunks).cap >= Len(s)
             THEN chunks' = <<[cap |-> Last(chunks).cap, data |-> s]>>
             ELSE \E cap \in {Len(s), Len(s) + 1} : chunks' = <<[cap |-> cap, data |-> s]>>
      BY <2>2 DEF Assign
    <3>2. PICK cap \in Nat \ {0} : /\ chunks' = <<[cap |-> cap, data |-> s]>>
                                  /\ cap >= Len(s) /\ cap <= MaxSize + ChunkSize
      <4>1. CASE chunks # <<>> /\ Last(chunks).cap >= Len(s)
        <5>1. Last(chunks).cap \in 1 .. MaxSize + ChunkSize
          BY <1>3, <4>1, LastCap
        <5>2. Last(chunks).cap \in Nat \ {0} /\ Last(chunks).cap <= MaxSize + ChunkSize
          BY <5>1, <1>3
        <5>. QED
          BY <3>1, <4>1, <5>2
      <4>2. CASE ~ (chunks # <<>> /\ Last(chunks).cap >= Len(s))
        <5>1. Len(s) # 0
          <6>1. CASE chunks = <<>>
            BY <1>2, <2>2, <6>1
          <6>2. CASE chunks # <<>>
            <7>1. Last(chunks).cap \in 1 .. MaxSize + ChunkSize
              BY <1>3, <6>2, LastCap
            <7>2. ~ (Last(chunks).cap >= Len(s))
              BY <4>2, <6>2
            <7>. QED
              BY <1>2, <7>1, <7>2
          <6>. QED
            BY <6>1, <6>2
        <5>. QED
          BY <1>2, <1>3, <3>1, <4>2, <5>1
      <4>. QED
        BY <4>1, <4>2
    <3>3. cap \in 1 .. MaxSize + ChunkSize /\ Len(s) <= cap
      BY <1>2, <1>3, <3>2
    <3>4. IsOne(s, chunks')
      BY <1>2, <3>2, <3>3, OneChunk
    <3>5. Packed(chunks') /\ Flat(chunks') = s
      BY <3>4 DEF IsOne
    <3>. QED
      BY <1>2, <1>3, <3>1, <3>5 DEF RingOK, SizeExact
  <2>. QED
    BY <2>1, <2>2
<1>6. SInv'
  BY <1>1, <1>4, <1>5, AloneSound
<1>7. File!Change(Flat(chunks')) => File!Next
  <2>1. CASE Len(s) = 0
    BY <1>2, <1>5, <2>1 DEF File!Next
  <2>2. CASE Len(s) # 0
    <3>1. s \in File!Pieces
      BY <1>2, <2>2, FilePiece
    <3>. QED
      BY <1>5, <3>1 DEF File!Next
  <2>. QED
    BY <2>1, <2>2
<1>. QED
  BY <1>1, <1>6, <1>7, FileChanges

(* An operation of a device that is not in a call.                         *)
LEMMA DeviceSound ==
  ASSUME SInv, Idle, RingOK', access' \in {"ro", "rw"}, Placed(chunks', chunk', pos0', pos'),
         UNCHANGED <<todo, need, seen>>, crashed' \in BOOLEAN, CrashOnlyWithoutChunks'
  PROVE  SInv'
<1>1. todo = <<>> /\ need = 0 /\ seen \in Seq(Byte)
  BY DEF SInv, Idle, TypeOK
<1>2. Calling'
  BY <1>1 DEF Calling
<1>3. todo' \in Seq(Byte) /\ need' \in Nat /\ seen' \in Seq(Byte)
  BY <1>1
<1>4. access' \in {"none", "ro", "rw"} /\ access' # "none"
  OBVIOUS
<1>. QED
  BY <1>2, <1>3, <1>4, StillSound

(* opening a device keeps the invariant and is a step of the file.         *)
LEMMA OpenStep ==
  ASSUME SInv, NEW how \in {"ro", "rw"}, Open(how)
  PROVE  SInv' /\ FileStep
<1>1. /\ Alone /\ access' = how /\ pos0' = 0 /\ pos' = 0 /\ chunk' = IF chunks = <<>> THEN 0 ELSE 1
      /\ chunks' = chunks /\ size' = size /\ UNCHANGED <<todo, need, seen>> /\ crashed' = crashed
  BY DEF Open, ring
<1>2. RingOK /\ (chunks # <<>> => chunks \in Rings) /\ crashed = FALSE
  BY <1>1, Facts DEF Alone, Idle, SInv, TypeOK
<1>3. RingOK'
  BY <1>1, <1>2 DEF RingOK, SizeExact
<1>4. Placed(chunks', chunk', pos0', pos')
  BY <1>1, <1>2, StartAt DEF Placed
<1>5. CrashOnlyWithoutChunks'
  BY <1>1, <1>2 DEF CrashOnlyWithoutChunks
<1>6. SInv'
  <2>1. Idle /\ access' \in {"ro", "rw"} /\ crashed' \in BOOLEAN
    BY <1>1, <1>2 DEF Alone
  <2>. QED
    BY <1>1, <1>3, <1>4, <1>5, <2>1, DeviceSound
<1>7. File!Open(how)
  BY <1>1 DEF File!Open, Alone
<1>. QED
  BY <1>6, <1>7 DEF FileStep, File!Next

(* closing the device keeps the invariant and is a step of the file.       *)
LEMMA CloseStep ==
  ASSUME SInv, Close
  PROVE  SInv' /\ FileStep
<1>1. /\ Idle /\ access' = "none" /\ pos0' = 0 /\ pos' = 0 /\ chunk' = 0 /\ seen' = <<>>
      /\ chunks' = chunks /\ size' = size /\ UNCHANGED <<todo, need>> /\ crashed' = crashed
  BY DEF Close, ring
<1>2. RingOK /\ crashed = FALSE /\ todo = <<>> /\ need = 0
  BY <1>1, Facts DEF Idle, SInv, TypeOK
<1>3. RingOK'
  BY <1>1, <1>2 DEF RingOK, SizeExact
<1>4. CrashOnlyWithoutChunks' /\ Calling'
  BY <1>1, <1>2 DEF CrashOnlyWithoutChunks, Calling
<1>5. SInv'
  <2>1. /\ todo' \in Seq(Byte) /\ need' \in Nat /\ seen' \in Seq(Byte) /\ crashed' \in BOOLEAN
        /\ access' \in {"none", "ro", "rw"}
    <3>1. <<>> \in Seq(Byte)
      OBVIOUS
    <3>2. todo' = <<>> /\ need' = 0
      BY <1>1, <1>2
    <3>3. crashed' \in BOOLEAN /\ access' \in {"none", "ro", "rw"}
      BY <1>1, <1>2
    <3>4. todo' \in Seq(Byte) /\ need' \in Nat /\ seen' \in Seq(Byte)
      BY <1>1, <3>1, <3>2
    <3>. QED
      BY <3>3, <3>4
  <2>. QED
    BY <1>1, <1>3, <1>4, <2>1, StillSound
<1>6. File!Close
  BY <1>1 DEF File!Close
<1>. QED
  BY <1>5, <1>6 DEF FileStep, File!Next

(* clear of the device keeps the invariant and is a step of the file.      *)
LEMMA ClearDevStep ==
  ASSUME SInv, ClearDev
  PROVE  SInv' /\ FileStep
<1>1. /\ access = "rw" /\ Idle /\ Cleared /\ chunk' = Len(chunks') /\ pos0' = 0 /\ pos' = 0
      /\ access' = access /\ UNCHANGED <<todo, need, seen>> /\ crashed' = crashed
  BY DEF ClearDev
<1>2. /\ RingOK' /\ Flat(chunks') = <<>>
      /\ chunks = <<>> => chunks' = <<>>
      /\ chunks # <<>> => chunks' \in Rings /\ Len(chunks') = 1
  BY <1>1, ClearedIs
<1>3. crashed = FALSE
  BY <1>1 DEF Idle, SInv, TypeOK
<1>4. Placed(chunks', chunk', pos0', pos')
  <2>1. CASE chunks = <<>>
    BY <1>1, <1>2, <2>1 DEF Placed
  <2>2. CASE chunks # <<>>
    <3>1. chunk' = 1 /\ chunks' # <<>>
      <4>1. Len(chunks') = 1 /\ chunk' = Len(chunks')
        BY <1>1, <1>2, <2>2
      <4>2. Len(<<>>) = 0
        OBVIOUS
      <4>. QED
        BY <4>1, <4>2
    <3>. QED
      BY <1>1, <1>2, <2>2, <3>1, StartAt DEF Placed
  <2>. QED
    BY <2>1, <2>2
<1>5. CrashOnlyWithoutChunks' /\ crashed' \in BOOLEAN
  BY <1>1, <1>3 DEF CrashOnlyWithoutChunks
<1>6. SInv'
  <2>1. access' \in {"ro", "rw"}
    BY <1>1
  <2>. QED
    BY <1>1, <1>2, <1>4, <1>5, <2>1, DeviceSound
<1>7. File!Wipe
  BY <1>1, <1>2 DEF File!Wipe
<1>. QED
  BY <1>6, <1>7 DEF FileStep, File!Next

(* truncate keeps the invariant and is a step of the file.                 *)
LEMMA TruncateStep ==
  ASSUME SInv, Truncate
  PROVE  SInv' /\ FileStep
<1>1. /\ access = "rw" /\ Idle /\ Resize(pos)
      /\ access' = access /\ chunk' = chunk /\ pos0' = pos0 /\ pos' = pos
      /\ UNCHANGED <<todo, need, seen>>
  BY DEF Truncate, device
<1>2. /\ RingOK /\ pos \in Nat /\ pos <= size /\ size = Len(Flat(chunks)) /\ size \in Nat
      /\ pos \in 0 .. MaxSize /\ crashed = FALSE
      /\ chunks = <<>> => chunk = 0 /\ pos = 0 /\ pos0 = 0
      /\ Placed(chunks, chunk, pos0, pos)
  <2>1. /\ RingOK /\ pos \in Nat /\ pos <= size /\ size = Len(Flat(chunks)) /\ size \in Nat
        /\ size <= MaxSize /\ MaxSize \in Nat
        /\ chunks = <<>> => chunk = 0 /\ pos = 0 /\ pos0 = 0
    BY Facts
  <2>2. Placed(chunks, chunk, pos0, pos)
    BY <1>1, PlacedIs
  <2>3. crashed = FALSE
    BY <1>1 DEF Idle, SInv, TypeOK
  <2>. QED
    BY <2>1, <2>2, <2>3
<1>3. access' \in {"ro", "rw"}
  BY <1>1
<1>4. CASE Crashes
  <2>1. chunks' = chunks /\ size' = size /\ chunks = <<>> /\ crashed' = TRUE
    BY <1>4 DEF Crashes, ring
  <2>2. RingOK' /\ Placed(chunks', chunk', pos0', pos')
    BY <1>1, <1>2, <2>1 DEF RingOK, SizeExact
  <2>3. CrashOnlyWithoutChunks' /\ crashed' \in BOOLEAN
    BY <1>1, <1>2, <2>1 DEF CrashOnlyWithoutChunks
  <2>4. SInv'
    BY <1>1, <1>3, <2>2, <2>3, DeviceSound
  <2>5. FileStep
    BY <1>1, <2>1 DEF FileStep, File!vars
  <2>. QED
    BY <2>4, <2>5
<1>5. CASE ~ Crashes
  <2>1. IsResized(pos)
    BY <1>1, <1>2, <1>5, ResizedIs
  <2>2. /\ RingOK' /\ chunks' \in Rings /\ crashed' = FALSE
        /\ Flat(chunks') = SubSeq(Flat(chunks), 1, pos)
        /\ At(chunks, chunk, pos0, pos) => At(chunks', chunk, pos0, pos)
    BY <1>2, <2>1 DEF IsResized, File!Resized
  <2>3. chunks # <<>>
    <3>1. SUFFICES ASSUME chunks = <<>> PROVE FALSE
      OBVIOUS
    <3>2. ~ (pos > size)
      BY <1>2
    <3>3. crashed' = TRUE
      BY <1>1, <3>1, <3>2 DEF Resize
    <3>. QED
      BY <2>2, <3>3
  <2>4. Placed(chunks', chunk', pos0', pos')
    <3>1. At(chunks', chunk, pos0, pos)
      BY <1>2, <2>2, <2>3 DEF Placed
    <3>2. chunks' # <<>>
      BY <2>2 DEF Rings
    <3>. QED
      BY <1>1, <3>1, <3>2 DEF Placed
  <2>5. CrashOnlyWithoutChunks' /\ crashed' \in BOOLEAN
    BY <2>2 DEF CrashOnlyWithoutChunks
  <2>6. SInv'
    BY <1>1, <1>3, <2>2, <2>4, <2>5, DeviceSound
  <2>7. File!Truncate
    BY <1>1, <2>2 DEF File!Truncate
  <2>. QED
    BY <2>6, <2>7 DEF FileStep, File!Next
<1>. QED
  BY <1>4, <1>5

(* Where a turn of write() stores.                                         *)
WriteRing ==
  CASE ~NeedsChunk -> chunks
    [] chunk = 0 -> <<NewChunk(ChunkSize)>>
    [] OTHER -> Append(chunks, NewChunk(ChunkSize))
WriteChunk == IF NeedsChunk THEN Len(WriteRing) ELSE chunk
WriteStart == IF NeedsChunk /\ chunk # 0 THEN pos0 + chunks[chunk].cap ELSE pos0

IsReady(ch, c, p0) == ch \in Rings /\ Flat(ch) = Flat(chunks) /\ Points(ch, c, p0, pos)

(* Where write starts: a head chunk is made first if there is none.        *)
LEMMA ReadyIs ==
  ASSUME SInv, access # "none"
  PROVE  IsReady(WriteRing, WriteChunk, WriteStart)
<1>1. /\ chunks \in Ring /\ Packed(chunks) /\ HeadAt \in Nat
      /\ chunks = <<>> => chunk = 0 /\ pos = 0 /\ pos0 = 0
      /\ chunks # <<>> => chunks \in Rings
      /\ pos \in Nat /\ pos0 \in Nat
  BY Facts DEF RingOK
<1>2. Placed(chunks, chunk, pos0, pos)
  BY PlacedIs
<1>3. ChunkSize \in 1 .. MaxSize + ChunkSize
  BY NewChunkIs, ByteSeqAssumption DEF ByteSeqAssumption
<1>4. CASE ~ NeedsChunk
  <2>1. chunk # 0
    BY <1>4 DEF NeedsChunk
  <2>2. WriteRing = chunks /\ WriteChunk = chunk /\ WriteStart = pos0
    <3>1. WriteRing = chunks
      BY <1>4, <2>1 DEF WriteRing
    <3>2. WriteChunk = chunk /\ WriteStart = pos0
      BY <1>4 DEF WriteChunk, WriteStart
    <3>. QED
      BY <3>1, <3>2
  <2>3. chunks # <<>> /\ At(chunks, chunk, pos0, pos)
    BY <1>2, <2>1 DEF Placed
  <2>. QED
    BY <1>1, <2>2, <2>3 DEF IsReady, At
<1>5. CASE chunk = 0
  <2>1. NeedsChunk
    BY <1>5 DEF NeedsChunk
  <2>2. WriteRing = <<NewChunk(ChunkSize)>> /\ WriteStart = pos0 /\ WriteChunk = Len(WriteRing)
    BY <1>5, <2>1 DEF WriteRing, WriteStart, WriteChunk
  <2>3. IsOne(<<>>, WriteRing)
    BY <1>3, <2>2, NewChunkIs, ByteSeqAssumption
  <2>4. Packed(WriteRing) /\ Len(WriteRing) = 1 /\ Flat(WriteRing) = <<>> /\ StartOf(WriteRing, 1) = 0
    BY <2>3 DEF IsOne
  <2>5. WriteRing \in Rings
    <3>1. WriteRing \in Ring /\ Len(WriteRing) # 0
      BY <2>4 DEF Packed
    <3>. QED
      BY <2>4, <3>1 DEF Rings
  <2>6. chunks = <<>> /\ pos = 0 /\ pos0 = 0
    <3>1. ~ At(chunks, chunk, pos0, pos)
      BY <1>1, <1>5 DEF At, Points
    <3>. QED
      BY <1>2, <3>1 DEF Placed
  <2>7. Points(WriteRing, 1, 0, 0)
    BY <2>5, StartAt DEF At
  <2>. QED
    BY <2>2, <2>4, <2>5, <2>6, <2>7, FlatEmpty DEF IsReady
<1>6. CASE NeedsChunk /\ chunk # 0
  <2> DEFINE w == Append(chunks, NewChunk(ChunkSize))
  <2>1. WriteRing = w /\ WriteStart = pos0 + chunks[chunk].cap /\ WriteChunk = Len(WriteRing)
    BY <1>6 DEF WriteRing, WriteStart, WriteChunk
  <2>2. chunk = Len(chunks) /\ pos - pos0 = chunks[chunk].cap
    BY <1>6 DEF NeedsChunk, InChunk, HeadAt
  <2>3. chunks # <<>> /\ chunks \in Rings /\ Points(chunks, chunk, pos0, pos)
    BY <1>1, <1>2, <1>6 DEF Placed, At
  <2>4. /\ Len(chunks[chunk].data) \in Nat /\ chunks[chunk].cap \in 1 .. MaxSize + ChunkSize
        /\ Len(Flat(chunks)) \in Nat
    BY <1>1, <2>3, PointsIn
  <2>5. Len(chunks[chunk].data) <= chunks[chunk].cap /\ pos <= pos0 + Len(chunks[chunk].data)
        /\ pos0 = StartOf(chunks, chunk) /\ chunk \in 1 .. Len(chunks)
    BY <1>1, <2>3 DEF Packed, Points
  <2>6. Len(chunks[chunk].data) = chunks[chunk].cap /\ pos = pos0 + chunks[chunk].cap
    BY <1>1, <2>2, <2>4, <2>5
  <2>7. Full(chunks)
    BY <1>1, <2>2, <2>3, <2>6 DEF Full, Rings
  <2>8. IsLonger(chunks, w)
    BY <2>7, FurtherChunk, ByteSeqAssumption
  <2> HIDE DEF w
  <2>9. /\ Packed(w) /\ Len(w) = Len(chunks) + 1 /\ Flat(w) = Flat(chunks)
        /\ StartOf(w, Len(w)) = Len(Flat(chunks))
    BY <2>8 DEF IsLonger
  <2>10. w \in Rings /\ w \in Ring
    <3>1. w \in Ring /\ Len(w) # 0
      BY <1>1, <2>9 DEF Packed, HeadAt
    <3>. QED
      BY <2>9, <3>1 DEF Rings
  <2>11. Len(Flat(chunks)) = pos
    <3>1. chunk \in 1 .. Len(chunks) + 1
      BY <1>1, <2>5 DEF HeadAt
    <3>2. chunk = Len(chunks) => StartOf(chunks, chunk) + Len(chunks[chunk].data) = Len(Flat(chunks))
      BY <1>1, <2>5, <3>1, Starts
    <3>. QED
      BY <2>2, <2>5, <2>6, <3>2
  <2>12. Points(w, Len(w), pos, pos)
    <3>1. Len(w) \in 1 .. Len(w) /\ Len(w) \in 1 .. Len(w) + 1
      BY <1>1, <2>9 DEF HeadAt
    <3>2. Len(w[Len(w)].data) \in Nat
      BY <2>10, <3>1, Starts
    <3>. QED
      BY <1>1, <2>9, <2>11, <3>1, <3>2 DEF Points
  <2>13. WriteStart = pos
    BY <2>1, <2>6
  <2>. QED
    BY <2>1, <2>9, <2>10, <2>12, <2>13 DEF IsReady
<1>. QED
  BY <1>4, <1>5, <1>6 DEF NeedsChunk

(* What fits there.                                                        *)
RoomAt(ch, c, q) == IF c = Len(ch) THEN ch[c].cap - q ELSE Len(ch[c].data) - q
Taken(s, room) == IF Len(s) < room THEN Len(s) ELSE room

IsTurn(ch, c, p0, p, s, n) ==
  /\ n \in Nat /\ n <= Len(s)
  /\ SubSeq(s, 1, n) \in Bytes /\ Len(SubSeq(s, 1, n)) = n
  /\ SubSeq(s, n + 1, Len(s)) \in Bytes /\ Len(SubSeq(s, n + 1, Len(s))) = Len(s) - n
  /\ Storable(ch, c, p0, p, SubSeq(s, 1, n))

(* What one turn of write leaves.                                          *)
LEMMA TurnIs ==
  ASSUME NEW ch \in Rings, NEW c, NEW p0, NEW p, Points(ch, c, p0, p), NEW s \in Bytes,
         NEW n, n = Taken(s, RoomAt(ch, c, p - p0)), n > 0
  PROVE  IsTurn(ch, c, p0, p, s, n)
<1> DEFINE r == RoomAt(ch, c, p - p0)
           u == SubSeq(s, 1, n)
           v == SubSeq(s, n + 1, Len(s))
           l == Len(ch[c].data)
<1>1. /\ ch \in Ring /\ Packed(ch) /\ c \in 1 .. Len(ch) /\ p0 <= p /\ p <= p0 + l
  BY RoomIs DEF Rings, Points
<1>2. p0 \in Nat /\ p \in Nat /\ l \in Nat /\ ch[c].cap \in 1 .. MaxSize + ChunkSize
  BY <1>1, PointsIn
<1>3. l <= ch[c].cap /\ Len(s) \in Nat
  BY <1>1 DEF Packed, Bytes
<1>4. r \in Nat /\ (p - p0) + r <= ch[c].cap /\ (c # Len(ch) => (p - p0) + r <= l)
  <2>1. CASE c = Len(ch)
    <3>1. r = ch[c].cap - (p - p0)
      BY <2>1 DEF RoomAt
    <3> HIDE DEF r, l
    <3>. QED
      BY <1>1, <1>2, <1>3, <2>1, <3>1
  <2>2. CASE c # Len(ch)
    <3>1. r = l - (p - p0)
      BY <2>2 DEF RoomAt
    <3> HIDE DEF r, l
    <3>. QED
      BY <1>1, <1>2, <1>3, <2>2, <3>1
  <2>. QED
    BY <2>1, <2>2
<1> HIDE DEF r
<1>5. n \in Nat /\ n <= Len(s) /\ n <= r
  <2>1. n = IF Len(s) < r THEN Len(s) ELSE r
    BY DEF Taken, r
  <2>. QED
    BY <1>3, <1>4, <2>1
<1>6. u \in Bytes /\ Len(u) = n
  <2>1. SubSeq(s, 0 + 1, n) \in Bytes /\ Len(SubSeq(s, 0 + 1, n)) = IF 0 <= n THEN n - 0 ELSE 0
    <3>1. 0 \in Nat /\ n \in Nat /\ n <= Len(s)
      BY <1>5
    <3>. QED
      BY <3>1, BytesPart
  <2>. QED
    BY <1>5, <2>1
<1>7. v \in Bytes /\ Len(v) = Len(s) - n
  <2>1. v \in Bytes /\ Len(v) = IF n <= Len(s) THEN Len(s) - n ELSE 0
    <3>1. Len(s) \in Nat /\ n \in Nat /\ Len(s) <= Len(s)
      BY <1>3, <1>5
    <3>. QED
      BY <3>1, BytesPart
  <2>. QED
    BY <1>5, <2>1
<1> HIDE DEF u, v
<1>8. (p - p0) + n <= ch[c].cap /\ (c # Len(ch) => (p - p0) + n <= l)
  <2> DEFINE x == p - p0
             y == ch[c].cap
  <2>1. x \in Int /\ y \in Nat
    <3>1. p \in Nat /\ p0 \in Nat /\ MaxSize + ChunkSize \in Nat
      BY <1>2, ByteSeqAssumption DEF ByteSeqAssumption
    <3>. QED
      BY <1>2, <3>1
  <2>2. r \in Nat /\ n \in Nat /\ n <= r /\ x + r <= y /\ (c # Len(ch) => x + r <= l) /\ l \in Nat
    BY <1>2, <1>4, <1>5
  <2> HIDE DEF l, x, y
  <2>3. x + n <= y /\ (c # Len(ch) => x + n <= l)
    BY <2>1, <2>2
  <2>. QED
    BY <2>3 DEF x, y
<1>9. Storable(ch, c, p0, p, u)
  BY <1>1, <1>6, <1>8 DEF Storable
<1>10. /\ u \in Bytes /\ Len(u) = n /\ v \in Bytes /\ Len(v) = Len(s) - n
       /\ Storable(ch, c, p0, p, u)
  BY <1>6, <1>7, <1>9
<1>. QED
  BY <1>5, <1>10 DEF IsTurn, u, v

(* A turn of write keeps the invariant and overwrites in the file.         *)
LEMMA WriteTurnStep ==
  ASSUME SInv, access = "rw", ~crashed, need = 0, NEW s \in Bytes, pos + Len(s) <= MaxSize, Write_Turn(s)
  PROVE  SInv' /\ FileStep
<1> DEFINE ch == WriteRing
           c == WriteChunk
           p0 == WriteStart
           n == Taken(s, RoomAt(ch, c, pos - p0))
           u == SubSeq(s, 1, n)
           q == pos + n
           w == Stored(ch, c, pos - p0, u)
           f == Flat(chunks)
<1>1. /\ n > 0 /\ chunks' = w /\ Advance(ch, c, p0, n)
      /\ todo' = SubSeq(s, n + 1, Len(s))
      /\ UNCHANGED <<access, need, seen, crashed>>
  BY DEF Write_Turn, WriteRing, WriteChunk, WriteStart, Taken, RoomAt
<1>2. ch \in Rings /\ Flat(ch) = f /\ Points(ch, c, p0, pos)
  BY ReadyIs DEF IsReady
<1>3. /\ RingOK /\ size = Len(f) /\ size \in Nat /\ pos \in Nat /\ size <= MaxSize /\ MaxSize \in Nat
  BY Facts
<1> HIDE DEF ch, c, p0, w, f
<1>4. IsTurn(ch, c, p0, pos, s, n)
  <2> DEFINE m == n
  <2> HIDE DEF n
  <2>1. n = Taken(s, RoomAt(ch, c, pos - p0))
    BY DEF n
  <2>. QED
    BY <1>1, <1>2, <2>1, TurnIs
<1> HIDE DEF n, u, q
<1>5. /\ n \in Nat /\ n <= Len(s) /\ n # 0 /\ Len(s) \in Nat
      /\ u \in Bytes /\ Len(u) = n
      /\ todo' \in Bytes /\ Len(todo') = Len(s) - n
      /\ Storable(ch, c, p0, pos, u)
  <2>1. Len(s) \in Nat
    BY DEF Bytes
  <2>. QED
    BY <1>1, <1>4, <2>1 DEF IsTurn, u
<1>6. IsStored(ch, c, p0, pos, u, w)
  BY <1>5, StoredIs DEF w
<1>7. /\ Packed(w) /\ Len(w) = Len(ch) /\ Flat(w) = Over(f, pos, u)
      /\ StartOf(w, c) = p0
      /\ c # Len(ch) => Len(w[c].data) = Len(ch[c].data)
      /\ q <= p0 + Len(w[c].data)
      /\ q <= size => Len(Flat(w)) = size
      /\ q > size => Len(Flat(w)) = q
  BY <1>2, <1>3, <1>5, <1>6 DEF IsStored, q
<1>8. q \in Nat /\ q <= MaxSize /\ q >= pos
  BY <1>3, <1>5 DEF q
<1>9. /\ p0 \in Nat /\ p0 <= pos /\ c \in 1 .. Len(ch) /\ Len(ch) # 0 /\ Len(ch) \in Nat
      /\ Len(ch[c].data) \in Nat
      /\ p0 + Len(ch[c].data) <= size
  <2>1. ch \in Ring
    BY <1>2 DEF Rings
  <2>2. /\ p0 \in Nat /\ Len(ch) # 0 /\ Len(ch) \in Nat /\ Len(ch[c].data) \in Nat
        /\ p0 + Len(ch[c].data) <= Len(Flat(ch))
    BY <1>2, <2>1, PointsIn
  <2>3. p0 <= pos /\ c \in 1 .. Len(ch)
    BY <1>2 DEF Points
  <2>. QED
    BY <1>2, <1>3, <2>2, <2>3
<1>a. /\ pos' = q
      /\ size' = IF q > size THEN q ELSE size
      /\ IF q <= size /\ c # Len(ch) /\ q - p0 >= Len(ch[c].data)
         THEN pos0' = p0 + Len(ch[c].data) /\ chunk' = c + 1
         ELSE pos0' = p0 /\ chunk' = c
  <2>1. Advance(ch, c, p0, n)
    BY <1>1
  <2>2. q - p0 = pos + n - p0
    BY <1>3, <1>5, <1>9 DEF q
  <2>3. pos' = q /\ size' = IF q > size THEN q ELSE size
    BY <2>1 DEF Advance, q
  <2>4. IF q <= size /\ c # Len(ch) /\ pos + n - p0 >= Len(ch[c].data)
        THEN pos0' = p0 + Len(ch[c].data) /\ chunk' = c + 1
        ELSE pos0' = p0 /\ chunk' = c
    BY <2>1, Zenon DEF Advance, q
  <2>. QED
    BY <2>2, <2>3, <2>4
<1>10. w \in Rings /\ w # <<>> /\ Points(w, c, p0, q)
  <2>1. w \in Ring /\ Len(w) # 0
    BY <1>7, <1>9 DEF Packed
  <2>2. w \in Rings
    BY <1>7, <2>1 DEF Rings
  <2>3. w # <<>>
    <3>1. Len(<<>>) = 0
      OBVIOUS
    <3>. QED
      BY <2>1, <3>1
  <2>4. Points(w, c, p0, q)
    <3>1. p0 <= q
      BY <1>3, <1>8, <1>9
    <3>. QED
      BY <1>7, <1>8, <1>9, <3>1 DEF Points
  <2>. QED
    BY <2>2, <2>3, <2>4
<1>11. At(w, chunk', pos0', q)
  <2>1. IF c # Len(w) /\ q - p0 >= Len(w[c].data)
        THEN At(w, c + 1, p0 + Len(w[c].data), q)
        ELSE At(w, c, p0, q)
    BY <1>10, AdvanceAt
  <2>2. IF q <= size /\ c # Len(ch) /\ q - p0 >= Len(ch[c].data)
        THEN pos0' = p0 + Len(ch[c].data) /\ chunk' = c + 1
        ELSE pos0' = p0 /\ chunk' = c
    BY <1>a
  <2>3. c # Len(ch) => q <= size
    <3>1. q \in Nat /\ p0 \in Nat /\ size \in Nat /\ Len(ch[c].data) \in Nat
      BY <1>3, <1>8, <1>9
    <3>2. SUFFICES ASSUME c # Len(ch) PROVE q <= size
      OBVIOUS
    <3>3. q <= p0 + Len(ch[c].data) /\ p0 + Len(ch[c].data) <= size
      BY <1>7, <1>9, <3>2
    <3>. QED
      BY <3>1, <3>3
  <2>4. CASE c # Len(ch) /\ q - p0 >= Len(ch[c].data)
    BY <1>7, <2>1, <2>2, <2>3, <2>4
  <2>5. CASE ~ (c # Len(ch) /\ q - p0 >= Len(ch[c].data))
    <3>1. ~ (c # Len(w) /\ q - p0 >= Len(w[c].data))
      BY <1>7, <2>5
    <3>2. At(w, c, p0, q)
      BY <2>1, <3>1
    <3>3. pos0' = p0 /\ chunk' = c
      BY <2>2, <2>5
    <3>. QED
      BY <3>2, <3>3
  <2>. QED
    BY <2>4, <2>5
<1>12. pos' = q /\ size' = Len(Flat(w)) /\ size' \in 0 .. MaxSize
  <2>1. pos' = q /\ size' = IF q > size THEN q ELSE size
    BY <1>a
  <2>2. size' = Len(Flat(w))
    <3>1. CASE q > size
      BY <1>7, <2>1, <3>1
    <3>2. CASE ~ (q > size)
      BY <1>3, <1>7, <1>8, <2>1, <3>2
    <3>. QED
      BY <3>1, <3>2
  <2>3. size' \in 0 .. MaxSize
    BY <1>3, <1>8, <2>1
  <2>. QED
    BY <2>1, <2>2, <2>3
<1>13. RingOK'
  BY <1>1, <1>7, <1>12 DEF RingOK, SizeExact
<1>14. Placed(chunks', chunk', pos0', pos')
  BY <1>1, <1>10, <1>11, <1>12 DEF Placed
<1>15. /\ access' = "rw" /\ seen' \in Seq(Byte) /\ need' = 0 /\ need' \in Nat /\ crashed' = FALSE
       /\ todo' \in Seq(Byte)
  BY <1>1, <1>5 DEF SInv, TypeOK, Bytes
<1>16. Calling' /\ CrashOnlyWithoutChunks'
  <2>1. pos' + Len(todo') <= MaxSize
    BY <1>3, <1>5, <1>12 DEF q
  <2>. QED
    BY <1>15, <2>1 DEF Calling, CrashOnlyWithoutChunks
<1>17. SInv'
  <2>1. access' \in {"none", "ro", "rw"} /\ access' # "none" /\ crashed' \in BOOLEAN
    BY <1>15
  <2>. QED
    BY <1>13, <1>14, <1>15, <1>16, <2>1, StillSound
<1>18. File!Write(u)
  <2>1. Flat(chunks') = File!Overwrite(Flat(chunks), pos, u)
    BY <1>1, <1>7 DEF File!Overwrite, Over, UpTo, From, f
  <2>2. pos' = pos + Len(u)
    BY <1>5, <1>12 DEF q
  <2>. QED
    BY <1>1, <2>1, <2>2 DEF File!Write
<1>19. u \in File!Pieces
  <2>1. Len(u) # 0 /\ Len(u) <= MaxSize
    BY <1>3, <1>5, <1>8 DEF q
  <2>. QED
    BY <1>5, <2>1, FilePiece
<1>20. File!Next
  BY <1>18, <1>19 DEF File!Next
<1>21. FileStep
  BY <1>20, Zenon DEF FileStep
<1>. QED
  BY <1>17, <1>21, Zenon

(* The first turn of write keeps the invariant and is a step of the file.  *)
LEMMA WriteStep ==
  ASSUME SInv, NEW s \in Pieces, Fits(pos + Len(s)), Write(s)
  PROVE  SInv' /\ FileStep
<1>1. access = "rw" /\ ~crashed /\ need = 0 /\ Write_Turn(s) /\ pos + Len(s) <= MaxSize
  BY DEF Write, Idle, Fits
<1>2. s \in Bytes
  BY PieceIs
<1>. QED
  BY <1>1, <1>2, WriteTurnStep

(* A further turn of write keeps the invariant and is a step of the file.  *)
LEMMA WriteMoreStep ==
  ASSUME SInv, Write_More
  PROVE  SInv' /\ FileStep
<1>1. todo # <<>> /\ Write_Turn(todo)
  BY DEF Write_More
<1>2. access = "rw" /\ ~crashed /\ need = 0 /\ pos + Len(todo) <= MaxSize /\ todo \in Bytes
  BY <1>1 DEF SInv, Calling, TypeOK, Bytes
<1>. QED
  BY <1>1, <1>2, WriteTurnStep

(* A turn of read keeps the invariant and takes the next bytes of the      *)
(* file.                                                                   *)
LEMMA ReadTurnStep ==
  ASSUME SInv, access # "none", ~crashed, todo = <<>>, NEW want \in Nat, want > 0, Read_Turn(want)
  PROVE  SInv' /\ FileStep
<1> DEFINE n == IF want < MappedForReading THEN want ELSE MappedForReading
           d == chunks[chunk].data
           f == Flat(chunks)
           i == pos - pos0
           q == pos + n
<1>1. /\ seen' = IF n = 0 THEN <<>> ELSE SubSeq(d, i + 1, i + n)
      /\ IF n = 0 THEN UNCHANGED <<chunk, pos0, pos, size>> ELSE Advance(chunks, chunk, pos0, n)
      /\ need' = IF n = 0 THEN 0 ELSE want - n
      /\ chunks' = chunks /\ access' = access /\ todo' = todo /\ crashed' = crashed
  BY DEF Read_Turn, InChunk
<1>2. /\ chunks \in Ring /\ f \in Bytes /\ RingOK /\ size = Len(f) /\ size \in Nat /\ pos \in Nat /\ pos0 \in Nat
      /\ size <= MaxSize /\ MaxSize \in Nat /\ pos <= size
      /\ chunks = <<>> => chunk = 0
      /\ chunks # <<>> => chunks \in Rings
  BY Facts
<1>3. Placed(chunks, chunk, pos0, pos)
  BY PlacedIs
<1>4. /\ access' \in {"none", "ro", "rw"} /\ access' # "none" /\ crashed' = FALSE /\ todo' = <<>>
      /\ seen \in Seq(Byte) /\ <<>> \in Seq(Byte)
  BY <1>1 DEF SInv, TypeOK
<1>5. ASSUME n = 0 PROVE SInv' /\ FileStep
  <2>1. /\ chunk' = chunk /\ pos0' = pos0 /\ pos' = pos /\ size' = size /\ need' = 0 /\ seen' = <<>>
    BY <1>1, <1>5
  <2> HIDE DEF n
  <2>2. RingOK' /\ Placed(chunks', chunk', pos0', pos')
    BY <1>1, <1>2, <1>3, <2>1 DEF RingOK, SizeExact
  <2>3. Calling' /\ CrashOnlyWithoutChunks'
    BY <1>4, <2>1 DEF Calling, CrashOnlyWithoutChunks
  <2>4. SInv'
    <3>1. todo' \in Seq(Byte) /\ seen' \in Seq(Byte) /\ need' \in Nat /\ crashed' \in BOOLEAN
      <4>1. need' \in Nat
        BY <2>1
      <4>. QED
        BY <1>4, <2>1, <4>1
    <3>. QED
      BY <1>4, <2>2, <2>3, <3>1, StillSound
  <2>5. File!Read(0)
    <3>1. SubSeq(f, pos + 1, pos + 0) = <<>>
      BY <1>2 DEF Bytes
    <3>2. pos + 0 = pos /\ pos + 0 <= Len(f)
      BY <1>2
    <3>. QED
      BY <1>1, <2>1, <3>1, <3>2 DEF File!Read
  <2>6. 0 \in 0 .. MaxSize
    BY <1>2
  <2>7. File!Next
    BY <2>5, <2>6 DEF File!Next
  <2>. QED
    BY <2>4, <2>7 DEF FileStep
<1>6. ASSUME n # 0 PROVE SInv' /\ FileStep
  <2>1. chunk # 0
    <3>1. SUFFICES ASSUME chunk = 0 PROVE FALSE
      OBVIOUS
    <3>2. MappedForReading = 0
      BY <3>1 DEF MappedForReading
    <3>. QED
      BY <1>6, <3>2
  <2>2. /\ chunks \in Rings /\ At(chunks, chunk, pos0, pos) /\ Points(chunks, chunk, pos0, pos)
    BY <1>2, <1>3, <2>1 DEF Placed, At
  <2>3. /\ d \in Bytes /\ Len(d) \in Nat /\ chunk \in 1 .. Len(chunks)
        /\ pos0 <= pos /\ pos <= pos0 + Len(d) /\ pos0 = StartOf(chunks, chunk)
        /\ pos0 + Len(d) <= size
    BY <1>2, <2>2, PointsIn DEF Points
  <2>4. MappedForReading = Len(d) - i
    BY <2>1 DEF MappedForReading, ChunkLen, InChunk
  <2>5. n = IF want < Len(d) - i THEN want ELSE Len(d) - i
    BY <2>4
  <2>6. Advance(chunks, chunk, pos0, n) /\ seen' = SubSeq(d, i + 1, i + n) /\ need' = want - n
    BY <1>1, <1>6
  <2>7. n # 0
    BY <1>6
  <2> HIDE DEF n, d
  <2>8. n \in Nat /\ n <= want /\ i \in Nat /\ i + n <= Len(d) /\ i + n \in Nat /\ q \in Nat /\ q <= pos0 + Len(d) /\ pos0 <= q
    <3>1. /\ pos \in Nat /\ pos0 \in Nat /\ want \in Nat /\ Len(d) \in Nat
          /\ pos0 <= pos /\ pos <= pos0 + Len(d) /\ n # 0
      BY <1>2, <2>3, <2>7
    <3>2. n = IF want < Len(d) - (pos - pos0) THEN want ELSE Len(d) - (pos - pos0)
      BY <2>5
    <3>3. pos - pos0 \in Nat /\ Len(d) - (pos - pos0) \in Nat
      BY <3>1
    <3>4. n \in Nat /\ n <= want /\ n <= Len(d) - (pos - pos0)
      BY <3>1, <3>2, <3>3
    <3>. QED
      BY <3>1, <3>3, <3>4
  <2>b. pos + n <= size /\ n <= MaxSize
    <3>1. /\ pos \in Nat /\ pos0 \in Nat /\ size \in Nat /\ MaxSize \in Nat /\ n \in Nat /\ Len(d) \in Nat
          /\ size <= MaxSize /\ pos0 + Len(d) <= size
      BY <1>2, <2>3, <2>8
    <3>2. pos + n <= pos0 + Len(d)
      BY <2>8
    <3>. QED
      BY <3>1, <3>2
  <2>9. /\ pos' = q
        /\ size' = size
        /\ IF chunk # Len(chunks) /\ q - pos0 >= Len(d)
           THEN pos0' = pos0 + Len(d) /\ chunk' = chunk + 1
           ELSE pos0' = pos0 /\ chunk' = chunk
    <3>1. pos + n <= size /\ ~ (pos + n > size)
      <4>1. pos \in Nat /\ n \in Nat /\ size \in Nat
        BY <1>2, <2>8
      <4>. QED
        BY <2>b, <4>1
    <3>2. pos' = q /\ size' = size
      BY <2>6, <3>1 DEF Advance
    <3>3. IF pos + n <= size /\ chunk # Len(chunks) /\ pos + n - pos0 >= Len(d)
          THEN pos0' = pos0 + Len(d) /\ chunk' = chunk + 1
          ELSE pos0' = pos0 /\ chunk' = chunk
      BY <2>6, Zenon DEF Advance, d
    <3>4. q - pos0 = pos + n - pos0
      BY <1>2, <2>8
    <3> HIDE DEF q
    <3>. QED
      BY <3>1, <3>2, <3>3, <3>4
  <2>10. Points(chunks, chunk, pos0, q)
    BY <2>3, <2>8 DEF Points, d
  <2>11. At(chunks, chunk', pos0', q)
    <3>1. IF chunk # Len(chunks) /\ q - pos0 >= Len(d)
          THEN At(chunks, chunk + 1, pos0 + Len(d), q)
          ELSE At(chunks, chunk, pos0, q)
      BY <2>2, <2>10, AdvanceAt DEF d
    <3> HIDE DEF q
    <3>. QED
      BY <2>9, <3>1
  <2>12. RingOK' /\ Placed(chunks', chunk', pos0', pos')
    <3>1. chunks # <<>>
      BY <1>2, <2>1
    <3>. QED
      BY <1>1, <1>2, <2>9, <2>11, <3>1 DEF RingOK, SizeExact, Placed
  <2>13. Calling' /\ CrashOnlyWithoutChunks'
    BY <1>1, <1>4 DEF Calling, CrashOnlyWithoutChunks
  <2>14. seen' = SubSeq(f, pos + 1, pos + n) /\ seen' \in Bytes
    <3> DEFINE a == Ahead(chunks, chunk)
               b == Behind(chunks, chunk)
    <3>1. a \in Bytes /\ Len(a) = pos0 /\ b \in Bytes /\ f = (a \o d) \o b
      BY <1>2, <2>3, FlatAround DEF d
    <3> HIDE DEF a, b, f
    <3>2. Three(a, d, b, f)
      BY <2>3, <3>1 DEF Three
    <3>3. SubSeq(f, Len(a) + i + 1, Len(a) + i + n) = SubSeq(d, i + 1, i + n)
      <4>1. i \in Nat /\ n \in Nat /\ i + n <= Len(d)
        BY <2>8
      <4> HIDE DEF i
      <4>. QED
        <5>1. SamePiece(f, Len(a), d, i, n)
          BY <3>2, <4>1, Middle
        <5>. QED
          BY <5>1 DEF SamePiece
    <3>4. Len(a) + i = pos
      BY <1>2, <3>1
    <3>5. SubSeq(d, i + 1, i + n) \in Bytes
      <4> DEFINE j == i + n
      <4>1. i \in Nat /\ j \in Nat /\ j <= Len(d) /\ d \in Bytes
        BY <2>3, <2>8
      <4> HIDE DEF i, j
      <4>2. SubSeq(d, i + 1, j) \in Bytes
        BY <4>1, BytesPart
      <4>. QED
        BY <4>2 DEF j
    <3>. QED
      BY <2>6, <3>3, <3>4, <3>5
  <2>15. SInv'
    <3>1. todo' \in Seq(Byte) /\ seen' \in Seq(Byte)
      BY <1>4, <2>14 DEF Bytes
    <3>2. need' \in Nat
      BY <2>6, <2>8
    <3>3. crashed' \in BOOLEAN
      BY <1>4
    <3>. QED
      BY <1>4, <2>12, <2>13, <3>1, <3>2, <3>3, StillSound
  <2>16. File!Read(n)
    <3>1. pos + n <= Len(f)
      BY <1>2, <2>b
    <3>. QED
      BY <1>1, <2>9, <2>14, <3>1 DEF File!Read
  <2>17. n \in 0 .. MaxSize
    BY <1>2, <2>8, <2>b
  <2>18. File!Next
    BY <2>16, <2>17 DEF File!Next
  <2>. QED
    BY <2>15, <2>18 DEF FileStep
<1>. QED
  BY <1>5, <1>6

(* The first turn of read keeps the invariant and is a step of the file.   *)
LEMMA ReadStep ==
  ASSUME SInv, NEW n \in 1 .. MaxSize, Read(n)
  PROVE  SInv' /\ FileStep
<1>1. access # "none" /\ ~crashed /\ todo = <<>> /\ Read_Turn(n) /\ n \in Nat /\ n > 0
  BY DEF Read, Idle
<1>. QED
  BY <1>1, ReadTurnStep

(* A further turn of read keeps the invariant and is a step of the file.   *)
LEMMA ReadMoreStep ==
  ASSUME SInv, Read_More
  PROVE  SInv' /\ FileStep
<1>1. need > 0 /\ Read_Turn(need)
  BY DEF Read_More
<1>2. access # "none" /\ ~crashed /\ todo = <<>> /\ need \in Nat
  BY <1>1 DEF SInv, Calling, TypeOK
<1>. QED
  BY <1>1, <1>2, ReadTurnStep

(* seek().                                                                 *)
LEMMA TargetIs ==
  ASSUME SInv, NEW off \in Int, NEW dir \in {"beg", "curr", "end"}
  PROVE  Target(off, dir) \in Nat
<1>1. pos \in Nat /\ size \in Nat
  BY Facts
<1>. QED
  BY <1>1 DEF Target

(* A seek that leaves the ring alone is one of the file.                   *)
LEMMA MovedStep ==
  ASSUME SInv, Idle, access # "none", NEW p \in Nat, p <= MaxSize,
         UNCHANGED <<access, todo, need, seen, ring, crashed>>,
         pos' = IF p <= size THEN p ELSE size, p <= size \/ access = "ro",
         Placed(chunks, chunk', pos0', pos')
  PROVE  SInv' /\ FileStep
<1>1. RingOK /\ size = Len(Flat(chunks)) /\ size \in Nat /\ MaxSize \in Nat
  BY Facts
<1>2. chunks' = chunks /\ size' = size /\ access' = access /\ crashed' = crashed
  BY DEF ring
<1>3. crashed = FALSE /\ access \in {"ro", "rw"}
  BY DEF Idle, SInv, TypeOK
<1>4. RingOK' /\ Placed(chunks', chunk', pos0', pos')
  BY <1>1, <1>2 DEF RingOK, SizeExact
<1>5. CrashOnlyWithoutChunks' /\ crashed' \in BOOLEAN /\ access' \in {"ro", "rw"}
  BY <1>2, <1>3 DEF CrashOnlyWithoutChunks
<1>6. SInv'
  BY <1>4, <1>5, DeviceSound
<1>7. File!Seek(p)
  <2>1. CASE p <= size
    BY <1>1, <1>2, <2>1 DEF File!Seek
  <2>2. CASE ~ (p <= size)
    <3>1. access = "ro" /\ access # "rw"
      BY <2>2
    <3>. QED
      BY <1>1, <1>2, <2>2, <3>1 DEF File!Seek
  <2>. QED
    BY <2>1, <2>2
<1>8. p \in 0 .. MaxSize
  BY <1>1
<1>. QED
  BY <1>6, <1>7, <1>8 DEF FileStep, File!Next

(* A seek at or past the end goes to the end of the last chunk; then it    *)
(* grows the sequence or stays.                                            *)
LEMMA SeekPastStep ==
  ASSUME SInv, Idle, access # "none", NEW p \in Nat, p <= MaxSize, UNCHANGED <<access, todo, need, seen>>,
         p > pos0, p >= size, Seek_Forward(p)
  PROVE  SInv' /\ FileStep
<1>1. /\ RingOK /\ size = Len(Flat(chunks)) /\ size \in Nat /\ MaxSize \in Nat
      /\ chunks = <<>> => chunk = 0 /\ pos = 0 /\ pos0 = 0 /\ size = 0
      /\ chunks # <<>> => chunks \in Rings
  BY Facts
<1>2. crashed = FALSE /\ access \in {"ro", "rw"} /\ access' = access
  BY DEF Idle, SInv, TypeOK
<1>3. CASE chunks = <<>> /\ (access = "ro" \/ p = size)
  <2>1. crashed' = TRUE /\ UNCHANGED <<ring, chunk, pos0, pos>>
    BY <1>3 DEF Seek_Forward
  <2>2. /\ chunks' = chunks /\ size' = size /\ chunk' = chunk /\ pos0' = pos0 /\ pos' = pos
    BY <2>1 DEF ring
  <2>3. RingOK' /\ Placed(chunks', chunk', pos0', pos')
    BY <1>1, <1>3, <2>2 DEF RingOK, SizeExact, Placed
  <2>4. CrashOnlyWithoutChunks' /\ crashed' \in BOOLEAN /\ access' \in {"ro", "rw"}
    BY <1>1, <1>2, <1>3, <2>1, <2>2 DEF CrashOnlyWithoutChunks
  <2>5. SInv'
    BY <2>3, <2>4, DeviceSound
  <2>6. FileStep
    BY <2>2 DEF FileStep, File!vars
  <2>. QED
    BY <2>5, <2>6
<1>4. CASE ~ (chunks = <<>> /\ (access = "ro" \/ p = size))
  <2>1. /\ IF access = "rw" /\ p > size THEN Resize(p) ELSE UNCHANGED <<ring, crashed>>
        /\ pos' = size'
        /\ chunk' = Len(chunks')
        /\ pos0' = pos' - Len(Last(chunks').data)
    BY <1>4 DEF Seek_Forward
  <2>2. CASE access = "rw" /\ p > size
    <3>1. Resize(p) /\ p \in 0 .. MaxSize
      BY <1>1, <2>1, <2>2
    <3>2. IsResized(p)
      <4>1. ~ Crashes
        <5>1. size' = p /\ p # size
          BY <1>1, <2>2, <3>1 DEF Resize
        <5>. QED
          BY <5>1 DEF Crashes, ring
      <4>. QED
        BY <3>1, <4>1, ResizedIs
    <3>3. /\ RingOK' /\ chunks' \in Rings /\ crashed' = FALSE /\ size' = p
          /\ Flat(chunks') = File!Resized(Flat(chunks), p)
      BY <1>2, <3>2 DEF IsResized
    <3>4. Placed(chunks', chunk', pos0', pos')
      <4>1. size' = Len(Flat(chunks'))
        BY <3>3 DEF RingOK, SizeExact
      <4>2. At(chunks', Len(chunks'), Len(Flat(chunks')) - Len(Last(chunks').data), Len(Flat(chunks')))
        BY <3>3, EndAt
      <4>3. At(chunks', chunk', pos0', pos')
        BY <2>1, <4>1, <4>2
      <4>4. chunks' # <<>>
        BY <3>3 DEF Rings
      <4>. QED
        BY <4>3, <4>4 DEF Placed
    <3>5. CrashOnlyWithoutChunks' /\ crashed' \in BOOLEAN /\ access' \in {"ro", "rw"}
      BY <1>2, <3>3 DEF CrashOnlyWithoutChunks
    <3>6. SInv'
      BY <3>3, <3>4, <3>5, DeviceSound
    <3>7. File!Seek(p)
      <4>1. ~ (p <= Len(Flat(chunks)))
        BY <1>1, <2>2
      <4>. QED
        BY <2>1, <2>2, <3>3, <4>1 DEF File!Seek
    <3>. QED
      BY <3>1, <3>6, <3>7 DEF FileStep, File!Next
  <2>3. CASE ~ (access = "rw" /\ p > size)
    <3>1. UNCHANGED <<ring, crashed>>
      BY <2>1, <2>3
    <3>2. chunks' = chunks /\ size' = size
      BY <3>1 DEF ring
    <3>3. chunks # <<>>
      BY <1>1, <1>2, <1>4, <2>3
    <3>4. At(chunks, Len(chunks), Len(Flat(chunks)) - Len(Last(chunks).data), Len(Flat(chunks)))
      BY <1>1, <3>3, EndAt
    <3>5. pos' = size /\ chunk' = Len(chunks) /\ pos0' = size - Len(Last(chunks).data)
      BY <2>1, <3>2
    <3>6. Placed(chunks, chunk', pos0', pos')
      BY <1>1, <3>3, <3>4, <3>5 DEF Placed
    <3>7. pos' = IF p <= size THEN p ELSE size
      BY <1>1, <3>5
    <3>8. p <= size \/ access = "ro"
      BY <1>1, <1>2, <2>3
    <3>. QED
      BY <3>1, <3>6, <3>7, <3>8, MovedStep
  <2>. QED
    BY <2>2, <2>3
<1>. QED
  BY <1>3, <1>4

(* A seek past the start of the chunk keeps the invariant and is a step of *)
(* the file.                                                               *)
LEMMA SeekForwardStep ==
  ASSUME SInv, Idle, access # "none", NEW p \in Nat, p <= MaxSize, UNCHANGED <<access, todo, need, seen>>,
         Seek_Forward(p)
  PROVE  SInv' /\ FileStep
<1>1. /\ size = Len(Flat(chunks)) /\ size \in Nat
      /\ chunks = <<>> => size = 0
      /\ chunks # <<>> => chunks \in Rings
  BY Facts
<1>2. p > pos0
  BY DEF Seek_Forward
<1>3. CASE p >= size
  BY <1>2, <1>3, SeekPastStep
<1>4. CASE ~ (p >= size)
  <2> DEFINE i == CHOOSE k \in DOMAIN chunks : Reached(chunks, chunk, p, k)
  <2>1. p < size /\ chunks # <<>> /\ chunks \in Rings
    BY <1>1, <1>4
  <2>2. At(chunks, chunk, pos0, pos)
    BY <2>1, PlacedIs DEF Placed
  <2>3. chunk \in 1 .. Len(chunks) /\ pos0 = StartOf(chunks, chunk) /\ DOMAIN chunks = 1 .. Len(chunks)
    BY <2>1, <2>2 DEF At, Points, Rings, Ring
  <2>4. /\ chunk' = i
        /\ pos0' = pos0 + Len(Flat(SubSeq(chunks, chunk, chunk' - 1)))
        /\ pos' = p
        /\ UNCHANGED <<ring, crashed>>
    BY <1>4, Zenon DEF Seek_Forward, Reached, HeadAt, ChunkLen
  <2>5. i \in 1 .. Len(chunks) /\ Reached(chunks, chunk, p, i)
    <3>1. \E k \in DOMAIN chunks : Reached(chunks, chunk, p, k)
      BY <1>2, <2>1, <2>3, ReachedExists
    <3>. QED
      BY <2>3, <3>1
  <2> HIDE DEF i
  <2>6. At(chunks, i, StartOf(chunks, chunk) + Len(Flat(Part(chunks, chunk, i))), p)
    BY <1>1, <1>2, <2>1, <2>3, <2>5, ReachedAt
  <2>7. Placed(chunks, chunk', pos0', pos')
    BY <2>1, <2>3, <2>4, <2>6 DEF Placed, Part
  <2>8. pos' = IF p <= size THEN p ELSE size
    BY <1>1, <2>1, <2>4
  <2>9. p <= size
    BY <1>1, <2>1
  <2>. QED
    BY <2>4, <2>7, <2>8, <2>9, MovedStep
<1>. QED
  BY <1>3, <1>4

(* A seek before the chunk keeps the invariant and is a step of the file.  *)
LEMMA SeekBackStep ==
  ASSUME SInv, Idle, access # "none", NEW p \in Nat, p <= MaxSize, UNCHANGED <<access, todo, need, seen>>,
         Seek_Back(p)
  PROVE  SInv' /\ FileStep
<1>1. /\ size = Len(Flat(chunks)) /\ size \in Nat /\ pos \in Nat /\ pos0 \in Nat /\ pos <= size
      /\ chunks = <<>> => chunk = 0 /\ pos0 = 0
      /\ chunks # <<>> => chunks \in Rings
  BY Facts
<1>2. p <= pos0 /\ pos' = p /\ UNCHANGED <<ring, crashed>>
  BY DEF Seek_Back
<1>3. Placed(chunks, chunk, pos0, pos)
  BY PlacedIs
<1>4. pos0 <= pos
  BY <1>1, <1>3 DEF Placed, At, Points
<1>5. p <= size /\ pos' = IF p <= size THEN p ELSE size
  BY <1>1, <1>2, <1>4
<1>6. Placed(chunks, chunk', pos0', pos')
  <2>1. CASE p = pos0
    <3>1. chunk' = chunk /\ pos0' = pos0
      BY <2>1 DEF Seek_Back
    <3>2. CASE chunks = <<>>
      BY <1>1, <1>2, <2>1, <3>1, <3>2 DEF Placed
    <3>3. CASE chunks # <<>>
      <4>1. chunks \in Rings /\ At(chunks, chunk, pos0, pos)
        BY <1>1, <1>3, <3>3 DEF Placed
      <4>2. Points(chunks, chunk, pos0, pos) /\ (chunk # Len(chunks) => pos < pos0 + Len(chunks[chunk].data))
        BY <4>1 DEF At
      <4>3. Len(chunks[chunk].data) \in Nat
        BY <4>1, <4>2, PointsIn DEF Rings
      <4>4. pos0 <= pos0 /\ pos0 <= pos0 + Len(chunks[chunk].data)
            /\ (chunk # Len(chunks) => pos0 < pos0 + Len(chunks[chunk].data))
        BY <1>1, <1>4, <4>2, <4>3
      <4>5. At(chunks, chunk, pos0, pos0)
        BY <1>1, <4>2, <4>4 DEF At, Points
      <4>. QED
        BY <1>2, <2>1, <3>1, <3>3, <4>5 DEF Placed
    <3>. QED
      BY <3>2, <3>3
  <2>2. CASE p # pos0
    <3> DEFINE S == {k \in 1 .. chunk - 1 : pos0 - Len(Flat(SubSeq(chunks, k, chunk - 1))) <= p}
    <3>1. /\ chunk' = Max(S)
          /\ pos0' = pos0 - Len(Flat(SubSeq(chunks, Max(S), chunk - 1)))
      BY <2>2, Zenon DEF Seek_Back
    <3>2. p < pos0 /\ chunks # <<>> /\ chunks \in Rings
      BY <1>1, <1>2, <2>2
    <3>3. At(chunks, chunk, pos0, pos)
      BY <1>3, <3>2 DEF Placed
    <3>4. chunk \in 1 .. Len(chunks) /\ pos0 = StartOf(chunks, chunk)
      BY <3>3 DEF At, Points
    <3>5. Starting(chunks, chunk, p, S)
      BY <3>4, Zenon DEF Starting, Part
    <3> HIDE DEF S
    <3>6. At(chunks, Max(S), StartOf(chunks, chunk) - Len(Flat(Part(chunks, Max(S), chunk))), p)
      BY <3>2, <3>4, <3>5, BackAt
    <3>. QED
      BY <1>2, <3>1, <3>2, <3>4, <3>6 DEF Placed, Part
  <2>. QED
    BY <2>1, <2>2
<1>. QED
  BY <1>2, <1>5, <1>6, MovedStep

(* seek keeps the invariant and is a step of the file.                     *)
LEMMA SeekStep ==
  ASSUME SInv, NEW off \in -MaxSize .. MaxSize, NEW dir \in {"beg", "curr", "end"},
         Fits(Target(off, dir)), Seek(off, dir)
  PROVE  SInv' /\ FileStep
<1> DEFINE p == Target(off, dir)
<1>1. /\ access # "none" /\ Idle /\ UNCHANGED <<access, todo, need, seen>>
      /\ Seek_Forward(p) \/ Seek_Back(p)
  BY DEF Seek
<1>2. p \in Nat /\ p <= MaxSize
  <2>1. off \in Int
    OBVIOUS
  <2>. QED
    BY <2>1, TargetIs DEF Fits
<1> HIDE DEF p
<1>. QED
  BY <1>1, <1>2, SeekForwardStep, SeekBackStep

-----------------------------------------------------------------------------

(* Every step keeps the invariant and is a step of the file, or none.      *)
LEMMA NextStep ==
  ASSUME SInv, Next
  PROVE  SInv' /\ FileStep
<1>1. CASE \E sz \in 0 .. MaxSize : ResizeSeq(sz)
  BY <1>1, ResizeSeqStep
<1>2. CASE \E s \in Pieces \union {<<>>} : Fits(Len(s)) /\ Assign(s)
  BY <1>2, AssignStep
<1>3. CASE \E s \in Pieces : Fits(pos + Len(s)) /\ Write(s)
  BY <1>3, WriteStep
<1>4. CASE \E n \in 1 .. MaxSize : Read(n)
  BY <1>4, ReadStep
<1>5. CASE \E off \in -MaxSize .. MaxSize, dir \in {"beg", "curr", "end"} :
             Fits(Target(off, dir)) /\ Seek(off, dir)
  BY <1>5, SeekStep
<1>6. CASE \E how \in {"ro", "rw"} : Open(how)
  BY <1>6, OpenStep
<1>7. CASE ClearSeq
  BY <1>7, ClearSeqStep
<1>8. CASE Release
  BY <1>8, ReleaseStep
<1>9. CASE Close
  BY <1>9, CloseStep
<1>10. CASE ClearDev
  BY <1>10, ClearDevStep
<1>11. CASE Truncate
  BY <1>11, TruncateStep
<1>12. CASE Write_More
  BY <1>12, WriteMoreStep
<1>13. CASE Read_More
  BY <1>13, ReadMoreStep
<1>. QED
  BY <1>1, <1>2, <1>3, <1>4, <1>5, <1>6, <1>7, <1>8, <1>9, <1>10, <1>11, <1>12, <1>13 DEF Next

(* A step that changes nothing.                                            *)
LEMMA StutterStep ==
  ASSUME SInv, UNCHANGED vars
  PROVE  SInv' /\ FileStep
<1>1. UNCHANGED <<chunks, size, access, chunk, pos0, pos, todo, need, seen, crashed>>
  BY DEF vars, ring, device
<1>2. SInv'
  BY <1>1 DEF SInv, TypeOK, SizeExact, Cursor, NoCursor, Calling, CrashOnlyWithoutChunks, HeadAt
<1>3. FileStep
  BY <1>1 DEF FileStep, File!vars
<1>. QED
  BY <1>2, <1>3

(* The sequence starts sound.                                              *)
LEMMA InitSound == Init => SInv
<1> SUFFICES ASSUME Init PROVE SInv
  OBVIOUS
<1>1. /\ chunks = <<>> /\ size = 0 /\ access = "none" /\ chunk = 0 /\ pos0 = 0 /\ pos = 0
      /\ todo = <<>> /\ need = 0 /\ seen = <<>> /\ crashed = FALSE
  BY DEF Init
<1>2. MaxSize \in Nat
  BY ByteSeqAssumption DEF ByteSeqAssumption
<1>3. chunks \in Ring /\ Flat(chunks) = <<>> /\ Len(chunks) = 0
  BY <1>1, FlatEmpty
<1>4. TypeOK
  <2>1. chunks \in Seq(Chunk) /\ size \in 0 .. MaxSize /\ chunk \in 0 .. HeadAt /\ pos0 \in Nat /\ pos \in Nat
        /\ need \in Nat
    BY <1>1, <1>2, <1>3 DEF Ring, HeadAt
  <2>2. todo \in Seq(Byte) /\ seen \in Seq(Byte)
    BY <1>1
  <2>. QED
    BY <1>1, <2>1, <2>2 DEF TypeOK
<1>5. Packed(chunks)
  BY <1>3 DEF Packed
<1>6. SizeExact
  BY <1>1, <1>3 DEF SizeExact
<1>7. Cursor /\ NoCursor /\ Calling /\ CrashOnlyWithoutChunks
  BY <1>1 DEF Cursor, NoCursor, Calling, CrashOnlyWithoutChunks
<1>. QED
  BY <1>4, <1>5, <1>6, <1>7 DEF SInv

(* The invariant the run checks follows.                                   *)
LEMMA SoundIsInv == SInv => Inv
<1> SUFFICES ASSUME SInv PROVE Inv
  OBVIOUS
<1>1. TypeOK /\ Packed(chunks) /\ SizeExact /\ Cursor /\ CrashOnlyWithoutChunks
  BY DEF SInv
<1>2. chunks \in Ring /\ DOMAIN chunks = 1 .. Len(chunks)
  BY <1>1 DEF Packed, Ring
<1>3. \A i \in 1 .. HeadAt - 1 : ChunkLen(i) = chunks[i].cap
  BY <1>1 DEF Packed, HeadAt, ChunkLen
<1>4. \A i \in DOMAIN chunks : ChunkLen(i) <= chunks[i].cap
  BY <1>1, <1>2 DEF Packed, ChunkLen
<1>5. ASSUME access # "none", chunk # 0
      PROVE  /\ pos0 = StartOf(chunks, chunk)
             /\ pos0 <= pos /\ pos <= pos0 + ChunkLen(chunk)
             /\ chunk # HeadAt => pos < pos0 + ChunkLen(chunk)
  BY <1>1, <1>5 DEF Cursor, At, Points, ChunkLen, HeadAt
<1>6. CursorInChunk
  BY <1>1, <1>3, <1>4, <1>5 DEF CursorInChunk, Cursor
<1>. QED
  BY <1>1, <1>6 DEF Inv

(* The inductive invariant holds always.                                   *)
LEMMA SoundAlways == Spec => []SInv
<1>1. SInv /\ [Next]_vars => SInv'
  BY NextStep, StutterStep
<1>. QED
  BY InitSound, <1>1, PTL DEF Spec

(* The device's chunk, chunk start and position agree in every state, all  *)
(* chunks but the last are full, size_ is what the chunks hold, and the    *)
(* only crash is on a sequence that has no chunk (byteseq, byteseqdev).    *)
THEOREM InvHolds == Spec => []Inv
BY SoundAlways, SoundIsInv, PTL

(* A sequence of chunks with a device on it behaves as a flat file with a  *)
(* cursor: every turn of a write overwrites or extends the file where the  *)
(* cursor is, every turn of a read returns the bytes there, and seek,      *)
(* truncate, resize, assign and clear do to the flat bytes what they say.  *)
THEOREM ImplementsFile == Spec => IsAFile
<1>1. Init => File!Init
  <2> SUFFICES ASSUME Init PROVE File!Init
    OBVIOUS
  <2>. QED
    BY FlatEmpty DEF Init, File!Init
<1>2. SInv /\ [Next]_vars => [File!Next]_(File!vars)
  BY NextStep, StutterStep DEF FileStep
<1>. QED
  BY <1>1, <1>2, SoundAlways, PTL DEF Spec, IsAFile, File!Spec
=============================================================================
