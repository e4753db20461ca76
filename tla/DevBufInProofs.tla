--------------------------- MODULE DevBufInProofs ---------------------------
(***************************************************************************)
(* Proofs about DevBufIn, for every file, buffer size and device: what     *)
(* remove_crlf computes, which text the program gets, where it is told     *)
(* that it is, and when the end is reported.                               *)
(***************************************************************************)
EXTENDS DevBufIn, FoldProofs, FiniteSetTheorems

Text == Seq(Char)

-----------------------------------------------------------------------------
(* Decode, one character at a time.                                        *)
DecodeChar(acc, c) ==
  IF c = "LF" /\ acc # <<>> /\ Last(acc) = "CR" THEN Append(Front(acc), "LF") ELSE Append(acc, c)
DecodeStep == [vc \in Text \X Char |-> DecodeChar(vc[1], vc[2])]

(* A text's last character and the text before it.                         *)
LEMMA LastFront ==
  ASSUME NEW s \in Text, s # <<>>
  PROVE  /\ Last(s) \in Char /\ Front(s) \in Text /\ s = Append(Front(s), Last(s))
         /\ Len(s) \in Nat \ {0} /\ Len(Front(s)) = Len(s) - 1 /\ Last(s) = s[Len(s)]
         /\ \A i \in 1 .. Len(s) - 1 : Front(s)[i] = s[i]
<1>1. PICK t \in Text, c \in Char : s = Append(t, c)
  BY SequenceEmptyOrAppend DEF Text
<1>2. Len(s) = Len(t) + 1 /\ Len(t) \in Nat /\ s[Len(s)] = c
  BY <1>1 DEF Text
<1>3. Front(s) = t
  <2>1. SubSeq(s, 1, Len(t)) = t
    BY <1>1, <1>2 DEF Text
  <2>. QED
    BY <1>2, <2>1 DEF Front
<1>4. \A i \in 1 .. Len(t) : t[i] = s[i]
  BY <1>1 DEF Text
<1>. QED
  BY <1>1, <1>2, <1>3, <1>4 DEF Last

(* One character more leads to a text.                                     *)
LEMMA DecodeCharType ==
  ASSUME NEW acc \in Text, NEW c \in Char
  PROVE  DecodeChar(acc, c) \in Text
<1>1. CASE acc # <<>>
  BY <1>1, LastFront DEF DecodeChar, Text, Char
<1>2. CASE acc = <<>>
  BY <1>2 DEF DecodeChar, Text, Char
<1>. QED
  BY <1>1, <1>2

(* Decode's step stays within texts.                                       *)
LEMMA DecodeFoldable == Foldable(Text, Char, DecodeStep, <<>>)
<1>1. DecodeStep \in [Text \X Char -> Text]
  BY DecodeCharType DEF DecodeStep
<1>2. <<>> \in Text
  BY DEF Text
<1>. QED
  BY <1>1, <1>2 DEF Foldable

(* Decode is a fold, so FoldProofs applies.                                *)
LEMMA DecodeIsFold ==
  ASSUME NEW s \in Text
  PROVE  Decode(s) = Fold(DecodeStep, <<>>, s)
<1> DEFINE D == SUBSET (DOMAIN s)
           Solves(g) == g = [S \in D |-> IF S = {} THEN <<>> ELSE DecodeChar(g[S \ {Max(S)}], s[Max(S)])]
           f == CHOOSE g : Solves(g)
<1>1. Decode(s) = f[DOMAIN s]
  BY DEF Decode, FoldLeft, MapThenFoldSet, DecodeChar
<1>2. Len(s) \in Nat /\ DOMAIN s = 1 .. Len(s)
  BY DEF Text
<1>3. s \in Seq(Char)
  BY DEF Text
<1>4. Solves(f)
  <2>1. PICK g : IsFoldIter(g, Text, DecodeStep, <<>>, s)
    BY <1>3, FoldIter, DecodeFoldable
  <2>2. ASSUME NEW S \in D, S # {} PROVE g[S] = DecodeChar(g[S \ {Max(S)}], s[Max(S)])
    <3>1. Max(S) \in 1 .. Len(s)
      <4>1. S \subseteq 0 .. Len(s)
        BY <1>2
      <4>. QED
        BY <1>2, <2>2, <4>1, MaxOf
    <3>2. g[S \ {Max(S)}] \in Text /\ s[Max(S)] \in Char
      BY <1>3, <2>1, <3>1 DEF IsFoldIter
    <3>. QED
      BY <2>1, <2>2, <3>2 DEF IsFoldIter, DecodeStep
  <2>3. Solves(g)
    BY <2>1, <2>2 DEF IsFoldIter
  <2>4. \E g1 : Solves(g1)
    <3> HIDE DEF Solves
    <3>. QED
      BY <2>3
  <2>. QED
    <3> HIDE DEF Solves
    <3>. QED
      BY <2>4
<1> HIDE DEF f
<1>5. Follows(f, Text, DecodeStep, <<>>, s)
  <2>1. f[{}] = <<>>
    BY <1>4
  <2>2. ASSUME NEW k \in 1 .. Len(s), f[1 .. (k - 1)] \in Text
        PROVE  f[1 .. k] = DecodeStep[<<f[1 .. (k - 1)], s[k]>>]
    <3>1. 1 .. k \in D /\ 1 \in 1 .. k /\ s[k] \in Char /\ k \in Nat /\ k # 0
      BY <1>2, <1>3
    <3>2. Max(1 .. k) = k /\ (1 .. k) \ {Max(1 .. k)} = 1 .. (k - 1)
      BY <3>1, MaxOfInterval
    <3>3. f[1 .. k] = DecodeChar(f[1 .. (k - 1)], s[k])
      BY <1>4, <3>1, <3>2
    <3>. QED
      BY <2>2, <3>1, <3>3 DEF DecodeStep
  <2>. QED
    BY <2>1, <2>2 DEF Follows
<1>. QED
  BY <1>1, <1>3, <1>5, FoldOfIter, DecodeFoldable

(* Decode of nothing, of one more character, and where it may be cut.      *)
LEMMA DecodeEmpty == Decode(<<>>) = <<>>
<1>1. <<>> \in Text
  BY DEF Text
<1>. QED
  BY <1>1, DecodeIsFold, DecodeFoldable, FoldEmpty

(* What is decoded is a text.                                              *)
LEMMA DecodeType ==
  ASSUME NEW s \in Text
  PROVE  Decode(s) \in Text
BY DecodeIsFold, DecodeFoldable, FoldType DEF Text

(* Decoding one character more.                                            *)
LEMMA DecodeAppend ==
  ASSUME NEW s \in Text, NEW c \in Char
  PROVE  Decode(Append(s, c)) = DecodeChar(Decode(s), c)
<1>1. s \in Seq(Char) /\ Append(s, c) \in Text
  BY DEF Text
<1>2. Fold(DecodeStep, <<>>, Append(s, c)) = DecodeStep[<<Fold(DecodeStep, <<>>, s), c>>]
  BY <1>1, DecodeFoldable, FoldAppend
<1>3. Decode(Append(s, c)) = DecodeStep[<<Decode(s), c>>]
  BY <1>1, <1>2, DecodeIsFold
<1>. QED
  BY <1>3, DecodeType DEF DecodeStep

(* The last of an appended text and the rest.                              *)
LEMMA AppendFacts ==
  ASSUME NEW s \in Text, NEW c \in Char
  PROVE  /\ Append(s, c) \in Text /\ Append(s, c) # <<>>
         /\ Last(Append(s, c)) = c /\ Front(Append(s, c)) = s
<1>1. Append(s, c) \in Text /\ Len(Append(s, c)) = Len(s) + 1 /\ Append(s, c)[Len(s) + 1] = c
      /\ Len(s) \in Nat /\ \A i \in 1 .. Len(s) : Append(s, c)[i] = s[i]
  BY DEF Text
<1>2. Append(s, c) # <<>>
  BY AppendProperties DEF Text
<1>3. SubSeq(Append(s, c), 1, Len(s)) = s
  BY <1>1 DEF Text
<1>. QED
  BY <1>1, <1>2, <1>3 DEF Last, Front

(* The decoded text ends as the text does, and is empty only if that is.   *)
LEMMA DecodeLast ==
  ASSUME NEW s \in Text, s # <<>>
  PROVE  Decode(s) # <<>> /\ Last(Decode(s)) = Last(s)
<1>1. PICK t \in Text, c \in Char : s = Append(t, c)
  BY SequenceEmptyOrAppend DEF Text
<1>2. Last(s) = c
  BY <1>1, AppendFacts
<1>3. Decode(s) = DecodeChar(Decode(t), c) /\ Decode(t) \in Text
  BY <1>1, DecodeAppend, DecodeType
<1>4. CASE c = "LF" /\ Decode(t) # <<>> /\ Last(Decode(t)) = "CR"
  <2>1. Front(Decode(t)) \in Text
    BY <1>3, <1>4, LastFront
  <2>. QED
    BY <1>2, <1>3, <1>4, <2>1, AppendFacts DEF DecodeChar
<1>5. CASE ~ (c = "LF" /\ Decode(t) # <<>> /\ Last(Decode(t)) = "CR")
  BY <1>2, <1>3, <1>5, AppendFacts DEF DecodeChar
<1>. QED
  BY <1>4, <1>5

(* Between a and b there is no pair CR LF.                                 *)
Cut(a, b) == a = <<>> \/ b = <<>> \/ Last(a) # "CR" \/ b[1] # "LF"

(* Texts in a row, and a character after them.                             *)
LEMMA ConcatFacts ==
  ASSUME NEW s \in Text, NEW t \in Text, NEW c \in Char
  PROVE  /\ s \o t \in Text
         /\ s \o Append(t, c) = Append(s \o t, c)
         /\ s \o <<>> = s /\ <<>> \o s = s
BY DEF Text

(* The empty text is neutral.                                              *)
LEMMA ConcatEmpty ==
  ASSUME NEW s \in Text
  PROVE  s \o <<>> = s /\ <<>> \o s = s
BY DEF Text

(* What two texts in a row are, by position.                               *)
LEMMA ConcatType ==
  ASSUME NEW s \in Text, NEW t \in Text
  PROVE  /\ s \o t \in Text /\ Len(s \o t) = Len(s) + Len(t)
         /\ Len(s) \in Nat /\ Len(t) \in Nat
         /\ \A i \in 1 .. Len(s) : (s \o t)[i] = s[i]
         /\ \A i \in 1 .. Len(t) : (s \o t)[Len(s) + i] = t[i]
BY DEF Text

(* Texts of one length that agree everywhere are equal.                    *)
LEMMA TextEqual ==
  ASSUME NEW s \in Text, NEW t \in Text, Len(s) = Len(t), \A i \in 1 .. Len(s) : s[i] = t[i]
  PROVE  s = t
BY DEF Text

(* Texts in a row end as the second does.                                  *)
LEMMA ConcatEnd ==
  ASSUME NEW s \in Text, NEW t \in Text, t # <<>>
  PROVE  s \o t # <<>> /\ Last(s \o t) = Last(t) /\ Front(s \o t) = s \o Front(t)
<1>1. t = Append(Front(t), Last(t)) /\ Front(t) \in Text /\ Last(t) \in Char
  BY LastFront
<1> DEFINE w == s \o Front(t)
<1>2. s \o Append(Front(t), Last(t)) = Append(w, Last(t)) /\ w \in Text
  BY <1>1, ConcatFacts
<1> HIDE DEF w
<1>3. Append(w, Last(t)) # <<>> /\ Last(Append(w, Last(t))) = Last(t) /\ Front(Append(w, Last(t))) = w
  BY <1>1, <1>2, AppendFacts
<1>4. s \o t = Append(w, Last(t))
  BY <1>1, <1>2
<1>. QED
  BY <1>3, <1>4 DEF w

(* Decoding in two blocks is decoding at once, unless the cut parts a CR   *)
(* from its LF: why the code holds a CR back.                              *)
LEMMA DecodeConcat ==
  ASSUME NEW a \in Text, NEW b \in Text, Cut(a, b)
  PROVE  Decode(a \o b) = Decode(a) \o Decode(b)
<1> DEFINE A == {t \in Text : Cut(a, t) => Decode(a \o t) = Decode(a) \o Decode(t)}
<1>0. Decode(a) \in Text
  BY DecodeType
<1>1. <<>> \in A
  <2>1. <<>> \in Text
    BY DEF Text
  <2>2. a \o <<>> = a /\ Decode(a) \o <<>> = Decode(a)
    BY <1>0 DEF Text
  <2>. QED
    BY <2>1, <2>2, DecodeEmpty
<1>2. ASSUME NEW t \in Text, NEW c \in Char, t \in A PROVE Append(t, c) \in A
  <2> SUFFICES ASSUME Cut(a, Append(t, c))
               PROVE  Decode(a \o Append(t, c)) = Decode(a) \o Decode(Append(t, c))
    BY AppendFacts
  <2>1. /\ Decode(a \o Append(t, c)) = DecodeChar(Decode(a \o t), c)
        /\ Decode(Append(t, c)) = DecodeChar(Decode(t), c)
        /\ Decode(t) \in Text
    <3>1. a \o t \in Text /\ a \o Append(t, c) = Append(a \o t, c)
      BY ConcatFacts
    <3>2. Decode(Append(a \o t, c)) = DecodeChar(Decode(a \o t), c)
      BY <3>1, DecodeAppend
    <3>3. Decode(Append(t, c)) = DecodeChar(Decode(t), c)
      BY DecodeAppend
    <3>4. Decode(t) \in Text
      BY DecodeType
    <3>. QED
      BY <3>1, <3>2, <3>3, <3>4
  <2>2. CASE t = <<>>
    <3>1. Decode(t) = <<>> /\ a \o t = a /\ Decode(Append(t, c)) = <<c>>
      <4>1. Decode(t) = <<>> /\ a \o t = a
        BY <2>2, DecodeEmpty, ConcatFacts
      <4>. QED
        BY <2>1, <4>1 DEF DecodeChar
    <3>2. DecodeChar(Decode(a), c) = Append(Decode(a), c)
      <4>1. Append(t, c)[1] = c /\ Append(t, c) # <<>>
        BY <2>2 DEF Text
      <4>2. CASE a = <<>>
        BY <4>2, DecodeEmpty DEF DecodeChar
      <4>3. CASE a # <<>>
        <5>1. Last(Decode(a)) = Last(a)
          BY <4>3, DecodeLast
        <5>. QED
          BY <4>1, <4>3, <5>1 DEF DecodeChar, Cut
      <4>. QED
        BY <4>2, <4>3
    <3>3. Append(Decode(a), c) = Decode(a) \o <<c>>
      BY <1>0 DEF Text
    <3>. QED
      BY <2>1, <3>1, <3>2, <3>3
  <2>3. CASE t # <<>>
    <3>1. t[1] = Append(t, c)[1]
      BY <2>3 DEF Text
    <3>2. Decode(a \o t) = Decode(a) \o Decode(t)
      BY <1>2, <2>3, <3>1 DEF Cut
    <3>3. Decode(t) # <<>>
      BY <2>3, DecodeLast
    <3>4. DecodeChar(Decode(a) \o Decode(t), c) = Decode(a) \o DecodeChar(Decode(t), c)
      <4>1. Decode(a) \o Decode(t) # <<>> /\ Last(Decode(a) \o Decode(t)) = Last(Decode(t))
            /\ Front(Decode(a) \o Decode(t)) = Decode(a) \o Front(Decode(t))
        BY <1>0, <2>1, <3>3, ConcatEnd
      <4>2. Front(Decode(t)) \in Text /\ "LF" \in Char
        BY <2>1, <3>3, LastFront DEF Char
      <4>3. Decode(a) \o Append(Front(Decode(t)), "LF") = Append(Decode(a) \o Front(Decode(t)), "LF")
        BY <1>0, <4>2, ConcatFacts
      <4>4. Decode(a) \o Append(Decode(t), c) = Append(Decode(a) \o Decode(t), c)
        BY <1>0, <2>1, ConcatFacts
      <4>. QED
        BY <3>3, <4>1, <4>3, <4>4 DEF DecodeChar
    <3>. QED
      BY <2>1, <3>2, <3>4
  <2>. QED
    BY <2>2, <2>3
<1>3. Seq(Char) \subseteq A
  <2> HIDE DEF A
  <2>. QED
    BY <1>1, <1>2, SeqInduct DEF Text
<1>. QED
  BY <1>3 DEF Text

-----------------------------------------------------------------------------
(* remove_crlf, which moves the text down in place.                        *)
Hits(s) == {k \in 2 .. Len(s) : s[k] = "LF" /\ s[k - 1] = "CR"}
MoveChar(acc, i) ==
  LET p == IF acc.d[i - 1] # "CR" \/ acc.d[i] # "LF" THEN acc.p + 1 ELSE acc.p
  IN [d |-> [acc.d EXCEPT ![p - 1] = acc.d[i]], p |-> p]
MoveStart(s, k) == [d |-> [s EXCEPT ![k - 1] = "LF"], p |-> k - 1]
MoveIndexes(s, k) == [i \in 1 .. Len(s) - k + 1 |-> k + i - 1]
Moving(s) == [d : [1 .. Len(s) -> Char], p : Int]
MoveStep(s) == [vc \in Moving(s) \X (2 .. Len(s)) |-> MoveChar(vc[1], vc[2])]

(* The loop of remove_crlf stays within its states.                        *)
LEMMA MoveFoldable ==
  ASSUME NEW s \in Text, NEW k \in Hits(s)
  PROVE  /\ Foldable(Moving(s), 2 .. Len(s), MoveStep(s), MoveStart(s, k))
         /\ MoveIndexes(s, k) \in Seq(2 .. Len(s))
<1>1. Len(s) \in Nat /\ s \in [1 .. Len(s) -> Char] /\ k \in 2 .. Len(s)
  BY DEF Text, Hits
<1>2. ASSUME NEW acc \in Moving(s), NEW i \in 2 .. Len(s) PROVE MoveChar(acc, i) \in Moving(s)
  <2>1. acc.d \in [1 .. Len(s) -> Char] /\ acc.p \in Int /\ i \in 1 .. Len(s)
    BY <1>1 DEF Moving
  <2>2. acc.d[i] \in Char
    BY <2>1
  <2>3. \A p \in Int : [d |-> [acc.d EXCEPT ![p - 1] = acc.d[i]], p |-> p] \in Moving(s)
    BY <2>1, <2>2 DEF Moving
  <2>4. acc.p + 1 \in Int
    BY <2>1
  <2>. QED
    BY <2>1, <2>3, <2>4 DEF MoveChar
<1>3. MoveStart(s, k) \in Moving(s)
  BY <1>1 DEF Moving, MoveStart, Char
<1>4. MoveIndexes(s, k) \in [1 .. Len(s) - k + 1 -> 2 .. Len(s)]
  BY <1>1 DEF MoveIndexes
<1>5. MoveIndexes(s, k) \in Seq(2 .. Len(s))
  BY <1>1, <1>4
<1>. QED
  BY <1>2, <1>3, <1>5 DEF Foldable, MoveStep

(* The loop of remove_crlf is a fold.                                      *)
LEMMA MoveIsFold ==
  ASSUME NEW s \in Text, NEW k \in Hits(s)
  PROVE  FoldLeft(MoveChar, MoveStart(s, k), MoveIndexes(s, k))
         = Fold(MoveStep(s), MoveStart(s, k), MoveIndexes(s, k))
<1> DEFINE t == MoveIndexes(s, k)
           base == MoveStart(s, k)
           V == Moving(s)
           C == 2 .. Len(s)
           op == MoveStep(s)
           D == SUBSET (DOMAIN t)
           Solves(g) == g = [S \in D |-> IF S = {} THEN base ELSE MoveChar(g[S \ {Max(S)}], t[Max(S)])]
           f == CHOOSE g : Solves(g)
<1>1. FoldLeft(MoveChar, base, t) = f[DOMAIN t]
  BY DEF FoldLeft, MapThenFoldSet
<1>2. Foldable(V, C, op, base) /\ t \in Seq(C)
  BY MoveFoldable
<1>3. \A v \in V, c \in C : op[<<v, c>>] = MoveChar(v, c)
  BY DEF MoveStep
<1> HIDE DEF t, base, V, C, op
<1>4. Len(t) \in Nat /\ DOMAIN t = 1 .. Len(t)
  BY <1>2
<1>5. Solves(f)
  <2>1. PICK g : IsFoldIter(g, V, op, base, t)
    BY <1>2, FoldIter
  <2>2. ASSUME NEW S \in D, S # {} PROVE g[S] = MoveChar(g[S \ {Max(S)}], t[Max(S)])
    <3>1. Max(S) \in 1 .. Len(t)
      <4>1. S \subseteq 0 .. Len(t)
        BY <1>4
      <4>. QED
        BY <1>4, <2>2, <4>1, MaxOf
    <3>2. g[S \ {Max(S)}] \in V /\ t[Max(S)] \in C
      BY <1>2, <2>1, <3>1 DEF IsFoldIter
    <3>. QED
      BY <1>3, <2>1, <2>2, <3>2 DEF IsFoldIter
  <2>3. Solves(g)
    BY <2>1, <2>2 DEF IsFoldIter
  <2>4. \E g1 : Solves(g1)
    <3> HIDE DEF Solves
    <3>. QED
      BY <2>3
  <2>. QED
    <3> HIDE DEF Solves
    <3>. QED
      BY <2>4
<1> HIDE DEF f
<1>6. Follows(f, V, op, base, t)
  <2>1. f[{}] = base
    BY <1>5
  <2>2. ASSUME NEW j \in 1 .. Len(t), f[1 .. (j - 1)] \in V
        PROVE  f[1 .. j] = op[<<f[1 .. (j - 1)], t[j]>>]
    <3>1. 1 .. j \in D /\ 1 \in 1 .. j /\ t[j] \in C /\ j \in Nat /\ j # 0
      BY <1>2, <1>4
    <3>2. Max(1 .. j) = j /\ (1 .. j) \ {Max(1 .. j)} = 1 .. (j - 1)
      BY <3>1, MaxOfInterval
    <3>3. f[1 .. j] = MoveChar(f[1 .. (j - 1)], t[j])
      BY <1>5, <3>1, <3>2
    <3>. QED
      BY <1>3, <2>2, <3>1, <3>3
  <2>. QED
    BY <2>1, <2>2 DEF Follows
<1>7. f[DOMAIN t] = Fold(op, base, t)
  BY <1>2, <1>6, FoldOfIter
<1>. QED
  BY <1>1, <1>7 DEF t, base, op

(* remove_crlf by its first pair and the loop from there.                  *)
LEMMA RemoveCrLfDef ==
  ASSUME NEW s
  PROVE  RemoveCrLf(s) =
           IF Hits(s) = {} THEN s
           ELSE LET k == Min(Hits(s))
                    moved == FoldLeft(MoveChar, MoveStart(s, k), MoveIndexes(s, k))
                IN  SubSeq(moved.d, 1, moved.p - 1)
BY DEF RemoveCrLf, Hits, MoveChar, MoveStart, MoveIndexes, FoldLeft, MapThenFoldSet

(* The beginnings of a text, one character at a time.                      *)
LEMMA SubSeqFacts ==
  ASSUME NEW s \in Text, NEW m \in Nat, m < Len(s)
  PROVE  /\ SubSeq(s, 1, m) \in Text /\ Len(SubSeq(s, 1, m)) = m
         /\ \A i \in 1 .. m : SubSeq(s, 1, m)[i] = s[i]
         /\ SubSeq(s, 1, m + 1) = Append(SubSeq(s, 1, m), s[m + 1]) /\ s[m + 1] \in Char
BY DEF Text

(* Before the first pair nothing changes.                                  *)
LEMMA DecodeNothing ==
  ASSUME NEW s \in Text, NEW m \in 0 .. Len(s), \A k \in 2 .. m : k \notin Hits(s)
  PROVE  Decode(SubSeq(s, 1, m)) = SubSeq(s, 1, m)
<1> DEFINE A == {j \in 0 .. m : Decode(SubSeq(s, 1, j)) = SubSeq(s, 1, j)}
<1>0. Len(s) \in Nat /\ m \in Nat
  BY DEF Text
<1>1. 0 \in A
  <2>1. SubSeq(s, 1, 0) = <<>>
    OBVIOUS
  <2>2. Decode(SubSeq(s, 1, 0)) = SubSeq(s, 1, 0)
    BY <2>1, DecodeEmpty
  <2>. QED
    BY <1>0, <2>2
<1>2. ASSUME NEW j \in 0 .. m - 1, j \in A PROVE j + 1 \in A
  <2> DEFINE t == SubSeq(s, 1, j)
             c == s[j + 1]
  <2>1. t \in Text /\ Len(t) = j /\ SubSeq(s, 1, j + 1) = Append(t, c) /\ c \in Char
        /\ \A i \in 1 .. j : t[i] = s[i]
    BY <1>0, SubSeqFacts
  <2>2. Decode(t) = t
    BY <1>2
  <2> HIDE DEF t, c
  <2>3. Decode(Append(t, c)) = DecodeChar(t, c)
    BY <2>1, <2>2, DecodeAppend
  <2>4. ~ (c = "LF" /\ t # <<>> /\ Last(t) = "CR")
    <3> SUFFICES ASSUME c = "LF", t # <<>>, Last(t) = "CR" PROVE FALSE
      OBVIOUS
    <3>1. j # 0 /\ Last(t) = s[j]
      BY <1>0, <2>1, LastFront
    <3>2. j + 1 \in Hits(s)
      BY <1>0, <3>1 DEF Hits, c
    <3>. QED
      BY <1>0, <3>1, <3>2
  <2>5. DecodeChar(t, c) = Append(t, c)
    BY <2>4 DEF DecodeChar
  <2>6. Decode(SubSeq(s, 1, j + 1)) = SubSeq(s, 1, j + 1)
    BY <2>1, <2>3, <2>5
  <2>7. j + 1 \in 0 .. m
    BY <1>0
  <2>. QED
    BY <2>6, <2>7
<1>3. 0 .. m \subseteq A
  <2> HIDE DEF A
  <2>. QED
    BY <1>0, <1>1, <1>2, IntervalInduct
<1>4. m \in A
  <2> HIDE DEF A
  <2>. QED
    BY <1>0, <1>3
<1>. QED
  BY <1>4

(* What one turn of the loop finds: the text up to p is the decoded text   *)
(* up to i, and from i on the text is as it was.                           *)
Moved(s, acc, i) ==
  /\ acc \in Moving(s)
  /\ acc.p \in 2 .. i
  /\ \A x \in i .. Len(s) : acc.d[x] = s[x]
  /\ SubSeq(acc.d, 1, acc.p - 1) = Decode(SubSeq(s, 1, i))

(* The loop's invariant at the first pair.                                 *)
LEMMA MovedStart ==
  ASSUME NEW s \in Text, NEW k \in Hits(s), \A j \in Hits(s) : k <= j
  PROVE  Moved(s, MoveChar(MoveStart(s, k), k), k)
<1> DEFINE a == MoveStart(s, k)
           b == MoveChar(a, k)
<1>1. Len(s) \in Nat /\ s \in [1 .. Len(s) -> Char] /\ k \in 2 .. Len(s) /\ s[k] = "LF" /\ s[k - 1] = "CR"
  BY DEF Text, Hits
<1>2. b = [d |-> [s EXCEPT ![k - 1] = "LF"], p |-> k]
  <2>1. a.d[k - 1] = "LF" /\ a.d[k] = "LF" /\ a.p = k - 1
    BY <1>1 DEF MoveStart
  <2>2. b = [d |-> [a.d EXCEPT ![k - 1] = a.d[k]], p |-> k]
    BY <1>1, <2>1 DEF MoveChar
  <2>3. [a.d EXCEPT ![k - 1] = "LF"] = a.d
    BY <1>1, <2>1 DEF MoveStart
  <2>. QED
    BY <2>1, <2>2, <2>3 DEF MoveStart
<1>3. SubSeq(b.d, 1, k - 1) = Append(SubSeq(s, 1, k - 2), "LF")
  BY <1>1, <1>2 DEF Text
<1>4. Decode(SubSeq(s, 1, k)) = Append(SubSeq(s, 1, k - 2), "LF")
  <2> DEFINE t == SubSeq(s, 1, k - 2)
             u == SubSeq(s, 1, k - 1)
  <2>1. t \in Text /\ u = Append(t, "CR") /\ SubSeq(s, 1, k) = Append(u, "LF") /\ "CR" \in Char /\ "LF" \in Char
    BY <1>1 DEF Text, Char
  <2>2. Decode(u) = u
    <3>1. k - 1 \in 0 .. Len(s) /\ \A j \in 2 .. (k - 1) : j \notin Hits(s)
      BY <1>1
    <3>. QED
      BY <3>1, DecodeNothing
  <2> HIDE DEF t, u
  <2>3. u \in Text /\ u # <<>> /\ Last(u) = "CR" /\ Front(u) = t
    BY <2>1, AppendFacts
  <2>4. Decode(Append(u, "LF")) = DecodeChar(u, "LF")
    BY <2>1, <2>2, <2>3, DecodeAppend
  <2>5. DecodeChar(u, "LF") = Append(t, "LF")
    BY <2>3 DEF DecodeChar
  <2>. QED
    BY <2>1, <2>4, <2>5 DEF t
<1>5. b \in Moving(s)
  BY <1>1, <1>2 DEF Moving, Char
<1>6. \A x \in k .. Len(s) : b.d[x] = s[x]
  BY <1>1, <1>2
<1>7. b.p = k
  BY <1>2
<1> HIDE DEF b
<1>. QED
  BY <1>1, <1>3, <1>4, <1>5, <1>6, <1>7 DEF Moved, b

(* A character stored at the end of the part kept.                         *)
LEMMA ExceptFacts ==
  ASSUME NEW d \in Text, NEW p \in 1 .. Len(d), NEW c \in Char
  PROVE  SubSeq([d EXCEPT ![p] = c], 1, p) = Append(SubSeq(d, 1, p - 1), c)
BY DEF Text

(* Each turn of the loop keeps its invariant: the part kept is the         *)
(* decoding of the part read.                                              *)
LEMMA MovedNext ==
  ASSUME NEW s \in Text, NEW i \in 2 .. Len(s) - 1, NEW acc, Moved(s, acc, i)
  PROVE  Moved(s, MoveChar(acc, i + 1), i + 1)
<1> DEFINE b == MoveChar(acc, i + 1)
           t == SubSeq(s, 1, i)
           c == s[i + 1]
           u == SubSeq(acc.d, 1, acc.p - 1)
<1>1. /\ Len(s) \in Nat /\ i \in Nat /\ s \in [1 .. Len(s) -> Char]
      /\ acc.d \in [1 .. Len(s) -> Char] /\ acc.p \in 2 .. i
      /\ acc.d[i] = s[i] /\ acc.d[i + 1] = c /\ c \in Char
      /\ \A x \in i .. Len(s) : acc.d[x] = s[x]
  BY DEF Moved, Moving, Text
<1>2. t \in Text /\ t # <<>> /\ Last(t) = s[i] /\ SubSeq(s, 1, i + 1) = Append(t, c)
  <2>0. i \in Nat /\ i < Len(s) /\ i \in 1 .. i
    BY <1>1
  <2>1. /\ t \in Text /\ Len(t) = i
        /\ \A x \in 1 .. i : t[x] = s[x]
        /\ SubSeq(s, 1, i + 1) = Append(t, s[i + 1])
    BY <2>0, SubSeqFacts
  <2> HIDE DEF t
  <2>2. t # <<>>
    BY <2>0, <2>1
  <2>. QED
    BY <2>0, <2>1, <2>2 DEF Last
<1>3. u = Decode(t) /\ u \in Text /\ u # <<>> /\ Last(u) = s[i]
  <2>1. u = Decode(t)
    BY DEF Moved
  <2>. QED
    BY <1>2, <2>1, DecodeType, DecodeLast
<1>4. Decode(SubSeq(s, 1, i + 1)) = DecodeChar(u, c)
  BY <1>1, <1>2, <1>3, DecodeAppend
<1> HIDE DEF c, u, t
<1>5. acc.d \in Text /\ Len(acc.d) = Len(s)
  <2>1. Len(s) \in Nat /\ acc.d \in [1 .. Len(s) -> Char]
    BY <1>1
  <2>. QED
    BY <2>1 DEF Text
<1>b. acc.d[(i + 1) - 1] = s[i]
  BY <1>1
<1>6. CASE s[i] = "CR" /\ c = "LF"
  <2> DEFINE d == [acc.d EXCEPT ![acc.p - 1] = c]
  <2>1. b = [d |-> d, p |-> acc.p]
    BY <1>1, <1>6, <1>b DEF MoveChar
  <2>2. SubSeq(d, 1, acc.p - 1) = Append(SubSeq(acc.d, 1, acc.p - 2), c)
    <3>1. acc.p - 1 \in 1 .. Len(acc.d) /\ (acc.p - 1) - 1 = acc.p - 2
      BY <1>1, <1>5
    <3> DEFINE q == acc.p - 1
    <3>2. q \in 1 .. Len(acc.d) /\ acc.d \in Text /\ c \in Char
      BY <1>1, <1>5, <3>1
    <3> HIDE DEF q
    <3>3. SubSeq([acc.d EXCEPT ![q] = c], 1, q) = Append(SubSeq(acc.d, 1, q - 1), c)
      BY <3>2, ExceptFacts
    <3>. QED
      BY <3>1, <3>3 DEF q
  <2>3. Front(u) = SubSeq(acc.d, 1, acc.p - 2)
    BY <1>1, <1>5 DEF Text, Front, u
  <2>4. DecodeChar(u, c) = Append(Front(u), c)
    BY <1>3, <1>6 DEF DecodeChar
  <2>5. d \in [1 .. Len(s) -> Char] /\ \A x \in i + 1 .. Len(s) : d[x] = s[x]
    BY <1>1
  <2> HIDE DEF d, b
  <2>6. b.d = d /\ b.p = acc.p
    BY <2>1
  <2>7. SubSeq(b.d, 1, b.p - 1) = Decode(SubSeq(s, 1, i + 1))
    BY <1>4, <2>2, <2>3, <2>4, <2>6
  <2>8. b \in Moving(s)
    BY <1>1, <2>1, <2>5 DEF Moving
  <2>9. b.p \in 2 .. i + 1 /\ \A x \in i + 1 .. Len(s) : b.d[x] = s[x]
    BY <1>1, <2>5, <2>6
  <2>. QED
    BY <2>7, <2>8, <2>9 DEF Moved, b
<1>7. CASE ~ (s[i] = "CR" /\ c = "LF")
  <2> DEFINE d == [acc.d EXCEPT ![acc.p] = c]
  <2>1. b = [d |-> d, p |-> acc.p + 1]
    <3>1. (acc.p + 1) - 1 = acc.p
      BY <1>1
    <3>. QED
      BY <1>1, <1>7, <1>b, <3>1 DEF MoveChar
  <2>2. SubSeq(d, 1, acc.p) = Append(u, c)
    <3>1. acc.p \in 1 .. Len(acc.d) /\ acc.d \in Text /\ c \in Char
      BY <1>1, <1>5
    <3>2. SubSeq([acc.d EXCEPT ![acc.p] = c], 1, acc.p) = Append(SubSeq(acc.d, 1, acc.p - 1), c)
      BY <3>1, ExceptFacts
    <3>. QED
      BY <3>2 DEF u
  <2>4. DecodeChar(u, c) = Append(u, c)
    BY <1>3, <1>7 DEF DecodeChar
  <2>5. d \in [1 .. Len(s) -> Char] /\ \A x \in i + 1 .. Len(s) : d[x] = s[x]
    BY <1>1
  <2> HIDE DEF d, b
  <2>6. b.d = d /\ b.p = acc.p + 1 /\ b.p - 1 = acc.p
    BY <1>1, <2>1
  <2>7. SubSeq(b.d, 1, b.p - 1) = Decode(SubSeq(s, 1, i + 1))
    BY <1>4, <2>2, <2>4, <2>6
  <2>8. b \in Moving(s)
    BY <1>1, <2>1, <2>5 DEF Moving
  <2>9. b.p \in 2 .. i + 1 /\ \A x \in i + 1 .. Len(s) : b.d[x] = s[x]
    BY <1>1, <2>5, <2>6
  <2>. QED
    BY <2>7, <2>8, <2>9 DEF Moved, b
<1>. QED
  BY <1>6, <1>7

(* remove_crlf is Decode: the loop that moves characters in place, never   *)
(* reading one that it has overwritten, turns every pair CR LF into LF and *)
(* leaves everything else.                                                 *)
THEOREM RemoveCrLfDecodes ==
  ASSUME NEW s \in Seq(Char)
  PROVE  RemoveCrLf(s) = Decode(s)
<1>0. s \in Text /\ Len(s) \in Nat /\ SubSeq(s, 1, Len(s)) = s
  BY DEF Text
<1>1. CASE Hits(s) = {}
  <2>1. Decode(SubSeq(s, 1, Len(s))) = SubSeq(s, 1, Len(s))
    <3>1. Len(s) \in 0 .. Len(s) /\ \A k \in 2 .. Len(s) : k \notin Hits(s)
      BY <1>0, <1>1
    <3>. QED
      BY <1>0, <3>1, DecodeNothing
  <2>. QED
    BY <1>0, <1>1, <2>1, RemoveCrLfDef
<1>2. CASE Hits(s) # {}
  <2> DEFINE k == Min(Hits(s))
             idx == MoveIndexes(s, k)
             base == MoveStart(s, k)
             op == MoveStep(s)
             n == Len(s) - k + 1
             acc(j) == Fold(op, base, SubSeq(idx, 1, j))
  <2>1. k \in Hits(s) /\ \A j \in Hits(s) : k <= j
    <3>1. Hits(s) \subseteq Nat
      BY <1>0 DEF Hits
    <3>. QED
      BY <1>2, <3>1, MinOf
  <2>2. k \in 2 .. Len(s) /\ n \in Nat \ {0}
    BY <1>0, <2>1 DEF Hits
  <2>3. /\ Foldable(Moving(s), 2 .. Len(s), op, base)
        /\ idx \in Seq(2 .. Len(s))
    BY <1>0, <2>1, MoveFoldable
  <2>4. Len(idx) = n /\ \A j \in 1 .. n : idx[j] = k + j - 1
    BY <1>0, <2>2 DEF MoveIndexes
  <2>5. Moved(s, MoveChar(base, k), k)
    BY <1>0, <2>1, MovedStart
  <2>6. FoldLeft(MoveChar, base, idx) = Fold(op, base, idx)
    BY <1>0, <2>1, MoveIsFold
  <2>7. \A v \in Moving(s), i \in 2 .. Len(s) : op[<<v, i>>] = MoveChar(v, i)
    BY DEF MoveStep
  <2>8. RemoveCrLf(s) = SubSeq(FoldLeft(MoveChar, base, idx).d, 1, FoldLeft(MoveChar, base, idx).p - 1)
    BY <1>2, RemoveCrLfDef
  <2> HIDE DEF k, idx, base, op, n
  <2>9. acc(0) = base
    <3>1. SubSeq(idx, 1, 0) = <<>>
      OBVIOUS
    <3>. QED
      BY <2>3, <3>1, FoldEmpty
  <2>10. ASSUME NEW j \in 0 .. n - 1 PROVE acc(j + 1) = MoveChar(acc(j), k + j)
    <3> DEFINE t == SubSeq(idx, 1, j)
               c == idx[j + 1]
    <3>0. idx \in Seq(2 .. Len(s)) /\ Len(idx) = n /\ j + 1 \in 1 .. n /\ j \in Nat /\ n \in Nat
      BY <2>2, <2>3, <2>4
    <3>1. t \in Seq(2 .. Len(s)) /\ c \in 2 .. Len(s) /\ SubSeq(idx, 1, j + 1) = Append(t, c)
      <4>1. c \in 2 .. Len(s)
        BY <3>0
      <4>2. t \in Seq(2 .. Len(s))
        BY <3>0
      <4>3. SubSeq(idx, 1, j + 1) = Append(t, c)
        BY <3>0
      <4>. QED
        BY <4>1, <4>2, <4>3
    <3>2. c = k + j
      BY <2>2, <2>4
    <3> HIDE DEF t, c
    <3>3. Fold(op, base, Append(t, c)) = op[<<Fold(op, base, t), c>>] /\ Fold(op, base, t) \in Moving(s)
      BY <2>3, <3>1, FoldAppend, FoldType
    <3>. QED
      BY <2>7, <3>1, <3>2, <3>3 DEF t
  <2> DEFINE A == {j \in 0 .. n - 1 : Moved(s, acc(j + 1), k + j)}
  <2> HIDE DEF acc
  <2>11. 0 \in A
    <3>1. acc(0 + 1) = MoveChar(base, k) /\ k + 0 = k /\ 0 \in 0 .. n - 1
      BY <2>2, <2>9, <2>10
    <3>. QED
      BY <2>5, <3>1
  <2>12. ASSUME NEW j \in 0 .. (n - 1) - 1, j \in A PROVE j + 1 \in A
    <3>1. j + 1 \in 0 .. n - 1 /\ k + (j + 1) = (k + j) + 1 /\ k + j \in 2 .. Len(s) - 1
      BY <1>0, <2>2 DEF n
    <3>2. Moved(s, acc(j + 1), k + j)
      BY <2>12
    <3>3. Moved(s, MoveChar(acc(j + 1), (k + j) + 1), (k + j) + 1)
      BY <1>0, <3>1, <3>2, MovedNext
    <3>4. acc((j + 1) + 1) = MoveChar(acc(j + 1), k + (j + 1))
      BY <2>10, <3>1
    <3>. QED
      BY <3>1, <3>3, <3>4
  <2>13. Moved(s, acc(n), Len(s))
    <3>1. n - 1 \in Nat
      BY <2>2
    <3>2. 0 .. n - 1 \subseteq A
      <4> HIDE DEF A
      <4>. QED
        BY <2>11, <2>12, <3>1, IntervalInduct
    <3>3. n - 1 \in A
      BY <3>1, <3>2
    <3>4. (n - 1) + 1 = n /\ k + (n - 1) = Len(s)
      BY <1>0, <2>2 DEF n
    <3>. QED
      BY <3>3, <3>4
  <2>14. acc(n) = FoldLeft(MoveChar, base, idx)
    <3>1. SubSeq(idx, 1, n) = idx
      BY <2>3, <2>4
    <3>. QED
      BY <2>6, <3>1 DEF acc
  <2>. QED
    BY <1>0, <2>8, <2>13, <2>14 DEF Moved
<1>. QED
  BY <1>1, <1>2
(* The text the device gave after a CR carried along, and what of a text   *)
(* can be shown before it is known what follows.                           *)
Held(cr) == IF cr THEN <<"CR">> ELSE <<>>
After(f, p) == SubSeq(f, p + 1, Len(f))
EndsCr(s) == s # <<>> /\ Last(s) = "CR"
Shown(s) == IF EndsCr(s) THEN Front(s) ELSE s
Visible(m, s) == IF m = "crlf" THEN Decode(Shown(s)) ELSE s
Given(f, st, p, ca) == Held(ca) \o SubSeq(f, st + 1, p)

(* The CR held back, if any, is a text.                                    *)
LEMMA HeldType ==
  ASSUME NEW cr
  PROVE  Held(cr) \in Text
<1>1. <<"CR">> \in Text /\ <<>> \in Text
  BY DEF Text, Char
<1>. QED
  BY <1>1 DEF Held

(* What is left of a text is a text.                                       *)
LEMMA AfterType ==
  ASSUME NEW f \in Text, NEW p \in Nat
  PROVE  After(f, p) \in Text
BY DEF After, Text

(* A block of n characters and what follows it.                            *)
InText(f, p, n) == f \in Text /\ p \in Nat /\ n \in Nat /\ p + n <= Len(f)

IsBlock(f, p, n, b) ==
  /\ b \in Text /\ Len(b) = n /\ b # <<>>
  /\ Last(b) = f[p + n]
  /\ After(f, p) = b \o After(f, p + n)

(* A block read takes the next characters of the file.                     *)
LEMMA AfterBlock ==
  ASSUME NEW f, NEW p, NEW n, InText(f, p, n), n # 0
  PROVE  IsBlock(f, p, n, SubSeq(f, p + 1, p + n))
<1> DEFINE b == SubSeq(f, p + 1, p + n)
<1>0. f \in Text /\ p \in Nat /\ n \in Nat \ {0} /\ p + n <= Len(f)
  BY DEF InText
<1>1. b \in Text /\ Len(b) = n /\ \A i \in 1 .. n : b[i] = f[p + i]
  <2>1. b \in Text
    BY <1>0 DEF Text
  <2>2. Len(b) = n
    BY <1>0 DEF Text
  <2>3. \A i \in 1 .. n : b[i] = f[p + i]
    BY <1>0 DEF Text
  <2>. QED
    BY <2>1, <2>2, <2>3
<1> DEFINE c == After(f, p + n)
           w == After(f, p)
<1>c. c \in Text /\ Len(c) = Len(f) - p - n /\ \A i \in 1 .. Len(f) - p - n : c[i] = f[p + n + i]
  BY <1>0 DEF Text, After
<1>w. w \in Text /\ Len(w) = Len(f) - p /\ \A i \in 1 .. Len(f) - p : w[i] = f[p + i]
  BY <1>0 DEF Text, After
<1>2. After(f, p) = b \o After(f, p + n)
  <2> HIDE DEF b, c, w
  <2>a. /\ b \o c \in Text /\ Len(b \o c) = Len(b) + Len(c)
        /\ \A i \in 1 .. Len(b) : (b \o c)[i] = b[i]
        /\ \A i \in 1 .. Len(c) : (b \o c)[Len(b) + i] = c[i]
    <3>1. b \in Text /\ c \in Text
      BY <1>1, <1>c
    <3>. QED
      BY <3>1, ConcatType
  <2>b. Len(f) \in Nat /\ n \in Nat /\ p \in Nat
    BY <1>0 DEF Text
  <2>1. Len(b \o c) = Len(w)
    BY <1>1, <1>c, <1>w, <2>a, <2>b
  <2>2. ASSUME NEW i \in 1 .. Len(f) - p PROVE (b \o c)[i] = w[i]
    <3>1. CASE i <= n
      BY <1>1, <1>w, <2>a, <2>b, <3>1
    <3>2. CASE i > n
      <4>1. i - n \in 1 .. Len(c) /\ n + (i - n) = i
        BY <1>c, <2>b, <3>2
      <4>2. (b \o c)[n + (i - n)] = c[i - n] /\ c[i - n] = f[p + n + (i - n)]
        BY <1>1, <1>c, <2>a, <4>1
      <4>3. p + n + (i - n) = p + i
        BY <2>b
      <4>. QED
        BY <1>w, <4>1, <4>2, <4>3
    <3>3. i <= n \/ i > n
      BY <2>b
    <3>. QED
      BY <3>1, <3>2, <3>3
  <2>3. b \o c = w
    BY <1>w, <2>1, <2>2, <2>a, TextEqual
  <2>. QED
    BY <2>3 DEF c, w
<1> HIDE DEF b
<1>3. b # <<>> /\ Last(b) = f[p + n]
  BY <1>0, <1>1 DEF Last, Text
<1>4. IsBlock(f, p, n, b)
  BY <1>1, <1>2, <1>3 DEF IsBlock
<1>. QED
  BY <1>4 DEF b

(* Putting texts together may be grouped either way.                       *)
LEMMA ConcatAssoc ==
  ASSUME NEW s \in Text, NEW t \in Text, NEW u \in Text
  PROVE  (s \o t) \o u = s \o (t \o u)
BY DEF Text

(* Two pieces of a text, and what they are together.                       *)
Ordered(f, a, b, c) ==
  f \in Text /\ a \in Nat /\ b \in Nat /\ c \in Nat /\ a <= b /\ b <= c /\ c <= Len(f)
Piece(f, a, b) == SubSeq(f, a + 1, b)
Parted(f, a, b, c) ==
  /\ Piece(f, a, b) \in Text /\ Len(Piece(f, a, b)) = b - a
  /\ Piece(f, b, c) \in Text /\ Len(Piece(f, b, c)) = c - b
  /\ Piece(f, a, c) = Piece(f, a, b) \o Piece(f, b, c)

(* A text cut in two.                                                      *)
LEMMA Pieces ==
  ASSUME NEW f, NEW a, NEW b, NEW c, Ordered(f, a, b, c)
  PROVE  Parted(f, a, b, c)
<1> DEFINE s == SubSeq(f, a + 1, b)
           t == SubSeq(f, b + 1, c)
           w == SubSeq(f, a + 1, c)
<1>0. /\ f \in Text /\ a \in Nat /\ b \in Nat /\ c \in Nat /\ a <= b /\ b <= c /\ c <= Len(f)
      /\ Len(f) \in Nat
  BY DEF Ordered, Text
<1>s. s \in Text /\ Len(s) = b - a /\ \A i \in 1 .. b - a : s[i] = f[a + i]
  BY <1>0 DEF Text
<1>t. t \in Text /\ Len(t) = c - b /\ \A i \in 1 .. c - b : t[i] = f[b + i]
  BY <1>0 DEF Text
<1>w. w \in Text /\ Len(w) = c - a /\ \A i \in 1 .. c - a : w[i] = f[a + i]
  BY <1>0 DEF Text
<1> HIDE DEF s, t, w
<1>1. /\ s \o t \in Text /\ Len(s \o t) = Len(s) + Len(t)
      /\ \A i \in 1 .. Len(s) : (s \o t)[i] = s[i]
      /\ \A i \in 1 .. Len(t) : (s \o t)[Len(s) + i] = t[i]
  BY <1>s, <1>t, ConcatType
<1>2. ASSUME NEW i \in 1 .. c - a PROVE (s \o t)[i] = w[i]
  <2>1. CASE i <= b - a
    <3>1. i \in 1 .. Len(s) /\ i \in 1 .. b - a
      BY <1>0, <1>s, <2>1
    <3>. QED
      BY <1>s, <1>w, <1>1, <3>1
  <2>2. CASE ~ (i <= b - a)
    <3>1. i - (b - a) \in 1 .. c - b /\ (b - a) + (i - (b - a)) = i /\ b + (i - (b - a)) = a + i
      BY <1>0, <2>2
    <3>2. (s \o t)[(b - a) + (i - (b - a))] = t[i - (b - a)]
      <4>1. i - (b - a) \in 1 .. Len(t)
        BY <1>t, <3>1
      <4>. QED
        BY <1>s, <1>1, <4>1
    <3>. QED
      BY <1>t, <1>w, <3>1, <3>2
  <2>. QED
    BY <2>1, <2>2
<1>3. Len(s \o t) = Len(w)
  BY <1>0, <1>s, <1>t, <1>w, <1>1
<1>4. s \o t = w
  BY <1>w, <1>1, <1>2, <1>3, TextEqual
<1>. QED
  BY <1>s, <1>t, <1>4 DEF s, t, w, Parted, Piece

(* A text less its CR at the end, and that CR, are the text.               *)
LEMMA ShownFacts ==
  ASSUME NEW s \in Text
  PROVE  /\ Shown(s) \in Text /\ Held(EndsCr(s)) \in Text
         /\ s = Shown(s) \o Held(EndsCr(s))
         /\ ~EndsCr(s) => Shown(s) = s /\ Held(EndsCr(s)) = <<>>
         /\ EndsCr(s) => s = Append(Shown(s), "CR") /\ Held(EndsCr(s)) = <<"CR">>
         /\ EndsCr(s) \in BOOLEAN
<1>3. EndsCr(s) \in BOOLEAN
  BY DEF EndsCr
<1>1. CASE EndsCr(s)
  <2>1. Front(s) \in Text /\ s = Append(Front(s), "CR")
    BY <1>1, LastFront DEF EndsCr
  <2>2. Append(Front(s), "CR") = Front(s) \o <<"CR">>
    <3> DEFINE w == Front(s)
    <3> HIDE DEF w
    <3>1. w \in Text => Append(w, "CR") = w \o <<"CR">>
      BY DEF Text, Char
    <3>. QED
      BY <2>1, <3>1 DEF w
  <2>. QED
    BY <1>1, <1>3, <2>1, <2>2, HeldType DEF Shown, Held
<1>2. CASE ~EndsCr(s)
  BY <1>2, <1>3, HeldType, ConcatEmpty DEF Shown, Held
<1>. QED
  BY <1>1, <1>2

(* Where a text may be cut: before a CR that ends what is given so far.    *)
LEMMA ShownCut ==
  ASSUME NEW d \in Text, NEW r \in Text
  PROVE  Cut(Shown(d), Held(EndsCr(d)) \o r)
<1>1. CASE EndsCr(d)
  <2>1. <<"CR">> \in Text /\ Len(<<"CR">>) = 1 /\ <<"CR">>[1] = "CR"
    BY DEF Text, Char
  <2>2. (<<"CR">> \o r)[1] = "CR"
    BY <2>1, ConcatType
  <2>. QED
    BY <1>1, <2>2 DEF Cut, Held
<1>2. CASE ~EndsCr(d)
  BY <1>2 DEF Cut, Shown, EndsCr
<1>. QED
  BY <1>1, <1>2

(* The text is decoded at once or as what can be shown and the rest.       *)
LEMMA DecodeShown ==
  ASSUME NEW d \in Text, NEW r \in Text
  PROVE  /\ Held(EndsCr(d)) \o r \in Text
         /\ Decode(d \o r) = Decode(Shown(d)) \o Decode(Held(EndsCr(d)) \o r)
<1>1. Shown(d) \in Text /\ Held(EndsCr(d)) \in Text /\ d = Shown(d) \o Held(EndsCr(d))
  BY ShownFacts
<1>2. Held(EndsCr(d)) \o r \in Text
  BY <1>1, ConcatType
<1>3. d \o r = Shown(d) \o (Held(EndsCr(d)) \o r)
  <2> DEFINE a == Shown(d)
             h == Held(EndsCr(d))
  <2>1. a \in Text /\ h \in Text /\ d = a \o h
    BY <1>1
  <2> HIDE DEF a, h
  <2>2. (a \o h) \o r = a \o (h \o r)
    BY <2>1, ConcatAssoc
  <2>. QED
    BY <2>1, <2>2 DEF a, h
<1>4. Cut(Shown(d), Held(EndsCr(d)) \o r)
  BY ShownCut
<1>. QED
  BY <1>1, <1>2, <1>3, <1>4, DecodeConcat

(* What underflow leaves in the buffer is what the block adds to what can  *)
(* be shown: a CR is held back exactly if what follows it is not known, so *)
(* that the text is cut only where no pair is.                             *)
LEMMA FilledText ==
  ASSUME NEW d \in Text, NEW b \in Text, b # <<>>
  PROVE  LET text == RemoveCrLf(Held(EndsCr(d)) \o b)
             held == text # <<>> /\ Last(text) = "CR"
             kept == IF held THEN Front(text) ELSE text
         IN  /\ kept \in Text /\ d \o b \in Text
             /\ Decode(Shown(d)) \o kept = Decode(Shown(d \o b))
             /\ held <=> EndsCr(d \o b)
             /\ kept = <<>> => held /\ Last(b) = "CR"
<1> DEFINE raw == Held(EndsCr(d)) \o b
           text == RemoveCrLf(raw)
           held == text # <<>> /\ Last(text) = "CR"
           kept == IF held THEN Front(text) ELSE text
<1>1. raw \in Text /\ raw # <<>> /\ Last(raw) = Last(b)
  <2>1. Held(EndsCr(d)) \in Text
    BY HeldType
  <2>. QED
    BY <2>1, ConcatEnd, ConcatType
<1>2. /\ d \o b \in Text /\ d \o b # <<>> /\ Last(d \o b) = Last(b) /\ Front(d \o b) = d \o Front(b)
      /\ Front(b) \in Text
  BY ConcatEnd, ConcatType, LastFront
<1>d. Decode(d \o b) = Decode(Shown(d)) \o Decode(raw)
  BY DecodeShown
<1>r. Front(raw) = Held(EndsCr(d)) \o Front(b)
  BY HeldType, ConcatEnd
<1> HIDE DEF raw
<1>3. text = Decode(raw)
  BY <1>1, RemoveCrLfDecodes DEF Text
<1> HIDE DEF text
<1>4. text \in Text /\ text # <<>> /\ Last(text) = Last(b)
  BY <1>1, <1>3, DecodeType, DecodeLast
<1>5. Front(text) \in Text /\ text = Append(Front(text), Last(text))
  BY <1>4, LastFront
<1>6. kept \in Text
  BY <1>4, <1>5
<1>7. kept = <<>> => held /\ Last(b) = "CR"
  BY <1>4
<1>8. held <=> EndsCr(d \o b)
  BY <1>2, <1>4 DEF EndsCr
<1>9. CASE ~held
  <2>1. kept = Decode(raw) /\ Shown(d \o b) = d \o b
    BY <1>3, <1>8, <1>9 DEF Shown
  <2> HIDE DEF held, kept
  <2>2. Decode(Shown(d)) \o kept = Decode(Shown(d \o b))
    BY <1>d, <2>1
  <2>. QED
    BY <1>2, <1>6, <1>7, <1>8, <2>2 DEF raw, text, held, kept
<1>10. CASE held
  <2> DEFINE raw0 == Front(raw)
  <2>1. raw0 \in Text /\ raw = Append(raw0, "CR")
    BY <1>1, <1>4, <1>10, LastFront
  <2>2. raw0 = Held(EndsCr(d)) \o Front(b) /\ Shown(d \o b) = d \o Front(b)
    BY <1>r, <1>2, <1>8, <1>10 DEF Shown
  <2> HIDE DEF raw0
  <2>3. Decode(d \o Front(b)) = Decode(Shown(d)) \o Decode(raw0)
    BY <1>2, <2>2, DecodeShown
  <2>4. text = Append(Decode(raw0), "CR") /\ Decode(raw0) \in Text
    <3>1. Decode(Append(raw0, "CR")) = DecodeChar(Decode(raw0), "CR") /\ "CR" \in Char
      BY <2>1, DecodeAppend DEF Char
    <3>. QED
      BY <1>3, <2>1, <3>1, DecodeType DEF DecodeChar
  <2>5. kept = Decode(raw0)
    BY <1>10, <2>4, AppendFacts DEF Char
  <2> HIDE DEF held, kept
  <2>6. Decode(Shown(d)) \o kept = Decode(Shown(d \o b))
    BY <2>2, <2>3, <2>5
  <2>. QED
    BY <1>2, <1>6, <1>7, <1>8, <2>6 DEF raw, text, held, kept
<1>. QED
  BY <1>9, <1>10

-----------------------------------------------------------------------------
(* How many characters the decoding takes out, and where it may be cut.    *)

(* A decoded text grows by one character, but for the LF of a pair.        *)
LEMMA DecodeLength ==
  ASSUME NEW s \in Text, NEW c \in Char
  PROVE  /\ Decode(s) \in Text /\ Decode(Append(s, c)) \in Text
         /\ Len(Decode(s)) \in Nat
         /\ Len(Decode(Append(s, c))) = Len(Decode(s)) + (IF c = "LF" /\ EndsCr(s) THEN 0 ELSE 1)
<1> DEFINE d == Decode(s)
<1>1. d \in Text /\ Decode(Append(s, c)) = DecodeChar(d, c) /\ Append(s, c) \in Text
  BY DecodeType, DecodeAppend, AppendFacts
<1>2. Decode(Append(s, c)) \in Text
  BY <1>1, DecodeType
<1>3. EndsCr(s) <=> d # <<>> /\ Last(d) = "CR"
  <2>1. CASE s = <<>>
    BY <2>1, DecodeEmpty DEF EndsCr
  <2>2. CASE s # <<>>
    BY <2>2, DecodeLast DEF EndsCr
  <2>. QED
    BY <2>1, <2>2
<1> HIDE DEF d
<1>4. Len(d) \in Nat
  BY <1>1 DEF Text
<1>5. CASE c = "LF" /\ EndsCr(s)
  <2>1. DecodeChar(d, c) = Append(Front(d), "LF") /\ Front(d) \in Text /\ Len(Front(d)) = Len(d) - 1
    BY <1>1, <1>3, <1>5, LastFront DEF DecodeChar
  <2>2. Len(Append(Front(d), "LF")) = Len(Front(d)) + 1
    BY <2>1 DEF Text
  <2>. QED
    BY <1>1, <1>2, <1>4, <1>5, <2>1, <2>2 DEF d
<1>6. CASE ~ (c = "LF" /\ EndsCr(s))
  <2>1. DecodeChar(d, c) = Append(d, c)
    BY <1>3, <1>6 DEF DecodeChar
  <2>2. Len(Append(d, c)) = Len(d) + 1
    BY <1>1 DEF Text
  <2>. QED
    BY <1>1, <1>2, <1>4, <1>6, <2>1, <2>2 DEF d
<1>. QED
  BY <1>5, <1>6

RemovedAt(s) == {i \in DOMAIN s : s[i] = "CR" /\ (i = Len(s) \/ s[i + 1] = "LF")}
One(b) == IF b THEN 1 ELSE 0

(* The CRs that a character more takes out: one at the end was counted     *)
(* there already, and stays out only if it is followed by LF.              *)
LEMMA RemovedAppend ==
  ASSUME NEW s \in Text, NEW c \in Char, IsFiniteSet(RemovedAt(s))
  PROVE  /\ IsFiniteSet(RemovedAt(Append(s, c)))
         /\ Removed(s) \in Nat
         /\ Removed(Append(s, c)) + One(EndsCr(s)) = Removed(s) + One(c = "LF" /\ EndsCr(s)) + One(c = "CR")
<1> DEFINE n == Len(s)
           w == Append(s, c)
           B == RemovedAt(s) \ {n}
           C == IF c = "LF" /\ EndsCr(s) THEN B \union {n} ELSE B
<1>1. n \in Nat /\ DOMAIN s = 1 .. n /\ DOMAIN w = 1 .. n + 1 /\ Len(w) = n + 1
      /\ w[n + 1] = c /\ \A i \in 1 .. n : w[i] = s[i]
  BY DEF Text
<1>2. EndsCr(s) <=> n # 0 /\ s[n] = "CR"
  <2>1. CASE s = <<>>
    BY <2>1 DEF EndsCr
  <2>2. CASE s # <<>>
    BY <2>2, LastFront DEF EndsCr
  <2>. QED
    BY <2>1, <2>2
<1> HIDE DEF w, n
<1>3. n \notin B /\ n + 1 \notin B /\ n + 1 \notin C
  BY <1>1 DEF RemovedAt
<1>4. RemovedAt(s) = IF EndsCr(s) THEN B \union {n} ELSE B
  <2>1. n \in RemovedAt(s) <=> EndsCr(s)
    BY <1>1, <1>2 DEF RemovedAt, n
  <2>. QED
    BY <2>1
<1>5. RemovedAt(w) = IF c = "CR" THEN C \union {n + 1} ELSE C
  <2>1. n + 1 \in RemovedAt(w) <=> c = "CR"
    BY <1>1 DEF RemovedAt
  <2>2. n \in RemovedAt(w) <=> c = "LF" /\ EndsCr(s)
    <3>1. n # n + 1
      BY <1>1
    <3>. QED
      BY <1>1, <1>2, <3>1 DEF RemovedAt
  <2>3. ASSUME NEW i, i # n, i # n + 1 PROVE i \in RemovedAt(w) <=> i \in B
    <3>1. CASE i \in 1 .. n - 1
      <4>1. i \in 1 .. n /\ i + 1 \in 1 .. n /\ i \in 1 .. n + 1
        BY <1>1, <3>1
      <4>2. s[i] = w[i] /\ s[i + 1] = w[i + 1] /\ i \in DOMAIN s /\ i \in DOMAIN w
        BY <1>1, <4>1
      <4>3. i # Len(s) /\ i # Len(w)
        BY <1>1, <2>3 DEF n
      <4>. QED
        BY <2>3, <4>2, <4>3 DEF RemovedAt
    <3>2. CASE i \notin 1 .. n - 1
      <4>1. i \notin 1 .. n + 1 /\ i \notin 1 .. n
        BY <1>1, <2>3, <3>2
      <4>. QED
        BY <1>1, <4>1 DEF RemovedAt
    <3>. QED
      BY <3>1, <3>2
  <2>4. \A i : i \in RemovedAt(w) <=> i \in (IF c = "CR" THEN C \union {n + 1} ELSE C)
    BY <1>3, <2>1, <2>2, <2>3
  <2>. QED
    BY <2>4
<1>6. IsFiniteSet(B) /\ Cardinality(B) \in Nat
  <2>1. B \subseteq RemovedAt(s)
    OBVIOUS
  <2>. QED
    BY <2>1, FS_Subset, FS_CardinalityType
<1> HIDE DEF B
<1>7. IsFiniteSet(B \union {n}) /\ Cardinality(B \union {n}) = Cardinality(B) + 1
  BY <1>3, <1>6, FS_AddElement
<1>8. IsFiniteSet(C) /\ Cardinality(C) = Cardinality(B) + One(c = "LF" /\ EndsCr(s)) /\ Cardinality(C) \in Nat
  BY <1>6, <1>7 DEF One
<1>9. Cardinality(RemovedAt(s)) = Cardinality(B) + One(EndsCr(s))
  BY <1>4, <1>6, <1>7 DEF One
<1> HIDE DEF C
<1>10. IsFiniteSet(C \union {n + 1}) /\ Cardinality(C \union {n + 1}) = Cardinality(C) + 1
  BY <1>3, <1>8, FS_AddElement
<1>11. IsFiniteSet(RemovedAt(w)) /\ Cardinality(RemovedAt(w)) = Cardinality(C) + One(c = "CR")
  BY <1>5, <1>8, <1>10 DEF One
<1>12. Removed(s) = Cardinality(RemovedAt(s)) /\ Removed(w) = Cardinality(RemovedAt(w))
  BY DEF Removed, RemovedAt
<1>13. One(EndsCr(s)) \in Nat /\ One(c = "LF" /\ EndsCr(s)) \in Nat /\ One(c = "CR") \in Nat
  BY DEF One
<1>. QED
  BY <1>6, <1>8, <1>9, <1>11, <1>12, <1>13 DEF w

(* What the decoding takes out, with a CR at the end that is not yet out.  *)
LEMMA RemovedCount ==
  ASSUME NEW s \in Text
  PROVE  Removed(s) \in Nat /\ Len(s) + One(EndsCr(s)) = Len(Decode(s)) + Removed(s)
<1> DEFINE A == {t \in Text : /\ IsFiniteSet(RemovedAt(t)) /\ Removed(t) \in Nat
                              /\ Len(t) + One(EndsCr(t)) = Len(Decode(t)) + Removed(t)}
<1>1. <<>> \in A
  <2>1. RemovedAt(<<>>) = {} /\ Removed(<<>>) = Cardinality({})
    BY DEF RemovedAt, Removed
  <2>2. IsFiniteSet({}) /\ Cardinality({}) = 0
    BY FS_EmptySet
  <2>3. ~EndsCr(<<>>) /\ <<>> \in Text /\ Len(<<>>) = 0
    BY DEF EndsCr, Text
  <2>4. Len(Decode(<<>>)) = 0
    BY <2>3, DecodeEmpty
  <2>5. One(EndsCr(<<>>)) = 0
    BY <2>3 DEF One
  <2>6. IsFiniteSet(RemovedAt(<<>>)) /\ Removed(<<>>) = 0
    BY <2>1, <2>2
  <2>7. Len(<<>>) + One(EndsCr(<<>>)) = Len(Decode(<<>>)) + Removed(<<>>)
    BY <2>3, <2>4, <2>5, <2>6
  <2>. QED
    BY <2>3, <2>6, <2>7
<1>2. ASSUME NEW t \in Text, NEW c \in Char, t \in A PROVE Append(t, c) \in A
  <2>1. /\ IsFiniteSet(RemovedAt(Append(t, c)))
        /\ Removed(t) \in Nat
        /\ Removed(Append(t, c)) + One(EndsCr(t)) = Removed(t) + One(c = "LF" /\ EndsCr(t)) + One(c = "CR")
    BY <1>2, RemovedAppend
  <2>2. Len(t) + One(EndsCr(t)) = Len(Decode(t)) + Removed(t) /\ Len(t) \in Nat
    BY <1>2 DEF Text
  <2>3. /\ Len(Decode(t)) \in Nat
        /\ Len(Decode(Append(t, c))) = Len(Decode(t)) + (IF c = "LF" /\ EndsCr(t) THEN 0 ELSE 1)
    BY DecodeLength
  <2>4. Append(t, c) \in Text /\ Len(Append(t, c)) = Len(t) + 1 /\ (EndsCr(Append(t, c)) <=> c = "CR")
    BY AppendFacts DEF Text, EndsCr
  <2>5. One(EndsCr(Append(t, c))) = One(c = "CR")
    BY <2>4 DEF One
  <2>6. Removed(Append(t, c)) \in Nat
    BY <2>1, FS_CardinalityType DEF Removed, RemovedAt
  <2>7. Len(t) + 1 + One(c = "CR") = Len(Decode(Append(t, c))) + Removed(Append(t, c))
    <3> DEFINE r0 == Removed(t)
               r1 == Removed(Append(t, c))
               d0 == Len(Decode(t))
               d1 == Len(Decode(Append(t, c)))
               n == Len(t)
               e == EndsCr(t)
    <3>1. /\ r1 + One(e) = r0 + One(c = "LF" /\ e) + One(c = "CR")
          /\ n + One(e) = d0 + r0
          /\ d1 = d0 + (IF c = "LF" /\ e THEN 0 ELSE 1)
          /\ n \in Nat /\ r0 \in Nat /\ r1 \in Nat /\ d0 \in Nat /\ e \in BOOLEAN
      BY <2>1, <2>2, <2>3, <2>6 DEF EndsCr
    <3> HIDE DEF r0, r1, d0, d1, n, e
    <3>2. n + 1 + One(c = "CR") = d1 + r1
      BY <3>1 DEF One
    <3>. QED
      BY <3>2 DEF n, d1, r1
  <2>. QED
    BY <2>1, <2>4, <2>5, <2>6, <2>7
<1>3. Seq(Char) \subseteq A
  <2> HIDE DEF A
  <2>. QED
    BY <1>1, <1>2, SeqInduct DEF Text
<1>. QED
  BY <1>3 DEF Text

(* No pair CR LF is parted after k characters.                             *)
CutAt(s, k) == k = 0 \/ k = Len(s) \/ s[k] # "CR" \/ s[k + 1] # "LF"

(* For every length of decoded text there is a place in the text itself.   *)
LEMMA CutExists ==
  ASSUME NEW s \in Text, NEW m \in 0 .. Len(Decode(s))
  PROVE  \E k \in 0 .. Len(s) : Len(Decode(SubSeq(s, 1, k))) = m /\ CutAt(s, k)
<1> DEFINE P(t, j, k) == Len(Decode(SubSeq(t, 1, k))) = j /\ CutAt(t, k)
           A == {t \in Text : \A j \in 0 .. Len(Decode(t)) : \E k \in 0 .. Len(t) : P(t, j, k)}
<1>1. <<>> \in A
  <2>1. <<>> \in Text /\ Len(<<>>) = 0 /\ SubSeq(<<>>, 1, 0) = <<>>
    BY DEF Text
  <2>2. Len(Decode(<<>>)) = 0
    BY <2>1, DecodeEmpty
  <2>3. P(<<>>, 0, 0)
    BY <2>1, <2>2 DEF CutAt
  <2> HIDE DEF P
  <2>4. \A j \in 0 .. Len(Decode(<<>>)) : j = 0
    BY <2>2
  <2>5. \A j \in 0 .. Len(Decode(<<>>)) : P(<<>>, j, 0)
    BY <2>3, <2>4
  <2>. QED
    BY <2>1, <2>5
<1>2. ASSUME NEW t \in Text, NEW c \in Char, t \in A PROVE Append(t, c) \in A
  <2> DEFINE w == Append(t, c)
             n == Len(t)
  <2>1. /\ Len(Decode(t)) \in Nat
        /\ Len(Decode(w)) = Len(Decode(t)) + (IF c = "LF" /\ EndsCr(t) THEN 0 ELSE 1)
    BY DecodeLength
  <2>2. w \in Text /\ n \in Nat /\ Len(w) = n + 1 /\ w[n + 1] = c /\ \A i \in 1 .. n : w[i] = t[i]
    BY DEF Text
  <2>3. SubSeq(w, 1, n + 1) = w /\ SubSeq(t, 1, n) = t /\ \A k \in 0 .. n : SubSeq(w, 1, k) = SubSeq(t, 1, k)
    <3>1. SubSeq(w, 1, n + 1) = w
      BY <2>2 DEF Text
    <3>2. SubSeq(t, 1, n) = t
      BY DEF Text
    <3>3. \A k \in 0 .. n : SubSeq(w, 1, k) = SubSeq(t, 1, k)
      BY DEF Text
    <3>. QED
      BY <3>1, <3>2, <3>3
  <2>e. EndsCr(t) <=> n # 0 /\ t[n] = "CR"
    <3>1. CASE t = <<>>
      BY <3>1 DEF EndsCr
    <3>2. CASE t # <<>>
      BY <3>2, LastFront DEF EndsCr
    <3>. QED
      BY <3>1, <3>2
  <2> HIDE DEF w, n
  <2>4. ASSUME NEW j \in 0 .. Len(Decode(w)) PROVE \E k \in 0 .. Len(w) : P(w, j, k)
    <3>1. CASE j = Len(Decode(w))
      <4>1. n + 1 \in 0 .. Len(w) /\ CutAt(w, n + 1)
        BY <2>2 DEF CutAt
      <4>2. Len(Decode(SubSeq(w, 1, n + 1))) = j
        BY <2>3, <3>1
      <4>3. P(w, j, n + 1)
        BY <4>1, <4>2
      <4> HIDE DEF P
      <4>. QED
        BY <4>1, <4>3
    <3>2. CASE j # Len(Decode(w))
      <4>1. j \in 0 .. Len(Decode(t))
        BY <2>1, <3>2
      <4>2. PICK k \in 0 .. n : P(t, j, k)
        BY <1>2, <4>1 DEF n
      <4>3. Len(Decode(SubSeq(w, 1, k))) = j
        BY <2>3, <4>2
      <4>4. CutAt(w, k)
        <5>1. CASE k = n
          <6>1. j = Len(Decode(t))
            BY <2>3, <4>2, <5>1
          <6>2. ~ (c = "LF" /\ EndsCr(t))
            BY <2>1, <3>2, <6>1
          <6>3. CASE n = 0
            BY <5>1, <6>3 DEF CutAt
          <6>4. CASE n # 0
            <7>1. w[n] = t[n]
              BY <2>2, <6>4
            <7>. QED
              BY <2>2, <2>e, <5>1, <6>2, <6>4, <7>1 DEF CutAt
          <6>. QED
            BY <6>3, <6>4
        <5>2. CASE k # n
          <6>1. k + 1 \in 1 .. n /\ (k # 0 => k \in 1 .. n)
            BY <2>2, <4>2, <5>2
          <6>. QED
            BY <2>2, <4>2, <5>2, <6>1 DEF CutAt, n
        <5>. QED
          BY <5>1, <5>2
      <4>5. k \in 0 .. Len(w) /\ P(w, j, k)
        BY <2>2, <4>3, <4>4
      <4> HIDE DEF P
      <4>. QED
        BY <4>5
    <3>. QED
      BY <3>1, <3>2
  <2>. QED
    <3> HIDE DEF P
    <3>. QED
      BY <2>2, <2>4 DEF w
<1>3. Seq(Char) \subseteq A
  <2> HIDE DEF A
  <2>. QED
    BY <1>1, <1>2, SeqInduct DEF Text
<1>. QED
  BY <1>3 DEF Text

(* Texts in a row that are equal and parted at the same place.             *)
SameCut(a, b, c, d) ==
  a \in Text /\ b \in Text /\ c \in Text /\ d \in Text /\ a \o b = c \o d /\ Len(a) = Len(c)
LEMMA ConcatSplit ==
  ASSUME NEW a, NEW b, NEW c, NEW d, SameCut(a, b, c, d)
  PROVE  a = c /\ b = d /\ Len(b) = Len(d)
<1>0. a \in Text /\ b \in Text /\ c \in Text /\ d \in Text /\ a \o b = c \o d /\ Len(a) = Len(c)
  BY DEF SameCut
<1>1. /\ Len(a) \in Nat /\ Len(b) \in Nat /\ Len(c) \in Nat /\ Len(d) \in Nat
      /\ Len(a \o b) = Len(a) + Len(b) /\ Len(c \o d) = Len(c) + Len(d)
      /\ \A i \in 1 .. Len(a) : (a \o b)[i] = a[i]
      /\ \A i \in 1 .. Len(b) : (a \o b)[Len(a) + i] = b[i]
      /\ \A i \in 1 .. Len(c) : (c \o d)[i] = c[i]
      /\ \A i \in 1 .. Len(d) : (c \o d)[Len(c) + i] = d[i]
  BY <1>0, ConcatType
<1>2. Len(b) = Len(d)
  BY <1>0, <1>1
<1>3. \A i \in 1 .. Len(a) : a[i] = c[i]
  BY <1>0, <1>1
<1>4. \A i \in 1 .. Len(b) : b[i] = d[i]
  BY <1>0, <1>1, <1>2
<1>. QED
  BY <1>0, <1>2, <1>3, <1>4, TextEqual

(* What was got and what is unread are c and the translation of s.         *)
Reads(g, u, c, s) == g \o u = c \o Decode(s) /\ Len(c) <= Len(g)
Splits(g, u, c, s) ==
  \E k \in 0 .. Len(s) : /\ g = c \o Decode(SubSeq(s, 1, k))
                         /\ Len(u) = Len(Decode(SubSeq(s, k + 1, Len(s))))

(* A decoded text after c, parted: what has been got is the decoding of a  *)
(* beginning of the text, what is unread that of the rest.                 *)
LEMMA GotIsDecoded ==
  ASSUME NEW s \in Text, NEW c \in Text, NEW g \in Text, NEW u \in Text,
         Reads(g, u, c, s)
  PROVE  Splits(g, u, c, s)
<1> DEFINE D == Decode(s)
           m == Len(g) - Len(c)
<1>0. g \o u = c \o D /\ Len(c) <= Len(g)
  BY DEF Reads
<1>1. D \in Text /\ Len(s) \in Nat
  BY DecodeType DEF Text
<1>2. m \in 0 .. Len(D)
  <2> HIDE DEF D
  <2>1. Len(g \o u) = Len(g) + Len(u) /\ Len(c \o D) = Len(c) + Len(D)
        /\ Len(g) \in Nat /\ Len(u) \in Nat /\ Len(c) \in Nat /\ Len(D) \in Nat
    BY <1>1, ConcatType
  <2>2. Len(g) + Len(u) = Len(c) + Len(D)
    BY <1>0, <2>1
  <2>. QED
    BY <1>0, <2>1, <2>2
<1> HIDE DEF m
<1>3. PICK k \in 0 .. Len(s) : Len(Decode(SubSeq(s, 1, k))) = m /\ CutAt(s, k)
  BY <1>2, CutExists
<1> DEFINE a == SubSeq(s, 1, k)
           b == SubSeq(s, k + 1, Len(s))
<1>4. a \in Text /\ b \in Text /\ s = a \o b /\ Len(a) = k /\ Len(b) = Len(s) - k
  <2>1. Ordered(s, 0, k, Len(s))
    BY <1>1 DEF Ordered
  <2>2. Parted(s, 0, k, Len(s))
    BY <2>1, Pieces
  <2>3. Piece(s, 0, k) = a /\ Piece(s, k, Len(s)) = b /\ Piece(s, 0, Len(s)) = s
    BY <1>1 DEF Piece, Text
  <2> HIDE DEF a, b
  <2>4. a \in Text /\ b \in Text /\ s = a \o b /\ Len(a) = k - 0 /\ Len(b) = Len(s) - k
    BY <2>2, <2>3, Zenon DEF Parted
  <2>. QED
    BY <1>1, <2>4
<1>5. Cut(a, b)
  <2>1. CASE k = 0 \/ k = Len(s)
    <3> HIDE DEF a, b
    <3>1. Len(a) = 0 \/ Len(b) = 0
      BY <1>1, <1>4, <2>1
    <3>2. a = <<>> \/ b = <<>>
      BY <1>4, <3>1 DEF Text
    <3>. QED
      BY <3>2 DEF Cut
  <2>2. CASE ~ (k = 0 \/ k = Len(s))
    <3>1. a # <<>> /\ a[k] = s[k] /\ b[1] = s[k + 1]
      BY <1>1, <2>2 DEF Text
    <3>2. Last(a) = a[k]
      BY <1>4, <3>1, LastFront
    <3>. QED
      BY <1>3, <2>2, <3>1, <3>2 DEF Cut, CutAt
  <2>. QED
    BY <2>1, <2>2
<1> HIDE DEF a, b
<1>6. D = Decode(a) \o Decode(b) /\ Decode(a) \in Text /\ Decode(b) \in Text
  BY <1>4, <1>5, DecodeConcat, DecodeType
<1>7. (c \o Decode(a)) \o Decode(b) = g \o u
  BY <1>0, <1>6, ConcatAssoc
<1>8. c \o Decode(a) \in Text /\ Len(c \o Decode(a)) = Len(g)
  <2>1. Len(c \o Decode(a)) = Len(c) + Len(Decode(a)) /\ c \o Decode(a) \in Text
    BY <1>6, ConcatType
  <2>2. Len(Decode(a)) = Len(g) - Len(c) /\ Len(g) \in Nat /\ Len(c) \in Nat
    BY <1>3 DEF a, m, Text
  <2>. QED
    BY <2>1, <2>2
<1>9. g = c \o Decode(a) /\ Len(u) = Len(Decode(b))
  <2> DEFINE x == c \o Decode(a)
             y == Decode(b)
  <2>1. x \in Text /\ y \in Text /\ x \o y = g \o u /\ Len(x) = Len(g)
    BY <1>6, <1>7, <1>8
  <2> HIDE DEF x, y
  <2>2. SameCut(x, y, g, u)
    BY <2>1 DEF SameCut
  <2>3. x = g /\ Len(y) = Len(u)
    BY <2>2, ConcatSplit, Zenon
  <2>. QED
    BY <2>3 DEF x, y
<1>. QED
  BY <1>3, <1>9 DEF a, b, Splits

-----------------------------------------------------------------------------
(* The inductive invariant: where the bytes are, and the text: what was    *)
(* read and what is in the buffer are what can be shown of what the device *)
(* has given.                                                              *)
TextNow == got \o After(data, pos) = prior \o Visible(mode, Given(file, start, devpos, carried))
IInv == Inv /\ TextNow

(* The ranges of the variables.                                            *)
LEMMA Types ==
  ASSUME TypeOK
  PROVE  /\ file \in Text /\ data \in Text /\ got \in Text /\ prior \in Text
         /\ Len(file) \in Nat /\ Len(data) \in Nat /\ Len(got) \in Nat /\ Len(prior) \in Nat
         /\ devpos \in Nat /\ devpos <= Len(file) /\ pos \in Nat /\ pos <= Len(data)
         /\ start \in Nat /\ start <= devpos
         /\ Avail \in Nat /\ pos + Avail = Len(data)
         /\ pendingCr \in BOOLEAN /\ carried \in BOOLEAN /\ aborted \in BOOLEAN
BY DEF TypeOK, Text, Avail

(* Delivered and Everything as functions of the variables.                 *)
LEMMA DeliveredIs == Delivered = Given(file, start, devpos, carried)
BY DEF Delivered, CarriedCr, Given, Held

(* Everything of a text is all that can be shown.                          *)
LEMMA EverythingIs ==
  ASSUME NEW s
  PROVE  Everything(s) = Visible(mode, s)
BY DEF Everything, Visible, Shown, EndsCr

(* What the device has given is a text, which grows by a block; after a    *)
(* seek or a loss it is the CR carried, or nothing.                        *)
LEMMA GivenMore ==
  ASSUME NEW f, NEW st, NEW p, NEW q, Ordered(f, st, p, q), NEW ca
  PROVE  /\ Given(f, st, p, ca) \in Text /\ Given(f, st, q, ca) \in Text
         /\ Given(f, st, q, ca) = Given(f, st, p, ca) \o Piece(f, p, q)
         /\ Len(Given(f, st, p, ca)) = Len(Held(ca)) + (p - st)
<1> DEFINE h == Held(ca)
           a == Piece(f, st, p)
           b == Piece(f, p, q)
           c == Piece(f, st, q)
<1>1. h \in Text
  BY HeldType
<1>2. a \in Text /\ b \in Text /\ c = a \o b /\ Len(a) = p - st
  BY Pieces DEF Parted
<1>3. Given(f, st, p, ca) = h \o a /\ Given(f, st, q, ca) = h \o c
  BY DEF Given, Piece
<1> HIDE DEF h, a, b, c
<1>4. h \o a \in Text /\ a \o b \in Text /\ h \o (a \o b) = (h \o a) \o b
      /\ Len(h \o a) = Len(h) + Len(a)
  BY <1>1, <1>2, ConcatType, ConcatAssoc
<1>5. (h \o a) \o b \in Text
  BY <1>2, <1>4, ConcatType
<1>. QED
  BY <1>2, <1>3, <1>4, <1>5 DEF h, b

(* Nothing is given yet.                                                   *)
LEMMA GivenNone ==
  ASSUME NEW f \in Text, NEW p \in 0 .. Len(f), NEW ca \in BOOLEAN
  PROVE  /\ Given(f, p, p, ca) = Held(ca)
         /\ EndsCr(Held(ca)) <=> ca
         /\ Shown(Held(ca)) = <<>> /\ Decode(Shown(Held(ca))) = <<>>
         /\ \A m : (m # "crlf" => ~ca) => Visible(m, Given(f, p, p, ca)) = <<>>
<1>1. SubSeq(f, p + 1, p) = <<>>
  BY DEF Text
<1>2. Given(f, p, p, ca) = Held(ca)
  BY <1>1, HeldType, ConcatEmpty DEF Given
<1>3. (EndsCr(Held(ca)) <=> ca) /\ Shown(Held(ca)) = <<>>
  <2>1. CASE ca
    <3>1. <<"CR">> = Append(<<>>, "CR") /\ <<>> \in Text /\ "CR" \in Char
      BY DEF Text, Char
    <3>2. <<"CR">> # <<>> /\ Last(<<"CR">>) = "CR" /\ Front(<<"CR">>) = <<>>
      BY <3>1, AppendFacts
    <3>. QED
      BY <2>1, <3>2 DEF Held, EndsCr, Shown
  <2>2. CASE ~ca
    BY <2>2 DEF Held, EndsCr, Shown
  <2>. QED
    BY <2>1, <2>2
<1>4. Decode(Shown(Held(ca))) = <<>>
  BY <1>3, DecodeEmpty
<1>5. ~ca => Held(ca) = <<>>
  BY DEF Held
<1>. QED
  BY <1>2, <1>3, <1>4, <1>5 DEF Visible

(* Everything that can be shown is a text.                                 *)
LEMMA VisibleType ==
  ASSUME NEW m, NEW s \in Text
  PROVE  Visible(m, s) \in Text
BY ShownFacts, DecodeType DEF Visible

(* The next k characters are taken from the buffer.                        *)
Taken(g, d, q, k) == g \o SubSeq(d, q + 1, q + k)
IsTaken(g, d, q, k, h) ==
  /\ h \in Text
  /\ Len(h) = Len(g) + k
  /\ \A i \in 1 .. k : h[Len(g) + i] = d[q + i]
  /\ \A i \in 1 .. Len(g) : h[i] = g[i]
  /\ h \o After(d, q + k) = g \o After(d, q)

(* What a read takes out of the buffer.                                    *)
LEMMA TakeText ==
  ASSUME NEW g \in Text, NEW d, NEW q, NEW k, InText(d, q, k)
  PROVE  IsTaken(g, d, q, k, Taken(g, d, q, k))
<1> DEFINE b == SubSeq(d, q + 1, q + k)
<1>0. d \in Text /\ q \in Nat /\ k \in Nat /\ q + k <= Len(d) /\ q + k \in Nat /\ q <= Len(d)
  BY DEF InText, Text
<1>1. b \in Text /\ Len(b) = k /\ \A i \in 1 .. k : b[i] = d[q + i]
  <2>1. b \in Text
    BY <1>0 DEF Text
  <2>2. Len(b) = k
    BY <1>0 DEF Text
  <2>3. \A i \in 1 .. k : b[i] = d[q + i]
    BY <1>0 DEF Text
  <2>. QED
    BY <2>1, <2>2, <2>3
<1>3. After(d, q) \in Text /\ After(d, q + k) \in Text
  BY <1>0, AfterType
<1>2. b \o After(d, q + k) = After(d, q)
  <2>1. CASE k = 0
    <3>1. b = <<>> /\ q + k = q
      BY <1>0, <2>1
    <3>. QED
      BY <1>3, <3>1, ConcatEmpty
  <2>2. CASE k # 0
    <3>1. IsBlock(d, q, k, SubSeq(d, q + 1, q + k))
      BY <2>2, AfterBlock
    <3>. QED
      BY <3>1 DEF IsBlock
  <2>. QED
    BY <2>1, <2>2
<1> HIDE DEF b
<1>4. (g \o b) \o After(d, q + k) = g \o After(d, q)
  <2> DEFINE w == After(d, q + k)
  <2>1. w \in Text /\ b \o w = After(d, q)
    BY <1>2, <1>3
  <2> HIDE DEF w
  <2>a. g \in Text /\ b \in Text /\ w \in Text
    BY <1>1, <2>1
  <2>2. (g \o b) \o w = g \o (b \o w)
    BY <2>a, ConcatAssoc
  <2>. QED
    BY <2>1, <2>2 DEF w
<1>5. /\ g \o b \in Text /\ Len(g \o b) = Len(g) + k
      /\ \A i \in 1 .. Len(g) : (g \o b)[i] = g[i]
      /\ \A i \in 1 .. k : (g \o b)[Len(g) + i] = b[i]
  <2>1. g \in Text /\ b \in Text /\ Len(b) = k
    BY <1>1
  <2>. QED
    BY <2>1, ConcatType
<1>6. \A i \in 1 .. k : (g \o b)[Len(g) + i] = d[q + i]
  BY <1>1, <1>5
<1>7. \A i \in 1 .. Len(g) : (g \o b)[i] = g[i]
  BY <1>5
<1>8. IsTaken(g, d, q, k, g \o b)
  BY <1>4, <1>5, <1>6, <1>7 DEF IsTaken
<1>. QED
  BY <1>8 DEF b, Taken

(* The ends of a buffer.                                                   *)
LEMMA AllTaken ==
  ASSUME NEW d \in Text
  PROVE  /\ After(d, Len(d)) = <<>>
         /\ \A g \in Text : g \o After(d, Len(d)) = g
         /\ After(d, 0) = d
BY DEF Text, After

(* underflow keeps the text: the refilled buffer is what the block adds to *)
(* what can be shown.                                                      *)
LEMMA UnderflowText ==
  ASSUME InAssumption, Inv, NEW n \in 1 .. Cap, Underflow(n)
  PROVE  LET d == Given(file, start, devpos, carried)
             e == Given(file, start, devpos', carried)
         IN  /\ data' \in Text /\ pendingCr' \in BOOLEAN /\ aborted' \in BOOLEAN
             /\ start' = start /\ prior' = prior /\ carried' = carried /\ faults' = faults
             /\ devpos' = devpos + n /\ devpos' \in 0 .. Len(file) /\ n \in Nat \ {0}
             /\ d \in Text /\ e \in Text
             /\ Visible(mode, d) \o data' = Visible(mode, e)
             /\ mode = "crlf" => (pendingCr' <=> EndsCr(e))
             /\ mode # "crlf" => pendingCr' = pendingCr /\ ~aborted' /\ Len(data') = n
             /\ aborted' => mode = "crlf" /\ pendingCr' /\ file[devpos'] = "CR"
<1> DEFINE b == SubSeq(file, devpos + 1, devpos + n)
           d == Given(file, start, devpos, carried)
           e == Given(file, start, devpos', carried)
           text == RemoveCrLf(Held(EndsCr(d)) \o b)
           held == text # <<>> /\ Last(text) = "CR"
           kept == IF held THEN Front(text) ELSE text
<1>1. n \in Nat \ {0} /\ devpos + n <= Len(file) /\ devpos' = devpos + n
      /\ start' = start /\ prior' = prior /\ carried' = carried /\ faults' = faults
  BY DEF Underflow, InAssumption, history
<1>a. aborted' \in BOOLEAN /\ (aborted' <=> data' = <<>>)
  BY Zenon DEF Underflow
<1>2. file \in Text /\ devpos \in Nat /\ Len(file) \in Nat /\ pendingCr \in BOOLEAN /\ start \in Nat /\ start <= devpos
  BY Types DEF Inv, TypeOK
<1>3. b \in Text /\ Len(b) = n /\ b # <<>> /\ Last(b) = file[devpos + n]
  <2>1. InText(file, devpos, n) /\ n # 0
    BY <1>1, <1>2 DEF InText
  <2>2. IsBlock(file, devpos, n, SubSeq(file, devpos + 1, devpos + n))
    BY <2>1, AfterBlock
  <2>. QED
    BY <2>2 DEF IsBlock
<1>4. d \in Text /\ e \in Text /\ e = d \o b
  <2>1. Ordered(file, start, devpos, devpos + n)
    BY <1>1, <1>2 DEF Ordered
  <2>2. b = Piece(file, devpos, devpos + n)
    BY DEF Piece
  <2>3. /\ Given(file, start, devpos, carried) \in Text
        /\ Given(file, start, devpos + n, carried) \in Text
        /\ Given(file, start, devpos + n, carried)
             = Given(file, start, devpos, carried) \o Piece(file, devpos, devpos + n)
    BY <2>1, GivenMore
  <2> HIDE DEF b
  <2>. QED
    BY <1>1, <2>2, <2>3
<1>9. devpos' \in 0 .. Len(file) /\ file[devpos'] = Last(b)
  BY <1>1, <1>2, <1>3
<1>5. CASE mode = "crlf"
  <2>0. pendingCr <=> EndsCr(d)
    BY <1>5, DeliveredIs DEF Inv, HeldIsLast, EndsCr
  <2>1. <<>> \o b = b
    BY <1>3, ConcatFacts
  <2>2. Held(EndsCr(d)) \o b = IF pendingCr THEN <<"CR">> \o b ELSE b
    BY <2>0, <2>1 DEF Held
  <2> DEFINE raw == IF pendingCr THEN <<"CR">> \o b ELSE b
  <2>a. RemoveCrLf(raw) = text
    <3> HIDE DEF raw, b, d
    <3>. QED
      BY <2>2 DEF raw
  <2>b. data' = kept
    <3>1. data' = IF RemoveCrLf(raw) # <<>> /\ Last(RemoveCrLf(raw)) = "CR"
                  THEN Front(RemoveCrLf(raw)) ELSE RemoveCrLf(raw)
      BY <1>5, Zenon DEF Underflow
    <3> HIDE DEF raw, text
    <3>. QED
      BY <2>a, <3>1
  <2>c. pendingCr' = held
    <3>1. pendingCr' = (RemoveCrLf(raw) # <<>> /\ Last(RemoveCrLf(raw)) = "CR")
      BY <1>5, Zenon DEF Underflow
    <3> HIDE DEF raw, text
    <3>. QED
      BY <2>a, <3>1
  <2>4. /\ kept \in Text /\ d \o b \in Text
        /\ Decode(Shown(d)) \o kept = Decode(Shown(d \o b))
        /\ held <=> EndsCr(d \o b)
        /\ kept = <<>> => held /\ Last(b) = "CR"
    <3> HIDE DEF b, d
    <3>. QED
      BY <1>3, <1>4, FilledText
  <2>7. held \in BOOLEAN
    OBVIOUS
  <2> HIDE DEF kept, held, b, d, e
  <2>8. Visible(mode, d) \o data' = Visible(mode, e)
    BY <1>4, <1>5, <2>4, <2>b DEF Visible
  <2>10. aborted' => pendingCr' /\ file[devpos'] = "CR"
    BY <1>a, <1>9, <2>4, <2>b, <2>c
  <2>11. data' \in Text /\ pendingCr' \in BOOLEAN /\ (pendingCr' <=> EndsCr(e))
    BY <1>4, <2>4, <2>7, <2>b, <2>c
  <2>. QED
    BY <1>1, <1>4, <1>5, <1>9, <1>a, <2>8, <2>10, <2>11 DEF d, e
<1>6. CASE mode # "crlf"
  <2>1. data' = b /\ pendingCr' = pendingCr
    BY <1>6 DEF Underflow
  <2>2. Visible(mode, d) \o data' = Visible(mode, e)
    <3> HIDE DEF b, d, e
    <3>. QED
      BY <1>4, <1>6, <2>1 DEF Visible
  <2> HIDE DEF b, d, e
  <2>3. data' \in Text /\ Len(data') = n /\ data' # <<>>
    BY <1>3, <2>1
  <2>. QED
    BY <1>1, <1>2, <1>4, <1>6, <1>9, <1>a, <2>1, <2>2, <2>3 DEF d, e
<1>. QED
  BY <1>5, <1>6

(* What was got last is still in the buffer after more has been taken, but *)
(* for a CR lost there (sp).                                               *)
EndsWith(g, d, q, sp) == q <= Len(g) /\ \A i \in 1 .. q : g[Len(g) - q + i] = d[i] \/ (i = 1 /\ sp)

(* A read keeps what was got in step with the buffer's position.           *)
LEMMA TakeEnds ==
  ASSUME NEW g \in Text, NEW d \in Text, NEW q \in Nat, NEW k \in Nat, NEW sp,
         q + k <= Len(d), EndsWith(g, d, q, sp)
  PROVE  EndsWith(Taken(g, d, q, k), d, q + k, sp)
<1> DEFINE h == Taken(g, d, q, k)
<1>1. /\ h \in Text /\ Len(h) = Len(g) + k
      /\ \A i \in 1 .. k : h[Len(g) + i] = d[q + i]
      /\ \A i \in 1 .. Len(g) : h[i] = g[i]
  <2>1. InText(d, q, k)
    BY DEF InText
  <2>2. IsTaken(g, d, q, k, Taken(g, d, q, k))
    BY <2>1, TakeText
  <2>. QED
    BY <2>2 DEF IsTaken
<1>2. Len(g) \in Nat /\ q <= Len(g) /\ \A i \in 1 .. q : g[Len(g) - q + i] = d[i] \/ (i = 1 /\ sp)
  BY DEF EndsWith, Text
<1> HIDE DEF h
<1>3. ASSUME NEW i \in 1 .. (q + k) PROVE h[Len(h) - (q + k) + i] = d[i] \/ (i = 1 /\ sp)
  <2>0. Len(h) - (q + k) + i = Len(g) - q + i
    BY <1>1, <1>2
  <2>1. CASE i <= q
    <3>1. i \in 1 .. q /\ Len(g) - q + i \in 1 .. Len(g)
      BY <1>2, <2>1
    <3>. QED
      BY <1>1, <1>2, <2>0, <3>1
  <2>2. CASE i > q
    <3>1. i - q \in 1 .. k /\ Len(g) + (i - q) = Len(g) - q + i /\ q + (i - q) = i
      BY <1>2, <2>2
    <3>2. h[Len(g) + (i - q)] = d[q + (i - q)]
      BY <1>1, <3>1
    <3>. QED
      BY <2>0, <3>1, <3>2
  <2>. QED
    BY <2>1, <2>2
<1>. QED
  <2>1. q + k <= Len(h)
    BY <1>1, <1>2
  <2>2. EndsWith(h, d, q + k, sp)
    BY <1>3, <2>1 DEF EndsWith
  <2>. QED
    BY <2>2 DEF h

(* The invariant on unget, as a relation of its variables.                 *)
LEMMA UngettableIs ==
  Ungettable <=> /\ EndsWith(got, data, pos, Spoilt)
                 /\ devpos # start => pos <= Len(got) - Len(prior)
BY DEF Ungettable, EndsWith

(* The invariant holds when the buffer is made.                            *)
LEMMA InitInv ==
  ASSUME InAssumption, Init
  PROVE  IInv
<1>1. TypeOK
  <2>1. mode \in {"crlf", "plain", "mapped"} /\ file \in Seq(Char) /\ Len(file) \in Nat
    BY DEF Init, InAssumption
  <2>2. devpos \in 0 .. Len(file) /\ start \in 0 .. devpos
    BY <2>1 DEF Init
  <2>3. data \in Seq(Char) /\ got \in Seq(Char) /\ prior \in Seq(Char) /\ Len(data) = 0 /\ pos \in 0 .. Len(data)
    BY DEF Init
  <2>. QED
    BY <2>1, <2>2, <2>3 DEF Init, TypeOK
<1>2. AbortsOnlyOnLoneCr
  BY DEF Init, AbortsOnlyOnLoneCr
<1>3. Untranslated /\ Ungettable
  <2>1. Len(data) = 0 /\ Len(got) = 0 /\ pos = 0 /\ devpos = 0 /\ start = 0
    BY DEF Init
  <2>2. ~pendingCr /\ ~carried /\ ~aborted /\ prior = <<>>
    BY DEF Init
  <2>. QED
    BY <2>1, <2>2 DEF Untranslated, Ungettable, Avail
<1>4. /\ Given(file, start, devpos, carried) = Held(FALSE)
      /\ ~EndsCr(Held(FALSE))
      /\ Visible(mode, Given(file, start, devpos, carried)) = <<>>
  <2>1. file \in Text /\ 0 \in 0 .. Len(file) /\ FALSE \in BOOLEAN
    BY <1>1, Types
  <2>2. start = 0 /\ devpos = 0 /\ carried = FALSE
    BY DEF Init
  <2>. QED
    BY <2>1, <2>2, GivenNone
<1>5. HeldIsLast
  <2>1. ~EndsCr(Delivered)
    BY <1>4, DeliveredIs
  <2>. QED
    BY <2>1 DEF Init, HeldIsLast, EndsCr
<1>6. TextNow
  <2>0. <<>> \in Text
    BY DEF Text
  <2>1. After(<<>>, 0) = <<>>
    BY <2>0, AllTaken
  <2>2. got = <<>> /\ prior = <<>> /\ data = <<>> /\ pos = 0
    BY DEF Init
  <2>. QED
    BY <1>4, <2>1, <2>2 DEF TextNow
<1>. QED
  BY <1>1, <1>2, <1>3, <1>5, <1>6 DEF IInv, Inv

(* What a read from the buffer alone does.                                 *)
LEMMA TakeNow ==
  ASSUME TypeOK, NEW n \in Nat, n <= Avail, got' = Taken(got, data, pos, n)
  PROVE  /\ got' \in Text /\ Len(got') = Len(got) + n /\ Len(got') \in Nat
         /\ got' \o After(data, pos + n) = got \o After(data, pos)
         /\ Ungettable => /\ EndsWith(got', data, pos + n, Spoilt)
                          /\ devpos # start => pos + n <= Len(got') - Len(prior)
<1>1. got \in Text /\ data \in Text /\ pos \in Nat /\ pos + n <= Len(data)
      /\ Len(got) \in Nat /\ Len(prior) \in Nat
  BY Types
<1>2. /\ Taken(got, data, pos, n) \in Text
      /\ Len(Taken(got, data, pos, n)) = Len(got) + n
      /\ Taken(got, data, pos, n) \o After(data, pos + n) = got \o After(data, pos)
  <2>1. got \in Text /\ InText(data, pos, n)
    BY <1>1 DEF InText
  <2>2. IsTaken(got, data, pos, n, Taken(got, data, pos, n))
    BY <2>1, TakeText
  <2>. QED
    BY <2>2 DEF IsTaken
<1>3. EndsWith(got, data, pos, Spoilt) => EndsWith(Taken(got, data, pos, n), data, pos + n, Spoilt)
  BY <1>1, TakeEnds, Zenon
<1>4. Ungettable => EndsWith(got', data, pos + n, Spoilt)
  BY <1>3, UngettableIs
<1>5. pos <= Len(got) - Len(prior) => pos + n <= Len(got') - Len(prior)
  BY <1>1, <1>2
<1>6. Ungettable => (devpos # start => pos + n <= Len(got') - Len(prior))
  BY <1>5, UngettableIs, Zenon
<1>7. /\ got' \in Text /\ Len(got') = Len(got) + n /\ Len(got') \in Nat
      /\ got' \o After(data, pos + n) = got \o After(data, pos)
  <2>1. /\ got' \in Text /\ Len(got') = Len(got) + n
        /\ got' \o After(data, pos + n) = got \o After(data, pos)
    BY <1>2
  <2>2. Len(got') \in Nat
    BY <1>1, <2>1
  <2>. QED
    BY <2>1, <2>2
<1>. QED
  BY <1>4, <1>6, <1>7, Zenon

(* A read that the buffer satisfies keeps the invariant, and one that      *)
(* takes all there is and finds the stream not good.                       *)
LEMMA TakenInv ==
  ASSUME InAssumption, IInv, ~aborted, NEW n \in Nat, n <= Avail,
         got' = Taken(got, data, pos, n), pos' = pos + n, need' \in Nat,
         state' \subseteq {"bad", "fail", "eof"},
         UNCHANGED <<mode, file, devpos, data, pendingCr, aborted, history, faults>>
  PROVE  IInv'
<1>1. TypeOK /\ Untranslated /\ Ungettable /\ TextNow /\ HeldIsLast
  BY DEF IInv, Inv
<1>2. /\ data \in Text /\ Len(data) \in Nat /\ Len(got) \in Nat
      /\ devpos \in Nat /\ pos \in Nat /\ pos <= Len(data) /\ start \in Nat
  BY <1>1, Types
<1>3. /\ pos + n <= Len(data)
      /\ start' = start /\ prior' = prior /\ carried' = carried
  BY <1>2 DEF history, Avail
<1>4. /\ got' \in Text /\ Len(got') = Len(got) + n
      /\ got' \o After(data, pos + n) = got \o After(data, pos)
      /\ EndsWith(got', data, pos + n, Spoilt)
      /\ devpos # start => pos + n <= Len(got') - Len(prior)
  BY <1>1, TakeNow
<1>6. TypeOK'
  <2>1. pos' \in 0 .. Len(data')
    BY <1>2, <1>3
  <2>. QED
    BY <1>1, <1>3, <1>4, <2>1 DEF TypeOK, Text
<1>7. AbortsOnlyOnLoneCr'
  BY DEF AbortsOnlyOnLoneCr
<1>8. Untranslated'
  <2>1. Avail' = Avail - n /\ Avail \in Int
    BY <1>2, <1>3 DEF Avail
  <2>2. devpos - Avail = start + Len(got) => devpos - (Avail - n) = start + (Len(got) + n)
    BY <1>2, <2>1
  <2>. QED
    BY <1>1, <1>3, <1>4, <2>1, <2>2 DEF Untranslated
<1>9. Ungettable'
  <2>1. Spoilt' = Spoilt
    BY <1>3 DEF Spoilt
  <2>. QED
    BY <1>3, <1>4, <2>1 DEF Ungettable, EndsWith
<1>10. HeldIsLast'
  BY <1>1, <1>3 DEF HeldIsLast, Delivered, CarriedCr
<1>11. TextNow'
  BY <1>1, <1>3, <1>4 DEF TextNow
<1>. QED
  BY <1>6, <1>7, <1>8, <1>9, <1>10, <1>11 DEF IInv, Inv

(* A read that the buffer satisfies keeps the invariant.                   *)
LEMMA ReadDoneInv ==
  ASSUME InAssumption, IInv, ~aborted, NEW n \in Nat \ {0}, Read_Done(n), UNCHANGED <<mode, file>>
  PROVE  IInv'
<1>1. n \in Nat /\ n <= Avail /\ got' = Taken(got, data, pos, n) /\ pos' = pos + n /\ need' \in Nat
  BY DEF Read_Done, Take, Taken
<1>2. /\ state' \subseteq {"bad", "fail", "eof"}
      /\ UNCHANGED <<mode, file, devpos, data, pendingCr, aborted, history, faults>>
  BY DEF Read_Done, IInv, Inv, TypeOK
<1>. QED
  BY <1>1, <1>2, TakenInv

(* underflow in a state where the buffer is used up: what was got is what  *)
(* can be shown of what was given.                                         *)
LEMMA FilledInv ==
  ASSUME InAssumption, IInv, ~aborted, NEW n \in 1 .. Cap, Underflow(n),
         got' = Taken(got, data, pos, Avail), pos' = 0, need' \in Nat,
         state' \subseteq {"bad", "fail", "eof"}, UNCHANGED <<mode, file>>
  PROVE  IInv'
<1>1. TypeOK /\ Untranslated /\ Ungettable /\ TextNow /\ HeldIsLast /\ Inv
  BY DEF IInv, Inv
<1>2. /\ file \in Text /\ data \in Text /\ got \in Text /\ prior \in Text
      /\ Len(file) \in Nat /\ Len(data) \in Nat /\ Len(got) \in Nat /\ Len(prior) \in Nat
      /\ devpos \in Nat /\ devpos <= Len(file) /\ pos \in Nat /\ pos <= Len(data) /\ start \in Nat
      /\ start <= devpos /\ Avail \in Nat /\ pos + Avail = Len(data)
  BY <1>1, Types
<1> DEFINE d == Given(file, start, devpos, carried)
           e == Given(file, start, devpos', carried)
<1>3. /\ data' \in Text /\ pendingCr' \in BOOLEAN /\ aborted' \in BOOLEAN
      /\ start' = start /\ prior' = prior /\ carried' = carried /\ faults' = faults
      /\ devpos' = devpos + n /\ devpos' \in 0 .. Len(file) /\ n \in Nat \ {0}
      /\ d \in Text /\ e \in Text
      /\ Visible(mode, d) \o data' = Visible(mode, e)
      /\ mode = "crlf" => (pendingCr' <=> EndsCr(e))
      /\ mode # "crlf" => pendingCr' = pendingCr /\ ~aborted' /\ Len(data') = n
      /\ aborted' => mode = "crlf" /\ pendingCr' /\ file[devpos'] = "CR"
  BY <1>1, UnderflowText
<1>g. Given(file', start', devpos', carried') = e
  BY <1>3
<1> HIDE DEF d, e
<1>4. /\ got' \in Text /\ Len(got') = Len(got) + Avail /\ Len(got') \in Nat
      /\ got' \o After(data, pos + Avail) = got \o After(data, pos)
  <2>1. Avail <= Avail
    BY <1>2
  <2>. QED
    BY <1>1, <1>2, <2>1, TakeNow
<1>5. After(data, pos + Avail) = <<>> /\ got' \o After(data, pos + Avail) = got'
  BY <1>2, <1>4, AllTaken
<1>6. got' = prior \o Visible(mode, d) /\ Visible(mode, d) \in Text /\ Len(prior) <= Len(got')
  <2>1. got' = prior \o Visible(mode, d)
    BY <1>1, <1>4, <1>5 DEF TextNow, d
  <2>2. Visible(mode, d) \in Text
    BY <1>3, VisibleType
  <2> DEFINE v == Visible(mode, d)
  <2> HIDE DEF v
  <2>3. v \in Text => Len(prior \o v) = Len(prior) + Len(v) /\ Len(v) \in Nat
    BY <1>2, ConcatType
  <2>. QED
    BY <1>2, <2>1, <2>2, <2>3 DEF v
<1>7. TypeOK'
  <2>1. pos' \in 0 .. Len(data')
    BY <1>3 DEF Text
  <2>2. faults' \in Nat /\ carried' \in BOOLEAN /\ mode' \in {"crlf", "plain", "mapped"}
        /\ file' \in Seq(Char) /\ devpos' \in 0 .. Len(file')
    BY <1>1, <1>3 DEF TypeOK
  <2>3. start' \in 0 .. devpos' /\ prior' \in Seq(Char)
    BY <1>2, <1>3 DEF Text
  <2>. QED
    BY <1>3, <1>4, <2>1, <2>2, <2>3 DEF TypeOK, Text
<1>8. AbortsOnlyOnLoneCr'
  BY <1>3 DEF AbortsOnlyOnLoneCr
<1>9. Untranslated'
  <2> SUFFICES ASSUME mode # "crlf"
               PROVE  ~pendingCr' /\ ~carried' /\ prior' = <<>> /\ ~aborted' /\ devpos' - Avail' = start' + Len(got')
    BY DEF Untranslated
  <2>1. Avail' = n
    <3>1. Len(data') = n /\ n \in Int
      BY <1>3
    <3>. QED
      BY <3>1 DEF Avail
  <2>2. ~pendingCr /\ ~carried /\ prior = <<>> /\ devpos - Avail = start + Len(got)
    BY <1>1 DEF Untranslated
  <2>3. devpos' - n = devpos /\ devpos = start + (Len(got) + Avail)
    BY <1>2, <1>3, <2>2
  <2>. QED
    BY <1>3, <1>4, <2>1, <2>2, <2>3
<1>10. Ungettable'
  <2>1. 0 <= Len(got') /\ 0 <= Len(got') - Len(prior)
    BY <1>2, <1>4, <1>6
  <2>. QED
    BY <1>3, <2>1 DEF Ungettable
<1>11. HeldIsLast'
  <2>1. Delivered' = e
    BY <1>3 DEF Delivered, CarriedCr, Given, Held, e
  <2>. QED
    BY <1>1, <1>3, <2>1 DEF HeldIsLast, EndsCr
<1>12. TextNow'
  <2> DEFINE v == Visible(mode, d)
             w == Visible(mode, e)
  <2>1. v \in Text /\ v \o data' = w /\ got' = prior \o v
    BY <1>3, <1>6
  <2> HIDE DEF v, w
  <2>2. (prior \o v) \o data' = prior \o (v \o data')
    <3>1. prior \in Text /\ v \in Text /\ data' \in Text
      BY <1>2, <1>3, <2>1
    <3>. QED
      BY <3>1, ConcatAssoc
  <2>3. After(data', pos') = data'
    BY <1>3, AllTaken
  <2>. QED
    BY <1>3, <1>g, <2>1, <2>2, <2>3 DEF TextNow, w
<1>. QED
  BY <1>7, <1>8, <1>9, <1>10, <1>11, <1>12 DEF IInv, Inv

(* A read that refills the buffer keeps the invariant.                     *)
LEMMA ReadMoreInv ==
  ASSUME InAssumption, IInv, ~aborted, NEW n \in Nat \ {0}, Read_More(n), UNCHANGED <<mode, file>>
  PROVE  IInv'
<1>1. TypeOK
  BY DEF IInv, Inv
<1>2. PICK k \in 1 .. Cap : Underflow(k)
  BY DEF Read_More
<1>3. Avail \in Nat /\ n > Avail
  BY <1>1, Types DEF Read_More
<1>4. got' = Taken(got, data, pos, Avail) /\ pos' = 0 /\ need' \in Nat
  BY <1>3 DEF Read_More, Take, Taken
<1>6. state' \subseteq {"bad", "fail", "eof"}
  BY <1>1 DEF Read_More, TypeOK
<1>. QED
  BY <1>2, <1>4, <1>6, FilledInv

(* A failed underflow: the buffer is at its end, or gone.  A CR that was   *)
(* held back is lost, and the history begins anew.                         *)
LEMMA FailedInv ==
  ASSUME InAssumption, IInv, ~aborted, Underflow_Fails,
         got' = Taken(got, data, pos, Avail), pos' = Len(data'), need' \in Nat,
         state' \subseteq {"bad", "fail", "eof"}, UNCHANGED <<mode, file>>
  PROVE  IInv'
<1>1. TypeOK /\ Untranslated /\ Ungettable /\ TextNow /\ HeldIsLast
  BY DEF IInv, Inv
<1>2. /\ file \in Text /\ data \in Text /\ got \in Text /\ prior \in Text
      /\ Len(file) \in Nat /\ Len(data) \in Nat /\ Len(got) \in Nat /\ Len(prior) \in Nat
      /\ devpos \in Nat /\ devpos <= Len(file) /\ pos \in Nat /\ pos <= Len(data) /\ start \in Nat
      /\ start <= devpos /\ Avail \in Nat /\ pos + Avail = Len(data)
      /\ pendingCr \in BOOLEAN /\ carried \in BOOLEAN
  BY <1>1, Types
<1>3. /\ got' \in Text /\ Len(got') = Len(got) + Avail /\ Len(got') \in Nat
      /\ got' \o After(data, pos + Avail) = got \o After(data, pos)
      /\ EndsWith(got', data, pos + Avail, Spoilt)
      /\ devpos # start => pos + Avail <= Len(got') - Len(prior)
  <2>1. Avail <= Avail
    BY <1>2
  <2>. QED
    BY <1>1, <1>2, <2>1, TakeNow
<1>4. After(data, pos + Avail) = <<>> /\ got' \o After(data, pos + Avail) = got'
  BY <1>2, <1>3, AllTaken
<1>5. got' = got \o After(data, pos)
  BY <1>3, <1>4
<1>6. /\ data' \in Text /\ Len(data') \in Nat
      /\ pendingCr' = FALSE /\ devpos' = devpos /\ aborted' = aborted /\ faults' \in Nat
  <2>1. pendingCr' = FALSE /\ devpos' = devpos /\ aborted' = aborted
    BY DEF Underflow_Fails
  <2>2. faults' \in Nat
    BY <1>1 DEF Underflow_Fails, TypeOK, InAssumption
  <2>3. data' = <<>> \/ data' = [data EXCEPT ![1] = "CR"] \/ data' = data
    BY DEF Underflow_Fails
  <2>4. [data EXCEPT ![1] = "CR"] \in Text /\ <<>> \in Text
    <3>1. "CR" \in Char
      BY DEF Char
    <3>2. data \in [1 .. Len(data) -> Char] /\ Len(data) \in Nat
      BY <1>2 DEF Text
    <3>3. [data EXCEPT ![1] = "CR"] \in [1 .. Len(data) -> Char]
      BY <3>1, <3>2
    <3>. QED
      BY <3>2, <3>3 DEF Text
  <2>5. data' \in Text
    BY <1>2, <2>3, <2>4
  <2>6. Len(data') \in Nat
    BY <2>5 DEF Text
  <2>. QED
    BY <2>1, <2>2, <2>5, <2>6
<1>7. got' \o After(data', pos') = got'
  BY <1>3, <1>6, AllTaken
<1>8. ASSUME start' \in 0 .. devpos', prior' \in Text, carried' \in BOOLEAN PROVE TypeOK'
  <2>1. pos' \in 0 .. Len(data')
    BY <1>6
  <2>2. /\ mode' \in {"crlf", "plain", "mapped"} /\ file' \in Seq(Char)
        /\ devpos' \in 0 .. Len(file') /\ aborted' \in BOOLEAN /\ pendingCr' \in BOOLEAN
    BY <1>1, <1>6 DEF TypeOK
  <2>. QED
    BY <1>3, <1>6, <1>8, <2>1, <2>2 DEF TypeOK, Text
<1>9. AbortsOnlyOnLoneCr'
  BY <1>6 DEF AbortsOnlyOnLoneCr
<1>10. CASE pendingCr
  <2>1. start' = devpos /\ prior' = got' /\ carried' = FALSE /\ mode = "crlf"
    BY <1>1, <1>10 DEF Underflow_Fails, Untranslated
  <2>2. data' = data \/ (data' = [data EXCEPT ![1] = "CR"])
    BY <1>10, <2>1 DEF Underflow_Fails
  <2>3. Len(data') = Len(data) /\ \A i \in 2 .. Len(data) : data'[i] = data[i]
    <3>1. data \in [1 .. Len(data) -> Char]
      BY <1>2 DEF Text
    <3>2. DOMAIN data' = 1 .. Len(data) /\ \A i \in 2 .. Len(data) : data'[i] = data[i]
      BY <1>2, <2>2, <3>1
    <3>3. Len(data') = Len(data)
      BY <1>2, <1>6, <3>2 DEF Text
    <3>. QED
      BY <3>2, <3>3
  <2>4. TypeOK'
    <3>1. start' \in 0 .. devpos' /\ prior' \in Text /\ carried' \in BOOLEAN
      <4>1. start' \in 0 .. devpos'
        BY <1>2, <1>6, <2>1
      <4>2. prior' \in Text /\ carried' \in BOOLEAN
        BY <1>3, <2>1
      <4>. QED
        BY <4>1, <4>2
    <3>. QED
      BY <1>8, <3>1
  <2>5. Untranslated'
    BY <2>1 DEF Untranslated
  <2>6. Given(file', start', devpos', carried') = Held(FALSE) /\ ~EndsCr(Held(FALSE))
        /\ Visible(mode, Held(FALSE)) = <<>>
    <3>1. devpos \in 0 .. Len(file) /\ FALSE \in BOOLEAN
      BY <1>2
    <3>2. /\ Given(file, devpos, devpos, FALSE) = Held(FALSE) /\ ~EndsCr(Held(FALSE))
          /\ Visible(mode, Given(file, devpos, devpos, FALSE)) = <<>>
      BY <1>2, <3>1, GivenNone
    <3>. QED
      BY <1>6, <2>1, <3>2
  <2>7. HeldIsLast'
    <3>1. Delivered' = Given(file', start', devpos', carried')
      BY DEF Delivered, CarriedCr, Given, Held
    <3>. QED
      BY <1>6, <2>1, <2>6, <3>1 DEF HeldIsLast, EndsCr
  <2>8. Ungettable'
    <3>1. pos' = pos + Avail /\ pos' = Len(data)
      BY <1>2, <2>3
    <3>2. pos' <= Len(got') /\ \A i \in 1 .. pos' : got'[Len(got') - pos' + i] = data[i] \/ i = 1
      BY <1>3, <3>1 DEF EndsWith
    <3>3. ASSUME NEW i \in 1 .. pos'
          PROVE  got'[Len(got') - pos' + i] = data'[i] \/ (i = 1 /\ Spoilt')
      <4>1. CASE i = 1
        <5>1. prior' # <<>>
          <6>1. Len(got') # 0
            BY <1>2, <1>3, <3>1, <3>2
          <6>. QED
            BY <1>3, <2>1, <6>1
        <5>. QED
          BY <1>6, <2>1, <4>1, <5>1 DEF Spoilt
      <4>2. CASE i # 1
        <5>1. i \in 2 .. Len(data)
          BY <1>2, <3>1, <4>2
        <5>. QED
          BY <2>3, <3>2, <4>2, <5>1
      <4>. QED
        BY <4>1, <4>2
    <3>. QED
      BY <1>6, <2>1, <3>2, <3>3 DEF Ungettable
  <2>9. TextNow'
    <3>1. got' \o <<>> = got'
      BY <1>3, ConcatEmpty
    <3>. QED
      BY <1>7, <2>1, <2>6, <3>1 DEF TextNow
  <2>. QED
    BY <1>9, <2>4, <2>5, <2>7, <2>8, <2>9 DEF IInv, Inv
<1>11. CASE ~pendingCr
  <2>1. start' = start /\ prior' = prior /\ carried' = carried
    BY <1>11 DEF Underflow_Fails, history
  <2>2. \/ data' = data
        \/ data' = <<>> /\ mode = "mapped"
    BY <1>11 DEF Underflow_Fails
  <2>4. TypeOK'
    BY <1>2, <1>6, <1>8, <2>1
  <2>5. Untranslated'
    <3> SUFFICES ASSUME mode # "crlf"
                 PROVE  ~carried' /\ prior' = <<>> /\ ~aborted' /\ devpos' - Avail' = start' + Len(got')
      BY <1>6 DEF Untranslated
    <3>1. Avail' = 0
      BY <1>6 DEF Avail
    <3>2. ~carried /\ prior = <<>> /\ devpos - Avail = start + Len(got)
      BY <1>1 DEF Untranslated
    <3>3. devpos - 0 = start + (Len(got) + Avail)
      BY <1>2, <3>2
    <3>. QED
      BY <1>3, <1>6, <2>1, <3>1, <3>2, <3>3
  <2>7. HeldIsLast'
    <3>1. Delivered' = Delivered
      BY <1>6, <2>1 DEF Delivered, CarriedCr
    <3>. QED
      BY <1>1, <1>6, <1>11, <2>1, <3>1 DEF HeldIsLast
  <2>8. Ungettable'
    <3>1. Spoilt' = Spoilt
      BY <1>6, <2>1 DEF Spoilt
    <3>2. CASE data' = data
      <4>1. pos' = pos + Avail
        BY <1>2, <3>2
      <4>. QED
        BY <1>3, <1>6, <2>1, <3>1, <3>2, <4>1 DEF Ungettable, EndsWith
    <3>3. CASE data' = <<>> /\ mode = "mapped"
      <4>1. pos' = 0 /\ prior = <<>> /\ Len(prior) = 0
        BY <1>1, <3>3 DEF Untranslated
      <4>2. 0 <= Len(got') /\ 0 <= Len(got') - Len(prior')
        BY <1>3, <2>1, <4>1
      <4>. QED
        BY <4>1, <4>2 DEF Ungettable
    <3>. QED
      BY <2>2, <3>2, <3>3
  <2>9. TextNow'
    <3>1. got' = prior \o Visible(mode, Given(file, start, devpos, carried))
      BY <1>1, <1>5 DEF TextNow
    <3>. QED
      BY <1>6, <1>7, <2>1, <3>1 DEF TextNow
  <2>. QED
    BY <1>9, <2>4, <2>5, <2>7, <2>8, <2>9 DEF IInv, Inv
<1>. QED
  BY <1>2, <1>10, <1>11

(* A read that meets the end keeps the invariant.                          *)
LEMMA ReadEndsInv ==
  ASSUME InAssumption, IInv, ~aborted, NEW n \in Nat \ {0}, Read_Ends(n), UNCHANGED <<mode, file>>
  PROVE  IInv'
<1>1. TypeOK
  BY DEF IInv, Inv
<1>2. Avail \in Nat /\ Avail <= Avail /\ pos + Avail = Len(data)
  BY <1>1, Types
<1>3. got' = Taken(got, data, pos, Avail) /\ need' \in Nat
  BY DEF Read_Ends, Take, Taken
<1>4. state' \subseteq {"bad", "fail", "eof"}
  BY <1>1 DEF Read_Ends, EndOfInput, TypeOK
<1>5. CASE state = {}
  BY <1>3, <1>4, <1>5, FailedInv DEF Read_Ends
<1>6. CASE state # {}
  <2>1. /\ pos' = pos + Avail
        /\ UNCHANGED <<mode, file, devpos, data, pendingCr, aborted, history, faults>>
    BY <1>2, <1>6 DEF Read_Ends
  <2>. QED
    BY <1>2, <1>3, <1>4, <2>1, TakenInv
<1>. QED
  BY <1>5, <1>6

(* Every turn of read keeps the invariant.                                 *)
LEMMA ReadStepInv ==
  ASSUME InAssumption, IInv, ~aborted, NEW n \in Nat \ {0}, ReadStep(n)
  PROVE  IInv'
BY ReadDoneInv, ReadMoreInv, ReadEndsInv DEF ReadStep

(* peek keeps the invariant.                                               *)
LEMMA PeekInv ==
  ASSUME InAssumption, IInv, Peek
  PROVE  IInv'
<1>1. TypeOK
  BY DEF IInv, Inv
<1>2. /\ data \in Text /\ got \in Text
      /\ Len(data) \in Nat /\ pos \in Nat /\ pos + Avail = Len(data)
  BY <1>1, Types
<1>3. ~aborted /\ Avail = 0 /\ UNCHANGED <<mode, file, need, got>>
  BY DEF Peek
<1>4. got' = Taken(got, data, pos, Avail) /\ need' \in Nat
  <2>1. SubSeq(data, pos + 1, pos + 0) = <<>>
    BY <1>2
  <2>2. got = got \o <<>>
    BY <1>2, ConcatEmpty
  <2>. QED
    BY <1>1, <1>2, <1>3, <2>1, <2>2 DEF Taken, TypeOK
<1>5. state' \subseteq {"bad", "fail", "eof"}
  BY <1>1 DEF Peek, EndOfInput, TypeOK
<1>6. CASE \E k \in 1 .. Cap : Underflow(k) /\ pos' = 0
  BY <1>3, <1>4, <1>5, <1>6, FilledInv
<1>7. CASE Underflow_Fails /\ pos' = Len(data')
  BY <1>3, <1>4, <1>5, <1>7, FailedInv
<1>8. CASE UNCHANGED <<buffer, devpos, aborted, history, faults>>
  <2>1. /\ pos' = pos + Avail /\ Avail \in Nat /\ Avail <= Avail
        /\ UNCHANGED <<mode, file, devpos, data, pendingCr, aborted, history, faults>>
    BY <1>2, <1>3, <1>8 DEF buffer
  <2>. QED
    BY <1>3, <1>4, <1>5, <2>1, TakenInv
<1>. QED
  BY <1>6, <1>7, <1>8 DEF Peek

(* unget() moves the last character got to the front of what is unread;    *)
(* where a CR was lost, the first character of the buffer is that CR.      *)
LEMMA UngetInv ==
  ASSUME InAssumption, IInv, Unget
  PROVE  IInv'
<1>1. TypeOK /\ Untranslated /\ Ungettable /\ TextNow /\ AbortsOnlyOnLoneCr /\ HeldIsLast
  BY DEF IInv, Inv
<1>2. /\ file \in Text /\ data \in Text /\ got \in Text /\ prior \in Text
      /\ Len(file) \in Nat /\ Len(data) \in Nat /\ Len(got) \in Nat /\ Len(prior) \in Nat
      /\ devpos \in Nat /\ devpos <= Len(file) /\ pos \in Nat /\ pos <= Len(data) /\ start \in Nat
      /\ pendingCr \in BOOLEAN /\ carried \in BOOLEAN
  BY <1>1, Types
<1>3. ~aborted /\ UNCHANGED <<mode, file, devpos, data, pendingCr, need, aborted, start, carried, faults>>
  BY DEF Unget
<1>4. state' \subseteq {"bad", "fail", "eof"}
  BY <1>1 DEF Unget, TypeOK
<1>5. AbortsOnlyOnLoneCr'
  BY <1>1, <1>3 DEF AbortsOnlyOnLoneCr
<1>d. Delivered' = Delivered
  BY <1>3 DEF Delivered, CarriedCr
<1>6. CASE pos > 0
  <2>1. /\ pos' = pos - 1 /\ got' = Front(got)
        /\ prior' = (IF Spoilt THEN [prior EXCEPT ![Len(got)] = data[pos]] ELSE prior)
    BY <1>6 DEF Unget
  <2>2. /\ pos <= Len(got) /\ (devpos # start => pos <= Len(got) - Len(prior))
        /\ \A i \in 1 .. pos : got[Len(got) - pos + i] = data[i] \/ (i = 1 /\ Spoilt)
    BY <1>1 DEF Ungettable
  <2>3. /\ got # <<>> /\ got' \in Text /\ Len(got') = Len(got) - 1 /\ got = Append(got', Last(got))
        /\ Last(got) = got[Len(got)] /\ \A i \in 1 .. Len(got) - 1 : got'[i] = got[i]
    <3>1. got # <<>>
      BY <1>2, <1>6, <2>2
    <3>. QED
      BY <1>2, <2>1, <3>1, LastFront
  <2>4. data[pos] \in Char /\ (~Spoilt => Last(got) = data[pos])
    <3>1. pos \in 1 .. pos /\ Len(got) - pos + pos = Len(got)
      BY <1>2, <1>6
    <3>2. data[pos] \in Char
      BY <1>2, <1>6 DEF Text
    <3>. QED
      BY <2>2, <2>3, <3>1, <3>2
  <2>5. /\ prior' \in Text /\ Len(prior') = Len(prior) /\ (prior' = <<>> <=> prior = <<>>)
        /\ \A i \in 1 .. Len(prior) : i # Len(got) => prior'[i] = prior[i]
        /\ Spoilt /\ Len(got) <= Len(prior) => prior'[Len(got)] = data[pos]
        /\ ~Spoilt => prior' = prior
    <3>1. CASE ~Spoilt
      BY <1>2, <2>1, <3>1
    <3>2. CASE Spoilt
      <4>1. prior' = [prior EXCEPT ![Len(got)] = data[pos]]
        BY <2>1, <3>2
      <4>2. prior \in [1 .. Len(prior) -> Char]
        BY <1>2 DEF Text
      <4>3. prior' \in [1 .. Len(prior) -> Char]
        BY <2>4, <4>1, <4>2
      <4>4. prior' \in Text /\ Len(prior') = Len(prior)
        BY <1>2, <4>3 DEF Text
      <4>5. prior' = <<>> <=> prior = <<>>
        BY <1>2, <4>4 DEF Text
      <4>6. \A i \in 1 .. Len(prior) : i # Len(got) => prior'[i] = prior[i]
        BY <4>1, <4>2
      <4>7. Len(got) <= Len(prior) => prior'[Len(got)] = data[pos]
        <5>1. Len(got) # 0
          BY <1>2, <1>6, <2>2
        <5>. QED
          BY <1>2, <4>1, <4>2, <5>1
      <4>. QED
        BY <3>2, <4>4, <4>5, <4>6, <4>7
    <3>. QED
      BY <3>1, <3>2
  <2>6. TypeOK'
    <3>1. pos' \in 0 .. Len(data')
      BY <1>2, <1>3, <1>6, <2>1
    <3>. QED
      BY <1>1, <1>3, <1>4, <2>3, <2>5, <3>1 DEF TypeOK, Text
  <2>7. Untranslated'
    <3> SUFFICES ASSUME mode # "crlf"
                 PROVE  ~pendingCr /\ ~carried /\ prior' = <<>> /\ ~aborted /\ devpos - Avail' = start + Len(got')
      BY <1>3 DEF Untranslated
    <3>1. Avail' = Avail + 1 /\ Avail \in Int
      BY <1>2, <1>3, <2>1 DEF Avail
    <3>2. ~pendingCr /\ ~carried /\ prior = <<>> /\ ~aborted /\ devpos - Avail = start + Len(got)
      BY <1>1 DEF Untranslated
    <3>3. devpos - (Avail + 1) = start + (Len(got) - 1)
      BY <1>2, <3>1, <3>2
    <3>. QED
      BY <2>3, <2>5, <3>1, <3>2, <3>3
  <2>8. HeldIsLast'
    BY <1>1, <1>3, <1>d, <2>5 DEF HeldIsLast
  <2>9. Ungettable'
    <3>1. Spoilt' <=> Spoilt
      BY <1>3, <2>5 DEF Spoilt
    <3>2. Len(got') - pos' = Len(got) - pos /\ pos' <= Len(got')
      BY <1>2, <2>1, <2>2, <2>3
    <3>3. ASSUME NEW i \in 1 .. pos'
          PROVE  got'[Len(got') - pos' + i] = data'[i] \/ (i = 1 /\ Spoilt')
      <4>1. i \in 1 .. pos /\ Len(got) - pos + i \in 1 .. Len(got) - 1
        BY <1>2, <1>6, <2>1, <2>2
      <4>2. got'[Len(got) - pos + i] = got[Len(got) - pos + i]
        BY <2>3, <4>1
      <4>. QED
        BY <1>3, <2>2, <3>1, <3>2, <4>1, <4>2
    <3>4. devpos' # start' => pos' <= Len(got') - Len(prior')
      BY <1>2, <1>3, <2>1, <2>2, <2>3, <2>5
    <3>. QED
      BY <3>2, <3>3, <3>4 DEF Ungettable
  <2>10. TextNow'
    <3> DEFINE c == SubSeq(data, (pos - 1) + 1, (pos - 1) + 1)
               w == After(data, pos)
    <3>2. c \in Text /\ w \in Text /\ c = <<data[pos]>> /\ After(data, pos - 1) = c \o w
      <4>1. pos - 1 \in Nat /\ (pos - 1) + 1 = pos /\ (pos - 1) + 1 <= Len(data)
        BY <1>2, <1>6
      <4>2. c \in Text /\ Len(c) = 1 /\ Last(c) = data[pos] /\ After(data, pos - 1) = c \o w
        <5> DEFINE q == pos - 1
                   k == 1
        <5>1. q \in Nat /\ k \in Nat \ {0} /\ q + k <= Len(data) /\ q + k = pos
          BY <4>1
        <5>2. c = SubSeq(data, q + 1, q + k)
          OBVIOUS
        <5> HIDE DEF q, c, k
        <5>3. /\ SubSeq(data, q + 1, q + k) \in Text /\ Len(SubSeq(data, q + 1, q + k)) = k
              /\ Last(SubSeq(data, q + 1, q + k)) = data[q + k]
              /\ After(data, q) = SubSeq(data, q + 1, q + k) \o After(data, q + k)
          <6>1. InText(data, q, k) /\ k # 0
            BY <1>2, <5>1 DEF InText
          <6>2. IsBlock(data, q, k, SubSeq(data, q + 1, q + k))
            BY <6>1, AfterBlock
          <6>. QED
            BY <6>2 DEF IsBlock
        <5>. QED
          BY <5>1, <5>2, <5>3 DEF q, k
      <4>3. w \in Text
        BY <1>2, AfterType
      <4> HIDE DEF c, w
      <4>4. c = <<data[pos]>>
        BY <4>2 DEF Text, Last
      <4>. QED
        BY <4>2, <4>3, <4>4
    <3> HIDE DEF c, w
    <3>3. After(data', pos') = c \o w
      BY <1>3, <2>1, <3>2
    <3>4. CASE ~Spoilt
      <4>1. got = got' \o c
        BY <2>3, <2>4, <3>2, <3>4 DEF Text
      <4>2. got' \o (c \o w) = (got' \o c) \o w
        BY <2>3, <3>2, ConcatAssoc
      <4>3. got \o w = prior \o Visible(mode, Given(file, start, devpos, carried))
        BY <1>1 DEF TextNow, w
      <4>. QED
        BY <1>3, <2>5, <3>3, <3>4, <4>1, <4>2, <4>3 DEF TextNow
    <3>5. CASE Spoilt
      <4>1. start = devpos /\ prior # <<>> /\ ~carried
        BY <1>1, <3>5 DEF Spoilt, HeldIsLast
      <4>2. Visible(mode, Given(file, start, devpos, carried)) = <<>>
        <5>1. devpos \in 0 .. Len(file)
          BY <1>2
        <5>. QED
          BY <1>2, <4>1, <5>1, GivenNone
      <4>3. got \o w = prior
        <5>1. prior \o <<>> = prior
          BY <1>2, ConcatEmpty
        <5>. QED
          BY <1>1, <4>2, <5>1 DEF TextNow, w
      <4>4. got' \o (c \o w) = prior'
        <5> DEFINE u == c \o w
                   v == got' \o u
        <5>0. Len(c) = 1 /\ c[1] = data[pos]
          BY <3>2
        <5>1. /\ u \in Text /\ Len(u) = Len(w) + 1 /\ u[1] = data[pos] /\ Len(w) \in Nat
              /\ \A i \in 1 .. Len(w) : u[1 + i] = w[i]
          BY <3>2, <5>0, ConcatType
        <5> HIDE DEF u
        <5>2. /\ v \in Text /\ Len(v) = Len(got') + Len(u)
              /\ \A i \in 1 .. Len(got') : v[i] = got'[i]
              /\ \A i \in 1 .. Len(u) : v[Len(got') + i] = u[i]
          BY <2>3, <5>1, ConcatType
        <5> HIDE DEF v
        <5>3. /\ Len(got \o w) = Len(got) + Len(w)
              /\ \A i \in 1 .. Len(got) : (got \o w)[i] = got[i]
              /\ \A i \in 1 .. Len(w) : (got \o w)[Len(got) + i] = w[i]
          BY <1>2, <3>2, ConcatType
        <5>4. Len(v) = Len(prior') /\ Len(prior) = Len(got) + Len(w)
          BY <1>2, <2>3, <2>5, <4>3, <5>1, <5>2, <5>3
        <5>5. ASSUME NEW i \in 1 .. Len(v) PROVE v[i] = prior'[i]
          <6>0. i \in 1 .. Len(prior) /\ Len(got) <= Len(prior)
            BY <1>2, <2>5, <5>1, <5>4
          <6>1. CASE i < Len(got)
            <7>1. i \in 1 .. Len(got') /\ i \in 1 .. Len(got) - 1 /\ i \in 1 .. Len(got)
              BY <1>2, <2>3, <6>1
            <7>. QED
              BY <2>3, <2>5, <4>3, <5>2, <5>3, <6>0, <6>1, <7>1
          <6>2. CASE i = Len(got)
            <7>1. Len(got') + 1 = i /\ 1 \in 1 .. Len(u)
              BY <1>2, <2>3, <5>1, <6>2
            <7>2. v[Len(got') + 1] = u[1]
              BY <5>2, <7>1
            <7>. QED
              BY <2>5, <3>5, <5>1, <6>0, <6>2, <7>1, <7>2
          <6>3. CASE i > Len(got)
            <7> DEFINE j == i - Len(got)
            <7>1. j \in 1 .. Len(w) /\ j + 1 \in 1 .. Len(u) /\ 1 + j = j + 1
                  /\ Len(got') + (j + 1) = i /\ Len(got) + j = i
              BY <1>2, <2>3, <5>1, <5>4, <6>0, <6>3
            <7> HIDE DEF j
            <7>2. v[Len(got') + (j + 1)] = u[1 + j]
              BY <5>2, <7>1
            <7>3. u[1 + j] = w[j] /\ (got \o w)[Len(got) + j] = w[j]
              BY <5>1, <5>3, <7>1
            <7>4. v[i] = w[j] /\ prior[i] = w[j]
              BY <4>3, <7>1, <7>2, <7>3
            <7>5. prior'[i] = prior[i]
              BY <1>2, <2>5, <6>0, <6>3
            <7>. QED
              BY <7>4, <7>5
          <6>. QED
            BY <1>2, <6>1, <6>2, <6>3
        <5>6. v = prior'
          BY <2>5, <5>2, <5>4, <5>5, TextEqual
        <5>. QED
          BY <5>6 DEF u, v
      <4>5. prior' \o <<>> = prior'
        BY <2>5, ConcatEmpty
      <4>. QED
        BY <1>3, <3>3, <4>2, <4>4, <4>5 DEF TextNow
    <3>. QED
      BY <3>4, <3>5
  <2>. QED
    BY <1>5, <2>6, <2>7, <2>8, <2>9, <2>10 DEF IInv, Inv
<1>7. CASE ~ (pos > 0)
  <2>1. UNCHANGED <<pos, got, prior>>
    BY <1>7 DEF Unget
  <2>2. TypeOK'
    BY <1>1, <1>3, <1>4, <2>1 DEF TypeOK
  <2>3. Untranslated' /\ Ungettable' /\ HeldIsLast'
    BY <1>1, <1>3, <1>d, <2>1 DEF Untranslated, Ungettable, Avail, Spoilt, HeldIsLast
  <2>4. TextNow'
    BY <1>1, <1>3, <2>1 DEF TextNow
  <2>. QED
    BY <1>5, <2>2, <2>3, <2>4 DEF IInv, Inv
<1>. QED
  BY <1>6, <1>7

(* seek keeps the invariant.                                               *)
LEMMA SeekInv ==
  ASSUME InAssumption, IInv, NEW off \in Int, NEW dir, Seek(off, dir)
  PROVE  IInv'
<1>1. TypeOK /\ Untranslated /\ Ungettable /\ TextNow /\ AbortsOnlyOnLoneCr /\ HeldIsLast
  BY DEF IInv, Inv
<1>2. /\ file \in Text /\ data \in Text /\ got \in Text
      /\ Len(file) \in Nat /\ Len(data) \in Nat /\ Len(got) \in Nat
      /\ devpos \in Nat /\ devpos <= Len(file) /\ pos \in Nat /\ pos <= Len(data) /\ start \in Nat
      /\ Avail \in Nat /\ pendingCr \in BOOLEAN
  BY <1>1, Types
<1>3. ~aborted /\ UNCHANGED <<mode, file, need, aborted>>
  BY DEF Seek
<1>4. CASE /\ state' \subseteq {"bad", "fail", "eof"} /\ faults' \in Nat
           /\ UNCHANGED <<buffer, devpos, got, history>>
  <2>1. UNCHANGED <<data, pos, pendingCr, devpos, got, start, prior, carried>>
    BY <1>4 DEF buffer, history
  <2>2. TypeOK'
    BY <1>1, <1>3, <1>4, <2>1 DEF TypeOK
  <2>3. AbortsOnlyOnLoneCr' /\ Untranslated' /\ Ungettable' /\ HeldIsLast'
    BY <1>1, <1>3, <2>1
       DEF AbortsOnlyOnLoneCr, Untranslated, Ungettable, Avail, Spoilt, HeldIsLast, Delivered, CarriedCr
  <2>4. TextNow'
    BY <1>1, <1>3, <2>1 DEF TextNow
  <2>. QED
    BY <2>2, <2>3, <2>4 DEF IInv, Inv
<1>5. CASE Seek_Refused
  BY <1>1, <1>4, <1>5 DEF Seek_Refused, TypeOK
<1>6. CASE Seek_Fails(off, dir)
  BY <1>1, <1>4, <1>6 DEF Seek_Fails, TypeOK
<1>7. CASE Seek_Moves(off, dir)
  <2>1. /\ devpos' = Target(off, dir) /\ devpos' \in 0 .. Len(file)
        /\ start' = (IF dir = "curr" /\ mode # "crlf" THEN start + Len(got) + off ELSE devpos')
        /\ got' = <<>> /\ data' = <<>> /\ pos' = 0 /\ state' = {} /\ prior' = <<>> /\ carried' = pendingCr
        /\ UNCHANGED <<pendingCr, faults>>
    BY <1>7 DEF Seek_Moves
  <2>2. start' = devpos' /\ start' \in 0 .. devpos'
    <3>1. CASE dir = "curr" /\ mode # "crlf"
      <4>1. devpos' = devpos + off - Avail
        BY <2>1, <3>1 DEF Target
      <4>2. devpos - Avail = start + Len(got)
        BY <1>1, <3>1 DEF Untranslated
      <4>3. devpos + off - Avail = start + Len(got) + off
        BY <1>2, <4>2
      <4>4. start' = devpos'
        BY <2>1, <3>1, <4>1, <4>3
      <4>. QED
        BY <2>1, <4>4
    <3>2. CASE ~ (dir = "curr" /\ mode # "crlf")
      BY <2>1, <3>2
    <3>. QED
      BY <3>1, <3>2
  <2>3. <<>> \in Text /\ Len(<<>>) = 0
    BY DEF Text
  <2>4. TypeOK'
    <3>1. pos' \in 0 .. Len(data') /\ data' \in Seq(Char) /\ got' \in Seq(Char) /\ prior' \in Seq(Char)
      BY <2>1
    <3>. QED
      BY <1>1, <1>3, <2>1, <2>2, <3>1 DEF TypeOK
  <2>5. AbortsOnlyOnLoneCr'
    BY <1>3 DEF AbortsOnlyOnLoneCr
  <2>6. Untranslated'
    <3>1. Avail' = 0 /\ Len(got') = 0
      BY <2>1, <2>3 DEF Avail
    <3>. QED
      BY <1>1, <1>3, <2>1, <2>2, <3>1 DEF Untranslated
  <2>7. Ungettable'
    BY <2>1, <2>2, <2>3 DEF Ungettable
  <2>8. /\ Given(file', start', devpos', carried') = Held(pendingCr)
        /\ EndsCr(Held(pendingCr)) <=> pendingCr
        /\ Visible(mode, Held(pendingCr)) = <<>>
    <3>1. mode # "crlf" => ~pendingCr
      BY <1>1 DEF Untranslated
    <3>2. /\ Given(file, devpos', devpos', pendingCr) = Held(pendingCr)
          /\ EndsCr(Held(pendingCr)) <=> pendingCr
          /\ (mode # "crlf" => ~pendingCr) => Visible(mode, Given(file, devpos', devpos', pendingCr)) = <<>>
      BY <1>2, <2>1, GivenNone
    <3>. QED
      BY <1>3, <2>1, <2>2, <3>1, <3>2
  <2>9. HeldIsLast'
    <3>1. Delivered' = Given(file', start', devpos', carried')
      BY DEF Delivered, CarriedCr, Given, Held
    <3>. QED
      BY <2>1, <2>8, <3>1 DEF HeldIsLast, EndsCr
  <2>10. TextNow'
    <3>1. <<>> \o <<>> = <<>> /\ After(<<>>, 0) = <<>>
      BY <2>3, AllTaken, ConcatEmpty
    <3>. QED
      BY <1>3, <2>1, <2>8, <3>1 DEF TextNow
  <2>. QED
    BY <2>4, <2>5, <2>6, <2>7, <2>9, <2>10 DEF IInv, Inv
<1>. QED
  BY <1>5, <1>6, <1>7 DEF Seek

(* Every step keeps the invariant.                                         *)
LEMMA StepInv ==
  ASSUME InAssumption, IInv, [Next]_vars
  PROVE  IInv'
<1>1. TypeOK /\ Untranslated /\ Ungettable /\ TextNow /\ AbortsOnlyOnLoneCr /\ HeldIsLast
  BY DEF IInv, Inv
<1>2. ASSUME NEW n \in Requests, Read(n) PROVE IInv'
  <2>1. n \in Nat \ {0} /\ ~aborted /\ ReadStep(n)
    BY <1>2 DEF Read, InAssumption
  <2>. QED
    BY <2>1, ReadStepInv
<1>3. CASE Continue
  <2>1. need \in Nat \ {0} /\ ~aborted /\ ReadStep(need)
    BY <1>1, <1>3 DEF Continue, TypeOK
  <2>. QED
    BY <2>1, ReadStepInv
<1>4. CASE Peek
  BY <1>4, PeekInv
<1>5. CASE Unget
  BY <1>5, UngetInv
<1>6. CASE Clear \/ UNCHANGED vars
  <2>1. /\ state' \subseteq {"bad", "fail", "eof"}
        /\ UNCHANGED <<mode, file, devpos, data, pos, pendingCr, need, aborted>>
        /\ UNCHANGED <<got, start, prior, carried, faults>>
    BY <1>1, <1>6 DEF Clear, vars, buffer, history, TypeOK
  <2>2. TypeOK'
    BY <1>1, <2>1 DEF TypeOK
  <2>3. AbortsOnlyOnLoneCr' /\ Untranslated' /\ Ungettable' /\ HeldIsLast'
    BY <1>1, <2>1
       DEF AbortsOnlyOnLoneCr, Untranslated, Ungettable, Avail, Spoilt, HeldIsLast, Delivered, CarriedCr
  <2>4. TextNow'
    BY <1>1, <2>1 DEF TextNow
  <2>. QED
    BY <2>2, <2>3, <2>4 DEF IInv, Inv
<1>7. ASSUME NEW off \in -2 .. 2, NEW dir, Seek(off, dir) PROVE IInv'
  BY <1>7, SeekInv
<1>. QED
  BY <1>2, <1>3, <1>4, <1>5, <1>6, <1>7 DEF Next, Call

(* The inductive invariant holds always.                                   *)
LEMMA Invariance == Spec => []IInv
<1>1. Init => IInv
  BY InitInv, InAssumption
<1>2. IInv /\ [Next]_vars => IInv'
  BY StepInv, InAssumption
<1>. QED
  BY <1>1, <1>2, PTL DEF Spec

(* The types; the assertion that every filled buffer has a character fails *)
(* only for a lone CR; a CR is held back exactly when the device gave it   *)
(* last; and what unget() can put back is what the program got last.       *)
THEOREM InvHolds == Spec => []Inv
<1>1. IInv => Inv
  BY DEF IInv
<1>. QED
  BY <1>1, Invariance, PTL

-----------------------------------------------------------------------------
(* The program's text.                                                     *)

(* The file from start is what was given and what comes after it.          *)
LEMMA GivenRest ==
  ASSUME TypeOK
  PROVE  /\ Given(file, start, devpos, carried) \in Text /\ Rest(devpos) \in Text
         /\ CarriedCr \o Rest(start) = Given(file, start, devpos, carried) \o Rest(devpos)
<1> DEFINE h == Held(carried)
           a == Piece(file, start, devpos)
           r == Piece(file, devpos, Len(file))
<1>1. Ordered(file, start, devpos, Len(file))
  BY Types DEF Ordered
<1>2. a \in Text /\ r \in Text /\ Piece(file, start, Len(file)) = a \o r
  BY <1>1, Pieces DEF Parted
<1>3. h \in Text
  BY HeldType
<1>4. Given(file, start, devpos, carried) = h \o a /\ Rest(devpos) = r
      /\ CarriedCr = h /\ Rest(start) = Piece(file, start, Len(file))
  BY DEF Given, Piece, Rest, CarriedCr, Held
<1> HIDE DEF h, a, r
<1>5. h \o a \in Text /\ h \o (a \o r) = (h \o a) \o r
  BY <1>2, <1>3, ConcatType, ConcatAssoc
<1>. QED
  BY <1>2, <1>4, <1>5

(* What was read, what is in the buffer and what is to come are the file,  *)
(* translated.                                                             *)
LEMMA TextIntactHolds ==
  ASSUME IInv
  PROVE  TextIntact
<1> DEFINE d == Given(file, start, devpos, carried)
           r == Rest(devpos)
           u == After(data, pos)
<1>1. TypeOK /\ Untranslated /\ TextNow /\ HeldIsLast
  BY DEF IInv, Inv
<1>2. d \in Text /\ r \in Text /\ CarriedCr \o Rest(start) = d \o r
  BY <1>1, GivenRest
<1>3. got \o u = prior \o Visible(mode, d) /\ Visible(mode, d) \in Text /\ prior \in Text
      /\ got \in Text /\ u \in Text /\ Unread = u
  <2>1. got \in Text /\ data \in Text /\ pos \in Nat /\ prior \in Text
    BY <1>1, Types
  <2>. QED
    BY <1>1, <1>2, <2>1, AfterType, VisibleType DEF TextNow, Unread, After
<1>4. mode = "crlf" => (pendingCr <=> EndsCr(d))
  BY <1>1, DeliveredIs DEF HeldIsLast, EndsCr
<1> HIDE DEF d, r, u
<1>5. CASE mode = "crlf"
  <2> DEFINE v == Decode(Shown(d))
             c == Decode(Held(EndsCr(d)) \o r)
  <2>1. Held(EndsCr(d)) \o r \in Text /\ Decode(d \o r) = v \o c
    BY <1>2, DecodeShown
  <2>2. v \in Text /\ c \in Text /\ v = Visible(mode, d)
    BY <1>2, <1>5, <2>1, ShownFacts, DecodeType DEF Visible
  <2>3. Translated(HeldCr \o r) = c
    <3>1. HeldCr = Held(EndsCr(d))
      BY <1>4, <1>5 DEF HeldCr, Held
    <3>. QED
      BY <1>5, <3>1 DEF Translated
  <2>4. Translated(CarriedCr \o Rest(start)) = v \o c
    BY <1>2, <1>5, <2>1 DEF Translated
  <2> HIDE DEF v, c
  <2>5. (got \o u) \o c = prior \o (v \o c)
    <3>1. prior \in Text /\ v \in Text /\ c \in Text /\ got \o u = prior \o v
      BY <1>3, <2>2
    <3>2. (prior \o v) \o c = prior \o (v \o c)
      BY <3>1, ConcatAssoc
    <3>. QED
      BY <3>1, <3>2
  <2>. QED
    BY <1>3, <2>3, <2>4, <2>5 DEF TextIntact, r
<1>6. CASE mode # "crlf"
  <2>1. ~pendingCr /\ prior = <<>>
    BY <1>1, <1>6 DEF Untranslated
  <2>2. HeldCr \o r = r
    BY <1>2, <2>1, ConcatEmpty DEF HeldCr
  <2>3. got \o u = prior \o d
    BY <1>3, <1>6 DEF Visible
  <2>4. (prior \o d) \o r = prior \o (d \o r)
    BY <1>2, <1>3, ConcatAssoc
  <2>. QED
    BY <1>2, <1>3, <1>6, <2>2, <2>3, <2>4 DEF TextIntact, Translated, r
<1>. QED
  BY <1>5, <1>6

(* The characters of a text after k of them, with and without a CR at the  *)
(* end: how far ahead of the unread text the device is.                    *)
LEMMA AheadCount ==
  ASSUME NEW d \in Text, NEW k \in 0 .. Len(Shown(d))
  PROVE  LET ahead == SubSeq(d, k + 1, Len(d))
             shown == SubSeq(Shown(d), k + 1, Len(Shown(d)))
         IN  /\ k \in 0 .. Len(d) /\ SubSeq(d, 1, k) = SubSeq(Shown(d), 1, k)
             /\ Len(Decode(shown)) \in Nat /\ Removed(ahead) \in Nat
             /\ Len(d) - k = Len(Decode(shown)) + Removed(ahead)
<1> DEFINE s == Shown(d)
           ahead == SubSeq(d, k + 1, Len(d))
           shown == SubSeq(s, k + 1, Len(s))
<1>1. s \in Text /\ Len(s) \in Nat /\ Len(d) \in Nat
  BY ShownFacts DEF Text
<1>2. shown \in Text /\ ahead \in Text
  BY <1>1 DEF Text
<1>3. Decode(shown) \in Text /\ Len(Decode(shown)) \in Nat
  <2> HIDE DEF shown
  <2>1. Decode(shown) \in Text
    BY <1>2, DecodeType
  <2>. QED
    BY <2>1 DEF Text
<1>4. Removed(ahead) \in Nat /\ Len(ahead) + One(EndsCr(ahead)) = Len(Decode(ahead)) + Removed(ahead)
  BY <1>2, RemovedCount
<1>5. CASE ~EndsCr(d)
  <2>1. s = d
    BY <1>5, ShownFacts
  <2>2. Len(ahead) = Len(d) - k /\ (ahead # <<>> => ahead[Len(ahead)] = d[Len(d)])
    BY <1>1, <2>1 DEF Text
  <2>3. ~EndsCr(ahead)
    <3> SUFFICES ASSUME ahead # <<>>, Last(ahead) = "CR" PROVE FALSE
      BY DEF EndsCr
    <3>1. d # <<>>
      BY <1>1, <2>2, <1>2 DEF Text
    <3>2. Last(d) = d[Len(d)] /\ Last(ahead) = ahead[Len(ahead)]
      BY DEF Last
    <3>. QED
      BY <1>5, <2>2, <3>1, <3>2 DEF EndsCr
  <2>4. One(EndsCr(ahead)) = 0
    BY <2>3 DEF One
  <2>5. k \in 0 .. Len(d)
    BY <1>1, <2>1
  <2>6. ahead = shown
    BY <2>1
  <2>7. SubSeq(d, 1, k) = SubSeq(s, 1, k)
    BY <2>1
  <2> HIDE DEF s, ahead, shown
  <2>8. Len(d) - k = Len(Decode(shown)) + Removed(ahead)
    BY <1>3, <1>4, <2>2, <2>4, <2>6
  <2>. QED
    BY <1>3, <1>4, <2>5, <2>7, <2>8 DEF s, ahead, shown
<1>6. CASE EndsCr(d)
  <2>1. d = Append(s, "CR") /\ Len(d) = Len(s) + 1
    <3>1. d = Append(s, "CR")
      BY <1>6, ShownFacts
    <3> HIDE DEF s
    <3>2. Len(Append(s, "CR")) = Len(s) + 1
      BY <1>1 DEF Text
    <3>. QED
      BY <3>1, <3>2
  <2> HIDE DEF s
  <2>2. \A i \in 1 .. Len(s) : d[i] = s[i]
    BY <1>1, <2>1 DEF Text
  <2>3. d[Len(s) + 1] = "CR"
    BY <1>1, <2>1 DEF Text
  <2>4. k \in 0 .. Len(d)
    BY <1>1, <2>1 DEF s
  <2>5. SubSeq(d, 1, k) = SubSeq(s, 1, k)
    BY <1>1, <2>1, <2>2 DEF Text, s
  <2>6. ahead = Append(shown, "CR")
    <3>1. Len(ahead) = Len(d) - k /\ \A i \in 1 .. Len(d) - k : ahead[i] = d[k + i]
      BY <1>1, <2>4 DEF Text
    <3>2. Len(shown) = Len(s) - k /\ \A i \in 1 .. Len(s) - k : shown[i] = s[k + i]
      BY <1>1 DEF Text, s
    <3> HIDE DEF ahead, shown
    <3> DEFINE w == Append(shown, "CR")
    <3>3. w \in Text /\ Len(w) = Len(shown) + 1 /\ w[Len(shown) + 1] = "CR"
          /\ \A i \in 1 .. Len(shown) : w[i] = shown[i]
      BY <1>2 DEF Text, Char
    <3> HIDE DEF w
    <3>4. Len(ahead) = Len(w)
      BY <1>1, <2>1, <3>1, <3>2, <3>3
    <3>5. ASSUME NEW i \in 1 .. Len(ahead) PROVE ahead[i] = w[i]
      <4>0. Len(s) - k \in Nat
        BY <1>1 DEF s
      <4>1. CASE i \in 1 .. Len(s) - k
        <5>1. k + i \in 1 .. Len(s) /\ i \in 1 .. Len(d) - k
          BY <1>1, <2>1, <4>0, <4>1
        <5>. QED
          BY <2>2, <3>1, <3>2, <3>3, <4>1, <5>1
      <4>2. CASE i = Len(s) - k + 1
        <5>1. k + i = Len(s) + 1 /\ i \in 1 .. Len(d) - k
          BY <1>1, <2>1, <4>0, <4>2
        <5>. QED
          BY <2>3, <3>1, <3>2, <3>3, <4>2, <5>1
      <4>3. i \in 1 .. Len(s) - k \/ i = Len(s) - k + 1
        BY <1>1, <2>1, <3>1, <4>0
      <4>. QED
        BY <4>1, <4>2, <4>3
    <3>6. ahead = w
      BY <1>2, <3>3, <3>4, <3>5, TextEqual
    <3>. QED
      BY <3>6 DEF w
  <2> HIDE DEF ahead, shown
  <2>7. EndsCr(ahead) /\ Len(ahead) = Len(shown) + 1
    <3>1. Len(Append(shown, "CR")) = Len(shown) + 1 /\ "CR" \in Char
      BY <1>2 DEF Text, Char
    <3>. QED
      BY <1>2, <2>6, <3>1, AppendFacts DEF EndsCr
  <2>8. One(EndsCr(ahead)) = 1
    BY <2>7 DEF One
  <2>9. Len(Decode(ahead)) = Len(Decode(shown)) + 1
    <3>1. "CR" \in Char /\ ~ ("CR" = "LF" /\ EndsCr(shown))
      BY DEF Char
    <3>2. Len(Decode(Append(shown, "CR"))) = Len(Decode(shown)) + (IF "CR" = "LF" /\ EndsCr(shown) THEN 0 ELSE 1)
      BY <1>2, <3>1, DecodeLength
    <3>. QED
      BY <2>6, <3>1, <3>2
  <2>10. Len(shown) = Len(s) - k
    BY <1>1 DEF Text, s, shown
  <2>11. Len(d) - k = Len(Decode(shown)) + Removed(ahead)
    <3> DEFINE x == Len(Decode(shown))
               y == Removed(ahead)
    <3>1. x \in Nat /\ y \in Nat /\ Len(ahead) + 1 = (x + 1) + y
      BY <1>3, <1>4, <2>8, <2>9
    <3>2. k \in Int /\ Len(s) \in Nat /\ Len(d) = Len(s) + 1 /\ Len(ahead) = (Len(s) - k) + 1
      BY <1>1, <2>1, <2>4, <2>7, <2>10
    <3> HIDE DEF x, y
    <3>3. Len(d) - k = x + y
      BY <3>1, <3>2
    <3>. QED
      BY <3>3 DEF x, y
  <2>. QED
    BY <1>3, <1>4, <2>4, <2>5, <2>11 DEF s, ahead, shown
<1>. QED
  BY <1>5, <1>6

(* The place the program is told is too far by the CRs taken out of what   *)
(* is ahead.                                                               *)
LEMMA TellExactHolds ==
  ASSUME IInv
  PROVE  TellExact
<1> DEFINE d == Given(file, start, devpos, carried)
           u == After(data, pos)
<1>1. TypeOK /\ Untranslated /\ TextNow /\ HeldIsLast /\ Ungettable
  BY DEF IInv, Inv
<1>2. /\ file \in Text /\ data \in Text /\ got \in Text /\ prior \in Text
      /\ Len(file) \in Nat /\ Len(data) \in Nat /\ Len(got) \in Nat /\ Len(prior) \in Nat
      /\ devpos \in Nat /\ devpos <= Len(file) /\ pos \in Nat /\ pos <= Len(data) /\ start \in Nat
      /\ start <= devpos /\ Avail \in Nat /\ pos + Avail = Len(data) /\ carried \in BOOLEAN
  BY <1>1, Types
<1>3. d \in Text /\ Len(d) = Len(CarriedCr) + (devpos - start) /\ Len(d) \in Nat /\ Len(CarriedCr) \in Nat
  <2>1. Ordered(file, start, devpos, devpos)
    BY <1>2 DEF Ordered
  <2>2. d \in Text /\ Len(d) = Len(Held(carried)) + (devpos - start)
    BY <2>1, GivenMore
  <2>3. CarriedCr = Held(carried)
    BY DEF CarriedCr, Held
  <2>4. Len(Held(carried)) \in Nat
    BY HeldType DEF Text
  <2> HIDE DEF d
  <2>5. Len(d) \in Nat
    BY <2>2 DEF Text
  <2>. QED
    BY <2>2, <2>3, <2>4, <2>5
<1>4. u \in Text /\ Len(u) = Avail
  BY <1>2 DEF After, Text
<1>5. got \o u = prior \o Visible(mode, d)
  BY <1>1 DEF TextNow
<1>6. Delivered = d
  BY DeliveredIs
<1> HIDE DEF d, u
<1>7. CASE Len(got) < Len(prior)
  <2>1. devpos = start
    BY <1>1, <1>2, <1>7 DEF Ungettable
  <2>2. prior # <<>> /\ ~carried
    <3>1. prior # <<>>
      BY <1>2, <1>7
    <3>. QED
      BY <1>1, <3>1 DEF HeldIsLast
  <2>3. Visible(mode, d) = <<>>
    <3>1. devpos \in 0 .. Len(file)
      BY <1>2
    <3>. QED
      BY <1>2, <2>1, <2>2, <3>1, GivenNone DEF d
  <2>4. got \o u = prior
    BY <1>2, <1>5, <2>3, ConcatEmpty
  <2>5. Len(got) + Avail = Len(prior)
    BY <1>2, <1>4, <2>4, ConcatType
  <2>6. devpos - Avail = start - (Len(prior) - Len(got))
    BY <1>2, <2>1, <2>5
  <2>. QED
    BY <1>7, <2>6 DEF TellExact
<1>8. CASE ~ (Len(got) < Len(prior))
  <2> DEFINE behind(k) == SubSeq(d, 1, k)
             ahead(k) == SubSeq(d, k + 1, Len(d))
             place(k) == start - Len(CarriedCr) + k
             Told(k) == /\ got = prior \o Translated(behind(k))
                        /\ devpos - Avail = place(k) + (IF mode = "crlf" THEN Removed(ahead(k)) ELSE 0)
  <2>0. Len(prior) <= Len(got)
    BY <1>2, <1>8
  <2>1. \E k \in 0 .. Len(d) : Told(k)
    <3>1. CASE mode = "crlf"
      <4> DEFINE s == Shown(d)
      <4>1. s \in Text /\ got \o u = prior \o Decode(s)
        BY <1>3, <1>5, <3>1, ShownFacts DEF Visible
      <4> HIDE DEF s
      <4>2. PICK k \in 0 .. Len(s) : /\ got = prior \o Decode(SubSeq(s, 1, k))
                                     /\ Len(u) = Len(Decode(SubSeq(s, k + 1, Len(s))))
        <5>1. got \in Text /\ prior \in Text /\ Reads(got, u, prior, s)
          BY <1>2, <2>0, <4>1 DEF Reads
        <5>2. Splits(got, u, prior, s)
          BY <1>4, <4>1, <5>1, GotIsDecoded
        <5>. QED
          BY <5>2 DEF Splits
      <4>3. /\ k \in 0 .. Len(d) /\ SubSeq(d, 1, k) = SubSeq(s, 1, k)
            /\ Removed(SubSeq(d, k + 1, Len(d))) \in Nat
            /\ Len(d) - k = Len(Decode(SubSeq(s, k + 1, Len(s)))) + Removed(SubSeq(d, k + 1, Len(d)))
        BY <1>3, AheadCount DEF s
      <4>4. got = prior \o Translated(behind(k))
        BY <3>1, <4>2, <4>3 DEF Translated
      <4>5. devpos - Avail = place(k) + Removed(ahead(k))
        <5> DEFINE x == Removed(ahead(k))
        <5>1. x \in Nat /\ Len(d) - k = Avail + x
          BY <1>4, <4>2, <4>3
        <5> HIDE DEF x
        <5>2. devpos - Avail = place(k) + x
          BY <1>2, <1>3, <4>3, <5>1
        <5>. QED
          BY <5>2 DEF x
      <4>6. Told(k)
        BY <3>1, <4>4, <4>5
      <4> HIDE DEF Told
      <4>. QED
        BY <4>3, <4>6
    <3>2. CASE mode # "crlf"
      <4>1. ~carried /\ prior = <<>> /\ devpos - Avail = start + Len(got)
        BY <1>1, <3>2 DEF Untranslated
      <4>2. got \o u = d /\ Len(CarriedCr) = 0
        <5>1. Visible(mode, d) = d /\ prior \o d = d
          BY <1>3, <3>2, <4>1, ConcatEmpty DEF Visible
        <5>. QED
          BY <1>5, <4>1, <5>1 DEF CarriedCr
      <4>3. Len(got) \in 0 .. Len(d) /\ SubSeq(d, 1, Len(got)) = got
        <5>1. /\ Len(d) = Len(got) + Len(u) /\ Len(u) \in Nat
              /\ \A i \in 1 .. Len(got) : d[i] = got[i]
          <6>1. got \in Text /\ u \in Text
            BY <1>2, <1>4
          <6>2. /\ Len(got \o u) = Len(got) + Len(u) /\ Len(u) \in Nat
                /\ \A i \in 1 .. Len(got) : (got \o u)[i] = got[i]
            BY <6>1, ConcatType
          <6>. QED
            BY <4>2, <6>2
        <5>2. Len(got) \in 0 .. Len(d)
          BY <1>2, <5>1
        <5>3. SubSeq(d, 1, Len(got)) = got
          BY <1>2, <1>3, <5>1, <5>2 DEF Text
        <5>. QED
          BY <5>2, <5>3
      <4>4. got = prior \o Translated(behind(Len(got)))
        BY <1>2, <3>2, <4>1, <4>3, ConcatEmpty DEF Translated
      <4>5. devpos - Avail = place(Len(got))
        BY <1>2, <4>1, <4>2
      <4>6. Told(Len(got))
        <5>1. place(Len(got)) + 0 = place(Len(got))
          BY <1>2, <4>2
        <5>. QED
          BY <3>2, <4>4, <4>5, <5>1
      <4> HIDE DEF Told
      <4>. QED
        BY <4>3, <4>6
    <3>. QED
      BY <3>1, <3>2
  <2>. QED
    BY <1>6, <1>8, <2>1, Zenon DEF TellExact
<1>. QED
  BY <1>7, <1>8

(* What the program has read, what is in the buffer and what is to come    *)
(* are the translated file from start, however the device cuts it into     *)
(* blocks, with the CRs that were lost or carried over a seek accounted    *)
(* for; and tell() and relative seeks are off by the CRs taken out of the  *)
(* text ahead, in CR LF translation, and exact without it.                 *)
THEOREM InputExactHolds == Spec => []InputExact
<1>1. IInv => InputExact
  BY TextIntactHolds, TellExactHolds DEF InputExact
<1>. QED
  BY <1>1, Invariance, PTL

(* "eof" comes when the program has all that the device gave but for a CR  *)
(* at its end: nothing is left in the buffer, and a working device reports *)
(* the end only at the end of the file.                                    *)
THEOREM EndAfterEverythingHolds == Spec => EndAfterEverything
<1>1. IInv /\ [Next]_vars =>
        [state = {} /\ "eof" \in state' =>
           /\ got' = prior \o Everything(Delivered)
           /\ faults' = faults => devpos = Len(file)]_vars
  <2> SUFFICES ASSUME IInv, Next, state = {}, "eof" \in state'
               PROVE  /\ got' = prior \o Everything(Delivered)
                      /\ faults' = faults => devpos = Len(file)
    OBVIOUS
  <2>1. TypeOK /\ TextNow
    BY DEF IInv, Inv
  <2>2. /\ file \in Text /\ data \in Text /\ got \in Text
        /\ Len(file) \in Nat /\ Len(data) \in Nat /\ pos \in Nat
        /\ Avail \in Nat /\ pos + Avail = Len(data)
    BY <2>1, Types
  <2>3. Underflow_Fails /\ got' = Taken(got, data, pos, Avail)
    <3>1. ASSUME NEW n, ReadStep(n)
          PROVE  Underflow_Fails /\ got' = Taken(got, data, pos, Avail)
      BY <3>1 DEF ReadStep, Read_Done, Read_More, Read_Ends, Take, Taken
    <3>2. CASE Peek
      <4>1. SubSeq(data, pos + 1, pos + 0) = <<>> /\ got \o <<>> = got
        BY <2>2, ConcatEmpty
      <4>2. Avail = 0 /\ got' = got /\ Underflow_Fails
        BY <3>2 DEF Peek
      <4>. QED
        BY <4>1, <4>2 DEF Taken
    <3>3. ~ Unget /\ ~ Clear
      BY DEF Unget, Clear
    <3>4. ASSUME NEW off, NEW dir PROVE ~ Seek(off, dir)
      BY DEF Seek, Seek_Refused, Seek_Fails, Seek_Moves
    <3>. QED
      BY <3>1, <3>2, <3>3, <3>4 DEF Next, Call, Read, Continue
  <2>4. faults' = faults => devpos = Len(file)
    BY <2>1, <2>3 DEF Underflow_Fails, TypeOK
  <2>5. got' = got \o After(data, pos)
    <3>1. Avail <= Avail
      BY <2>2
    <3>2. got' \in Text /\ got' \o After(data, pos + Avail) = got \o After(data, pos)
      BY <2>1, <2>2, <2>3, <3>1, TakeNow
    <3>. QED
      BY <2>2, <3>2, AllTaken
  <2>6. got' = prior \o Everything(Delivered)
    BY <2>1, <2>5, DeliveredIs, EverythingIs DEF TextNow
  <2>. QED
    BY <2>4, <2>6
<1>. QED
  BY <1>1, Invariance, PTL DEF Spec, EndAfterEverything
=============================================================================
