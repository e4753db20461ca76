--------------------------- MODULE DevBufOutProofs ---------------------------
(***************************************************************************)
(* Proofs about DevBufOut, for every size of the buffer and of its gap,    *)
(* every text, and any number of failures of the device.                   *)
(***************************************************************************)
EXTENDS DevBufOut, FoldProofs

(* What a terminal makes of a text is a fold, and is cut as the text is.   *)
CellChar == Char \union {"CR"}
Text == Seq(CellChar)
Seen == [see : Seq(Item), in : {"text", "esc", "csi"}]
SeeStep(m) == [vc \in Seen \X CellChar |-> SeeChar(m, vc[1], vc[2])]

(* One character more leads to what a reader may have seen.                *)
LEMMA SeeCharType ==
  ASSUME NEW m, NEW v \in Seen, NEW c \in CellChar
  PROVE  SeeChar(m, v, c) \in Seen
<1> DEFINE q == v.see
<1>1. v = [see |-> q, in |-> v.in] /\ q \in Seq(Item) /\ v.in \in {"text", "esc", "csi"}
  BY DEF Seen
<1>2. c \in Item /\ "SGR" \in Item /\ "CR" \in Item /\ "LF" \in Item
  BY DEF CellChar, Item, Char
<1> HIDE DEF q
<1>3. Append(q, c) \in Seq(Item) /\ Append(q, "SGR") \in Seq(Item) /\ q \o <<"CR", "LF">> \in Seq(Item)
  BY <1>1, <1>2
<1>4. CASE v.in = "esc"
  BY <1>1, <1>4 DEF SeeChar, Seen
<1>5. CASE v.in = "csi" /\ c \in {"m", "["}
  BY <1>1, <1>3, <1>5 DEF SeeChar, Seen, q
<1>6. CASE v.in = "csi" /\ c \notin {"m", "["}
  BY <1>1, <1>6 DEF SeeChar, Seen
<1>7. CASE v.in = "text"
  <2>1. CASE c = "ESC" /\ m.esc # "none"
    BY <1>1, <1>7, <2>1 DEF SeeChar, Seen
  <2>2. CASE c = "LF" /\ m.crlf
    <3>1. SeeChar(m, v, c) = [v EXCEPT !.see = q \o <<"CR", "LF">>]
      BY <1>7, <2>2 DEF SeeChar, q
    <3>. QED
      BY <1>1, <1>3, <3>1 DEF Seen
  <2>3. CASE ~ (c = "ESC" /\ m.esc # "none") /\ ~ (c = "LF" /\ m.crlf)
    <3>1. SeeChar(m, v, c) = [v EXCEPT !.see = Append(q, c)]
      BY <1>7, <2>3 DEF SeeChar, q
    <3>. QED
      BY <1>1, <1>3, <3>1 DEF Seen
  <2>. QED
    BY <2>1, <2>2, <2>3
<1>. QED
  BY <1>1, <1>4, <1>5, <1>6, <1>7

(* SeeText's step stays within what a reader may have seen.                *)
LEMMA SeeFoldable ==
  ASSUME NEW m, NEW v \in Seen
  PROVE  Foldable(Seen, CellChar, SeeStep(m), v)
<1>1. \A vc \in Seen \X CellChar : SeeChar(m, vc[1], vc[2]) \in Seen
  BY SeeCharType
<1>. QED
  BY <1>1 DEF Foldable, SeeStep

(* SeeText is a fold, so FoldProofs applies.                               *)
LEMMA SeeTextIsFold ==
  ASSUME NEW m, NEW v \in Seen, NEW s \in Text
  PROVE  SeeText(m, v, s) = Fold(SeeStep(m), v, s)
<1> DEFINE D == SUBSET (DOMAIN s)
           Solves(g) == g = [S \in D |-> IF S = {} THEN v ELSE SeeChar(m, g[S \ {Max(S)}], s[Max(S)])]
           f == CHOOSE g : Solves(g)
<1>0. Foldable(Seen, CellChar, SeeStep(m), v)
  BY SeeFoldable
<1>1. SeeText(m, v, s) = f[DOMAIN s]
  BY DEF SeeText, FoldLeft, MapThenFoldSet
<1>2. Len(s) \in Nat /\ DOMAIN s = 1 .. Len(s)
  BY DEF Text
<1>3. s \in Seq(CellChar)
  BY DEF Text
<1>4. Solves(f)
  <2>1. PICK g : IsFoldIter(g, Seen, SeeStep(m), v, s)
    BY <1>0, <1>3, FoldIter
  <2>2. ASSUME NEW S \in D, S # {} PROVE g[S] = SeeChar(m, g[S \ {Max(S)}], s[Max(S)])
    <3>1. Max(S) \in 1 .. Len(s)
      <4>1. S \subseteq 0 .. Len(s)
        BY <1>2
      <4>. QED
        BY <1>2, <2>2, <4>1, MaxOf
    <3>2. g[S \ {Max(S)}] \in Seen /\ s[Max(S)] \in CellChar
      BY <1>3, <2>1, <3>1 DEF IsFoldIter
    <3>. QED
      BY <2>1, <2>2, <3>2 DEF IsFoldIter, SeeStep
  <2>3. Solves(g)
    BY <2>1, <2>2 DEF IsFoldIter
  <2>4. \E g1 : Solves(g1)
    <3> HIDE DEF Solves
    <3>. QED
      BY <2>3
  <2>. QED
    <3> HIDE DEF Solves
    <3>. QED
      BY <2>4
<1> HIDE DEF f
<1>5. Follows(f, Seen, SeeStep(m), v, s)
  <2>1. f[{}] = v
    BY <1>4
  <2>2. ASSUME NEW k \in 1 .. Len(s), f[1 .. (k - 1)] \in Seen
        PROVE  f[1 .. k] = SeeStep(m)[<<f[1 .. (k - 1)], s[k]>>]
    <3>1. 1 .. k \in D /\ 1 \in 1 .. k /\ s[k] \in CellChar /\ k \in Nat /\ k # 0
      BY <1>2, <1>3
    <3>2. Max(1 .. k) = k /\ (1 .. k) \ {Max(1 .. k)} = 1 .. (k - 1)
      BY <3>1, MaxOfInterval
    <3>3. f[1 .. k] = SeeChar(m, f[1 .. (k - 1)], s[k])
      BY <1>4, <3>1, <3>2
    <3>. QED
      BY <2>2, <3>1, <3>3 DEF SeeStep
  <2>. QED
    BY <2>1, <2>2 DEF Follows
<1>. QED
  BY <1>0, <1>1, <1>3, <1>5, FoldOfIter

(* What is seen of a text.                                                 *)
LEMMA SeeTextType ==
  ASSUME NEW m, NEW v \in Seen, NEW s \in Text
  PROVE  SeeText(m, v, s) \in Seen
<1>1. s \in Seq(CellChar) /\ Foldable(Seen, CellChar, SeeStep(m), v)
  BY SeeFoldable DEF Text
<1>2. Fold(SeeStep(m), v, s) \in Seen
  BY <1>1, FoldType
<1>. QED
  BY <1>2, SeeTextIsFold

(* Nothing written, nothing more seen.                                     *)
LEMMA SeeTextEmpty ==
  ASSUME NEW m, NEW v \in Seen
  PROVE  SeeText(m, v, <<>>) = v
<1>1. <<>> \in Text
  BY DEF Text
<1>. QED
  BY <1>1, SeeTextIsFold, SeeFoldable, FoldEmpty

(* One character more.                                                     *)
LEMMA SeeTextAppend ==
  ASSUME NEW m, NEW v \in Seen, NEW s \in Text, NEW c \in CellChar
  PROVE  SeeText(m, v, Append(s, c)) = SeeChar(m, SeeText(m, v, s), c)
<1>1. s \in Seq(CellChar) /\ Append(s, c) \in Text /\ Foldable(Seen, CellChar, SeeStep(m), v)
  BY SeeFoldable DEF Text
<1>2. Fold(SeeStep(m), v, Append(s, c)) = SeeStep(m)[<<Fold(SeeStep(m), v, s), c>>]
  BY <1>1, FoldAppend
<1>3. SeeText(m, v, Append(s, c)) = SeeStep(m)[<<SeeText(m, v, s), c>>]
  BY <1>1, <1>2, SeeTextIsFold
<1>. QED
  BY <1>3, SeeTextType DEF SeeStep

(* Two texts in a row are seen one after the other.                        *)
LEMMA SeeTextConcat ==
  ASSUME NEW m, NEW v \in Seen, NEW s \in Text, NEW t \in Text
  PROVE  SeeText(m, v, s \o t) = SeeText(m, SeeText(m, v, s), t)
<1>1. s \in Seq(CellChar) /\ t \in Seq(CellChar) /\ s \o t \in Text /\ Foldable(Seen, CellChar, SeeStep(m), v)
  BY SeeFoldable DEF Text
<1>2. Fold(SeeStep(m), v, s \o t) = Fold(SeeStep(m), Fold(SeeStep(m), v, s), t)
  BY <1>1, FoldConcat
<1>3. SeeText(m, v, s) \in Seen
  BY SeeTextType
<1>4. SeeText(m, v, s) = Fold(SeeStep(m), v, s) /\ SeeText(m, v, s \o t) = Fold(SeeStep(m), v, s \o t)
  BY <1>1, SeeTextIsFold
<1>. QED
  BY <1>2, <1>3, <1>4, SeeTextIsFold

(* A text of one character.                                                *)
LEMMA SeeTextOne ==
  ASSUME NEW m, NEW v \in Seen, NEW c \in CellChar
  PROVE  SeeText(m, v, <<c>>) = SeeChar(m, v, c)
<1> DEFINE e == <<>>
<1>1. e \in Text /\ Append(e, c) = <<c>>
  BY DEF Text
<1>2. SeeText(m, v, e) = v
  BY SeeTextEmpty
<1> HIDE DEF e
<1>3. SeeText(m, v, Append(e, c)) = SeeChar(m, SeeText(m, v, e), c)
  BY <1>1, SeeTextAppend
<1>. QED
  BY <1>1, <1>2, <1>3

-----------------------------------------------------------------------------
(* What was seen stays seen: texts for the device, and that one of them is *)
(* the beginning of another.                                               *)
Shown == Seq(Item)
Begins(s, t) == \E r \in Shown : t = s \o r

(* What is shown in two parts.                                             *)
LEMMA ShownConcat ==
  ASSUME NEW s \in Shown, NEW t \in Shown
  PROVE  s \o t \in Shown
BY DEF Shown

(* Putting texts together may be grouped either way.                       *)
LEMMA ShownAssoc ==
  ASSUME NEW s \in Shown, NEW t \in Shown, NEW u \in Shown
  PROVE  (s \o t) \o u = s \o (t \o u)
BY DEF Shown

(* The empty text is neutral.                                              *)
LEMMA ShownEmpty ==
  ASSUME NEW s \in Shown
  PROVE  s \o <<>> = s /\ <<>> \in Shown
BY DEF Shown

(* A text begins itself.                                                   *)
LEMMA BeginsItself ==
  ASSUME NEW s \in Shown
  PROVE  Begins(s, s)
<1>1. s = s \o <<>> /\ <<>> \in Shown
  BY ShownEmpty
<1>. QED
  BY <1>1 DEF Begins

(* A beginning of a beginning.                                             *)
LEMMA BeginsFurther ==
  ASSUME NEW s \in Shown, NEW t \in Shown, NEW u \in Shown, Begins(s, t), Begins(t, u)
  PROVE  Begins(s, u)
<1>1. PICK a \in Shown : t = s \o a
  BY DEF Begins
<1>2. PICK b \in Shown : u = t \o b
  BY DEF Begins
<1>3. u = s \o (a \o b)
  <2>1. (s \o a) \o b = s \o (a \o b)
    BY DEF Shown
  <2>. QED
    BY <1>1, <1>2, <2>1
<1>4. a \o b \in Shown
  BY ShownConcat
<1>. QED
  BY <1>3, <1>4 DEF Begins

(* A text begins whatever continues it.                                    *)
LEMMA BeginsConcat ==
  ASSUME NEW s \in Shown, NEW r \in Shown
  PROVE  Begins(s, s \o r)
BY DEF Begins

(* A beginning, as the library's prefix.                                   *)
LEMMA BeginsIsPrefix ==
  ASSUME NEW s \in Shown, NEW t \in Shown, Begins(s, t)
  PROVE  IsPrefix(s, t)
<1>1. PICK r \in Shown : t = s \o r
  BY DEF Begins
<1>2. Len(s) \in Nat /\ Len(r) \in Nat /\ Len(t) = Len(s) + Len(r)
  BY <1>1 DEF Shown
<1>3. SubSeq(t, 1, Len(s)) = s /\ SubSeq(s, 1, Len(s)) = s
  BY <1>1, <1>2 DEF Shown
<1>. QED
  BY <1>2, <1>3 DEF IsPrefix

(* A part of what is to come is a beginning as well.                       *)
LEMMA BeginsPart ==
  ASSUME NEW s \in Shown, NEW r \in Shown, NEW n \in 0 .. Len(r)
  PROVE  /\ SubSeq(r, 1, n) \in Shown
         /\ Begins(s \o SubSeq(r, 1, n), s \o r)
<1> DEFINE a == SubSeq(r, 1, n)
           b == SubSeq(r, n + 1, Len(r))
<1>0. Len(r) \in Nat /\ n \in Nat /\ n <= Len(r)
  BY DEF Shown
<1>1. a \in Shown /\ Len(a) = n /\ \A i \in 1 .. n : a[i] = r[i]
  BY <1>0 DEF Shown
<1>2. b \in Shown /\ Len(b) = Len(r) - n /\ \A i \in 1 .. Len(r) - n : b[i] = r[n + i]
  BY <1>0 DEF Shown
<1> HIDE DEF a, b
<1>3. /\ a \o b \in Shown /\ Len(a \o b) = n + (Len(r) - n)
      /\ \A i \in 1 .. n : (a \o b)[i] = a[i]
      /\ \A i \in 1 .. Len(r) - n : (a \o b)[n + i] = b[i]
  BY <1>1, <1>2 DEF Shown
<1>4. ASSUME NEW i \in 1 .. Len(r) PROVE (a \o b)[i] = r[i]
  <2>1. CASE i <= n
    BY <1>0, <1>1, <1>3, <2>1
  <2>2. CASE i > n
    <3>1. i - n \in 1 .. Len(r) - n /\ n + (i - n) = i
      BY <1>0, <2>2
    <3>. QED
      BY <1>2, <1>3, <3>1
  <2>3. i <= n \/ i > n
    BY <1>0
  <2>. QED
    BY <2>1, <2>2, <2>3
<1>5. a \o b = r
  <2> DEFINE w == a \o b
  <2>1. w \in Shown /\ Len(w) = Len(r) /\ \A i \in 1 .. Len(r) : w[i] = r[i]
    BY <1>0, <1>3, <1>4
  <2> HIDE DEF w
  <2>2. w = r
    BY <2>1 DEF Shown
  <2>. QED
    BY <2>2 DEF w
<1>6. (s \o a) \o b = s \o r
  <2>1. (s \o a) \o b = s \o (a \o b)
    <3>1. s \in Shown /\ a \in Shown /\ b \in Shown
      BY <1>1, <1>2
    <3>. QED
      BY <3>1 DEF Shown
  <2>. QED
    BY <1>5, <2>1
<1>. QED
  BY <1>1, <1>2, <1>6 DEF Begins, a

(* One character more only adds to what is seen.                           *)
LEMMA SeeCharGrows ==
  ASSUME NEW m, NEW v \in Seen, NEW c \in CellChar
  PROVE  Begins(v.see, SeeChar(m, v, c).see)
<1> DEFINE q == v.see
           w == SeeChar(m, v, c)
<1>1. v = [see |-> q, in |-> v.in] /\ q \in Shown /\ v.in \in {"text", "esc", "csi"}
  BY DEF Seen, Shown
<1>2. c \in Item /\ <<"SGR">> \in Shown /\ <<"CR", "LF">> \in Shown /\ <<c>> \in Shown /\ <<>> \in Shown
  BY DEF CellChar, Item, Char, Shown
<1> HIDE DEF q
<1>3. Append(q, c) = q \o <<c>> /\ Append(q, "SGR") = q \o <<"SGR">> /\ q = q \o <<>>
  BY <1>1 DEF Shown
<1>4. w.see \in {q, q \o <<"SGR">>, q \o <<"CR", "LF">>, q \o <<c>>}
  <2>1. CASE v.in = "esc"
    BY <1>1, <2>1 DEF SeeChar
  <2>2. CASE v.in = "csi" /\ c \in {"m", "["}
    BY <1>1, <1>3, <2>2 DEF SeeChar, q
  <2>3. CASE v.in = "csi" /\ c \notin {"m", "["}
    BY <1>1, <2>3 DEF SeeChar
  <2>4. CASE v.in = "text" /\ c = "ESC" /\ m.esc # "none"
    BY <1>1, <2>4 DEF SeeChar
  <2>5. CASE v.in = "text" /\ c = "LF" /\ m.crlf
    <3>1. w = [v EXCEPT !.see = q \o <<"CR", "LF">>]
      BY <2>5 DEF SeeChar, q
    <3>. QED
      BY <1>1, <3>1
  <2>6. CASE v.in = "text" /\ ~ (c = "ESC" /\ m.esc # "none") /\ ~ (c = "LF" /\ m.crlf)
    <3>1. w = [v EXCEPT !.see = Append(q, c)]
      BY <2>6 DEF SeeChar, q
    <3>. QED
      BY <1>1, <1>3, <3>1
  <2>. QED
    BY <1>1, <2>1, <2>2, <2>3, <2>4, <2>5, <2>6
<1> HIDE DEF w
<1>5. \E r \in Shown : w.see = q \o r
  BY <1>2, <1>3, <1>4
<1>. QED
  BY <1>5 DEF Begins, q, w

(* Text only adds to what is seen.                                         *)
LEMMA SeeTextGrows ==
  ASSUME NEW m, NEW v \in Seen, NEW s \in Text
  PROVE  Begins(v.see, SeeText(m, v, s).see)
<1> DEFINE A == {t \in Text : Begins(v.see, SeeText(m, v, t).see)}
<1>0. v.see \in Shown
  BY DEF Seen, Shown
<1>1. <<>> \in A
  <2>1. <<>> \in Text /\ SeeText(m, v, <<>>) = v
    BY SeeTextEmpty DEF Text
  <2>. QED
    BY <1>0, <2>1, BeginsItself
<1>2. ASSUME NEW t \in Text, NEW c \in CellChar, t \in A PROVE Append(t, c) \in A
  <2> DEFINE w == SeeText(m, v, t)
             x == SeeChar(m, w, c)
  <2>1. w \in Seen /\ Begins(v.see, w.see)
    BY <1>2, SeeTextType
  <2>2. SeeText(m, v, Append(t, c)) = x /\ Append(t, c) \in Text
    BY SeeTextAppend DEF Text
  <2> HIDE DEF w
  <2>3. x \in Seen /\ Begins(w.see, x.see)
    BY <2>1, SeeCharType, SeeCharGrows
  <2> HIDE DEF x
  <2>4. w.see \in Shown /\ x.see \in Shown
    BY <2>1, <2>3 DEF Seen, Shown
  <2>5. Begins(v.see, x.see)
    BY <1>0, <2>1, <2>3, <2>4, BeginsFurther
  <2>. QED
    BY <2>2, <2>5
<1>3. Seq(CellChar) \subseteq A
  <2>1. \A t \in Seq(CellChar), c \in CellChar : t \in A => Append(t, c) \in A
    BY <1>2 DEF Text
  <2> HIDE DEF A
  <2>. QED
    BY <1>1, <2>1, SeqInduct
<1>. QED
  BY <1>3 DEF Text

-----------------------------------------------------------------------------
(* Pieces of the buffer.                                                   *)
Cells == [0 .. Size - 1 -> CellChar]
PieceOf(b, first, last) == [i \in 1 .. last - first |-> b[first + i - 1]]
Within(first, last) == first \in Nat /\ last \in Nat /\ first <= last /\ last <= Size

(* The sizes of the buffer and of the gap before it.                       *)
LEMMA SizeType == Size \in Nat /\ Gap \in Nat /\ Cap \in Nat \ {0} /\ Size = Gap + Cap
BY OutAssumption DEF Size

(* first() is in the buffer, and stays where it is while the mode does.    *)
LEMMA FirstType ==
  /\ First \in Nat /\ First <= Size /\ First \in 0 .. Size
  /\ mode' = mode => First' = First
  /\ mode' = Closed => First' = 0
BY SizeType DEF First, Closed

(* A piece of the buffer is the text of its cells.                         *)
LEMMA PieceType ==
  ASSUME NEW b \in Cells, NEW x, NEW y, Within(x, y)
  PROVE  /\ PieceOf(b, x, y) \in Text /\ Len(PieceOf(b, x, y)) = y - x
         /\ \A i \in 1 .. y - x : PieceOf(b, x, y)[i] = b[x + i - 1]
<1>1. x \in Nat /\ y \in Nat /\ y - x \in Nat /\ Size \in Nat /\ y <= Size
  BY SizeType DEF Within
<1>2. \A i \in 1 .. y - x : b[x + i - 1] \in CellChar
  <2>1. \A i \in 1 .. y - x : x + i - 1 \in 0 .. Size - 1
    BY <1>1
  <2>. QED
    BY <2>1 DEF Cells
<1> DEFINE k == y - x
<1>3. PieceOf(b, x, y) = [i \in 1 .. k |-> b[x + i - 1]]
  BY DEF PieceOf
<1>4. k \in Nat /\ \A i \in 1 .. k : b[x + i - 1] \in CellChar
  BY <1>1, <1>2
<1> HIDE DEF k
<1>5. [i \in 1 .. k |-> b[x + i - 1]] \in Seq(CellChar)
  BY <1>4
<1>6. Len([i \in 1 .. k |-> b[x + i - 1]]) = k
  BY <1>4
<1>. QED
  BY <1>3, <1>4, <1>5, <1>6 DEF Text, k

(* A piece from a cell to itself is empty.                                 *)
LEMMA PieceEmpty ==
  ASSUME NEW b \in Cells, NEW x, Within(x, x)
  PROVE  PieceOf(b, x, x) = <<>>
<1>1. PieceOf(b, x, x) \in Text /\ Len(PieceOf(b, x, x)) = x - x
  BY PieceType
<1>. QED
  BY <1>1 DEF Text, Within

(* Texts of one length that agree everywhere are equal.                    *)
LEMMA TextEqual ==
  ASSUME NEW s \in Text, NEW t \in Text, Len(s) = Len(t), \A i \in 1 .. Len(s) : s[i] = t[i]
  PROVE  s = t
BY DEF Text

(* What two texts in a row are, by position.                               *)
LEMMA TextConcat ==
  ASSUME NEW s \in Text, NEW t \in Text
  PROVE  /\ s \o t \in Text /\ Len(s \o t) = Len(s) + Len(t)
         /\ Len(s) \in Nat /\ Len(t) \in Nat
         /\ \A i \in 1 .. Len(s) : (s \o t)[i] = s[i]
         /\ \A i \in 1 .. Len(t) : (s \o t)[Len(s) + i] = t[i]
BY DEF Text

CutAt(b, x, y, z) == b \in Cells /\ Within(x, y) /\ Within(y, z)

(* A piece cut in two.                                                     *)
LEMMA PieceCut ==
  ASSUME NEW b, NEW x, NEW y, NEW z, CutAt(b, x, y, z)
  PROVE  PieceOf(b, x, z) = PieceOf(b, x, y) \o PieceOf(b, y, z)
<1>0. b \in Cells /\ Within(x, y) /\ Within(y, z)
  BY DEF CutAt
<1>1. x \in Nat /\ y \in Nat /\ z \in Nat /\ x <= y /\ y <= z /\ Within(x, z)
  BY <1>0, SizeType DEF Within
<1> DEFINE s == PieceOf(b, x, y)
           t == PieceOf(b, y, z)
           w == PieceOf(b, x, z)
<1>2. s \in Text /\ Len(s) = y - x /\ \A i \in 1 .. y - x : s[i] = b[x + i - 1]
  BY <1>0, PieceType
<1>3. t \in Text /\ Len(t) = z - y /\ \A i \in 1 .. z - y : t[i] = b[y + i - 1]
  BY <1>0, PieceType
<1>w. Within(x, z)
  BY <1>1
<1>4. w \in Text /\ Len(w) = z - x /\ \A i \in 1 .. z - x : w[i] = b[x + i - 1]
  BY <1>0, <1>w, PieceType
<1> HIDE DEF s, t, w
<1> DEFINE u == s \o t
<1>5. /\ u \in Text /\ Len(u) = Len(s) + Len(t)
      /\ \A i \in 1 .. Len(s) : u[i] = s[i]
      /\ \A i \in 1 .. Len(t) : u[Len(s) + i] = t[i]
  BY <1>2, <1>3, TextConcat
<1> HIDE DEF u
<1>6. ASSUME NEW i \in 1 .. Len(w) PROVE w[i] = u[i]
  <2>1. CASE i <= y - x
    <3>1. i \in 1 .. y - x /\ i \in 1 .. z - x /\ i \in 1 .. Len(s)
      BY <1>1, <1>2, <1>4, <2>1
    <3>. QED
      BY <1>2, <1>4, <1>5, <3>1
  <2>2. CASE i > y - x
    <3> DEFINE j == i - (y - x)
    <3>1. j \in 1 .. z - y /\ (y - x) + j = i /\ y + j - 1 = x + i - 1 /\ i \in 1 .. z - x
      BY <1>1, <1>4, <2>2
    <3> HIDE DEF j
    <3>2. u[(y - x) + j] = t[j] /\ t[j] = b[y + j - 1] /\ w[i] = b[x + i - 1]
      BY <1>2, <1>3, <1>4, <1>5, <3>1
    <3>. QED
      BY <3>1, <3>2
  <2>3. i <= y - x \/ i > y - x
    BY <1>1, <1>4
  <2>. QED
    BY <2>1, <2>2, <2>3
<1>7. Len(w) = Len(u)
  BY <1>1, <1>2, <1>3, <1>4, <1>5
<1>8. w = u
  BY <1>4, <1>5, <1>6, <1>7, TextEqual
<1>. QED
  BY <1>8 DEF w, u, s, t

(* A piece of one cell.                                                    *)
LEMMA PieceOne ==
  ASSUME NEW b \in Cells, NEW x \in Nat, x < Size
  PROVE  /\ PieceOf(b, x, x + 1) = <<b[x]>> /\ b[x] \in CellChar
         /\ Within(x, x + 1)
<1>1. Within(x, x + 1) /\ x \in 0 .. Size - 1
  BY SizeType DEF Within
<1>2. b[x] \in CellChar
  BY <1>1 DEF Cells
<1> DEFINE y == x + 1
           w == PieceOf(b, x, y)
<1>y. Within(x, y)
  BY <1>1
<1> HIDE DEF y
<1>3. w \in Text /\ Len(w) = y - x /\ \A i \in 1 .. y - x : w[i] = b[x + i - 1]
  BY <1>y, PieceType
<1> HIDE DEF w
<1>4. Len(w) = 1 /\ w[1] = b[x]
  <2>1. y - x = 1 /\ 1 \in 1 .. 1 /\ x + 1 - 1 = x
    BY DEF y
  <2>. QED
    BY <1>3, <2>1
<1> DEFINE e == <<b[x]>>
<1>e. e \in Text /\ Len(e) = 1 /\ e[1] = b[x]
  BY <1>2 DEF Text
<1> HIDE DEF e
<1>o. \A i \in 1 .. Len(w) : w[i] = e[i]
  BY <1>4, <1>e
<1>5. w = e
  BY <1>3, <1>4, <1>e, <1>o, TextEqual
<1>. QED
  BY <1>1, <1>2, <1>5 DEF w, y, e

Same(b, d, x, y) == Within(x, y) /\ \A p \in x .. y - 1 : b[p] = d[p]

(* Buffers that agree on a stretch have the same piece there.              *)
LEMMA PieceSame ==
  ASSUME NEW b, NEW d, NEW x, NEW y, Same(b, d, x, y)
  PROVE  PieceOf(b, x, y) = PieceOf(d, x, y)
<1>1. x \in Nat /\ y \in Nat /\ \A p \in x .. y - 1 : b[p] = d[p]
  BY DEF Within, Same
<1>2. \A i \in 1 .. y - x : b[x + i - 1] = d[x + i - 1]
  <2>1. \A i \in 1 .. y - x : x + i - 1 \in x .. y - 1
    BY <1>1
  <2>. QED
    BY <1>1, <2>1
<1>. QED
  BY <1>2 DEF PieceOf

(* The first character of a piece, and a piece with one more.              *)
LEMMA SeeHead ==
  ASSUME NEW m, NEW v \in Seen, NEW b \in Cells, NEW x, NEW y, Within(x, y), x < y
  PROVE  SeeText(m, v, PieceOf(b, x, y)) = SeeText(m, SeeChar(m, v, b[x]), PieceOf(b, x + 1, y))
<1>1. x \in Nat /\ x < Size /\ Within(x + 1, y)
  BY SizeType DEF Within
<1>2. PieceOf(b, x, x + 1) = <<b[x]>> /\ b[x] \in CellChar /\ Within(x, x + 1)
  BY <1>1, PieceOne
<1>3. PieceOf(b, x, y) = PieceOf(b, x, x + 1) \o PieceOf(b, x + 1, y)
  <2>1. CutAt(b, x, x + 1, y)
    BY <1>1, <1>2 DEF CutAt
  <2>. QED
    BY <2>1, PieceCut
<1> DEFINE h == PieceOf(b, x, x + 1)
           t == PieceOf(b, x + 1, y)
<1>4. h \in Text /\ t \in Text
  BY <1>1, <1>2, PieceType
<1> HIDE DEF h, t
<1>5. SeeText(m, v, h \o t) = SeeText(m, SeeText(m, v, h), t)
  BY <1>4, SeeTextConcat
<1>6. SeeText(m, v, <<b[x]>>) = SeeChar(m, v, b[x])
  BY <1>2, SeeTextOne
<1>. QED
  BY <1>2, <1>3, <1>5, <1>6 DEF h, t

-----------------------------------------------------------------------------
(* Escape sequences.  Inside of one nothing is seen.                       *)
Ends == {"m", "["}
NoEnd(b, x, y) == \A p \in x .. y - 1 : b[p] \notin Ends

(* Inside a colour sequence nothing is seen until its end.                 *)
LEMMA Inside ==
  ASSUME NEW m, NEW v \in Seen, v.in = "csi", NEW b \in Cells, NEW x, NEW y, Within(x, y), NoEnd(b, x, y)
  PROVE  SeeText(m, v, PieceOf(b, x, y)) = v
<1> DEFINE n == y - x
           A == {k \in 0 .. n : SeeText(m, v, PieceOf(b, y - k, y)) = v}
<1>1. x \in Nat /\ y \in Nat /\ n \in Nat /\ y <= Size /\ Size \in Nat /\ y - n = x
  BY SizeType DEF Within
<1>2. 0 \in A
  <2>1. Within(y, y) /\ y - 0 = y
    BY <1>1 DEF Within
  <2>2. PieceOf(b, y, y) = <<>>
    BY <2>1, PieceEmpty
  <2>3. SeeText(m, v, <<>>) = v
    BY SeeTextEmpty
  <2>. QED
    BY <1>1, <2>1, <2>2, <2>3
<1>3. ASSUME NEW k \in 0 .. n - 1, k \in A PROVE k + 1 \in A
  <2> DEFINE p == y - (k + 1)
  <2>1. p \in Nat /\ Within(p, y) /\ p < y /\ p + 1 = y - k /\ p \in x .. y - 1 /\ k + 1 \in 0 .. n
    BY <1>1 DEF Within
  <2> HIDE DEF p
  <2>2. SeeText(m, v, PieceOf(b, p, y)) = SeeText(m, SeeChar(m, v, b[p]), PieceOf(b, p + 1, y))
    BY <2>1, SeeHead
  <2>3. b[p] \notin Ends
    BY <2>1 DEF NoEnd
  <2>4. SeeChar(m, v, b[p]) = v
    BY <2>3 DEF SeeChar, Ends
  <2>5. SeeText(m, v, PieceOf(b, p, y)) = v
    BY <1>3, <2>1, <2>2, <2>4
  <2>. QED
    BY <2>1, <2>5 DEF p
<1>4. 0 .. n \subseteq A
  <2> HIDE DEF A, n
  <2>. QED
    BY <1>1, <1>2, <1>3, IntervalInduct
<1>5. n \in A
  <2> HIDE DEF A, n
  <2>1. n \in 0 .. n
    BY <1>1
  <2>. QED
    BY <1>4, <2>1
<1>. QED
  BY <1>1, <1>5

(* An unfinished sequence, a sequence of two characters and one that ends  *)
(* with the character before y.                                            *)
LEMMA Unfinished ==
  ASSUME NEW m, m.esc # "none", NEW v \in Seen, v.in = "text",
         NEW b \in Cells, NEW x, NEW y, Within(x, y), x < y, b[x] = "ESC",
         x + 1 = y \/ (b[x + 1] = "[" /\ NoEnd(b, x + 2, y))
  PROVE  /\ SeeText(m, v, PieceOf(b, x, y)).see = v.see
         /\ SeeText(m, v, PieceOf(b, x, y)).in # "text"
<1> DEFINE w == [v EXCEPT !.in = "esc"]
           u == [v EXCEPT !.in = "csi"]
<1>1. w \in Seen /\ w.see = v.see /\ w.in = "esc" /\ u \in Seen /\ u.see = v.see /\ u.in = "csi"
  BY DEF Seen
<1>2. SeeChar(m, v, "ESC") = w
  BY DEF SeeChar
<1>3. SeeChar(m, w, "[") = u
  BY DEF SeeChar, Seen
<1> HIDE DEF w, u
<1>4. SeeText(m, v, PieceOf(b, x, y)) = SeeText(m, w, PieceOf(b, x + 1, y))
  BY <1>2, SeeHead
<1>5. CASE x + 1 = y
  <2>1. Within(y, y)
    BY DEF Within
  <2>2. PieceOf(b, x + 1, y) = <<>>
    BY <1>5, <2>1, PieceEmpty
  <2>3. SeeText(m, w, <<>>) = w
    BY <1>1, SeeTextEmpty
  <2>. QED
    BY <1>1, <1>4, <2>2, <2>3
<1>6. CASE x + 1 # y
  <2>1. Within(x + 1, y) /\ x + 1 < y /\ Within(x + 2, y) /\ (x + 1) + 1 = x + 2
    BY <1>6, SizeType DEF Within
  <2> DEFINE z == x + 1
  <2>2. SeeText(m, w, PieceOf(b, z, y)) = SeeText(m, SeeChar(m, w, b[z]), PieceOf(b, z + 1, y))
    <3> HIDE DEF z
    <3>1. Within(z, y) /\ z < y
      BY <2>1 DEF z
    <3>. QED
      BY <1>1, <3>1, SeeHead
  <2>3. SeeText(m, u, PieceOf(b, x + 2, y)) = u
    BY <1>1, <1>6, <2>1, Inside
  <2>. QED
    BY <1>1, <1>3, <1>4, <1>6, <2>1, <2>2, <2>3
<1>. QED
  BY <1>5, <1>6

(* An ESC with no bracket after it is dropped with the next character.     *)
LEMMA Short ==
  ASSUME NEW m, m.esc # "none", NEW v \in Seen, v.in = "text",
         NEW b \in Cells, NEW x, Within(x, x + 2), b[x] = "ESC", b[x + 1] # "["
  PROVE  SeeText(m, v, PieceOf(b, x, x + 2)) = v
<1> DEFINE w == [v EXCEPT !.in = "esc"]
<1>0. v = [see |-> v.see, in |-> "text"]
  BY DEF Seen
<1>1. w \in Seen /\ w.in = "esc" /\ [w EXCEPT !.in = "text"] = v
  BY <1>0 DEF Seen
<1>2. SeeChar(m, v, "ESC") = w
  BY DEF SeeChar
<1> HIDE DEF w
<1>3. SeeChar(m, w, b[x + 1]) = v
  BY <1>1 DEF SeeChar
<1> DEFINE y == x + 2
           z == x + 1
<1>4. Within(x, y) /\ x < y /\ Within(z, y) /\ z < y /\ z + 1 = y /\ Within(y, y) /\ z = x + 1
  BY SizeType DEF Within
<1> HIDE DEF y, z
<1>5. SeeText(m, v, PieceOf(b, x, y)) = SeeText(m, SeeChar(m, v, b[x]), PieceOf(b, x + 1, y))
  BY <1>4, SeeHead
<1>6. SeeText(m, w, PieceOf(b, z, y)) = SeeText(m, SeeChar(m, w, b[z]), PieceOf(b, z + 1, y))
  BY <1>1, <1>4, SeeHead
<1>7. SeeText(m, v, PieceOf(b, y, y)) = v
  <2>1. PieceOf(b, y, y) = <<>> /\ SeeText(m, v, <<>>) = v
    BY <1>4, PieceEmpty, SeeTextEmpty
  <2>. QED
    BY <2>1
<1>8. SeeText(m, v, PieceOf(b, x, y)) = v
  BY <1>2, <1>3, <1>4, <1>5, <1>6, <1>7
<1>. QED
  BY <1>8 DEF y

(* What is seen of a whole colour sequence.                                *)
LEMMA Finished ==
  ASSUME NEW m, m.esc # "none", NEW v \in Seen, v.in = "text",
         NEW b \in Cells, NEW x, NEW y, Within(x, y), x + 3 <= y, b[x] = "ESC", b[x + 1] = "[",
         NoEnd(b, x + 2, y - 1), b[y - 1] \in Ends
  PROVE  SeeText(m, v, PieceOf(b, x, y)) =
           [see |-> IF b[y - 1] = "m" /\ m.esc = "ctrl" THEN v.see \o <<"SGR">> ELSE v.see, in |-> "text"]
<1> DEFINE w == [v EXCEPT !.in = "esc"]
           u == [v EXCEPT !.in = "csi"]
           z == y - 1
           x1 == x + 1
           x2 == x + 2
<1>1. w \in Seen /\ w.see = v.see /\ w.in = "esc" /\ u \in Seen /\ u.see = v.see /\ u.in = "csi"
  BY DEF Seen
<1>2. SeeChar(m, v, "ESC") = w
  BY DEF SeeChar
<1>3. SeeChar(m, w, "[") = u
  BY DEF SeeChar, Seen
<1>4. /\ x < y /\ Within(x1, z) /\ x1 < z /\ Within(x2, z) /\ x1 + 1 = x2 /\ x1 = x + 1
      /\ z \in Nat /\ z < Size /\ Within(x, z) /\ x < z /\ z + 1 = y /\ Within(z, y)
  BY SizeType DEF Within
<1> HIDE DEF w, u, z, x1, x2
<1>5. SeeText(m, v, PieceOf(b, x, z)) = SeeText(m, SeeChar(m, v, b[x]), PieceOf(b, x + 1, z))
  BY <1>4, SeeHead
<1>6. SeeText(m, w, PieceOf(b, x1, z)) = SeeText(m, SeeChar(m, w, b[x1]), PieceOf(b, x1 + 1, z))
  BY <1>1, <1>4, SeeHead
<1>7. SeeText(m, u, PieceOf(b, x2, z)) = u
  <2>1. NoEnd(b, x2, z)
    BY DEF x2, z
  <2>. QED
    BY <1>1, <1>4, <2>1, Inside
<1>8. SeeText(m, v, PieceOf(b, x, z)) = u
  BY <1>2, <1>3, <1>4, <1>5, <1>6, <1>7
<1>9. SeeText(m, v, PieceOf(b, x, y)) = SeeChar(m, u, b[z])
  <2>1. PieceOf(b, x, y) = PieceOf(b, x, z) \o PieceOf(b, z, y)
    <3>1. CutAt(b, x, z, y)
      BY <1>4 DEF CutAt
    <3>. QED
      BY <3>1, PieceCut
  <2>2. PieceOf(b, z, z + 1) = <<b[z]>> /\ b[z] \in CellChar
    BY <1>4, PieceOne
  <2> DEFINE s == PieceOf(b, x, z)
             t == PieceOf(b, z, y)
  <2>3. s \in Text /\ t \in Text
    BY <1>4, PieceType
  <2> HIDE DEF s, t
  <2>4. SeeText(m, v, s \o t) = SeeText(m, SeeText(m, v, s), t)
    BY <2>3, SeeTextConcat
  <2>5. SeeText(m, u, <<b[z]>>) = SeeChar(m, u, b[z])
    BY <1>1, <2>2, SeeTextOne
  <2>. QED
    BY <1>4, <1>8, <2>1, <2>2, <2>4, <2>5 DEF s, t
<1>10. SeeChar(m, u, b[z]) =
         [see |-> IF b[z] = "m" /\ m.esc = "ctrl" THEN Append(v.see, "SGR") ELSE v.see, in |-> "text"]
  <2>1. b[z] \in Ends
    BY DEF z
  <2>. QED
    BY <1>1, <2>1 DEF SeeChar, Ends
<1>11. Append(v.see, "SGR") = v.see \o <<"SGR">>
  BY DEF Seen
<1>. QED
  BY <1>9, <1>10, <1>11 DEF z

-----------------------------------------------------------------------------
(* What will be seen when the device has got d, then what is converted in  *)
(* the first t characters of b, and then what there is from f to c.        *)
Txt(q) == [see |-> q, in |-> "text"]
Conv(m, d, b, t, f, c) == SeeText(m, Txt(d \o PieceOf(b, 0, t)), PieceOf(b, f, c))
At(d, b, t, f, c) == d \in Shown /\ b \in Cells /\ Within(0, t) /\ t <= f /\ Within(f, c)

(* A reader who is in plain text.                                          *)
LEMMA TxtType ==
  ASSUME NEW q \in Shown
  PROVE  Txt(q) \in Seen /\ Txt(q).see = q /\ Txt(q).in = "text"
BY DEF Txt, Seen, Shown

(* A text is shown as it is.                                               *)
LEMMA TextShown ==
  ASSUME NEW s \in Text
  PROVE  s \in Shown
<1>1. CellChar \subseteq Item
  BY DEF CellChar, Item
<1>. QED
  BY <1>1 DEF Text, Shown

(* The pieces a scan has at hand are texts.                                *)
LEMMA AtType ==
  ASSUME NEW d, NEW b, NEW t, NEW f, NEW c, At(d, b, t, f, c)
  PROVE  /\ PieceOf(b, 0, t) \in Text /\ PieceOf(b, 0, t) \in Shown /\ d \o PieceOf(b, 0, t) \in Shown
         /\ PieceOf(b, f, c) \in Text /\ PieceOf(b, f, c) \in Shown
<1>1. d \in Shown /\ b \in Cells /\ Within(0, t) /\ Within(f, c)
  BY DEF At
<1>2. PieceOf(b, 0, t) \in Text
  BY <1>1, PieceType
<1>3. PieceOf(b, f, c) \in Text
  BY <1>1, PieceType
<1>4. PieceOf(b, 0, t) \in Shown /\ PieceOf(b, f, c) \in Shown
  BY <1>2, <1>3, TextShown
<1>5. d \o PieceOf(b, 0, t) \in Shown
  BY <1>1, <1>4, ShownConcat
<1>. QED
  BY <1>2, <1>3, <1>4, <1>5

(* What the device will show, and that the text already moved begins it.   *)
LEMMA ConvType ==
  ASSUME NEW m, NEW d, NEW b, NEW t, NEW f, NEW c, At(d, b, t, f, c)
  PROVE  /\ Conv(m, d, b, t, f, c) \in Seen
         /\ Begins(d \o PieceOf(b, 0, t), Conv(m, d, b, t, f, c).see)
<1> DEFINE q == d \o PieceOf(b, 0, t)
           s == PieceOf(b, f, c)
<1>1. q \in Shown /\ s \in Text
  BY AtType
<1> HIDE DEF q, s
<1>2. Txt(q) \in Seen /\ Txt(q).see = q
  BY <1>1, TxtType
<1>3. SeeText(m, Txt(q), s) \in Seen /\ Begins(Txt(q).see, SeeText(m, Txt(q), s).see)
  BY <1>1, <1>2, SeeTextType, SeeTextGrows
<1>. QED
  BY <1>2, <1>3 DEF Conv, q, s

(* At the start of a scan all is still to be converted.                    *)
LEMMA ConvStart ==
  ASSUME NEW m, NEW d, NEW b, NEW f, NEW c, At(d, b, 0, f, c)
  PROVE  Conv(m, d, b, 0, f, c) = SeeText(m, Txt(d), PieceOf(b, f, c))
<1>1. b \in Cells /\ d \in Shown /\ Within(0, 0)
  BY DEF At
<1>2. PieceOf(b, 0, 0) = <<>>
  BY <1>1, PieceEmpty
<1>3. d \o <<>> = d
  BY <1>1, ShownEmpty
<1>. QED
  BY <1>2, <1>3 DEF Conv

(* At the end of a scan all is converted.                                  *)
LEMMA ConvEnd ==
  ASSUME NEW m, NEW d, NEW b, NEW t, NEW c, At(d, b, t, c, c)
  PROVE  Conv(m, d, b, t, c, c) = Txt(d \o PieceOf(b, 0, t))
<1>1. b \in Cells /\ Within(c, c)
  BY DEF At
<1>2. PieceOf(b, c, c) = <<>>
  BY <1>1, PieceEmpty
<1>3. Txt(d \o PieceOf(b, 0, t)) \in Seen
  BY AtType, TxtType
<1>. QED
  BY <1>2, <1>3, SeeTextEmpty DEF Conv

(* What is converted may as well be on the device.                         *)
LEMMA ConvSent ==
  ASSUME NEW m, NEW d, NEW b, NEW t, NEW f, NEW c, At(d, b, t, f, c)
  PROVE  /\ At(d \o PieceOf(b, 0, t), b, 0, f, c)
         /\ Conv(m, d \o PieceOf(b, 0, t), b, 0, f, c) = Conv(m, d, b, t, f, c)
<1> DEFINE q == d \o PieceOf(b, 0, t)
<1>1. q \in Shown
  BY AtType
<1> HIDE DEF q
<1>2. At(q, b, 0, f, c)
  BY <1>1, SizeType DEF At, Within
<1>3. Conv(m, q, b, 0, f, c) = SeeText(m, Txt(q), PieceOf(b, f, c))
  BY <1>2, ConvStart
<1>. QED
  BY <1>2, <1>3 DEF Conv, q

(* An ordinary character is seen as it is.                                 *)
LEMMA SeeOrdinary ==
  ASSUME NEW m, NEW q \in Shown, NEW c \in CellChar,
         ~ (c = "ESC" /\ m.esc # "none"), ~ (c = "LF" /\ m.crlf)
  PROVE  SeeChar(m, Txt(q), c) = Txt(q \o <<c>>)
<1>1. Append(q, c) = q \o <<c>>
  BY DEF Shown
<1>2. Txt(q).in = "text" /\ Txt(q).see = q
  BY DEF Txt
<1>3. SeeChar(m, Txt(q), c) = [Txt(q) EXCEPT !.see = Append(q, c)]
  BY <1>2 DEF SeeChar
<1>. QED
  BY <1>1, <1>3 DEF Txt

(* A newline is seen as CR and LF in CRLF mode.                            *)
LEMMA SeeNewline ==
  ASSUME NEW m, NEW q \in Shown, m.crlf
  PROVE  SeeChar(m, Txt(q), "LF") = Txt(q \o <<"CR", "LF">>)
<1>2. Txt(q).in = "text" /\ Txt(q).see = q
  BY DEF Txt
<1>3. SeeChar(m, Txt(q), "LF") = [Txt(q) EXCEPT !.see = q \o <<"CR", "LF">>]
  BY <1>2 DEF SeeChar
<1>. QED
  BY <1>3 DEF Txt

(* A further character for the converted ones, before what is still to be  *)
(* read.                                                                   *)
Putting(b, t, x, b2, f, c) ==
  /\ b \in Cells /\ t \in Nat /\ t < Size /\ x \in CellChar /\ b2 = [b EXCEPT ![t] = x]
  /\ Within(f, c) /\ t < f

HasPut(b, t, x, b2, f, c) ==
  /\ b2 \in Cells
  /\ PieceOf(b2, 0, t + 1) = PieceOf(b, 0, t) \o <<x>>
  /\ PieceOf(b2, f, c) = PieceOf(b, f, c)

(* Characters moved down into the gap, which the scan has left behind.     *)
LEMMA Put ==
  ASSUME NEW b, NEW t, NEW x, NEW b2, NEW f, NEW c, Putting(b, t, x, b2, f, c)
  PROVE  HasPut(b, t, x, b2, f, c)
<1> DEFINE n == Size - 1
           t1 == t + 1
<1>0. /\ b \in Cells /\ t \in Nat /\ t < Size /\ x \in CellChar /\ b2 = [b EXCEPT ![t] = x]
      /\ Within(f, c) /\ t < f
  BY DEF Putting
<1>1. /\ Size \in Nat /\ n \in Int /\ f \in Nat /\ c \in Nat /\ c <= Size
      /\ t \in 0 .. n /\ Within(0, t) /\ Within(t, t1) /\ Within(0, t1)
  BY <1>0, SizeType DEF Within
<1>2. b \in [0 .. n -> CellChar]
  BY <1>0 DEF Cells
<1>c. Cells = [0 .. n -> CellChar]
  BY DEF Cells
<1> HIDE DEF n, t1
<1>3. b2 \in Cells /\ b2[t] = x /\ \A p \in 0 .. n : p # t => b2[p] = b[p]
  BY <1>0, <1>1, <1>2, <1>c
<1>4. PieceOf(b2, 0, t) = PieceOf(b, 0, t)
  <2>1. \A p \in 0 .. t - 1 : p \in 0 .. n /\ p # t
    BY <1>0, <1>1
  <2>2. Same(b2, b, 0, t)
    BY <1>1, <1>3, <2>1 DEF Same
  <2>. QED
    BY <2>2, PieceSame
<1>5. PieceOf(b2, f, c) = PieceOf(b, f, c)
  <2>1. \A p \in f .. c - 1 : p \in 0 .. n /\ p # t
    BY <1>0, <1>1 DEF n
  <2>2. Same(b2, b, f, c)
    BY <1>0, <1>3, <2>1 DEF Same
  <2>. QED
    BY <2>2, PieceSame
<1>6. PieceOf(b2, 0, t1) = PieceOf(b, 0, t) \o <<x>>
  <2>1. PieceOf(b2, t, t + 1) = <<b2[t]>>
    BY <1>0, <1>3, PieceOne
  <2>2. CutAt(b2, 0, t, t1)
    BY <1>1, <1>3 DEF CutAt
  <2>3. PieceOf(b2, 0, t1) = PieceOf(b2, 0, t) \o PieceOf(b2, t, t1)
    BY <2>2, PieceCut
  <2>. QED
    BY <1>3, <1>4, <2>1, <2>3 DEF t1
<1>. QED
  BY <1>3, <1>5, <1>6 DEF HasPut, t1

Kept(m, d, b, t, f, c, b2, t2, f2) == b2 \in Cells /\ Conv(m, d, b2, t2, f2, c) = Conv(m, d, b, t, f, c)

(* An ordinary character moves to the converted ones.                      *)
LEMMA ConvChar ==
  ASSUME NEW m, NEW d, NEW b, NEW t, NEW f, NEW c, At(d, b, t, f, c), f < c,
         ~ (b[f] = "ESC" /\ m.esc # "none"), ~ (b[f] = "LF" /\ m.crlf),
         NEW b2, b2 = [b EXCEPT ![t] = b[f]]
  PROVE  Kept(m, d, b, t, f, c, b2, t + 1, f + 1)
<1> DEFINE f1 == f + 1
           r == PieceOf(b, 0, t)
           q == d \o r
           x == b[f]
           e == <<x>>
<1>1. /\ b \in Cells /\ d \in Shown /\ Within(0, t) /\ Within(f, c) /\ t \in Nat /\ f \in Nat
      /\ f < Size /\ t < Size /\ Within(f1, c) /\ t < f1
  BY SizeType DEF At, Within
<1>2. x \in CellChar
  BY <1>1, PieceOne
<1>3. q \in Shown /\ r \in Shown
  BY AtType
<1>4. <<x>> \in Shown
  <2>1. <<x>> \in Text
    BY <1>2 DEF Text
  <2>. QED
    BY <2>1, TextShown
<1> HIDE DEF f1, x
<1>5. b2 \in Cells /\ PieceOf(b2, 0, t + 1) = PieceOf(b, 0, t) \o <<x>> /\ PieceOf(b2, f1, c) = PieceOf(b, f1, c)
  <2>1. Putting(b, t, x, b2, f1, c)
    BY <1>1, <1>2 DEF Putting, x
  <2>2. HasPut(b, t, x, b2, f1, c)
    BY <2>1, Put
  <2>. QED
    BY <2>2 DEF HasPut
<1>6. d \o (r \o e) = q \o e
  <2> HIDE DEF r, e
  <2>. QED
    BY <1>1, <1>3, <1>4, ShownAssoc DEF e
<1> HIDE DEF q
<1>7. SeeChar(m, Txt(q), x) = Txt(q \o e)
  <2>1. ~ (x = "ESC" /\ m.esc # "none") /\ ~ (x = "LF" /\ m.crlf)
    BY DEF x
  <2>. QED
    BY <1>2, <1>3, <2>1, SeeOrdinary
<1>8. SeeText(m, Txt(q), PieceOf(b, f, c)) = SeeText(m, SeeChar(m, Txt(q), b[f]), PieceOf(b, f + 1, c))
  <2>1. Txt(q) \in Seen
    BY <1>3, TxtType
  <2>. QED
    BY <1>1, <2>1, SeeHead
<1>9. Conv(m, d, b2, t + 1, f1, c) = SeeText(m, Txt(q \o e), PieceOf(b, f1, c))
  BY <1>5, <1>6 DEF Conv
<1>10. Conv(m, d, b, t, f, c) = SeeText(m, Txt(q), PieceOf(b, f, c))
  BY DEF Conv, q
<1>. QED
  BY <1>5, <1>7, <1>8, <1>9, <1>10 DEF f1, x, Kept

(* A line feed becomes two characters, if there is room for them.          *)
LEMMA ConvNewline ==
  ASSUME NEW m, NEW d, NEW b, NEW t, NEW f, NEW c, At(d, b, t, f, c), f < c, t # f, b[f] = "LF", m.crlf,
         NEW b2, b2 = [b EXCEPT ![t] = "CR", ![t + 1] = "LF"]
  PROVE  Kept(m, d, b, t, f, c, b2, t + 2, f + 1)
<1> DEFINE f1 == f + 1
           t1 == t + 1
           t2 == t + 2
           b1 == [b EXCEPT ![t] = "CR"]
           r == PieceOf(b, 0, t)
           q == d \o r
           e == <<"CR", "LF">>
<1>1. /\ b \in Cells /\ d \in Shown /\ Within(0, t) /\ Within(f, c) /\ t \in Nat /\ t1 \in Nat
      /\ f < Size /\ t < Size /\ Within(f1, c) /\ t < f1 /\ t1 < f1 /\ t1 < Size /\ t1 + 1 = t2
  BY SizeType DEF At, Within
<1>2. "CR" \in CellChar /\ "LF" \in CellChar /\ e \in Shown
  BY DEF CellChar, Char, Shown, Item
<1>3. q \in Shown /\ r \in Shown
  BY AtType
<1>b. b2 = [b1 EXCEPT ![t1] = "LF"] /\ t1 = t + 1
  OBVIOUS
<1> HIDE DEF f1, t1, b1
<1>4. b1 \in Cells /\ PieceOf(b1, 0, t + 1) = PieceOf(b, 0, t) \o <<"CR">> /\ PieceOf(b1, f1, c) = PieceOf(b, f1, c)
  <2>1. Putting(b, t, "CR", b1, f1, c)
    BY <1>1, <1>2 DEF Putting, b1
  <2>2. HasPut(b, t, "CR", b1, f1, c)
    BY <2>1, Put
  <2>. QED
    BY <2>2 DEF HasPut
<1>5. b2 \in Cells /\ PieceOf(b2, 0, t1 + 1) = PieceOf(b1, 0, t1) \o <<"LF">> /\ PieceOf(b2, f1, c) = PieceOf(b1, f1, c)
  <2>1. Putting(b1, t1, "LF", b2, f1, c)
    BY <1>1, <1>2, <1>4, <1>b DEF Putting
  <2>2. HasPut(b1, t1, "LF", b2, f1, c)
    BY <2>1, Put
  <2>. QED
    BY <2>2 DEF HasPut
<1>6. PieceOf(b2, 0, t2) = r \o e
  <2>1. PieceOf(b2, 0, t2) = (r \o <<"CR">>) \o <<"LF">>
    BY <1>1, <1>4, <1>5, <1>b
  <2> HIDE DEF r
  <2>2. <<"CR">> \in Shown /\ <<"LF">> \in Shown
    BY DEF Shown, Item, Char
  <2>3. (r \o <<"CR">>) \o <<"LF">> = r \o (<<"CR">> \o <<"LF">>)
    BY <1>3, <2>2, ShownAssoc
  <2>4. <<"CR">> \o <<"LF">> = <<"CR", "LF">>
    <3> DEFINE s == <<"CR">>
               g == <<"LF">>
               w == <<"CR", "LF">>
    <3>1. s \in Text /\ g \in Text /\ Len(s) = 1 /\ Len(g) = 1 /\ s[1] = "CR" /\ g[1] = "LF"
      BY <1>2 DEF Text
    <3>2. w \in Text /\ Len(w) = 2 /\ w[1] = "CR" /\ w[2] = "LF"
      BY <1>2 DEF Text
    <3> HIDE DEF s, g, w
    <3> DEFINE u == s \o g
    <3>3. /\ u \in Text /\ Len(u) = Len(s) + Len(g)
          /\ \A i \in 1 .. Len(s) : u[i] = s[i]
          /\ \A i \in 1 .. Len(g) : u[Len(s) + i] = g[i]
      BY <3>1, TextConcat
    <3> HIDE DEF u
    <3>4. Len(u) = 2 /\ u[1] = "CR" /\ u[2] = "LF"
      <4>1. 1 \in 1 .. 1 /\ 1 + 1 = 2
        OBVIOUS
      <4>2. u[1] = s[1] /\ u[1 + 1] = g[1]
        BY <3>1, <3>3, <4>1
      <4>. QED
        BY <3>1, <3>3, <4>1, <4>2
    <3>5. \A i \in 1 .. Len(u) : u[i] = w[i]
      BY <3>2, <3>4
    <3>6. u = w
      <4>1. u \in Text /\ w \in Text /\ Len(u) = Len(w) /\ \A i \in 1 .. Len(u) : u[i] = w[i]
        BY <3>2, <3>3, <3>4, <3>5
      <4>. QED
        BY <4>1, TextEqual
    <3>. QED
      BY <3>6 DEF u, s, g, w
  <2>. QED
    BY <2>1, <2>3, <2>4
<1>7. d \o (r \o e) = q \o e
  <2> HIDE DEF r, e
  <2>. QED
    <3>1. d \in Shown /\ r \in Shown /\ e \in Shown
      BY <1>1, <1>2, <1>3
    <3>2. d \o (r \o e) = (d \o r) \o e
      BY <3>1 DEF Shown
    <3>. QED
      BY <3>2 DEF q
<1> HIDE DEF q
<1>8. SeeChar(m, Txt(q), b[f]) = Txt(q \o e)
  BY <1>3, SeeNewline
<1>9. SeeText(m, Txt(q), PieceOf(b, f, c)) = SeeText(m, SeeChar(m, Txt(q), b[f]), PieceOf(b, f + 1, c))
  <2>1. Txt(q) \in Seen
    BY <1>3, TxtType
  <2>. QED
    BY <1>1, <2>1, SeeHead
<1>10. Conv(m, d, b2, t2, f1, c) = SeeText(m, Txt(q \o e), PieceOf(b, f1, c))
  BY <1>4, <1>5, <1>6, <1>7 DEF Conv
<1>11. Conv(m, d, b, t, f, c) = SeeText(m, Txt(q), PieceOf(b, f, c))
  BY DEF Conv, q
<1>. QED
  BY <1>5, <1>8, <1>9, <1>10, <1>11 DEF f1, t2, Kept

(* An escape sequence from x to y, and what the device is told of it.      *)
Escaped(b, x, y) ==
  /\ Within(x, y) /\ b[x] = "ESC"
  /\ \/ y = x + 2 /\ b[x + 1] # "["
     \/ x + 3 <= y /\ b[x + 1] = "[" /\ NoEnd(b, x + 2, y - 1) /\ b[y - 1] \in Ends
ColourOf(b, first, last) ==
  IF first # last /\ b[first] = "[" /\ b[last - 1] = "m" THEN <<"SGR">> ELSE <<>>

(* A colour sequence shows its colour or nothing.                          *)
LEMMA EscapeSeen ==
  ASSUME NEW m, m.esc # "none", NEW q \in Shown, NEW b \in Cells, NEW x, NEW y, Escaped(b, x, y)
  PROVE  /\ ColourOf(b, x + 1, y) \in Shown
         /\ SeeText(m, Txt(q), PieceOf(b, x, y)) = Txt(IF m.esc = "ctrl" THEN q \o ColourOf(b, x + 1, y) ELSE q)
<1> DEFINE v == Txt(q)
<1>1. v \in Seen /\ v.in = "text" /\ v.see = q /\ q \o <<>> = q
  BY TxtType, ShownEmpty
<1>2. Within(x, y) /\ b[x] = "ESC" /\ x \in Nat /\ y \in Nat
  BY DEF Escaped, Within
<1>c. ColourOf(b, x + 1, y) \in Shown
  <2>1. <<"SGR">> \in Shown /\ <<>> \in Shown
    BY DEF Shown, Item
  <2>. QED
    BY <2>1 DEF ColourOf
<1>3. CASE y = x + 2 /\ b[x + 1] # "["
  <2> HIDE DEF v
  <2>1. SeeText(m, v, PieceOf(b, x, x + 2)) = v
    BY <1>1, <1>2, <1>3, Short
  <2>2. ColourOf(b, x + 1, y) = <<>>
    BY <1>3 DEF ColourOf
  <2>. QED
    BY <1>1, <1>3, <1>c, <2>1, <2>2 DEF v
<1>4. CASE x + 3 <= y /\ b[x + 1] = "[" /\ NoEnd(b, x + 2, y - 1) /\ b[y - 1] \in Ends
  <2> HIDE DEF v
  <2>1. SeeText(m, v, PieceOf(b, x, y)) =
          [see |-> IF b[y - 1] = "m" /\ m.esc = "ctrl" THEN v.see \o <<"SGR">> ELSE v.see, in |-> "text"]
    BY <1>1, <1>2, <1>4, Finished
  <2>2. ColourOf(b, x + 1, y) = IF b[y - 1] = "m" THEN <<"SGR">> ELSE <<>>
    BY <1>2, <1>4 DEF ColourOf
  <2> DEFINE col == ColourOf(b, x + 1, y)
  <2>3. (IF b[y - 1] = "m" /\ m.esc = "ctrl" THEN v.see \o <<"SGR">> ELSE v.see)
          = (IF m.esc = "ctrl" THEN q \o col ELSE q)
    <3> DEFINE g == <<"SGR">>
               e == <<>>
    <3>1. col = IF b[y - 1] = "m" THEN g ELSE e
      BY <2>2
    <3>2. v.see = q /\ q \o e = q
      BY <1>1
    <3> HIDE DEF g, e, col
    <3>3. CASE m.esc = "ctrl" /\ b[y - 1] = "m"
      <4>1. col = g
        BY <3>1, <3>3
      <4>. QED
        BY <3>2, <3>3, <4>1 DEF g
    <3>4. CASE m.esc = "ctrl" /\ b[y - 1] # "m"
      <4>1. col = e
        BY <3>1, <3>4
      <4>. QED
        BY <3>2, <3>4, <4>1
    <3>5. CASE m.esc # "ctrl"
      BY <3>2, <3>5
    <3>. QED
      BY <3>3, <3>4, <3>5
  <2> HIDE DEF col
  <2>. QED
    BY <1>c, <2>1, <2>3 DEF v, Txt, col
<1>. QED
  BY <1>3, <1>4 DEF Escaped

(* A sequence is left out, after what is before it has been sent if the    *)
(* device is to be told of it.                                             *)
LEMMA ConvEscape ==
  ASSUME NEW m, m.esc # "none", NEW d, NEW b, NEW t, NEW f, NEW c, NEW e, At(d, b, t, f, c),
         Escaped(b, f, e), Within(e, c)
  PROVE  /\ m.esc # "ctrl" => Conv(m, d, b, t, e, c) = Conv(m, d, b, t, f, c)
         /\ PieceOf(b, 0, t) \o ColourOf(b, f + 1, e) \in Shown
         /\ At(d \o (PieceOf(b, 0, t) \o ColourOf(b, f + 1, e)), b, 0, e, c)
         /\ m.esc = "ctrl" =>
              Conv(m, d \o (PieceOf(b, 0, t) \o ColourOf(b, f + 1, e)), b, 0, e, c) = Conv(m, d, b, t, f, c)
<1> DEFINE r == PieceOf(b, 0, t)
           q == d \o r
           k == ColourOf(b, f + 1, e)
           g == d \o (r \o k)
           s == PieceOf(b, f, e)
           u == PieceOf(b, e, c)
<1>1. d \in Shown /\ b \in Cells /\ Within(f, e) /\ Within(e, c) /\ Within(f, c)
  BY DEF At, Escaped
<1>2. r \in Shown /\ q \in Shown
  BY AtType
<1>3. PieceOf(b, f, c) = s \o u
  <2>1. CutAt(b, f, e, c)
    BY <1>1 DEF CutAt
  <2>. QED
    BY <2>1, PieceCut
<1>4. s \in Text /\ u \in Text
  BY <1>1, PieceType
<1>5. Conv(m, d, b, t, f, c) = SeeText(m, Txt(q), s \o u) /\ Conv(m, d, b, t, e, c) = SeeText(m, Txt(q), u)
  BY <1>3 DEF Conv
<1>6. k \in Shown /\ SeeText(m, Txt(q), s) = Txt(IF m.esc = "ctrl" THEN q \o k ELSE q)
  <2> HIDE DEF q
  <2>. QED
    BY <1>1, <1>2, EscapeSeen
<1>7. r \o k \in Shown /\ g \in Shown /\ g = q \o k
  <2> HIDE DEF r, k
  <2>1. r \o k \in Shown
    BY <1>2, <1>6, ShownConcat
  <2>2. d \o (r \o k) = (d \o r) \o k
    <3>1. d \in Shown /\ r \in Shown /\ k \in Shown
      BY <1>1, <1>2, <1>6
    <3>. QED
      BY <3>1 DEF Shown
  <2> DEFINE rk == r \o k
  <2> HIDE DEF rk
  <2>3. d \o rk \in Shown
    BY <1>1, <2>1, ShownConcat DEF rk
  <2>. QED
    BY <2>1, <2>2, <2>3 DEF rk
<1> HIDE DEF s, u, q, k
<1>8. SeeText(m, Txt(q), s \o u) = SeeText(m, SeeText(m, Txt(q), s), u)
  <2>1. Txt(q) \in Seen
    BY <1>2, TxtType
  <2>. QED
    BY <1>4, <2>1, SeeTextConcat
<1>9. m.esc # "ctrl" => Conv(m, d, b, t, e, c) = Conv(m, d, b, t, f, c)
  BY <1>5, <1>6, <1>8
<1> HIDE DEF g
<1>10. At(g, b, 0, e, c)
  <2>1. e \in Nat /\ Within(0, 0) /\ 0 <= e
    BY <1>1, SizeType DEF Within
  <2>. QED
    BY <1>1, <1>7, <2>1 DEF At
<1>11. Conv(m, g, b, 0, e, c) = SeeText(m, Txt(g), u)
  BY <1>10, ConvStart DEF u
<1>12. m.esc = "ctrl" => Conv(m, g, b, 0, e, c) = Conv(m, d, b, t, f, c)
  BY <1>5, <1>6, <1>7, <1>8, <1>11
<1>. QED
  BY <1>7, <1>9, <1>10, <1>12 DEF g, k

(* Of an unfinished sequence nothing is seen.                              *)
EndlessOf(b, f, c) == f + 1 = c \/ (b[f + 1] = "[" /\ NoEnd(b, f + 2, c))

(* A colour sequence that has not ended yet shows nothing yet.             *)
LEMMA ConvUnfinished ==
  ASSUME NEW m, m.esc # "none", NEW d, NEW b, NEW t, NEW f, NEW c, At(d, b, t, f, c), f < c,
         b[f] = "ESC", EndlessOf(b, f, c)
  PROVE  /\ Conv(m, d, b, t, f, c).see = d \o PieceOf(b, 0, t)
         /\ Conv(m, d, b, t, f, c).in # "text"
<1> DEFINE q == d \o PieceOf(b, 0, t)
           v == Txt(q)
<1>1. q \in Shown /\ b \in Cells /\ Within(f, c)
  BY AtType DEF At
<1> HIDE DEF q
<1>2. v \in Seen /\ v.in = "text" /\ v.see = q
  BY <1>1, TxtType
<1> HIDE DEF v
<1>3. SeeText(m, v, PieceOf(b, f, c)).see = v.see /\ SeeText(m, v, PieceOf(b, f, c)).in # "text"
  BY <1>1, <1>2, Unfinished DEF EndlessOf
<1>. QED
  BY <1>2, <1>3 DEF Conv, q, v

(* The same characters elsewhere.                                          *)
LEMMA ConvMoved ==
  ASSUME NEW m, NEW d, NEW b, NEW f, NEW c, At(d, b, 0, f, c),
         NEW b2, NEW f2, NEW c2, At(d, b2, 0, f2, c2), PieceOf(b2, f2, c2) = PieceOf(b, f, c)
  PROVE  Conv(m, d, b2, 0, f2, c2) = Conv(m, d, b, 0, f, c)
<1>1. Conv(m, d, b, 0, f, c) = SeeText(m, Txt(d), PieceOf(b, f, c))
  BY ConvStart
<1>2. Conv(m, d, b2, 0, f2, c2) = SeeText(m, Txt(d), PieceOf(b2, f2, c2))
  BY ConvStart
<1>. QED
  BY <1>1, <1>2

(* More characters.                                                        *)
LEMMA ConvStore ==
  ASSUME NEW m, NEW d, NEW b, NEW f, NEW c, At(d, b, 0, f, c), NEW s \in Text,
         NEW b2, NEW c2, At(d, b2, 0, f, c2), PieceOf(b2, f, c2) = PieceOf(b, f, c) \o s
  PROVE  Conv(m, d, b2, 0, f, c2) = SeeText(m, Conv(m, d, b, 0, f, c), s)
<1> DEFINE r == PieceOf(b, f, c)
<1>1. Conv(m, d, b, 0, f, c) = SeeText(m, Txt(d), r)
  BY ConvStart
<1>2. Conv(m, d, b2, 0, f, c2) = SeeText(m, Txt(d), PieceOf(b2, f, c2))
  BY ConvStart
<1>3. r \in Text /\ Txt(d) \in Seen
  BY AtType, TxtType DEF At
<1> HIDE DEF r
<1>4. SeeText(m, Txt(d), r \o s) = SeeText(m, SeeText(m, Txt(d), r), s)
  BY <1>3, SeeTextConcat
<1>. QED
  BY <1>1, <1>2, <1>4 DEF r

(* Without conversion the device gets what there is.                       *)
Longer(m, d, b, f, c, s, b2, c2) ==
  /\ At(d, b, 0, f, c) /\ At(d, b2, 0, f, c2) /\ s \in Text
  /\ PieceOf(b2, f, c2) = PieceOf(b, f, c) \o s
Further(m, d, b, f, c, s, b2, c2) ==
  Conv(m, d, b2, 0, f, c2) = SeeText(m, Conv(m, d, b, 0, f, c), s)

(* Text stored at the end of the buffer is seen after what is there.       *)
LEMMA ConvLonger ==
  ASSUME NEW m, NEW d, NEW b, NEW f, NEW c, NEW s, NEW b2, NEW c2, Longer(m, d, b, f, c, s, b2, c2)
  PROVE  Further(m, d, b, f, c, s, b2, c2)
<1>1. At(d, b, 0, f, c) /\ At(d, b2, 0, f, c2) /\ s \in Text /\ PieceOf(b2, f, c2) = PieceOf(b, f, c) \o s
  BY DEF Longer
<1>2. Conv(m, d, b2, 0, f, c2) = SeeText(m, Conv(m, d, b, 0, f, c), s)
  BY <1>1, ConvStore
<1>. QED
  BY <1>2 DEF Further

(* With no conversion the buffer is shown as it is.                        *)
LEMMA ConvPlain ==
  ASSUME NEW m, ~m.crlf, m.esc = "none", NEW d, NEW b, NEW f, NEW c, At(d, b, 0, f, c)
  PROVE  Conv(m, d, b, 0, f, c) = Txt(d \o PieceOf(b, f, c))
<1> DEFINE A == {s \in Text : SeeText(m, Txt(d), s) = Txt(d \o s)}
<1>0. d \in Shown /\ Txt(d) \in Seen
  BY TxtType DEF At
<1>1. <<>> \in A
  <2>1. <<>> \in Text /\ SeeText(m, Txt(d), <<>>) = Txt(d) /\ d \o <<>> = d
    BY <1>0, SeeTextEmpty, ShownEmpty DEF Text
  <2>. QED
    BY <2>1
<1>2. ASSUME NEW s \in Seq(CellChar), NEW x \in CellChar, s \in A PROVE Append(s, x) \in A
  <2>1. s \in Text /\ Append(s, x) \in Text
    BY DEF Text
  <2>2. s \in Shown /\ d \o s \in Shown
    BY <1>0, <2>1, TextShown, ShownConcat
  <2>3. SeeText(m, Txt(d), Append(s, x)) = SeeChar(m, Txt(d \o s), x)
    BY <1>0, <1>2, <2>1, SeeTextAppend
  <2> DEFINE q == d \o s
             y == <<x>>
  <2>4. SeeChar(m, Txt(q), x) = Txt(q \o y)
    <3> HIDE DEF q
    <3>. QED
      BY <2>2, SeeOrdinary DEF q
  <2>5. y \in Shown /\ Append(s, x) = s \o y
    <3>1. y \in Text /\ Append(s, x) = s \o y
      BY <2>1 DEF Text
    <3>. QED
      BY <3>1, TextShown
  <2> HIDE DEF y
  <2>6. (d \o s) \o y = d \o (s \o y)
    BY <1>0, <2>2, <2>5, ShownAssoc
  <2>. QED
    BY <2>1, <2>3, <2>4, <2>5, <2>6
<1>3. Seq(CellChar) \subseteq A
  <2> HIDE DEF A
  <2>. QED
    BY <1>1, <1>2, SeqInduct
<1>4. PieceOf(b, f, c) \in A
  <2>1. PieceOf(b, f, c) \in Text
    BY AtType
  <2> HIDE DEF A
  <2>. QED
    BY <1>3, <2>1 DEF Text
<1>5. Conv(m, d, b, 0, f, c) = SeeText(m, Txt(d), PieceOf(b, f, c))
  BY ConvStart
<1>. QED
  BY <1>4, <1>5

-----------------------------------------------------------------------------
(* The inductive invariant.  TextIntact speaks of the text from where      *)
(* flush_buffer reads; to keep it, the loop must be where it may be, and   *)
(* the device must have got nothing since it failed.                       *)
Open == pc # "idle" => mode # Closed
Turn == pc = "scan" =>
  /\ First <= from /\ to <= from /\ from <= Curr
  /\ to > 0 => from > First
  /\ Plain => from = First /\ to = 0
Quiet == faults > 0 /\ ~retried => pc = "idle" /\ state # "good"
Waiting == want = Conv(mode, dev, buf, 0, First, Curr)
Running == want = Conv(mode, dev, buf, to, from, Curr)
Intact == mode # Closed /\ faults = 0 => IF pc = "scan" THEN Running ELSE Waiting
Sent ==
  /\ pc \in {"store", "sync"} /\ faults = 0 => dev = want.see
  /\ ~retried => Begins(dev, want.see)
OInv == TypeOK /\ Open /\ Turn /\ Quiet /\ Intact /\ Sent

(* The ranges of the variables.                                            *)
LEMMA OutTypes ==
  ASSUME TypeOK
  PROVE  /\ buf \in Cells /\ dev \in Shown /\ want \in Seen /\ want.see \in Shown
         /\ pos \in Nat /\ pos <= Size - First /\ First \in Nat /\ Curr \in Nat /\ Curr = First + pos
         /\ Curr <= Size /\ First <= Curr /\ Within(First, Curr)
         /\ At(dev, buf, 0, First, Curr)
<1>1. buf \in Cells
  BY DEF TypeOK, Cells, CellChar
<1>2. want \in Seen /\ dev \in Shown /\ pos \in 0 .. Size - First
  BY DEF TypeOK, Seen, Shown
<1>3. want.see \in Shown
  BY <1>2 DEF Seen, Shown
<1>4. /\ pos \in Nat /\ pos <= Size - First /\ First \in Nat /\ Curr \in Nat /\ Curr = First + pos
      /\ Curr <= Size /\ First <= Curr
  BY <1>2, SizeType, FirstType DEF Curr
<1>5. Within(First, Curr) /\ Within(0, 0) /\ 0 <= First
  BY <1>4, SizeType DEF Within
<1>6. At(dev, buf, 0, First, Curr)
  BY <1>1, <1>2, <1>5 DEF At
<1>. QED
  BY <1>1, <1>2, <1>3, <1>4, <1>5, <1>6

(* Characters in the buffer are in it still when the stream is closed.     *)
LEMMA PosKept ==
  ASSUME TypeOK, mode' = mode \/ mode' = Closed, pos' = pos
  PROVE  pos' \in 0 .. Size - First'
<1>1. pos \in 0 .. Size - First
  BY DEF TypeOK
<1>. QED
  BY <1>1, SizeType, FirstType

(* The ranges during a scan.                                               *)
LEMMA ScanTypes ==
  ASSUME TypeOK, Turn, pc = "scan"
  PROVE  /\ from \in Nat /\ to \in Nat /\ First <= from /\ to <= from /\ from <= Curr
         /\ Within(from, Curr) /\ Within(0, to) /\ At(dev, buf, to, from, Curr)
<1>1. /\ buf \in Cells /\ dev \in Shown /\ First \in Nat /\ Curr \in Nat /\ Curr <= Size
  BY OutTypes
<1>2. from \in Nat /\ to \in Nat /\ to <= from /\ from <= Curr /\ First <= from
  BY SizeType DEF TypeOK, Turn
<1>3. Within(from, Curr) /\ Within(0, to)
  BY <1>1, <1>2, SizeType DEF Within
<1>. QED
  BY <1>1, <1>2, <1>3 DEF At

(* The initial states.                                                     *)
LEMMA OutInitInv ==
  ASSUME Init
  PROVE  OInv
<1>1. buf = [i \in 0 .. Size - 1 |-> "m"] /\ pos = 0 /\ state = "good" /\ pc = "idle" /\ caller = "flush"
      /\ todo = <<>> /\ from = 0 /\ to = 0 /\ dev = <<>> /\ want = Blank /\ written = 0 /\ faults = 0
      /\ retried = FALSE /\ mode \in Modes
  BY DEF Init
<1>2. TypeOK
  BY <1>1, SizeType DEF TypeOK, Char, Blank
<1>3. At(dev, buf, 0, First, Curr) /\ First = Curr /\ dev \in Shown
  <2>1. First = Curr
    BY <1>1, SizeType, FirstType DEF Curr
  <2>. QED
    BY <1>2, <2>1, OutTypes
<1>4. Waiting
  <2>1. At(dev, buf, 0, Curr, Curr)
    BY <1>3
  <2>2. Conv(mode, dev, buf, 0, Curr, Curr) = Txt(dev \o PieceOf(buf, 0, 0))
    BY <2>1, ConvEnd
  <2>3. PieceOf(buf, 0, 0) = <<>>
    <3>1. buf \in Cells /\ Within(0, 0)
      BY <2>1 DEF At
    <3>. QED
      BY <3>1, PieceEmpty
  <2>4. dev \o <<>> = dev
    BY <1>3, ShownEmpty
  <2>. QED
    BY <1>1, <1>3, <2>2, <2>3, <2>4 DEF Waiting, Txt, Blank
<1>5. Begins(dev, want.see)
  BY <1>1, <1>3, BeginsItself DEF Blank
<1>. QED
  BY <1>1, <1>2, <1>4, <1>5 DEF OInv, Open, Turn, Quiet, Intact, Sent

(* flush_buffer fails: nothing changes but the state, and what the device  *)
(* may have got.                                                           *)
LEMMA FailInv ==
  ASSUME OInv, pc \in {"scan", "sync"}, Fail,
         buf' = buf, pos' = pos, from' = from, to' = to,
         dev' \in Shown, faults' = faults \/ faults' = faults + 1,
         ~retried => Begins(dev', want.see),
         faults' = 0 => dev' = dev /\ (pc = "scan" => from = First)
  PROVE  OInv'
<1>1. TypeOK /\ Open /\ Turn /\ Quiet /\ Intact /\ Sent
  BY DEF OInv
<1>2. /\ pc' = "idle" /\ todo' = <<>> /\ caller' = caller /\ want' = want /\ written' = written
      /\ retried' = retried
      /\ \/ mode' = Closed /\ state' = "fail"
         \/ mode' = mode /\ state' = "bad"
  BY DEF Fail, Release, history
<1>3. faults \in Nat /\ faults' \in Nat
  BY <1>1 DEF TypeOK
<1>4. TypeOK'
  <2>1. pos' \in 0 .. Size - First'
    BY <1>1, <1>2, PosKept
  <2>. QED
    BY <1>1, <1>2, <1>3, <2>1 DEF TypeOK, Shown
<1>5. Open' /\ Turn' /\ Quiet'
  BY <1>2 DEF Open, Turn, Quiet
<1>6. Intact'
  <2> SUFFICES ASSUME mode' # Closed, faults' = 0 PROVE Waiting'
    BY <1>2 DEF Intact
  <2>1. mode' = mode /\ faults = 0 /\ dev' = dev
    BY <1>2, <1>3
  <2>2. First' = First /\ Curr' = Curr
    BY <2>1, FirstType DEF Curr
  <2>3. Waiting
    <3>1. CASE pc = "sync"
      BY <1>1, <2>1, <3>1 DEF Intact
    <3>2. CASE pc = "scan"
      <4>1. Running
        BY <1>1, <2>1, <3>2 DEF Intact
      <4>2. from = First /\ to = 0
        BY <1>1, <3>2, SizeType, FirstType DEF TypeOK, Turn
      <4>. QED
        BY <4>1, <4>2 DEF Running, Waiting
    <3>. QED
      BY <3>1, <3>2
  <2>. QED
    BY <1>2, <2>1, <2>2, <2>3 DEF Waiting
<1>7. Sent'
  BY <1>2 DEF Sent
<1>. QED
  BY <1>4, <1>5, <1>6, <1>7 DEF OInv

(* flush_buffer succeeds.                                                  *)
LEMMA ReturnInv ==
  ASSUME OInv, pc = "scan", Return, faults' = faults, from' = from, to' = to,
         buf' \in Cells, pos' \in 0 .. Size - First, dev' \in Shown,
         faults = 0 => want = Conv(mode, dev', buf', 0, First, First + pos') /\ dev' = want.see,
         ~retried => Begins(dev', want.see)
  PROVE  OInv'
<1>1. TypeOK /\ Open /\ Quiet
  BY DEF OInv
<1>2. /\ mode' = mode /\ state' = state /\ caller' = caller /\ todo' = todo /\ want' = want
      /\ written' = written /\ retried' = retried /\ pc' \in {"store", "idle", "sync"}
  BY DEF Return, history
<1>f. First' = First
  BY <1>2, FirstType
<1>3. TypeOK'
  BY <1>1, <1>2, <1>f DEF TypeOK, Shown, Cells, CellChar
<1>4. mode # Closed /\ ~(faults > 0 /\ ~retried)
  BY <1>1 DEF Open, Quiet
<1>5. Open' /\ Turn' /\ Quiet'
  BY <1>2, <1>4 DEF Open, Turn, Quiet
<1>6. Intact'
  <2>1. First' = First /\ Curr' = First + pos'
    BY <1>f DEF Curr
  <2>. QED
    BY <1>2, <2>1 DEF Intact, Waiting
<1>7. Sent'
  BY <1>2 DEF Sent
<1>. QED
  BY <1>3, <1>5, <1>6, <1>7 DEF OInv

(* A turn of its loop.                                                     *)
LEMMA TurnInv ==
  ASSUME OInv, pc = "scan", ~Plain, faults' = faults,
         UNCHANGED <<mode, pos, state, pc, caller, todo, history>>,
         buf' \in Cells, dev' \in Shown, from' \in Nat, to' \in Nat,
         First <= from', to' <= from', from' <= Curr, to' > 0 => from' > First,
         faults = 0 => want = Conv(mode, dev', buf', to', from', Curr),
         ~retried => Begins(dev', want.see)
  PROVE  OInv'
<1>1. TypeOK /\ Open /\ Quiet
  BY DEF OInv
<1>2. /\ mode' = mode /\ state' = state /\ caller' = caller /\ todo' = todo /\ want' = want
      /\ written' = written /\ retried' = retried /\ pc' = pc /\ pos' = pos
  BY DEF history
<1>3. Curr \in Nat /\ Curr <= Size /\ First' = First /\ Curr' = Curr
  BY <1>1, <1>2, FirstType, OutTypes DEF Curr
<1>4. TypeOK'
  <2>1. from' \in 0 .. Size /\ to' \in 0 .. Size
    BY <1>3, SizeType
  <2>. QED
    BY <1>1, <1>2, <1>3, <2>1 DEF TypeOK, Shown, Cells, CellChar
<1>5. Open' /\ Turn' /\ Quiet'
  BY <1>1, <1>2, <1>3 DEF Open, Turn, Quiet, Plain
<1>6. Intact'
  BY <1>2, <1>3 DEF Intact, Running
<1>7. Sent'
  BY <1>2 DEF Sent
<1>. QED
  BY <1>4, <1>5, <1>6, <1>7 DEF OInv

(* It is called, by an operation on a stream that is good.                 *)
LEMMA CallInv ==
  ASSUME OInv, pc = "idle", mode # Closed, state = "good",
         NEW op \in {"reserve", "flush", "free"}, CallFlushBuffer(op),
         UNCHANGED <<mode, state, buf, pos, todo, dev, history, faults>>
  PROVE  OInv'
<1>1. TypeOK /\ Quiet /\ Intact /\ Sent
  BY DEF OInv
<1>2. /\ mode' = mode /\ state' = state /\ todo' = todo /\ want' = want /\ buf' = buf /\ pos' = pos /\ dev' = dev
      /\ written' = written /\ retried' = retried /\ faults' = faults
      /\ caller' = op /\ pc' = "scan" /\ from' = First /\ to' = 0
  BY DEF history, CallFlushBuffer
<1>3. /\ Curr \in Nat /\ First \in Nat /\ First <= Curr /\ First' = First /\ Curr' = Curr
      /\ First \in 0 .. Size /\ 0 \in 0 .. Size
  BY <1>1, <1>2, OutTypes, SizeType, FirstType DEF Curr
<1>4. TypeOK'
  BY <1>1, <1>2, <1>3 DEF TypeOK
<1>5. Open' /\ Turn' /\ Quiet'
  BY <1>1, <1>2, <1>3 DEF Open, Turn, Quiet
<1>6. Intact'
  BY <1>1, <1>2, <1>3 DEF Intact, Running, Waiting
<1>7. Sent'
  BY <1>1, <1>2 DEF Sent
<1>. QED
  BY <1>4, <1>5, <1>6, <1>7 DEF OInv

(* The steps of the loop.                                                  *)
LEMMA ScanFacts ==
  ASSUME OInv, pc = "scan"
  PROVE  /\ TypeOK /\ Turn /\ mode # Closed /\ faults \in Nat
         /\ At(dev, buf, to, from, Curr)
         /\ faults = 0 => Running
         /\ ~retried => faults = 0
         /\ PieceOf(buf, 0, to) \in Shown /\ dev \o PieceOf(buf, 0, to) \in Shown
         /\ ~retried => Begins(dev \o PieceOf(buf, 0, to), want.see)
<1>1. TypeOK /\ Open /\ Turn /\ Quiet /\ Intact
  BY DEF OInv
<1>2. faults \in Nat /\ mode # Closed
  BY <1>1 DEF TypeOK, Open
<1>3. At(dev, buf, to, from, Curr)
  BY <1>1, ScanTypes
<1>4. (faults = 0 => Running) /\ (~retried => faults = 0)
  BY <1>1, <1>2 DEF Intact, Quiet
<1>5. PieceOf(buf, 0, to) \in Shown /\ dev \o PieceOf(buf, 0, to) \in Shown
  BY <1>3, AtType
<1>6. Begins(dev \o PieceOf(buf, 0, to), Conv(mode, dev, buf, to, from, Curr).see)
  BY <1>3, ConvType
<1>. QED
  BY <1>1, <1>2, <1>3, <1>4, <1>5, <1>6 DEF Running

(* Of a block a device that fails may have got a part.                     *)
LEMMA FailedWrite ==
  ASSUME TypeOK, NEW s \in Shown, WriteAll_Fails(s)
  PROVE  /\ dev' \in Shown /\ faults' = faults + 1 /\ faults' # 0
         /\ ~retried /\ (~retried => Begins(dev \o s, want.see)) => Begins(dev', want.see)
<1>1. PICK n \in 0 .. Len(s) : dev' = dev \o SubSeq(s, 1, n)
  BY DEF WriteAll_Fails
<1>2. dev \in Shown /\ want.see \in Shown
  BY OutTypes
<1>3. SubSeq(s, 1, n) \in Shown /\ Begins(dev \o SubSeq(s, 1, n), dev \o s)
  BY <1>2, BeginsPart
<1> DEFINE a == SubSeq(s, 1, n)
           g == dev \o a
           h == dev \o s
<1>4. g \in Shown /\ h \in Shown
  <2> HIDE DEF a
  <2>. QED
    BY <1>2, <1>3, ShownConcat DEF a
<1> HIDE DEF g, h
<1>5. Begins(h, want.see) => Begins(g, want.see)
  <2>1. Begins(g, h)
    BY <1>3 DEF g, h
  <2>. QED
    BY <1>2, <1>4, <2>1, BeginsFurther
<1>6. faults' = faults + 1 /\ faults' # 0
  BY DEF WriteAll_Fails, TypeOK
<1>. QED
  BY <1>1, <1>4, <1>5, <1>6 DEF g, h

(* An empty buffer adds nothing.                                           *)
LEMMA AllSent ==
  ASSUME NEW m, NEW q \in Shown, NEW b \in Cells, NEW f \in 0 .. Size
  PROVE  Conv(m, q, b, 0, f, f) = Txt(q)
<1>1. At(q, b, 0, f, f) /\ Within(0, 0)
  BY SizeType DEF At, Within
<1>2. Conv(m, q, b, 0, f, f) = Txt(q \o PieceOf(b, 0, 0))
  BY <1>1, ConvEnd
<1>3. PieceOf(b, 0, 0) = <<>> /\ q \o <<>> = q
  BY <1>1, PieceEmpty, ShownEmpty
<1>. QED
  BY <1>2, <1>3

(* The operator of the model, as a function of the buffer.                 *)
LEMMA PieceIs ==
  ASSUME NEW x, NEW y
  PROVE  Piece(x, y) = PieceOf(buf, x, y)
BY DEF Piece, PieceOf

(* The scan with no conversion keeps the invariant.                        *)
LEMMA ScanPlainInv ==
  ASSUME OInv, Scan_Plain
  PROVE  OInv'
<1>1. pc = "scan" /\ Plain /\ buf' = buf /\ from' = from /\ to' = to
  BY DEF Scan_Plain
<1>2. TypeOK /\ faults \in Nat /\ (faults = 0 => Running) /\ (~retried => faults = 0)
  BY <1>1, ScanFacts
<1>3. from = First /\ to = 0
  BY <1>1 DEF OInv, Turn
<1> DEFINE s == PieceOf(buf, First, Curr)
           q == dev \o s
<1>4. Pending = s
  BY PieceIs DEF Pending
<1>5. At(dev, buf, 0, First, Curr) /\ buf \in Cells /\ dev \in Shown
  BY <1>2, OutTypes
<1>6. s \in Shown
  BY <1>5, AtType
<1>7. q \in Shown
  <2> HIDE DEF s
  <2>. QED
    BY <1>5, <1>6, ShownConcat
<1>8. faults = 0 => want = Txt(q)
  <2>1. Conv(mode, dev, buf, 0, First, Curr) = Txt(q)
    BY <1>1, <1>5, ConvPlain DEF Plain
  <2>. QED
    BY <1>2, <1>3, <2>1 DEF Running
<1>9. ~retried => Begins(q, want.see)
  BY <1>2, <1>7, <1>8, BeginsItself, TxtType
<1> HIDE DEF q
<1>10. CASE WriteAll(Pending) /\ pos' = 0 /\ Return
  <2>1. dev' = q /\ faults' = faults /\ pos' = 0
    BY <1>4, <1>10 DEF WriteAll, q
  <2>2. Conv(mode, q, buf, 0, First, First) = Txt(q) /\ Txt(q).see = q
    BY <1>5, <1>7, AllSent, FirstType, TxtType
  <2>3. First + pos' = First /\ pos' \in 0 .. Size - First
    BY <2>1, SizeType, FirstType
  <2>4. faults = 0 => want = Conv(mode, dev', buf', 0, First, First + pos') /\ dev' = want.see
    BY <1>1, <1>8, <2>1, <2>2, <2>3
  <2>. QED
    BY <1>1, <1>5, <1>7, <1>9, <1>10, <2>1, <2>3, <2>4, ReturnInv
<1>11. CASE WriteAll_Fails(Pending) /\ pos' = pos /\ Fail
  <2>1. WriteAll_Fails(s)
    BY <1>4, <1>11
  <2>2. /\ dev' \in Shown /\ faults' = faults + 1 /\ faults' # 0
        /\ ~retried /\ (~retried => Begins(dev \o s, want.see)) => Begins(dev', want.see)
    <3> HIDE DEF s
    <3>. QED
      BY <1>2, <1>6, <2>1, FailedWrite
  <2>3. ~retried => Begins(dev', want.see)
    BY <1>9, <2>2 DEF q
  <2>. QED
    BY <1>1, <1>11, <2>2, <2>3, FailInv
<1>. QED
  BY <1>10, <1>11 DEF Scan_Plain

(* A character moved down keeps the invariant.                             *)
LEMMA ScanCharInv ==
  ASSUME OInv, Scan_Char
  PROVE  OInv'
<1>1. /\ pc = "scan" /\ ~Plain /\ from # Curr
      /\ ~ (buf[from] = "LF" /\ mode.crlf) /\ ~ (buf[from] = "ESC" /\ mode.esc # "none")
      /\ buf' = [buf EXCEPT ![to] = buf[from]] /\ to' = to + 1 /\ from' = from + 1
      /\ UNCHANGED <<mode, pos, state, pc, caller, todo, dev, history, faults>>
  BY DEF Scan_Char, Scanning, AtText, AtNewline, AtEscape
<1>2. /\ At(dev, buf, to, from, Curr) /\ (faults = 0 => Running) /\ TypeOK /\ Turn
  BY <1>1, ScanFacts
<1>3. /\ from \in Nat /\ to \in Nat /\ First <= from /\ to <= from /\ from <= Curr /\ Curr \in Nat /\ First \in Nat
  BY <1>1, <1>2, ScanTypes, OutTypes
<1>4. from < Curr
  BY <1>1, <1>3
<1>5. buf' \in Cells /\ Conv(mode, dev, buf', to + 1, from + 1, Curr) = Conv(mode, dev, buf, to, from, Curr)
  <2>1. Kept(mode, dev, buf, to, from, Curr, buf', to + 1, from + 1)
    BY <1>1, <1>2, <1>4, ConvChar
  <2>. QED
    BY <2>1 DEF Kept
<1>6. faults = 0 => want = Conv(mode, dev', buf', to', from', Curr)
  BY <1>1, <1>2, <1>5 DEF Running
<1>7. dev' \in Shown /\ (~retried => Begins(dev', want.see))
  BY <1>1, <1>2, OutTypes DEF OInv, Sent
<1>8. /\ from' \in Nat /\ to' \in Nat /\ First <= from' /\ to' <= from' /\ from' <= Curr
      /\ to' > 0 => from' > First
  BY <1>1, <1>3, <1>4
<1>. QED
  BY <1>1, <1>5, <1>6, <1>7, <1>8, TurnInv

(* A newline made CR and LF keeps the invariant.                           *)
LEMMA ScanNewlineInv ==
  ASSUME OInv, Scan_Newline
  PROVE  OInv'
<1>1. /\ pc = "scan" /\ ~Plain /\ from # Curr /\ buf[from] = "LF" /\ mode.crlf /\ to # from
      /\ buf' = [buf EXCEPT ![to] = "CR", ![to + 1] = "LF"] /\ to' = to + 2 /\ from' = from + 1
      /\ UNCHANGED <<mode, pos, state, pc, caller, todo, dev, history, faults>>
  BY DEF Scan_Newline, Scanning, AtText, AtNewline
<1>2. /\ At(dev, buf, to, from, Curr) /\ (faults = 0 => Running) /\ TypeOK /\ Turn
  BY <1>1, ScanFacts
<1>3. /\ from \in Nat /\ to \in Nat /\ First <= from /\ to <= from /\ from <= Curr /\ Curr \in Nat /\ First \in Nat
  BY <1>1, <1>2, ScanTypes, OutTypes
<1>4. from < Curr
  BY <1>1, <1>3
<1>5. buf' \in Cells /\ Conv(mode, dev, buf', to + 2, from + 1, Curr) = Conv(mode, dev, buf, to, from, Curr)
  <2>1. Kept(mode, dev, buf, to, from, Curr, buf', to + 2, from + 1)
    BY <1>1, <1>2, <1>4, ConvNewline
  <2>. QED
    BY <2>1 DEF Kept
<1>6. faults = 0 => want = Conv(mode, dev', buf', to', from', Curr)
  BY <1>1, <1>2, <1>5 DEF Running
<1>7. dev' \in Shown /\ (~retried => Begins(dev', want.see))
  BY <1>1, <1>2, OutTypes DEF OInv, Sent
<1>8. /\ from' \in Nat /\ to' \in Nat /\ First <= from' /\ to' <= from' /\ from' <= Curr
      /\ to' > 0 => from' > First
  BY <1>1, <1>3, <1>4
<1>. QED
  BY <1>1, <1>5, <1>6, <1>7, <1>8, TurnInv

(* A write of the converted part, when a newline has no room, keeps the    *)
(* invariant.                                                              *)
LEMMA ScanNoRoomInv ==
  ASSUME OInv, Scan_NoRoom
  PROVE  OInv'
<1>1. /\ pc = "scan" /\ ~Plain /\ from # Curr /\ to = from
      /\ buf' = buf /\ pos' = pos /\ from' = from
  BY DEF Scan_NoRoom, Scanning, AtText, AtNewline
<1>2. /\ At(dev, buf, to, from, Curr) /\ (faults = 0 => Running) /\ TypeOK /\ Turn
      /\ PieceOf(buf, 0, to) \in Shown /\ dev \o PieceOf(buf, 0, to) \in Shown
      /\ (~retried => Begins(dev \o PieceOf(buf, 0, to), want.see))
  BY <1>1, ScanFacts
<1>3. /\ from \in Nat /\ to \in Nat /\ First <= from /\ to <= from /\ from <= Curr /\ Curr \in Nat /\ First \in Nat
      /\ buf \in Cells
  BY <1>1, <1>2, ScanTypes, OutTypes
<1> DEFINE s == PieceOf(buf, 0, to)
<1>4. Piece(0, to) = s
  BY PieceIs
<1>5. CASE WriteAll(Piece(0, to)) /\ to' = 0 /\ UNCHANGED <<mode, state, pc, caller, todo, history>>
  <2>1. dev' = dev \o s /\ faults' = faults
    BY <1>4, <1>5 DEF WriteAll
  <2>2. Conv(mode, dev \o s, buf, 0, from, Curr) = Conv(mode, dev, buf, to, from, Curr)
    BY <1>2, ConvSent
  <2>3. faults = 0 => want = Conv(mode, dev', buf', to', from', Curr)
    BY <1>1, <1>2, <1>5, <2>1, <2>2 DEF Running
  <2>4. /\ from' \in Nat /\ to' \in Nat /\ First <= from' /\ to' <= from' /\ from' <= Curr
        /\ to' > 0 => from' > First
    BY <1>1, <1>3, <1>5
  <2>. QED
    BY <1>1, <1>2, <1>3, <1>5, <2>1, <2>3, <2>4, TurnInv
<1>6. CASE WriteAll_Fails(Piece(0, to)) /\ to' = to /\ Fail
  <2>1. WriteAll_Fails(s)
    BY <1>4, <1>6
  <2>2. /\ dev' \in Shown /\ faults' = faults + 1 /\ faults' # 0
        /\ ~retried /\ (~retried => Begins(dev \o s, want.see)) => Begins(dev', want.see)
    <3> HIDE DEF s
    <3>1. s \in Shown
      BY <1>2 DEF s
    <3>. QED
      BY <1>2, <2>1, <3>1, FailedWrite
  <2>3. ~retried => Begins(dev', want.see)
    BY <1>2, <2>2
  <2>. QED
    BY <1>1, <1>6, <2>2, <2>3, FailInv
<1>. QED
  BY <1>5, <1>6 DEF Scan_NoRoom

(* The write at the end of the scan keeps the invariant.                   *)
LEMMA ScanEndInv ==
  ASSUME OInv, Scan_End
  PROVE  OInv'
<1>1. /\ pc = "scan" /\ from = Curr /\ buf' = buf /\ from' = from /\ to' = to
  BY DEF Scan_End, Scanning, AtText
<1>2. /\ At(dev, buf, to, from, Curr) /\ (faults = 0 => Running) /\ TypeOK
      /\ PieceOf(buf, 0, to) \in Shown /\ dev \o PieceOf(buf, 0, to) \in Shown
      /\ (~retried => Begins(dev \o PieceOf(buf, 0, to), want.see))
  BY <1>1, ScanFacts
<1>3. buf \in Cells
  BY <1>2, OutTypes
<1> DEFINE s == PieceOf(buf, 0, to)
           q == dev \o s
<1>4. Piece(0, to) = s
  BY PieceIs
<1>5. faults = 0 => want = Txt(q)
  <2>1. At(dev, buf, to, Curr, Curr)
    BY <1>1, <1>2
  <2>2. Conv(mode, dev, buf, to, Curr, Curr) = Txt(q)
    BY <2>1, ConvEnd
  <2>. QED
    BY <1>1, <1>2, <2>2 DEF Running
<1>6. q \in Shown /\ (~retried => Begins(q, want.see))
  BY <1>2
<1> HIDE DEF q
<1>10. CASE WriteAll(Piece(0, to)) /\ pos' = 0 /\ Return
  <2>1. dev' = q /\ faults' = faults /\ pos' = 0
    BY <1>4, <1>10 DEF WriteAll, q
  <2>2. Conv(mode, q, buf, 0, First, First) = Txt(q) /\ Txt(q).see = q
    BY <1>3, <1>6, AllSent, FirstType, TxtType
  <2>3. First + pos' = First /\ pos' \in 0 .. Size - First
    BY <2>1, SizeType, FirstType
  <2>4. faults = 0 => want = Conv(mode, dev', buf', 0, First, First + pos') /\ dev' = want.see
    BY <1>1, <1>5, <2>1, <2>2, <2>3
  <2>. QED
    BY <1>1, <1>3, <1>6, <1>10, <2>1, <2>3, <2>4, ReturnInv
<1>11. CASE WriteAll_Fails(Piece(0, to)) /\ pos' = pos /\ Fail
  <2>1. WriteAll_Fails(s)
    BY <1>4, <1>11
  <2>2. /\ dev' \in Shown /\ faults' = faults + 1 /\ faults' # 0
        /\ ~retried /\ (~retried => Begins(dev \o s, want.see)) => Begins(dev', want.see)
    <3> HIDE DEF s
    <3>1. s \in Shown
      BY <1>2 DEF s
    <3>. QED
      BY <1>2, <2>1, <3>1, FailedWrite
  <2>3. ~retried => Begins(dev', want.see)
    BY <1>6, <2>2 DEF q
  <2>. QED
    BY <1>1, <1>11, <2>2, <2>3, FailInv
<1>. QED
  BY <1>10, <1>11 DEF Scan_End

(* Where a sequence that begins at from ends, if it does.                  *)
Endless == EndlessOf(buf, from, Curr)

(* Where the search for the end of a colour sequence stops.                *)
LEMMA EndOfEscIs ==
  ASSUME OInv, pc = "scan", from # Curr, buf[from] = "ESC"
  PROVE  \/ EndOfEsc = from + 1 /\ Endless
         \/ /\ EndOfEsc # from + 1 /\ Escaped(buf, from, EndOfEsc) /\ Within(EndOfEsc, Curr)
            /\ EndOfEsc \in Nat /\ from < EndOfEsc /\ EndOfEsc <= Curr
<1>1. TypeOK /\ Turn
  BY DEF OInv
<1>2. from \in Nat /\ from < Curr /\ Curr \in Nat /\ Curr <= Size /\ Size \in Nat
  BY <1>1, ScanTypes, OutTypes, SizeType
<1> DEFINE f == from + 1
           ends == {p \in f + 1 .. Curr - 1 : buf[p] \in {"m", "["}}
<1>3. CASE f = Curr
  BY <1>3 DEF EndOfEsc, Endless, EndlessOf
<1>4. CASE f # Curr /\ buf[f] # "["
  <2>1. EndOfEsc = from + 2
    BY <1>2, <1>4 DEF EndOfEsc
  <2> DEFINE e == from + 2
  <2>2. Within(from, e) /\ Within(e, Curr) /\ e \in Nat /\ from < e /\ e <= Curr /\ e # from + 1
    BY <1>2, <1>4 DEF Within
  <2>3. Escaped(buf, from, e)
    BY <1>4, <2>2 DEF Escaped
  <2>. QED
    BY <2>1, <2>2, <2>3
<1>5. CASE f # Curr /\ buf[f] = "[" /\ ends = {}
  <2>1. EndOfEsc = f
    BY <1>5 DEF EndOfEsc
  <2>2. NoEnd(buf, from + 2, Curr)
    BY <1>2, <1>5 DEF NoEnd, Ends
  <2>. QED
    BY <1>5, <2>1, <2>2 DEF Endless, EndlessOf
<1>6. CASE f # Curr /\ buf[f] = "[" /\ ends # {}
  <2> DEFINE x == Min(ends)
             e == x + 1
  <2>1. EndOfEsc = e
    BY <1>6 DEF EndOfEsc
  <2>2. x \in ends /\ \A y \in ends : x <= y
    <3>1. ends \subseteq Nat
      BY <1>2
    <3> HIDE DEF ends
    <3>. QED
      BY <1>6, <3>1, MinOf
  <2> HIDE DEF x
  <2>3. x \in Nat /\ from + 2 <= x /\ x <= Curr - 1 /\ buf[x] \in Ends
    BY <1>2, <2>2 DEF Ends
  <2>4. NoEnd(buf, from + 2, x)
    <3> SUFFICES ASSUME NEW p \in from + 2 .. x - 1, buf[p] \in Ends PROVE FALSE
      BY DEF NoEnd
    <3>1. p \in ends
      BY <1>2, <2>3 DEF Ends
    <3>2. x <= p /\ p <= x - 1 /\ p \in Int
      BY <2>2, <3>1
    <3>. QED
      BY <2>3, <3>2
  <2>5. e \in Nat /\ from < e /\ e <= Curr /\ Within(from, e) /\ Within(e, Curr) /\ e # from + 1
        /\ from + 3 <= e /\ e - 1 = x
    BY <1>2, <2>3 DEF Within
  <2>6. Escaped(buf, from, e)
    BY <1>6, <2>3, <2>4, <2>5 DEF Escaped
  <2>. QED
    BY <2>1, <2>5, <2>6
<1>. QED
  BY <1>3, <1>4, <1>5, <1>6

(* Characters that move to the beginning of the buffer.                    *)
LEMMA Moved ==
  ASSUME NEW b \in Cells, NEW f, NEW c, Within(f, c), First <= f,
         NEW b2, b2 = [i \in DOMAIN b |-> IF i \in First .. First + (c - f) - 1 THEN b[i + (f - First)] ELSE b[i]]
  PROVE  /\ b2 \in Cells /\ Within(First, First + (c - f))
         /\ PieceOf(b2, First, First + (c - f)) = PieceOf(b, f, c)
<1> DEFINE n == c - f
           l == First + n
<1>1. /\ First \in Nat /\ Size \in Nat /\ f \in Nat /\ c \in Nat /\ n \in Nat /\ l \in Nat /\ l <= c /\ c <= Size
      /\ f + n = c /\ f - First \in Nat
  BY SizeType, FirstType DEF Within
<1>2. DOMAIN b = 0 .. Size - 1 /\ \A i \in 0 .. Size - 1 : b[i] \in CellChar
  BY DEF Cells
<1>3. \A i \in First .. l - 1 : i + (f - First) \in 0 .. Size - 1 /\ i \in 0 .. Size - 1
  BY <1>1
<1>d. DOMAIN b2 = DOMAIN b /\ b2 = [i \in DOMAIN b2 |-> b2[i]]
      /\ \A i \in DOMAIN b : b2[i] = IF i \in First .. First + (c - f) - 1 THEN b[i + (f - First)] ELSE b[i]
  BY Zenon
<1>4. /\ b2 = [i \in 0 .. Size - 1 |-> b2[i]]
      /\ \A i \in 0 .. Size - 1 : b2[i] = IF i \in First .. l - 1 THEN b[i + (f - First)] ELSE b[i]
  <2>1. b2 = [i \in 0 .. Size - 1 |-> b2[i]]
    BY <1>2, <1>d, Zenon
  <2>2. \A i \in 0 .. Size - 1 : b2[i] = IF i \in First .. l - 1 THEN b[i + (f - First)] ELSE b[i]
    <3>1. First + (c - f) - 1 = l - 1
      BY <1>1
    <3> HIDE DEF l, n
    <3>2. \A i \in DOMAIN b : b2[i] = IF i \in First .. l - 1 THEN b[i + (f - First)] ELSE b[i]
      BY <1>d, <3>1, Zenon
    <3>. QED
      BY <1>2, <3>2, Zenon
  <2>. QED
    BY <2>1, <2>2
<1> HIDE DEF l, n
<1>5. b2 \in Cells
  <2>1. \A i \in 0 .. Size - 1 : b2[i] \in CellChar
    BY <1>2, <1>3, <1>4
  <2>. QED
    BY <1>4, <2>1 DEF Cells
<1>6. Within(First, l) /\ l - First = n
  BY <1>1 DEF Within, l
<1>7. \A i \in 1 .. n : b2[First + i - 1] = b[f + i - 1]
  <2> SUFFICES ASSUME NEW i \in 1 .. n PROVE b2[First + i - 1] = b[f + i - 1]
    OBVIOUS
  <2> DEFINE p == First + i - 1
  <2>1. p \in First .. l - 1 /\ p + (f - First) = f + i - 1
    BY <1>1 DEF l
  <2>2. b2[p] = b[p + (f - First)]
    <3> HIDE DEF p
    <3>. QED
      BY <1>3, <1>4, <2>1
  <2>. QED
    BY <2>1, <2>2
<1>8. PieceOf(b2, First, l) = PieceOf(b, f, c)
  BY <1>6, <1>7 DEF PieceOf, n
<1>. QED
  BY <1>5, <1>6, <1>8 DEF l, n

(* Keeping an unfinished sequence for the next flush keeps the invariant.  *)
LEMMA ScanUnfinishedInv ==
  ASSUME OInv, Scan_Unfinished
  PROVE  OInv'
<1>1. /\ pc = "scan" /\ ~Plain /\ from # Curr /\ buf[from] = "ESC" /\ mode.esc # "none" /\ EndOfEsc = from + 1
      /\ from' = from /\ to' = to
  BY DEF Scan_Unfinished, Scanning, AtText, AtEscape
<1>2. /\ At(dev, buf, to, from, Curr) /\ (faults = 0 => Running) /\ TypeOK /\ Turn
      /\ PieceOf(buf, 0, to) \in Shown /\ dev \o PieceOf(buf, 0, to) \in Shown
      /\ (~retried => Begins(dev \o PieceOf(buf, 0, to), want.see))
  BY <1>1, ScanFacts
<1>3. /\ from \in Nat /\ First <= from /\ from <= Curr /\ Curr \in Nat /\ First \in Nat
      /\ buf \in Cells /\ dev \in Shown /\ pos \in Nat /\ pos <= Size - First /\ Within(from, Curr)
      /\ Curr = First + pos
  BY <1>1, <1>2, ScanTypes, OutTypes
<1>4. Endless
  BY <1>1, EndOfEscIs
<1> DEFINE s == PieceOf(buf, 0, to)
           q == dev \o s
<1>5. Piece(0, to) = s
  BY PieceIs
<1>6. CASE from = First /\ Fail /\ UNCHANGED <<buf, pos, dev, faults>>
  <2>1. dev' \in Shown /\ (~retried => Begins(dev', want.see))
    BY <1>3, <1>6 DEF OInv, Sent
  <2>. QED
    BY <1>1, <1>6, <2>1, FailInv
<1>7. CASE /\ WriteAll(Piece(0, to))
           /\ pos' = Curr - from
           /\ buf' = [i \in DOMAIN buf |->
                        IF i \in First .. First + (Curr - from) - 1 THEN buf[i + (from - First)] ELSE buf[i]]
           /\ Return
  <2>1. dev' = q /\ faults' = faults
    BY <1>5, <1>7 DEF WriteAll
  <2>2. q \in Shown /\ (~retried => Begins(q, want.see))
    BY <1>2
  <2>3. /\ buf' \in Cells /\ Within(First, First + (Curr - from))
        /\ PieceOf(buf', First, First + (Curr - from)) = PieceOf(buf, from, Curr)
    BY <1>3, <1>7, Moved
  <2> DEFINE l == First + (Curr - from)
  <2>4. pos' \in 0 .. Size - First /\ First + pos' = l
    BY <1>3, <1>7, SizeType
  <2>5. At(q, buf, 0, from, Curr) /\ Conv(mode, q, buf, 0, from, Curr) = Conv(mode, dev, buf, to, from, Curr)
    BY <1>2, ConvSent
  <2>6. Conv(mode, dev, buf, to, from, Curr).see = q
    <3>1. from < Curr
      BY <1>1, <1>3
    <3>2. /\ mode.esc # "none" /\ At(dev, buf, to, from, Curr) /\ buf[from] = "ESC"
          /\ EndlessOf(buf, from, Curr)
      BY <1>1, <1>2, <1>4 DEF Endless
    <3>. QED
      BY <3>1, <3>2, ConvUnfinished
  <2> HIDE DEF q, l
  <2>7. At(q, buf', 0, First, l)
    <3>1. Within(0, 0) /\ 0 <= First
      BY <1>3, SizeType DEF Within
    <3>. QED
      BY <2>2, <2>3, <3>1 DEF At, l
  <2>8. Conv(mode, q, buf', 0, First, l) = Conv(mode, q, buf, 0, from, Curr)
    <3> DEFINE b2 == buf'
    <3>1. At(q, b2, 0, First, l) /\ PieceOf(b2, First, l) = PieceOf(buf, from, Curr)
      BY <2>3, <2>7 DEF l
    <3> HIDE DEF b2
    <3>2. Conv(mode, q, b2, 0, First, l) = Conv(mode, q, buf, 0, from, Curr)
      BY <2>5, <3>1, ConvMoved
    <3>. QED
      BY <3>2 DEF b2
  <2>9. faults = 0 => want = Conv(mode, dev', buf', 0, First, First + pos') /\ dev' = want.see
    BY <1>2, <2>1, <2>4, <2>5, <2>6, <2>8 DEF Running
  <2>. QED
    BY <1>1, <1>7, <2>1, <2>2, <2>3, <2>4, <2>9, ReturnInv
<1>8. CASE WriteAll_Fails(Piece(0, to)) /\ UNCHANGED <<buf, pos>> /\ Fail
  <2>1. WriteAll_Fails(s)
    BY <1>5, <1>8
  <2>2. /\ dev' \in Shown /\ faults' = faults + 1 /\ faults' # 0
        /\ ~retried /\ (~retried => Begins(dev \o s, want.see)) => Begins(dev', want.see)
    <3> HIDE DEF s
    <3>1. s \in Shown
      BY <1>2 DEF s
    <3>. QED
      BY <1>2, <2>1, <3>1, FailedWrite
  <2>3. ~retried => Begins(dev', want.see)
    BY <1>2, <2>2
  <2>. QED
    BY <1>1, <1>8, <2>2, <2>3, FailInv
<1>. QED
  BY <1>6, <1>7, <1>8 DEF Scan_Unfinished

(* A colour set or a sequence dropped keeps the invariant.                 *)
LEMMA ScanEscapeInv ==
  ASSUME OInv, Scan_Escape
  PROVE  OInv'
<1>1. /\ pc = "scan" /\ ~Plain /\ from # Curr /\ buf[from] = "ESC" /\ mode.esc # "none" /\ EndOfEsc # from + 1
      /\ buf' = buf /\ pos' = pos
  BY DEF Scan_Escape, Scanning, AtText, AtEscape
<1>2. /\ At(dev, buf, to, from, Curr) /\ (faults = 0 => Running) /\ TypeOK /\ Turn /\ mode # Closed
      /\ PieceOf(buf, 0, to) \in Shown /\ dev \o PieceOf(buf, 0, to) \in Shown
      /\ faults \in Nat /\ (~retried => faults = 0)
  BY <1>1, ScanFacts
<1>3. /\ from \in Nat /\ to \in Nat /\ to <= from /\ First <= from /\ from <= Curr /\ Curr \in Nat /\ First \in Nat
      /\ buf \in Cells /\ dev \in Shown
  BY <1>1, <1>2, ScanTypes, OutTypes
<1>4. /\ Escaped(buf, from, EndOfEsc) /\ Within(EndOfEsc, Curr)
      /\ EndOfEsc \in Nat /\ from < EndOfEsc /\ EndOfEsc <= Curr
  BY <1>1, EndOfEscIs
<1>5. mode.esc \in {"ctrl", "skip"}
  <2>1. mode \in [crlf : BOOLEAN, esc : Esc]
    BY <1>2, OutAssumption DEF TypeOK
  <2>. QED
    BY <1>1, <2>1 DEF Esc
<1> DEFINE s == PieceOf(buf, 0, to)
           k == ColourOf(buf, from + 1, EndOfEsc)
           e == EndOfEsc
           q == dev \o (s \o k)
<1>6. Piece(0, to) \o Colour(from + 1, EndOfEsc) = s \o k
  BY PieceIs DEF Colour, ColourOf
<1>7. /\ mode.esc # "ctrl" => Conv(mode, dev, buf, to, e, Curr) = Conv(mode, dev, buf, to, from, Curr)
      /\ s \o k \in Shown /\ At(q, buf, 0, e, Curr)
      /\ mode.esc = "ctrl" => Conv(mode, q, buf, 0, e, Curr) = Conv(mode, dev, buf, to, from, Curr)
  <2> HIDE DEF e
  <2>1. mode.esc # "none" /\ Escaped(buf, from, e) /\ Within(e, Curr)
    BY <1>1, <1>4 DEF e
  <2>2. k = ColourOf(buf, from + 1, e)
    BY DEF e
  <2>. QED
    BY <1>2, <2>1, <2>2, ConvEscape
<1> HIDE DEF e
<1>e. e \in Nat /\ from < e /\ e <= Curr /\ e = EndOfEsc
  BY <1>4 DEF e
<1>8. CASE mode.esc = "skip" /\ from' = EndOfEsc
           /\ UNCHANGED <<mode, state, pc, caller, todo, to, dev, history, faults>>
  <2>1. faults = 0 => want = Conv(mode, dev', buf', to', from', Curr)
    BY <1>1, <1>2, <1>7, <1>8, <1>e DEF Running
  <2>2. /\ from' \in Nat /\ to' \in Nat /\ First <= from' /\ to' <= from' /\ from' <= Curr
        /\ to' > 0 => from' > First
    BY <1>3, <1>8, <1>e
  <2>3. dev' \in Shown /\ (~retried => Begins(dev', want.see))
    BY <1>3, <1>8 DEF OInv, Sent
  <2>. QED
    BY <1>1, <1>3, <1>8, <2>1, <2>2, <2>3, TurnInv
<1>9. mode.esc = "ctrl" => q \in Shown /\ (~retried => Begins(q, want.see))
  <2> SUFFICES ASSUME mode.esc = "ctrl" PROVE q \in Shown /\ (~retried => Begins(q, want.see))
    OBVIOUS
  <2> HIDE DEF q
  <2>1. q \in Shown /\ buf \in Cells /\ Within(0, 0)
    BY <1>7 DEF At
  <2>2. Begins(q \o PieceOf(buf, 0, 0), Conv(mode, q, buf, 0, e, Curr).see)
    BY <1>7, ConvType
  <2>3. PieceOf(buf, 0, 0) = <<>> /\ q \o <<>> = q
    BY <2>1, PieceEmpty, ShownEmpty
  <2>4. Begins(q, Conv(mode, q, buf, 0, e, Curr).see)
    BY <2>2, <2>3
  <2>5. ~retried => want = Conv(mode, q, buf, 0, e, Curr)
    BY <1>2, <1>7 DEF Running, q
  <2>. QED
    BY <2>1, <2>4, <2>5
<1>10. CASE mode.esc # "skip" /\ WriteAll(Piece(0, to) \o Colour(from + 1, EndOfEsc)) /\ from' = EndOfEsc
            /\ to' = 0 /\ UNCHANGED <<mode, state, pc, caller, todo, history>>
  <2>1. dev' = q /\ faults' = faults /\ mode.esc = "ctrl"
    BY <1>5, <1>6, <1>10 DEF WriteAll
  <2>2. faults = 0 => want = Conv(mode, dev', buf', to', from', Curr)
    BY <1>1, <1>2, <1>7, <1>10, <1>e, <2>1 DEF Running
  <2>3. /\ from' \in Nat /\ to' \in Nat /\ First <= from' /\ to' <= from' /\ from' <= Curr
        /\ to' > 0 => from' > First
    BY <1>3, <1>10, <1>e
  <2> HIDE DEF q
  <2>. QED
    BY <1>1, <1>3, <1>9, <1>10, <2>1, <2>2, <2>3, TurnInv
<1>11. CASE WriteAll_Fails(Piece(0, to)) /\ Fail /\ UNCHANGED <<from, to>>
  <2>1. WriteAll_Fails(s)
    BY <1>11, PieceIs
  <2>2. /\ dev' \in Shown /\ faults' = faults + 1 /\ faults' # 0
        /\ ~retried /\ (~retried => Begins(dev \o s, want.see)) => Begins(dev', want.see)
    <3> HIDE DEF s
    <3>1. s \in Shown
      BY <1>2 DEF s
    <3>. QED
      BY <1>2, <2>1, <3>1, FailedWrite
  <2>3. ~retried => Begins(dev', want.see)
    BY <1>1, <2>2, ScanFacts
  <2>. QED
    BY <1>1, <1>11, <2>2, <2>3, FailInv
<1>. QED
  BY <1>8, <1>10, <1>11 DEF Scan_Escape

(* The device is flushed.                                                  *)
LEMMA SyncInv ==
  ASSUME OInv, Sync
  PROVE  OInv'
<1>1. pc = "sync" /\ UNCHANGED <<buf, pos, from, to, dev>>
  BY DEF Sync
<1>2. TypeOK /\ Open /\ Turn /\ Quiet /\ Intact /\ Sent
  BY DEF OInv
<1>3. faults \in Nat /\ dev \in Shown
  BY <1>2, OutTypes DEF TypeOK
<1>4. CASE faults' = faults + 1 /\ Fail
  BY <1>1, <1>2, <1>3, <1>4, FailInv DEF Sent
<1>5. CASE /\ IF caller = "free" THEN Release ELSE pc' = "idle" /\ UNCHANGED <<mode, state>>
           /\ UNCHANGED <<caller, todo, history, faults>>
  <2>1. /\ pc' = "idle" /\ caller' = caller /\ todo' = todo /\ want' = want /\ written' = written
        /\ retried' = retried /\ faults' = faults
        /\ \/ mode' = Closed /\ state' = "fail"
           \/ mode' = mode /\ state' = state
    BY <1>5 DEF Release, history
  <2>2. TypeOK'
    <3>1. pos' \in 0 .. Size - First'
      BY <1>1, <1>2, <2>1, PosKept
    <3>. QED
      BY <1>1, <1>2, <2>1, <3>1 DEF TypeOK
  <2>3. Open' /\ Turn' /\ Quiet'
    BY <1>1, <1>2, <2>1 DEF Open, Turn, Quiet
  <2>4. Intact'
    <3>1. mode' = mode => First' = First /\ Curr' = Curr
      BY <1>1, FirstType DEF Curr
    <3>. QED
      BY <1>1, <1>2, <2>1, <3>1 DEF Intact, Waiting
  <2>5. Sent'
    BY <1>1, <1>2, <2>1 DEF Sent
  <2>. QED
    BY <2>2, <2>3, <2>4, <2>5 DEF OInv
<1>. QED
  BY <1>4, <1>5 DEF Sync

-----------------------------------------------------------------------------
(* The operations of the program.  n characters of s are stored.           *)
StoredAt(b, c, n, s, b2) ==
  /\ b \in Cells /\ Within(First, c) /\ n \in Nat /\ c + n <= Size /\ s \in Seq(Char) /\ n <= Len(s)
  /\ b2 = [i \in DOMAIN b |-> IF i \in c .. c + n - 1 THEN s[i - c + 1] ELSE b[i]]

HasStored(b, c, n, s, b2) ==
  /\ b2 \in Cells /\ Within(First, c + n) /\ SubSeq(s, 1, n) \in Text
  /\ PieceOf(b2, First, c + n) = PieceOf(b, First, c) \o SubSeq(s, 1, n)

(* The buffer after a memcpy.                                              *)
LEMMA Stored ==
  ASSUME NEW b, NEW c, NEW n, NEW s, NEW b2, StoredAt(b, c, n, s, b2)
  PROVE  HasStored(b, c, n, s, b2)
<1> DEFINE l == c + n
           a == SubSeq(s, 1, n)
<1>0. /\ b \in Cells /\ Within(First, c) /\ n \in Nat /\ c + n <= Size /\ s \in Seq(Char) /\ n <= Len(s)
  BY DEF StoredAt
<1>1. /\ First \in Nat /\ Size \in Nat /\ c \in Nat /\ First <= c /\ l \in Nat /\ l <= Size /\ Len(s) \in Nat
      /\ l - 1 = c + n - 1
  BY <1>0, SizeType, FirstType DEF Within
<1>2. DOMAIN b = 0 .. Size - 1 /\ \A i \in 0 .. Size - 1 : b[i] \in CellChar
  BY <1>0 DEF Cells
<1>3. a \in Text /\ Len(a) = n /\ \A i \in 1 .. n : a[i] = s[i]
  <2>1. a \in Seq(Char) /\ Len(a) = n /\ \A i \in 1 .. n : a[i] = s[i]
    BY <1>0, <1>1
  <2>2. Char \subseteq CellChar
    BY DEF CellChar
  <2> HIDE DEF a
  <2>. QED
    BY <2>1, <2>2 DEF Text
<1>c. \A i \in 1 .. n : s[i] \in CellChar
  <2>1. \A i \in 1 .. Len(s) : s[i] \in Char
    BY <1>0
  <2>. QED
    BY <1>0, <1>1, <2>1 DEF CellChar
<1> HIDE DEF l, a
<1>d. b2 = [i \in DOMAIN b |-> IF i \in c .. l - 1 THEN s[i - c + 1] ELSE b[i]]
  BY <1>1, Zenon DEF StoredAt
<1>4. /\ b2 = [i \in 0 .. Size - 1 |-> b2[i]]
      /\ \A i \in 0 .. Size - 1 : b2[i] = IF i \in c .. l - 1 THEN s[i - c + 1] ELSE b[i]
  BY <1>2, <1>d, Zenon
<1>5. b2 \in Cells
  <2>1. \A i \in c .. l - 1 : i - c + 1 \in 1 .. n
    BY <1>0, <1>1
  <2>2. \A i \in 0 .. Size - 1 : b2[i] \in CellChar
    BY <1>2, <1>4, <1>c, <2>1
  <2>. QED
    BY <1>4, <2>2 DEF Cells
<1>6. Within(First, c) /\ Within(c, l) /\ Within(First, l) /\ l - c = n
  BY <1>0, <1>1 DEF Within, l
<1>7. PieceOf(b2, First, c) = PieceOf(b, First, c)
  <2>1. \A p \in First .. c - 1 : p \in 0 .. Size - 1 /\ p \notin c .. l - 1
    BY <1>1, <1>6 DEF Within
  <2>2. Same(b2, b, First, c)
    BY <1>4, <1>6, <2>1 DEF Same
  <2>. QED
    BY <2>2, PieceSame
<1>8. PieceOf(b2, c, l) = a
  <2> DEFINE w == PieceOf(b2, c, l)
  <2>1. w \in Text /\ Len(w) = l - c /\ \A i \in 1 .. l - c : w[i] = b2[c + i - 1]
    BY <1>5, <1>6, PieceType
  <2> HIDE DEF w
  <2>2. ASSUME NEW i \in 1 .. n PROVE w[i] = a[i]
    <3> DEFINE p == c + i - 1
    <3>1. p \in c .. l - 1 /\ p \in 0 .. Size - 1 /\ p - c + 1 = i
      BY <1>0, <1>1, <1>6
    <3>2. b2[p] = s[p - c + 1]
      <4> HIDE DEF p
      <4>. QED
        BY <1>4, <3>1
    <3>. QED
      BY <1>3, <1>6, <2>1, <3>1, <3>2
  <2>3. Len(w) = Len(a) /\ \A i \in 1 .. Len(w) : w[i] = a[i]
    BY <1>3, <1>6, <2>1, <2>2
  <2>4. w = a
    BY <1>3, <2>1, <2>3, TextEqual
  <2>. QED
    BY <2>4 DEF w
<1>9. PieceOf(b2, First, l) = PieceOf(b2, First, c) \o PieceOf(b2, c, l)
  <2>1. CutAt(b2, First, c, l)
    BY <1>5, <1>6 DEF CutAt
  <2>. QED
    BY <2>1, PieceCut
<1>. QED
  BY <1>3, <1>5, <1>6, <1>7, <1>8, <1>9 DEF l, a, HasStored

(* Storing into the buffer keeps the invariant.                            *)
LEMMA StoreInv ==
  ASSUME OInv, pc \in {"idle", "store"}, mode # Closed, NEW s \in Seq(Char), Store(s)
  PROVE  OInv'
<1>1. TypeOK /\ Open /\ Quiet /\ Intact /\ Sent
  BY DEF OInv
<1>2. /\ buf \in Cells /\ dev \in Shown /\ want \in Seen /\ want.see \in Shown
      /\ pos \in Nat /\ pos <= Size - First /\ First \in Nat /\ Curr \in Nat /\ Curr = First + pos
      /\ Curr <= Size /\ First <= Curr /\ Within(First, Curr)
      /\ At(dev, buf, 0, First, Curr)
  BY <1>1, OutTypes
<1> DEFINE n == IF Len(s) < Size - Curr THEN Len(s) ELSE Size - Curr
           rest == SubSeq(s, n + 1, Len(s))
           a == SubSeq(s, 1, n)
<1>3. /\ buf' = [i \in DOMAIN buf |-> IF i \in Curr .. Curr + n - 1 THEN s[i - Curr + 1] ELSE buf[i]]
      /\ pos' = pos + n /\ want' = SeeText(mode, want, a) /\ written' = written + n
      /\ mode' = mode /\ dev' = dev /\ faults' = faults /\ retried' = retried
  BY DEF Store
<1>4. \/ state = "good" /\ todo' = rest /\ CallFlushBuffer("write") /\ state' = state
      \/ /\ todo' = <<>> /\ pc' = "idle" /\ state' \in {state, "bad"}
         /\ caller' = caller /\ from' = from /\ to' = to
  BY DEF Store
<1>5. Len(s) \in Nat /\ n \in Nat /\ n <= Len(s) /\ pos + n <= Size - First /\ Curr + n <= Size
  <2> DEFINE l == Len(s)
  <2>1. l \in Nat /\ n = IF l < Size - Curr THEN l ELSE Size - Curr
    OBVIOUS
  <2>2. Cap \in Nat /\ Gap \in Nat /\ Size = Gap + Cap
    BY SizeType
  <2> HIDE DEF l, n
  <2>3. CASE l < Size - Curr
    BY <1>2, <2>1, <2>2, <2>3 DEF l
  <2>4. CASE ~ (l < Size - Curr)
    BY <1>2, <2>1, <2>2, <2>4 DEF l
  <2>. QED
    BY <2>3, <2>4
<1>6. rest \in Seq(Char)
  BY <1>5
<1> HIDE DEF n, rest
<1>7. StoredAt(buf, Curr, n, s, buf')
  BY <1>2, <1>3, <1>5 DEF StoredAt
<1>8. /\ buf' \in Cells /\ Within(First, Curr + n) /\ a \in Text
      /\ PieceOf(buf', First, Curr + n) = PieceOf(buf, First, Curr) \o a
  <2>1. HasStored(buf, Curr, n, s, buf')
    BY <1>7, Stored
  <2>. QED
    BY <2>1 DEF HasStored
<1> HIDE DEF a
<1>9. want' \in Seen /\ want'.see \in Shown /\ Begins(want.see, want'.see)
  <2> DEFINE w == SeeText(mode, want, a)
  <2>1. w \in Seen /\ Begins(want.see, w.see)
    BY <1>2, <1>8, SeeTextType, SeeTextGrows
  <2> HIDE DEF w
  <2>2. w.see \in Shown
    BY <2>1 DEF Seen, Shown
  <2>. QED
    BY <1>3, <2>1, <2>2 DEF w
<1>10. pos' \in 0 .. Size - First /\ written' \in Nat /\ First' = First /\ Curr' = Curr + n /\ Curr + n \in Nat
  BY <1>1, <1>2, <1>3, <1>5, SizeType, FirstType DEF TypeOK, Curr
<1>11. TypeOK'
  <2>1. /\ todo' \in Seq(Char) /\ pc' \in {"idle", "scan"} /\ from' \in 0 .. Size /\ to' \in 0 .. Size
        /\ caller' \in {"write", "reserve", "flush", "free"} /\ state' \in {"good", "bad", "fail"}
    <3>1. First \in 0 .. Size /\ 0 \in 0 .. Size /\ <<>> \in Seq(Char)
      BY <1>2, SizeType
    <3>. QED
      BY <1>1, <1>4, <1>6, <3>1 DEF TypeOK, CallFlushBuffer
  <2>. QED
    BY <1>1, <1>3, <1>8, <1>9, <1>10, <2>1 DEF TypeOK, Cells, CellChar, Seen
<1>12. Open' /\ Quiet'
  BY <1>1, <1>3, <1>4 DEF Open, Quiet, CallFlushBuffer
<1>13. Turn'
  <2>1. First <= Curr + n
    BY <1>8 DEF Within
  <2>. QED
    BY <1>2, <1>4, <1>10, <2>1 DEF Turn, CallFlushBuffer
<1>14. Intact'
  <2> SUFFICES ASSUME faults = 0 PROVE want' = Conv(mode', dev', buf', 0, First', Curr')
                                        /\ (pc' = "scan" => to' = 0 /\ from' = First')
    BY <1>3 DEF Intact, Running, Waiting
  <2>1. want = Conv(mode, dev, buf, 0, First, Curr)
    BY <1>1 DEF Intact, Waiting
  <2>2. pc' = "scan" => to' = 0 /\ from' = First'
    BY <1>4, <1>10 DEF CallFlushBuffer
  <2> DEFINE c2 == Curr + n
             b2 == buf'
  <2>3. At(dev, b2, 0, First, c2) /\ PieceOf(b2, First, c2) = PieceOf(buf, First, Curr) \o a
    <3>1. Within(0, 0) /\ 0 <= First
      BY <1>2, SizeType DEF Within
    <3>. QED
      BY <1>2, <1>8, <3>1 DEF At
  <2> HIDE DEF c2, b2
  <2>4. Conv(mode, dev, b2, 0, First, c2) = SeeText(mode, Conv(mode, dev, buf, 0, First, Curr), a)
    <3>1. Longer(mode, dev, buf, First, Curr, a, b2, c2)
      BY <1>2, <1>8, <2>3 DEF Longer
    <3>2. Further(mode, dev, buf, First, Curr, a, b2, c2)
      BY <3>1, ConvLonger
    <3>. QED
      BY <3>2 DEF Further
  <2>. QED
    BY <1>3, <1>10, <2>1, <2>2, <2>4 DEF c2, b2
<1>15. Sent'
  <2>1. pc' \notin {"store", "sync"}
    BY <1>4 DEF CallFlushBuffer
  <2> DEFINE w == want'
  <2>2. Begins(dev, want.see) => Begins(dev, w.see)
    <3>1. w.see \in Shown /\ Begins(want.see, w.see)
      BY <1>9
    <3> HIDE DEF w
    <3>. QED
      BY <1>2, <3>1, BeginsFurther
  <2>. QED
    BY <1>1, <1>3, <2>1, <2>2 DEF Sent
<1>. QED
  BY <1>11, <1>12, <1>13, <1>14, <1>15 DEF OInv

(* reserve, flush, freebuf on a stream that is not good, and clear: only   *)
(* the state of the stream changes.                                        *)
LEMMA StateInv ==
  ASSUME OInv, pc = "idle", UNCHANGED <<caller, from, to, buf, pos, todo, dev, want, written, faults>>, pc' = "idle",
         state' \in {"good", "bad", "fail"}, retried' \in BOOLEAN, mode' = mode \/ mode' = Closed,
         retried => retried', faults > 0 /\ ~retried' => state' # "good"
  PROVE  OInv'
<1>1. TypeOK /\ Open /\ Turn /\ Quiet /\ Intact /\ Sent
  BY DEF OInv
<1>2. TypeOK'
  <2>1. pos' \in 0 .. Size - First'
    BY <1>1, PosKept
  <2>. QED
    BY <1>1, <2>1 DEF TypeOK
<1>3. mode' = mode => First' = First /\ Curr' = Curr
  BY FirstType DEF Curr
<1>4. Intact'
  BY <1>1, <1>3 DEF Intact, Waiting
<1>5. Open' /\ Turn' /\ Quiet'
  BY DEF Open, Turn, Quiet
<1>6. Sent'
  BY <1>1 DEF Sent, TypeOK
<1>. QED
  BY <1>2, <1>4, <1>5, <1>6 DEF OInv

(* Making room in the buffer keeps the invariant.                          *)
LEMMA ReserveInv ==
  ASSUME OInv, Reserve
  PROVE  OInv'
<1>1. pc = "idle" /\ mode # Closed /\ UNCHANGED <<mode, buf, pos, todo, dev, history, faults>>
  BY DEF Reserve
<1>2. CASE state = "good"
  <2>1. CallFlushBuffer("reserve") /\ UNCHANGED state
    BY <1>2 DEF Reserve
  <2>. QED
    BY <1>1, <1>2, <2>1, CallInv
<1>3. CASE state # "good"
  <2>1. state' = "bad" /\ UNCHANGED <<caller, pc, from, to>>
    BY <1>3 DEF Reserve
  <2>. QED
    BY <1>1, <2>1, StateInv DEF history, OInv, TypeOK
<1>. QED
  BY <1>2, <1>3

(* flush keeps the invariant.                                              *)
LEMMA FlushInv ==
  ASSUME OInv, Flush
  PROVE  OInv'
<1>1. pc = "idle" /\ mode # Closed /\ UNCHANGED <<mode, buf, pos, todo, dev, history, faults>>
  BY DEF Flush
<1>2. CASE state = "good"
  <2>1. CallFlushBuffer("flush") /\ UNCHANGED state
    BY <1>2 DEF Flush
  <2>. QED
    BY <1>1, <1>2, <2>1, CallInv
<1>3. CASE state # "good"
  <2>1. state' = "bad" /\ UNCHANGED <<caller, pc, from, to>>
    BY <1>3 DEF Flush
  <2>. QED
    BY <1>1, <2>1, StateInv DEF history, OInv, TypeOK
<1>. QED
  BY <1>2, <1>3

(* freebuf keeps the invariant.                                            *)
LEMMA FreeBufInv ==
  ASSUME OInv, FreeBuf
  PROVE  OInv'
<1>1. pc = "idle" /\ mode # Closed /\ UNCHANGED <<buf, pos, todo, dev, history, faults>>
  BY DEF FreeBuf
<1>2. CASE state = "good"
  <2>1. CallFlushBuffer("free") /\ UNCHANGED <<mode, state>>
    BY <1>2 DEF FreeBuf
  <2>. QED
    BY <1>1, <1>2, <2>1, CallInv
<1>3. CASE state # "good"
  <2>1. mode' = Closed /\ state' = "fail" /\ pc' = "idle" /\ UNCHANGED <<caller, from, to>>
    BY <1>3 DEF FreeBuf, Release
  <2>. QED
    BY <1>1, <2>1, StateInv DEF history, OInv, TypeOK
<1>. QED
  BY <1>2, <1>3

(* clear keeps the invariant.                                              *)
LEMMA ClearInv ==
  ASSUME OInv, Clear
  PROVE  OInv'
<1>1. /\ pc = "idle" /\ state' = "good" /\ UNCHANGED <<mode, pc, caller, io, want, written, faults>>
  BY DEF Clear
<1>2. retried \in BOOLEAN /\ retried' \in BOOLEAN /\ (retried' <=> retried \/ faults > 0)
  <2>1. retried \in BOOLEAN
    BY DEF OInv, TypeOK
  <2>2. retried' = (retried \/ faults > 0)
    BY DEF Clear
  <2>. QED
    BY <2>1, <2>2, Zenon
<1>. QED
  BY <1>1, <1>2, StateInv DEF io

(* initbuf keeps the invariant.                                            *)
LEMMA InitBufInv ==
  ASSUME OInv, NEW m \in Modes, InitBuf(m)
  PROVE  OInv'
<1>1. /\ pc = "idle" /\ mode' = m /\ state' = "good" /\ pos' = 0 /\ dev' = <<>> /\ want' = Blank
      /\ retried' = FALSE /\ faults' = 0 /\ UNCHANGED <<buf, pc, caller, todo, from, to, written>>
  BY DEF InitBuf
<1>2. TypeOK
  BY DEF OInv
<1> DEFINE f == First'
<1>3. f \in Nat /\ f <= Size /\ f \in 0 .. Size /\ Curr' = f
  <2>1. f \in Nat /\ f <= Size /\ f \in 0 .. Size
    BY SizeType DEF First
  <2>2. Curr' = f + pos'
    BY DEF Curr
  <2> HIDE DEF f
  <2>. QED
    BY <1>1, <2>1, <2>2
<1>4. TypeOK'
  <2>1. 0 \in 0 .. Size - First' /\ 0 \in Nat /\ <<>> \in Seq(Item)
    <3> HIDE DEF f
    <3>1. 0 \in 0 .. Size - f /\ 0 \in Nat /\ <<>> \in Seq(Item)
      BY <1>3, SizeType
    <3>. QED
      BY <3>1 DEF f
  <2>2. want' \in [see : Seq(Item), in : {"text", "esc", "csi"}]
    BY <1>1, <2>1 DEF Blank
  <2>3. mode' \in Modes \union {Closed} /\ retried' \in BOOLEAN /\ dev' \in Seq(Item) /\ pos' \in 0 .. Size - First'
    BY <1>1, <2>1
  <2>. QED
    BY <1>1, <1>2, <2>1, <2>2, <2>3 DEF TypeOK
<1>5. <<>> \in Shown /\ buf \in Cells
  BY <1>2, OutTypes DEF Shown
<1>6. Intact'
  <2>1. f \in 0 .. Size
    BY <1>3
  <2> HIDE DEF f
  <2>2. Conv(m, <<>>, buf, 0, f, f) = Txt(<<>>)
    BY <1>5, <2>1, AllSent
  <2>. QED
    BY <1>1, <1>3, <2>2 DEF Intact, Waiting, Txt, Blank, f
<1>7. Sent'
  BY <1>1, <1>5, BeginsItself DEF Sent, Blank
<1>8. Open' /\ Turn' /\ Quiet'
  BY <1>1 DEF Open, Turn, Quiet
<1>. QED
  BY <1>4, <1>6, <1>7, <1>8 DEF OInv

-----------------------------------------------------------------------------
(* Every step keeps the invariant.                                         *)
LEMMA OutStepInv ==
  ASSUME OInv, [Next]_vars
  PROVE  OInv'
<1>1. ASSUME NEW s \in Texts, Write(s) PROVE OInv'
  <2>1. s \in Seq(Char) /\ pc = "idle" /\ mode # Closed /\ Store(s)
    BY <1>1, OutAssumption DEF Write
  <2>. QED
    BY <2>1, StoreInv
<1>2. CASE Store_Again
  <2>1. todo \in Seq(Char) /\ pc = "store" /\ mode # Closed /\ Store(todo)
    BY <1>2 DEF Store_Again, OInv, TypeOK, Open
  <2>. QED
    BY <2>1, StoreInv
<1>3. CASE FlushBuffer
  BY <1>3, ScanPlainInv, ScanCharInv, ScanNewlineInv, ScanNoRoomInv, ScanUnfinishedInv, ScanEscapeInv, ScanEndInv
     DEF FlushBuffer
<1>4. CASE Sync
  BY <1>4, SyncInv
<1>5. CASE Reserve \/ Flush \/ FreeBuf \/ Clear
  BY <1>5, ReserveInv, FlushInv, FreeBufInv, ClearInv
<1>6. ASSUME NEW m \in Modes, InitBuf(m) PROVE OInv'
  BY <1>6, InitBufInv
<1>7. CASE UNCHANGED vars
  <2>1. First' = First /\ Curr' = Curr
    BY <1>7 DEF vars, io, First, Curr
  <2>. QED
    BY <1>7, <2>1 DEF vars, io, history, OInv, TypeOK, Open, Turn, Plain, Quiet, Intact, Running, Waiting, Sent
<1>. QED
  BY <1>1, <1>2, <1>3, <1>4, <1>5, <1>6, <1>7 DEF Next, Call, Continue

(* The inductive invariant holds always.                                   *)
LEMMA OutInvariance == Spec => []OInv
<1>1. Init => OInv
  BY OutInitInv
<1>2. OInv /\ [Next]_vars => OInv'
  BY OutStepInv
<1>. QED
  BY <1>1, <1>2, PTL DEF Spec
-----------------------------------------------------------------------------
(* The type invariant holds, and the conversion in place never writes over *)
(* text it has not read.                                                   *)
THEOREM OutInvHolds == Spec => []Inv
<1>1. OInv => Inv
  <2>1. ASSUME OInv PROVE Inv
    <3>1. TypeOK /\ Turn
      BY <2>1 DEF OInv
    <3>2. Curr <= Size
      BY <3>1, OutTypes
    <3>. QED
      BY <3>1, <3>2 DEF Inv, NeverOvertakes, Turn
  <2>. QED
    BY <2>1
<1>. QED
  BY <1>1, OutInvariance, PTL

(* Until the device fails nothing that was written is lost, repeated or    *)
(* converted twice; what a device that failed has is a beginning of it.    *)
THEOREM OutputExactHolds == Spec => []OutputExact
<1>1. ASSUME OInv PROVE TextIntact
  <2>1. TypeOK /\ Intact
    BY <1>1 DEF OInv
  <2>2. SUFFICES ASSUME mode # Closed, faults = 0
                 PROVE  want = IF pc = "scan"
                               THEN SeeText(mode, [see |-> dev \o Piece(0, to), in |-> "text"], Piece(from, Curr))
                               ELSE SeeText(mode, [see |-> dev, in |-> "text"], Pending)
    BY DEF TextIntact
  <2>3. CASE pc = "scan"
    <3>1. want = Conv(mode, dev, buf, to, from, Curr)
      BY <2>1, <2>2, <2>3 DEF Intact, Running
    <3>2. Piece(0, to) = PieceOf(buf, 0, to) /\ Piece(from, Curr) = PieceOf(buf, from, Curr)
      BY PieceIs
    <3>. QED
      BY <2>3, <3>1, <3>2 DEF Conv, Txt
  <2>4. CASE pc # "scan"
    <3>1. want = Conv(mode, dev, buf, 0, First, Curr)
      BY <2>1, <2>2, <2>4 DEF Intact, Waiting
    <3>2. At(dev, buf, 0, First, Curr)
      BY <2>1, OutTypes
    <3>3. want = SeeText(mode, Txt(dev), PieceOf(buf, First, Curr))
      BY <3>1, <3>2, ConvStart
    <3>4. Pending = PieceOf(buf, First, Curr)
      BY PieceIs DEF Pending
    <3>. QED
      BY <2>4, <3>3, <3>4 DEF Txt
  <2>. QED
    BY <2>3, <2>4
<1>2. ASSUME OInv PROVE DeviceExact
  <2>1. TypeOK /\ Sent
    BY <1>2 DEF OInv
  <2>2. dev \in Shown /\ want.see \in Shown
    BY <2>1, OutTypes
  <2>3. Begins(dev, want.see) => IsPrefix(dev, want.see)
    BY <2>2, BeginsIsPrefix
  <2>. QED
    BY <2>1, <2>3 DEF Sent, DeviceExact
<1>3. OInv => OutputExact
  BY <1>1, <1>2 DEF OutputExact
<1>. QED
  BY <1>3, OutInvariance, PTL

(* A flush that meets an unfinished escape sequence gives up only when the *)
(* sequence is all that is in the buffer.                                  *)
LEMMA GivesUpInEscape ==
  ASSUME OInv, Scan_Unfinished, faults' = 0
  PROVE  from = First => want.in # "text" /\ buf[First] = "ESC"
<1> SUFFICES ASSUME from = First
             PROVE  want.in # "text" /\ buf[First] = "ESC"
  OBVIOUS
<1>1. /\ pc = "scan" /\ from # Curr /\ buf[from] = "ESC" /\ mode.esc # "none" /\ EndOfEsc = from + 1
      /\ faults' = faults
  BY DEF Scan_Unfinished, Scanning, AtText, AtEscape
<1>2. At(dev, buf, to, from, Curr) /\ Running /\ TypeOK /\ Turn
  BY <1>1, ScanFacts
<1>3. EndlessOf(buf, from, Curr)
  BY <1>1, EndOfEscIs DEF Endless
<1>4. from < Curr
  BY <1>1, <1>2, ScanTypes, OutTypes
<1>5. Conv(mode, dev, buf, to, from, Curr).in # "text"
  BY <1>1, <1>2, <1>3, <1>4, ConvUnfinished
<1>. QED
  BY <1>1, <1>2, <1>5 DEF Running

(* A step with no fault of the device fails only at a colour sequence that *)
(* fills the buffer.                                                       *)
LEMMA StepFailsOnlyInEscape ==
  ASSUME OInv, [Next]_vars, state = "good", state' = "bad", faults' = 0
  PROVE  want.in # "text" /\ buf[First] = "ESC"
<1>1. faults \in Nat
  BY DEF OInv, TypeOK
<1>2. \A s : ~ WriteAll_Fails(s)
  BY <1>1 DEF WriteAll_Fails
<1>3. \A s : ~ Store(s)
  BY DEF Store
<1>4. ~ UNCHANGED vars
  BY DEF vars
<1>5. ~ Call
  BY <1>3 DEF Call, Write, Reserve, Flush, FreeBuf, Release, Clear, InitBuf
<1>6. ~ Store_Again
  BY <1>3 DEF Store_Again
<1>7. ~ Sync
  BY <1>1 DEF Sync, Release
<1>8. FlushBuffer
  BY <1>4, <1>5, <1>6, <1>7 DEF Next, Continue
<1>9. ~ Return
  BY DEF Return
<1>10. Scan_Unfinished
  BY <1>2, <1>8, <1>9 DEF FlushBuffer, Scan_Plain, Scan_Char, Scan_Newline, Scan_NoRoom, Scan_Escape, Scan_End
<1>11. from = First
  BY <1>2, <1>9, <1>10 DEF Scan_Unfinished
<1>. QED
  BY <1>10, <1>11, GivesUpInEscape

(* While its device works, a stream fails only while the text written so   *)
(* far ends inside an escape sequence that is all that is in the buffer.   *)
THEOREM FailsOnlyInEscapeHolds == Spec => FailsOnlyInEscape
<1>1. OInv /\ [Next]_vars =>
        [state = "good" /\ state' = "bad" /\ faults' = 0 => want.in # "text" /\ buf[First] = "ESC"]_vars
  BY StepFailsOnlyInEscape
<1>. QED
  BY <1>1, OutInvariance, PTL DEF Spec, FailsOnlyInEscape
=============================================================================
