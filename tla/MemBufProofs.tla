----------------------------- MODULE MemBufProofs -----------------------------
(***************************************************************************)
(* Proofs about MemBuf, for every size of a buffer, of what is appended    *)
(* and of the memory there is, and for any number of calls.                *)
(***************************************************************************)
EXTENDS MemBuf, TLAPS

Text == Seq(Nat)

(* t is the beginning of w.                                                *)
Begins(t, w) == Len(t) <= Len(w) /\ \A i \in 1 .. Len(t) : t[i] = w[i]

(* A beginning of a text, as the library's prefix.                         *)
LEMMA BeginsIs ==
  ASSUME NEW t \in Text, NEW w \in Text, Begins(t, w)
  PROVE  /\ t = SubSeq(w, 1, Len(t)) /\ IsPrefix(t, w)
         /\ Len(t) = Len(w) => t = w
<1>1. Len(t) \in Nat /\ Len(w) \in Nat /\ Len(t) <= Len(w) /\ \A i \in 1 .. Len(t) : t[i] = w[i]
  BY DEF Text, Begins
<1>2. t = SubSeq(w, 1, Len(t))
  BY <1>1 DEF Text
<1>3. SubSeq(t, 1, Len(t)) = t
  BY DEF Text
<1>4. Len(t) = Len(w) => t = w
  BY <1>1 DEF Text
<1>. QED
  BY <1>1, <1>2, <1>3, <1>4 DEF IsPrefix

(* What two texts in a row are, by position.                               *)
LEMMA ConcatFacts ==
  ASSUME NEW t \in Text, NEW b \in Text
  PROVE  /\ t \o b \in Text /\ Len(t \o b) = Len(t) + Len(b)
         /\ \A i \in 1 .. Len(t) : (t \o b)[i] = t[i]
         /\ \A i \in 1 .. Len(b) : (t \o b)[Len(t) + i] = b[i]
BY DEF Text

(* Texts of one length that agree everywhere are equal.                    *)
LEMMA TextEqual ==
  ASSUME NEW s \in Text, NEW t \in Text, Len(s) = Len(t), \A i \in 1 .. Len(s) : s[i] = t[i]
  PROVE  s = t
BY DEF Text

(* Putting texts together may be grouped either way.                       *)
LEMMA ConcatAssoc ==
  ASSUME NEW s \in Text, NEW t \in Text, NEW u \in Text
  PROVE  (s \o t) \o u = s \o (t \o u)
BY DEF Text

(* A text cut in two.                                                      *)
LEMMA Split ==
  ASSUME NEW c \in Text, NEW k \in 0 .. Len(c)
  PROVE  /\ SubSeq(c, 1, k) \in Text /\ SubSeq(c, k + 1, Len(c)) \in Text
         /\ SubSeq(c, 1, k) \o SubSeq(c, k + 1, Len(c)) = c
<1> DEFINE a == SubSeq(c, 1, k)
           b == SubSeq(c, k + 1, Len(c))
<1>0. Len(c) \in Nat /\ k \in Nat /\ k <= Len(c)
  BY DEF Text
<1>1. a \in Text /\ Len(a) = k /\ \A i \in 1 .. k : a[i] = c[i]
  BY <1>0 DEF Text
<1>2. b \in Text /\ Len(b) = Len(c) - k /\ \A i \in 1 .. Len(c) - k : b[i] = c[k + i]
  BY <1>0 DEF Text
<1> HIDE DEF a, b
<1>3. /\ a \o b \in Text /\ Len(a \o b) = Len(c)
      /\ \A i \in 1 .. k : (a \o b)[i] = a[i]
      /\ \A i \in 1 .. Len(c) - k : (a \o b)[k + i] = b[i]
  <2>1. /\ a \o b \in Text /\ Len(a \o b) = Len(a) + Len(b)
        /\ \A i \in 1 .. Len(a) : (a \o b)[i] = a[i]
        /\ \A i \in 1 .. Len(b) : (a \o b)[Len(a) + i] = b[i]
    BY <1>1, <1>2, ConcatFacts
  <2>. QED
    BY <1>0, <1>1, <1>2, <2>1
<1>4. ASSUME NEW i \in 1 .. Len(c) PROVE (a \o b)[i] = c[i]
  <2>1. CASE i <= k
    BY <1>0, <1>1, <1>3, <2>1
  <2>2. CASE i > k
    <3>1. i - k \in 1 .. Len(c) - k /\ k + (i - k) = i
      BY <1>0, <2>2
    <3>. QED
      BY <1>2, <1>3, <3>1
  <2>3. i <= k \/ i > k
    BY <1>0
  <2>. QED
    BY <2>1, <2>2, <2>3
<1>5. a \o b = c
  BY <1>3, <1>4, TextEqual
<1>. QED
  BY <1>1, <1>2, <1>5 DEF a, b

(* The first k of the characters c come after t, all of them after w; they *)
(* must come to the same place.                                            *)
MayFollow(t, w, c, k) == /\ t \in Text /\ w \in Text /\ c \in Text /\ k \in 0 .. Len(c)
                         /\ Begins(t, w)
                         /\ k > 0 => Len(t) = Len(w)

(* If what is written so far begins the wanted text, and a part of the     *)
(* next piece is added only when nothing is missing, it still does.        *)
LEMMA AppendPart ==
  ASSUME NEW t, NEW w, NEW c, NEW k, MayFollow(t, w, c, k)
  PROVE  /\ t \o SubSeq(c, 1, k) \in Text /\ Len(t \o SubSeq(c, 1, k)) = Len(t) + k
         /\ w \o c \in Text /\ Len(w \o c) = Len(w) + Len(c)
         /\ Begins(t \o SubSeq(c, 1, k), w \o c)
<1> DEFINE b == SubSeq(c, 1, k)
           u == t \o b
           v == w \o c
<1>0. t \in Text /\ w \in Text /\ c \in Text /\ k \in 0 .. Len(c) /\ Begins(t, w) /\ (k > 0 => Len(t) = Len(w))
  BY DEF MayFollow
<1>1. /\ Len(t) \in Nat /\ Len(w) \in Nat /\ Len(c) \in Nat /\ k \in Nat /\ k <= Len(c)
      /\ Len(t) <= Len(w) /\ \A i \in 1 .. Len(t) : t[i] = w[i]
  BY <1>0 DEF Text, Begins
<1>2. b \in Text /\ Len(b) = k /\ \A i \in 1 .. k : b[i] = c[i]
  BY <1>0, <1>1 DEF Text
<1>3. v \in Text /\ Len(v) = Len(w) + Len(c) /\ (\A i \in 1 .. Len(w) : v[i] = w[i])
      /\ \A i \in 1 .. Len(c) : v[Len(w) + i] = c[i]
  BY <1>0, <1>1 DEF Text
<1> HIDE DEF b
<1>4. u \in Text /\ Len(u) = Len(t) + k /\ (\A i \in 1 .. Len(t) : u[i] = t[i])
      /\ \A i \in 1 .. k : u[Len(t) + i] = b[i]
  BY <1>0, <1>2, ConcatFacts
<1> HIDE DEF u, v
<1>5. ASSUME NEW i \in 1 .. Len(u) PROVE u[i] = v[i]
  <2>1. CASE i <= Len(t)
    <3>1. i \in 1 .. Len(t) /\ i \in 1 .. Len(w)
      BY <1>1, <1>4, <2>1
    <3>. QED
      BY <1>1, <1>3, <1>4, <3>1
  <2>2. CASE i > Len(t)
    <3>1. i - Len(t) \in 1 .. k /\ Len(t) + (i - Len(t)) = i
      BY <1>1, <1>4, <2>2
    <3>2. k > 0 /\ i - Len(t) \in 1 .. Len(c)
      BY <1>1, <3>1
    <3>3. u[Len(t) + (i - Len(t))] = c[i - Len(t)]
      BY <1>2, <1>4, <3>1
    <3>4. v[Len(w) + (i - Len(t))] = c[i - Len(t)]
      BY <1>3, <3>2
    <3>. QED
      BY <1>0, <3>1, <3>2, <3>3, <3>4
  <2>3. i <= Len(t) \/ i > Len(t)
    BY <1>1, <1>4
  <2>. QED
    BY <2>1, <2>2, <2>3
<1>6. Len(u) <= Len(v)
  <2>1. CASE k = 0
    BY <1>1, <1>3, <1>4, <2>1
  <2>2. CASE k > 0
    BY <1>1, <1>3, <1>4, <2>2
  <2>. QED
    BY <1>1, <2>1, <2>2
<1>7. Begins(u, v)
  BY <1>5, <1>6 DEF Begins
<1>. QED
  BY <1>3, <1>4, <1>7 DEF b, u, v

-----------------------------------------------------------------------------
(* The inductive invariant.  What of the text is in the buffer: all of it, *)
(* if that grows, and otherwise what there is room for; and that what is   *)
(* counted is the whole text as soon as that is longer.                    *)
Buffer == [form : {"dynamic", "tracked", "fixed"}, data : Nat, text : Text, capacity : Nat,
           tracked_size : Nat, failed : BOOLEAN, gone : BOOLEAN]
MemType ==
  /\ mem \in Buffer
  /\ wanted \in Text
  /\ steps \in Nat
Held(m, w) ==
  /\ Begins(m.text, w) /\ Len(m.text) <= m.capacity
  /\ m.form = "dynamic" /\ ~m.failed => Len(m.text) = Len(w)
  /\ m.form # "dynamic" => Len(m.text) = Small(m.capacity, Len(w))
  /\ m.form = "tracked" => m.tracked_size = Great(m.capacity, Len(w))

(* Blocks are told apart by the call that has made them.                   *)
Block(m) == IF m.gone \/ m.data = 0 THEN {} ELSE {[block |-> m.data, capacity |-> m.capacity]}
Owned(m, h, n) ==
  m.form = "dynamic" =>
    /\ m.data <= n
    /\ m.data # 0 <=> FromHeap(m.capacity)
    /\ m.data # 0 => m.capacity <= MaxSize
    /\ h = Block(m)

MemInv == MemType /\ Held(mem, wanted) /\ Owned(mem, heap, steps)

(* The invariant holds at first.                                           *)
LEMMA MemInitInv ==
  ASSUME BufferAssumption, MemInit
  PROVE  MemInv
<1>1. PICK f \in Forms : mem = New(f)
  BY DEF MemInit
<1>2. f \in [form : {"dynamic", "tracked", "fixed"}, capacity : Nat]
      /\ (f.form = "dynamic" => ~FromHeap(f.capacity))
  BY DEF BufferAssumption
<1>3. heap = {} /\ wanted = <<>> /\ steps = 0
  BY DEF MemInit
<1>4. MemType
  BY <1>1, <1>2, <1>3 DEF MemType, Buffer, New, Text
<1>5. Held(mem, wanted)
  BY <1>1, <1>2, <1>3 DEF Held, Begins, New, Small, Great
<1>6. Owned(mem, heap, steps)
  BY <1>1, <1>2, <1>3 DEF Owned, Block, New
<1>. QED
  BY <1>4, <1>5, <1>6 DEF MemInv

(* The size that a buffer grows to: odd, enough, and not too much.         *)
LEMMA GrownToFits ==
  ASSUME NEW size \in Nat, NEW extra \in Nat, MaxSize \in Nat, ~TooMuch(size, extra)
  PROVE  /\ GrownTo(size, extra) \in Nat /\ GrownTo(size, extra) <= MaxSize
         /\ GrownTo(size, extra) >= size + extra /\ FromHeap(GrownTo(size, extra))
<1> DEFINE half == size \div 2
           delta == Great(extra + 1, half)
           max_avail == MaxSize - size
           delta_sz == IF delta > max_avail THEN Great(extra + 1, max_avail \div 2) ELSE delta
           last == size + delta_sz - 1
<1>1. max_avail \in Nat /\ extra + 1 <= max_avail
  BY DEF TooMuch
<1>2. delta_sz \in Nat /\ extra + 1 <= delta_sz /\ delta_sz <= max_avail
  <2>1. max_avail \div 2 \in Nat /\ max_avail \div 2 <= max_avail /\ half \in Nat
    <3> HIDE DEF max_avail
    <3>. QED
      BY <1>1
  <2> HIDE DEF max_avail, half
  <2>. QED
    BY <1>1, <2>1 DEF Great
<1> HIDE DEF delta_sz
<1>3. last \in Nat /\ size + extra <= last /\ last <= MaxSize - 1
  BY <1>1, <1>2
<1>4. GrownTo(size, extra) = last - (last % 2) + 1
  BY DEF GrownTo, delta_sz
<1> HIDE DEF last
<1>5. last % 2 \in {0, 1} /\ (last - (last % 2) + 1) % 2 = 1
  BY <1>3
<1>. QED
  BY <1>3, <1>4, <1>5 DEF FromHeap
(* What grow leaves alone, and what it allocates.                          *)
LEMMA GrowFacts ==
  ASSUME BufferAssumption, NEW m \in Buffer, NEW extra \in Nat, steps \in Nat
  PROVE  /\ Grow(m, extra) \in Buffer
         /\ Grow(m, extra).form = m.form /\ Grow(m, extra).text = m.text /\ Grow(m, extra).gone = m.gone
         /\ m.form = "dynamic" =>
              \/ /\ Grow(m, extra).failed
                 /\ Grow(m, extra).data = m.data /\ Grow(m, extra).capacity = m.capacity
              \/ /\ Grow(m, extra).failed = m.failed
                 /\ Grow(m, extra).data = steps + 1
                 /\ FromHeap(Grow(m, extra).capacity) /\ Grow(m, extra).capacity <= MaxSize
                 /\ Len(m.text) + extra <= Grow(m, extra).capacity
         /\ m.form # "dynamic" =>
              /\ Grow(m, extra).failed = m.failed
              /\ Grow(m, extra).data = m.data /\ Grow(m, extra).capacity = m.capacity
              /\ m.form = "tracked" => Grow(m, extra).tracked_size = m.tracked_size + extra
<1> DEFINE size == Len(m.text)
           g == Grow(m, extra)
<1>1. MaxSize \in Nat /\ size \in Nat /\ m.form \in {"dynamic", "tracked", "fixed"}
      /\ m.tracked_size \in Nat /\ m.text \in Text
  BY DEF BufferAssumption, Buffer, Text
<1>2. CASE m.form = "tracked"
  <2>1. g = [m EXCEPT !.tracked_size = @ + extra]
    BY <1>2 DEF Grow
  <2> HIDE DEF g
  <2>2. g \in Buffer
    BY <1>1, <2>1 DEF Buffer
  <2>. QED
    BY <1>2, <2>1, <2>2 DEF g, Buffer
<1>3. CASE m.form = "dynamic" /\ TooMuch(size, extra)
  <2>1. g = [m EXCEPT !.failed = TRUE]
    BY <1>3 DEF Grow
  <2> HIDE DEF g
  <2>2. g \in Buffer
    BY <1>1, <2>1 DEF Buffer
  <2>. QED
    BY <1>3, <2>1, <2>2 DEF g, Buffer
<1>4. CASE m.form = "dynamic" /\ ~TooMuch(size, extra)
  <2> DEFINE capacity == GrownTo(size, extra)
  <2>1. g = [m EXCEPT !.data = steps + 1, !.capacity = capacity]
    BY <1>1, <1>4 DEF Grow, NewBlock
  <2>2. capacity \in Nat /\ capacity <= MaxSize /\ capacity >= size + extra /\ FromHeap(capacity)
    BY <1>1, <1>4, GrownToFits
  <2> HIDE DEF g, capacity
  <2>3. g \in Buffer
    <3> DEFINE place == steps + 1
    <3>1. place \in Nat
      OBVIOUS
    <3>2. g = [m EXCEPT !.data = place, !.capacity = capacity]
      BY <2>1
    <3> HIDE DEF place
    <3>. QED
      BY <2>2, <3>1, <3>2 DEF Buffer
  <2>. QED
    BY <1>1, <1>4, <2>1, <2>2, <2>3 DEF g, Buffer
<1>5. CASE m.form = "fixed"
  <2>1. g = m
    BY <1>5 DEF Grow
  <2>. QED
    BY <1>5, <2>1
<1>. QED
  BY <1>1, <1>2, <1>3, <1>4, <1>5

(* The buffer owns the one block there is, and gives it back with the size *)
(* that it has, when it grows or goes.                                     *)
LEMMA Given ==
  ASSUME NEW m \in Buffer, NEW h, NEW n \in Nat, Owned(m, h, n), m.form = "dynamic", ~m.gone
  PROVE  Deallocated(h, m.data, m.capacity) = {}
BY DEF Owned, Block, Deallocated

(* After grow the buffer owns the block it points to and no other.         *)
LEMMA GrownOwned ==
  ASSUME NEW m \in Buffer, NEW g \in Buffer, steps \in Nat, Owned(m, heap, steps), ~m.gone,
         g.form = m.form, g.gone = m.gone,
         m.form = "dynamic" =>
           \/ g.data = m.data /\ g.capacity = m.capacity
           \/ g.data = steps + 1 /\ FromHeap(g.capacity) /\ g.capacity <= MaxSize
  PROVE  Owned(g, HeapGrown(m, g), steps + 1)
<1> SUFFICES ASSUME m.form = "dynamic"
             PROVE  Owned(g, HeapGrown(m, g), steps + 1)
  BY DEF Owned
<1>1. m.data \in Nat /\ g.data \in Nat /\ m.data <= steps
  BY DEF Buffer, Owned
<1>2. CASE g.data = m.data /\ g.capacity = m.capacity
  <2>1. HeapGrown(m, g) = heap
    BY <1>2 DEF HeapGrown
  <2>. QED
    BY <1>1, <1>2, <2>1 DEF Owned, Block
<1>3. CASE g.data = steps + 1 /\ FromHeap(g.capacity) /\ g.capacity <= MaxSize
  <2>1. g.data # m.data /\ g.data # 0 /\ g.data <= steps + 1
    BY <1>1, <1>3
  <2>2. HeapGrown(m, g) = {[block |-> g.data, capacity |-> g.capacity]}
    <3>1. Deallocated(heap, m.data, m.capacity) = {}
      BY Given
    <3>. QED
      BY <2>1, <3>1 DEF HeapGrown
  <2>3. Block(g) = {[block |-> g.data, capacity |-> g.capacity]}
    BY <2>1 DEF Block
  <2>. QED
    BY <1>3, <2>1, <2>2, <2>3 DEF Owned
<1>. QED
  BY <1>2, <1>3

(* What is appended goes in as far as there is room; then the buffer       *)
(* grows, and takes the rest if it could.                                  *)
LEMMA AppendInv ==
  ASSUME BufferAssumption, MemInv, NEW c \in Text, ~mem.gone, ~mem.failed, steps' = steps + 1, AppendChars(c)
  PROVE  MemInv'
<1>1. /\ mem \in Buffer /\ wanted \in Text /\ steps \in Nat
      /\ Held(mem, wanted) /\ Owned(mem, heap, steps)
  BY DEF MemInv, MemType
<1>2. /\ mem.text \in Text /\ mem.capacity \in Nat /\ mem.tracked_size \in Nat /\ mem.data \in Nat
      /\ Len(mem.text) \in Nat /\ Len(wanted) \in Nat /\ Len(c) \in Nat
      /\ mem.form \in {"dynamic", "tracked", "fixed"}
      /\ Begins(mem.text, wanted) /\ Len(mem.text) <= mem.capacity
  BY <1>1 DEF Buffer, Text, Held
<1> DEFINE now == Small(avail, Len(c))
           part == [mem EXCEPT !.text = @ \o SubSeq(c, 1, now)]
           grown == IF now = Len(c) THEN part ELSE Grow(part, Len(c) - now)
           fits == grown.capacity - Len(grown.text) >= Len(c) - now
           full == [grown EXCEPT !.text = @ \o SubSeq(c, now + 1, Len(c))]
<1>3. /\ mem' = IF fits THEN full ELSE grown
      /\ heap' = HeapGrown(part, grown)
      /\ wanted' = wanted \o c
  BY DEF AppendChars
<1>4. /\ avail \in Nat /\ now \in 0 .. Len(c) /\ now <= avail /\ Len(mem.text) + avail = mem.capacity
      /\ now = Len(c) \/ now = avail
  BY <1>2 DEF avail, Small
<1>5. now > 0 => Len(mem.text) = Len(wanted)
  BY <1>1, <1>2, <1>4 DEF Held, Small
<1> DEFINE t == mem.text \o SubSeq(c, 1, now)
<1>6. /\ t \in Text /\ Len(t) = Len(mem.text) + now
      /\ wanted' \in Text /\ Len(wanted') = Len(wanted) + Len(c)
      /\ Begins(t, wanted')
  <2> HIDE DEF now
  <2>1. /\ mem.text \o SubSeq(c, 1, now) \in Text
        /\ Len(mem.text \o SubSeq(c, 1, now)) = Len(mem.text) + now
        /\ wanted \o c \in Text /\ Len(wanted \o c) = Len(wanted) + Len(c)
        /\ Begins(mem.text \o SubSeq(c, 1, now), wanted \o c)
    <3> DEFINE x == mem.text
    <3>1. MayFollow(x, wanted, c, now)
      BY <1>1, <1>2, <1>4, <1>5 DEF MayFollow
    <3> HIDE DEF x
    <3>2. /\ x \o SubSeq(c, 1, now) \in Text /\ Len(x \o SubSeq(c, 1, now)) = Len(x) + now
          /\ wanted \o c \in Text /\ Len(wanted \o c) = Len(wanted) + Len(c)
          /\ Begins(x \o SubSeq(c, 1, now), wanted \o c)
      BY <3>1, AppendPart
    <3>. QED
      BY <3>2 DEF x
  <2>. QED
    BY <1>3, <2>1
<1>r. mem.form # "dynamic" =>
        /\ Len(mem.text) + now = Small(mem.capacity, Len(wanted'))
        /\ mem.form = "tracked" =>
             mem.tracked_size + (Len(c) - now) = Great(mem.capacity, Len(wanted'))
  <2>1. now = Small(mem.capacity - Len(mem.text), Len(c))
    BY DEF avail
  <2> HIDE DEF now
  <2>2. now \in Nat
    BY <1>2, <1>4
  <2>3. mem.form # "dynamic" => Len(mem.text) = Small(mem.capacity, Len(wanted))
    BY <1>1 DEF Held
  <2>4. mem.form = "tracked" => mem.tracked_size = Great(mem.capacity, Len(wanted))
    BY <1>1 DEF Held
  <2>5. mem.form # "dynamic" =>
          /\ Len(mem.text) + now = Small(mem.capacity, Len(wanted) + Len(c))
          /\ Great(mem.capacity, Len(wanted)) + (Len(c) - now) = Great(mem.capacity, Len(wanted) + Len(c))
    <3> SUFFICES ASSUME mem.form # "dynamic"
                 PROVE  /\ Len(mem.text) + now = Small(mem.capacity, Len(wanted) + Len(c))
                        /\ Great(mem.capacity, Len(wanted)) + (Len(c) - now) = Great(mem.capacity, Len(wanted) + Len(c))
      OBVIOUS
    <3> DEFINE L == Len(mem.text)
               W == Len(wanted)
               C == mem.capacity
               l == Len(c)
    <3>1. L \in Nat /\ W \in Nat /\ C \in Nat /\ now \in Nat /\ l \in Nat /\ L = Small(C, W) /\ now = Small(C - L, l)
      BY <1>2, <2>1, <2>2, <2>3
    <3> HIDE DEF L, W, C, l
    <3>2. L + now = Small(C, W + l) /\ Great(C, W) + (l - now) = Great(C, W + l)
      BY <3>1 DEF Small, Great
    <3>. QED
      BY <3>2 DEF L, W, C, l
  <2>. QED
    BY <1>6, <2>4, <2>5
<1> HIDE DEF now
<1> HIDE DEF t
<1>7. /\ part \in Buffer /\ part.text = t /\ part.form = mem.form /\ part.gone = mem.gone
      /\ part.failed = mem.failed /\ part.data = mem.data /\ part.capacity = mem.capacity
      /\ part.tracked_size = mem.tracked_size
  BY <1>1, <1>6 DEF Buffer, t
<1> HIDE DEF part
<1>8. /\ grown \in Buffer /\ grown.text = t /\ grown.form = mem.form /\ grown.gone = mem.gone
      /\ mem.form = "dynamic" =>
           \/ grown.data = mem.data /\ grown.capacity = mem.capacity /\ (grown.failed \/ now = Len(c))
           \/ /\ grown.data = steps + 1 /\ FromHeap(grown.capacity) /\ grown.capacity <= MaxSize
              /\ Len(t) + (Len(c) - now) <= grown.capacity
      /\ mem.form # "dynamic" =>
           /\ grown.capacity = mem.capacity /\ grown.failed = mem.failed
           /\ mem.form = "tracked" => grown.tracked_size = mem.tracked_size + (Len(c) - now)
  <2>1. CASE now = Len(c)
    <3>1. grown = part /\ Len(c) - now = 0
      BY <1>2, <2>1
    <3>. QED
      BY <1>2, <1>7, <2>1, <3>1
  <2>2. CASE now # Len(c)
    <3>1. Len(c) - now \in Nat /\ grown = Grow(part, Len(c) - now)
      BY <1>2, <1>4, <2>2
    <3> DEFINE extra == Len(c) - now
    <3> HIDE DEF extra, grown
    <3>2. extra \in Nat /\ grown = Grow(part, extra)
      BY <3>1 DEF extra
    <3>3. /\ grown \in Buffer /\ grown.form = part.form /\ grown.text = part.text /\ grown.gone = part.gone
          /\ part.form = "dynamic" =>
               \/ grown.failed /\ grown.data = part.data /\ grown.capacity = part.capacity
               \/ /\ grown.data = steps + 1 /\ FromHeap(grown.capacity) /\ grown.capacity <= MaxSize
                  /\ Len(part.text) + extra <= grown.capacity
          /\ part.form # "dynamic" =>
               /\ grown.failed = part.failed /\ grown.capacity = part.capacity
               /\ part.form = "tracked" => grown.tracked_size = part.tracked_size + extra
      BY <1>1, <1>7, <3>2, GrowFacts
    <3>. QED
      BY <1>7, <3>3 DEF extra
  <2>. QED
    BY <2>1, <2>2
<1> HIDE DEF grown
<1>9. Owned(grown, heap', steps')
  <2>1. Owned(part, heap, steps)
    BY <1>1, <1>7 DEF Owned, Block
  <2>2. Owned(grown, HeapGrown(part, grown), steps + 1)
    BY <1>1, <1>7, <1>8, <2>1, GrownOwned
  <2>. QED
    BY <1>3, <2>2
<1>n. grown.capacity \in Nat /\ Len(t) \in Nat /\ now \in Nat /\ now <= Len(c)
      /\ (fits <=> Len(t) + (Len(c) - now) <= grown.capacity)
  <2>1. grown.capacity \in Nat /\ Len(t) \in Nat /\ now \in Nat /\ now <= Len(c)
    BY <1>2, <1>4, <1>6, <1>8 DEF Buffer
  <2>. QED
    BY <1>2, <1>8, <2>1
<1>m. mem.form # "dynamic" => Len(t) <= mem.capacity
  BY <1>2, <1>4, <1>6
<1> HIDE DEF fits
<1>10. CASE fits
  <2> DEFINE rest == SubSeq(c, now + 1, Len(c))
             u == t \o rest
  <2>1. Len(t) + (Len(c) - now) <= grown.capacity
    BY <1>10, <1>n
  <2>2. mem.form # "dynamic" => now = Len(c)
    <3> SUFFICES ASSUME mem.form # "dynamic", now # Len(c) PROVE FALSE
      OBVIOUS
    <3>1. now = avail /\ Len(t) = mem.capacity /\ grown.capacity = mem.capacity
      BY <1>2, <1>4, <1>6, <1>8
    <3>. QED
      BY <1>2, <1>n, <2>1, <3>1
  <2>3. /\ u \in Text /\ Len(u) = Len(t) + (Len(c) - now)
        /\ Begins(u, wanted')
    <3>1. CASE now = Len(c)
      <4>1. u = t
        BY <1>2, <1>6, <3>1 DEF Text
      <4>2. Len(t) = Len(t) + (Len(c) - now)
        BY <1>2, <1>n, <3>1
      <4> HIDE DEF u
      <4>. QED
        BY <1>6, <4>1, <4>2
    <3>2. CASE now # Len(c)
      <4>1. Len(mem.text) = Len(wanted)
        BY <1>1, <2>2, <3>2 DEF Held
      <4>2. mem.text = wanted
        BY <1>1, <1>2, <4>1, BeginsIs
      <4>3. u = wanted \o c
        <5> DEFINE b == SubSeq(c, 1, now)
        <5>1. b \in Text /\ rest \in Text /\ b \o rest = c
          BY <1>4, Split
        <5> HIDE DEF b, rest
        <5>2. (wanted \o b) \o rest = wanted \o (b \o rest)
          <6>1. wanted \in Text /\ b \in Text /\ rest \in Text
            BY <1>1, <5>1
          <6>. QED
            BY <6>1, ConcatAssoc
        <5>3. t = wanted \o b
          BY <4>2 DEF t, b
        <5>. QED
          BY <5>1, <5>2, <5>3
      <4>4. Len(t) + (Len(c) - now) = Len(wanted) + Len(c)
        BY <1>2, <1>6, <1>n, <4>1
      <4> HIDE DEF u
      <4>5. u = wanted' /\ Len(u) = Len(t) + (Len(c) - now) /\ Len(u) \in Nat
        BY <1>2, <1>3, <1>6, <4>3, <4>4
      <4>. QED
        BY <1>6, <4>5 DEF Begins
    <3>. QED
      BY <3>1, <3>2
  <2>4. mem' = [grown EXCEPT !.text = u]
    BY <1>3, <1>8, <1>10
  <2> HIDE DEF u
  <2>5. /\ mem' \in Buffer /\ mem'.text = u /\ mem'.form = grown.form /\ mem'.gone = grown.gone
        /\ mem'.failed = grown.failed /\ mem'.data = grown.data /\ mem'.capacity = grown.capacity
        /\ mem'.tracked_size = grown.tracked_size
    BY <1>8, <2>3, <2>4 DEF Buffer
  <2>6. Held(mem', wanted')
    <3>1. Begins(mem'.text, wanted') /\ Len(mem'.text) <= mem'.capacity
      BY <2>1, <2>3, <2>5
    <3>2. CASE mem.form = "dynamic"
      <4>1. Len(mem.text) = Len(wanted)
        BY <1>1, <3>2 DEF Held
      <4>2. Len(u) = Len(wanted')
        BY <1>2, <1>6, <1>n, <2>3, <4>1
      <4>. QED
        BY <1>8, <2>5, <3>1, <3>2, <4>2 DEF Held
    <3>3. CASE mem.form # "dynamic"
      <4>1. Len(u) = Len(mem.text) + now
        <5>1. now = Len(c) /\ Len(c) - now = 0
          BY <1>2, <2>2, <3>3
        <5>. QED
          BY <1>6, <1>n, <2>3, <5>1
      <4>. QED
        BY <1>8, <1>r, <2>5, <3>1, <3>3, <4>1 DEF Held
    <3>. QED
      BY <3>2, <3>3
  <2>7. Owned(mem', heap', steps')
    BY <1>9, <2>5 DEF Owned, Block
  <2>. QED
    BY <1>1, <1>6, <2>5, <2>6, <2>7 DEF MemInv, MemType
<1>11. CASE ~fits
  <2>1. mem' = grown /\ ~ (Len(t) + (Len(c) - now) <= grown.capacity)
    BY <1>3, <1>11, <1>n
  <2>2. mem.form = "dynamic" => grown.failed /\ Len(t) <= grown.capacity
    <3> SUFFICES ASSUME mem.form = "dynamic" PROVE grown.failed /\ Len(t) <= grown.capacity
      OBVIOUS
    <3>1. grown.capacity = mem.capacity /\ (grown.failed \/ now = Len(c))
      BY <1>8, <2>1
    <3>2. Len(t) <= mem.capacity
      BY <1>2, <1>4, <1>6
    <3>3. now # Len(c)
      BY <1>2, <1>n, <2>1, <3>1, <3>2
    <3>. QED
      BY <3>1, <3>2, <3>3
  <2>3. Held(mem', wanted')
    <3>1. CASE mem.form = "dynamic"
      BY <1>6, <1>8, <2>1, <2>2, <3>1 DEF Held
    <3>2. CASE mem.form # "dynamic"
      BY <1>6, <1>8, <1>m, <1>r, <2>1, <3>2 DEF Held
    <3>. QED
      BY <3>1, <3>2
  <2>. QED
    BY <1>1, <1>6, <1>8, <1>9, <2>1, <2>3 DEF MemInv, MemType
<1>. QED
  BY <1>10, <1>11

(* reserve may only change where the text is, and how much room it has.    *)
LEMMA ReserveInv ==
  ASSUME BufferAssumption, MemInv, Reserve
  PROVE  MemInv'
<1>1. /\ mem \in Buffer /\ wanted \in Text /\ steps \in Nat
      /\ Held(mem, wanted) /\ Owned(mem, heap, steps)
  BY DEF MemInv, MemType
<1>2. PICK extra \in Appended :
        /\ mem' = IF extra > avail THEN Grow(mem, extra) ELSE mem
        /\ heap' = HeapGrown(mem, mem')
  BY DEF Reserve
<1>3. /\ extra \in Nat /\ mem.form = "dynamic" /\ ~mem.gone /\ ~mem.failed
      /\ steps' = steps + 1 /\ wanted' = wanted
  BY DEF Reserve, Alive, BufferAssumption
<1>4. Len(mem.text) \in Nat /\ mem.capacity \in Nat /\ Len(mem.text) <= mem.capacity
  BY <1>1 DEF Buffer, Text, Held
<1>5. /\ mem' \in Buffer /\ mem'.form = mem.form /\ mem'.text = mem.text /\ mem'.gone = mem.gone
      /\ \/ mem'.data = mem.data /\ mem'.capacity = mem.capacity
         \/ /\ mem'.data = steps + 1 /\ FromHeap(mem'.capacity) /\ mem'.capacity <= MaxSize
            /\ Len(mem.text) + extra <= mem'.capacity
  <2>1. CASE extra > avail
    BY <1>1, <1>2, <1>3, <2>1, GrowFacts
  <2>2. CASE ~(extra > avail)
    BY <1>1, <1>2, <2>2
  <2>. QED
    BY <2>1, <2>2
<1>6. Held(mem', wanted')
  <2>1. Len(mem'.text) <= mem'.capacity
    BY <1>1, <1>3, <1>4, <1>5 DEF Buffer
  <2>. QED
    BY <1>1, <1>3, <1>5, <2>1 DEF Held
<1>7. Owned(mem', heap', steps')
  <2> DEFINE g == mem'
  <2>1. /\ g \in Buffer /\ g.form = mem.form /\ g.gone = mem.gone /\ heap' = HeapGrown(mem, g)
        /\ \/ g.data = mem.data /\ g.capacity = mem.capacity
           \/ g.data = steps + 1 /\ FromHeap(g.capacity) /\ g.capacity <= MaxSize
    BY <1>2, <1>5
  <2> HIDE DEF g
  <2>2. Owned(g, HeapGrown(mem, g), steps + 1)
    BY <1>1, <1>3, <2>1, GrownOwned
  <2>3. Owned(g, heap', steps')
    BY <1>3, <2>1, <2>2
  <2>. QED
    BY <2>3 DEF g
<1>. QED
  BY <1>1, <1>3, <1>5, <1>6, <1>7 DEF MemInv, MemType

(* clear                                                                   *)
LEMMA ClearInv ==
  ASSUME MemInv, Clear
  PROVE  MemInv'
<1>1. /\ mem \in Buffer /\ steps \in Nat /\ Owned(mem, heap, steps)
  BY DEF MemInv, MemType
<1>2. /\ mem' = [mem EXCEPT !.text = <<>>] /\ wanted' = <<>> /\ heap' = heap /\ steps' = steps + 1
      /\ mem.form = "dynamic"
  BY DEF Clear, Alive
<1>3. <<>> \in Text /\ Len(<<>>) = 0
  BY DEF Text
<1>4. /\ mem' \in Buffer /\ mem'.text = <<>> /\ mem'.form = mem.form /\ mem'.gone = mem.gone
      /\ mem'.data = mem.data /\ mem'.capacity = mem.capacity /\ mem.capacity \in Nat /\ mem.data \in Nat
  BY <1>1, <1>2, <1>3 DEF Buffer
<1>5. Held(mem', wanted')
  BY <1>2, <1>3, <1>4 DEF Held, Begins
<1>6. Owned(mem', heap', steps')
  BY <1>1, <1>2, <1>4 DEF Owned, Block
<1>. QED
  BY <1>1, <1>2, <1>3, <1>4, <1>5, <1>6 DEF MemInv, MemType

(* pop_back: what is taken away is the end of what should be there.        *)
LEMMA PopBackInv ==
  ASSUME MemInv, PopBack
  PROVE  MemInv'
<1>1. /\ mem \in Buffer /\ wanted \in Text /\ steps \in Nat
      /\ Held(mem, wanted) /\ Owned(mem, heap, steps)
  BY DEF MemInv, MemType
<1>2. /\ mem' = [mem EXCEPT !.text = Front(@)] /\ wanted' = Front(wanted) /\ heap' = heap
      /\ steps' = steps + 1 /\ mem.form = "dynamic" /\ ~mem.failed /\ mem.text # <<>>
  BY DEF PopBack, Alive
<1>3. mem.text \in Text /\ mem.capacity \in Nat /\ mem.data \in Nat /\ Len(mem.text) <= mem.capacity
  BY <1>1 DEF Buffer, Held
<1>4. mem.text = wanted
  BY <1>1, <1>2, <1>3, BeginsIs DEF Held
<1>5. /\ Front(wanted) \in Text /\ Len(Front(wanted)) \in Nat /\ Len(Front(wanted)) <= Len(wanted)
  BY <1>1, <1>2, <1>4 DEF Front, Text
<1> DEFINE u == Front(wanted)
<1>6. mem' = [mem EXCEPT !.text = u] /\ wanted' = u
  BY <1>2, <1>4
<1> HIDE DEF u
<1>7. u \in Text /\ Len(u) \in Nat /\ Len(u) <= mem.capacity
  <2>1. u \in Text /\ Len(u) \in Nat /\ Len(u) <= Len(wanted) /\ Len(wanted) <= mem.capacity
    BY <1>3, <1>4, <1>5 DEF u
  <2>2. Len(wanted) \in Nat
    BY <1>1 DEF Text
  <2>. QED
    BY <1>3, <2>1, <2>2
<1>8. /\ mem' \in Buffer /\ mem'.text = u /\ mem'.form = mem.form /\ mem'.gone = mem.gone
      /\ mem'.data = mem.data /\ mem'.capacity = mem.capacity
  BY <1>1, <1>6, <1>7 DEF Buffer
<1>9. Held(mem', wanted')
  BY <1>2, <1>6, <1>7, <1>8 DEF Held, Begins
<1>10. Owned(mem', heap', steps')
  BY <1>1, <1>2, <1>3, <1>8 DEF Owned, Block
<1>. QED
  BY <1>1, <1>2, <1>6, <1>7, <1>8, <1>9, <1>10 DEF MemInv, MemType

(* The destructor gives back the one block there is.                       *)
LEMMA DestroyInv ==
  ASSUME MemInv, Destroy
  PROVE  MemInv'
<1>1. /\ mem \in Buffer /\ wanted \in Text /\ steps \in Nat
      /\ Held(mem, wanted) /\ Owned(mem, heap, steps)
  BY DEF MemInv, MemType
<1>2. /\ mem' = [mem EXCEPT !.gone = TRUE] /\ heap' = Deallocated(heap, mem.data, mem.capacity)
      /\ wanted' = wanted /\ steps' = steps /\ ~mem.gone
  BY DEF Destroy
<1>3. /\ mem' \in Buffer /\ mem'.text = mem.text /\ mem'.form = mem.form /\ mem'.gone
      /\ mem'.data = mem.data /\ mem'.capacity = mem.capacity /\ mem'.failed = mem.failed
      /\ mem'.tracked_size = mem.tracked_size
  BY <1>1, <1>2 DEF Buffer
<1>4. Held(mem', wanted')
  BY <1>1, <1>2, <1>3 DEF Held
<1>5. Owned(mem', heap', steps')
  <2> SUFFICES ASSUME mem.form = "dynamic" PROVE Owned(mem', heap', steps')
    BY <1>3 DEF Owned
  <2>1. heap' = {}
    BY <1>1, <1>2, Given
  <2>. QED
    BY <1>1, <1>2, <1>3, <2>1 DEF Owned, Block
<1>. QED
  BY <1>1, <1>2, <1>3, <1>4, <1>5 DEF MemInv, MemType

(* Every step keeps the invariant.                                         *)
LEMMA MemStepInv ==
  ASSUME BufferAssumption, MemInv, [MemNext]_memVars
  PROVE  MemInv'
<1>1. CASE AppendText
  <2>1. PICK n \in Appended : AppendChars([i \in 1..n |-> Len(wanted) + i])
    BY <1>1 DEF AppendText
  <2> DEFINE c == [i \in 1..n |-> Len(wanted) + i]
  <2>2. c \in Text
    <3>1. n \in Nat /\ Len(wanted) \in Nat
      BY DEF BufferAssumption, MemInv, MemType, Text
    <3>. QED
      BY <3>1 DEF Text
  <2> HIDE DEF c
  <2>3. ~mem.gone /\ ~mem.failed /\ steps' = steps + 1 /\ AppendChars(c)
    BY <1>1, <2>1 DEF AppendText, Alive, c
  <2>. QED
    BY <2>2, <2>3, AppendInv
<1>2. CASE Reserve
  BY <1>2, ReserveInv
<1>3. CASE Clear
  BY <1>3, ClearInv
<1>4. CASE PopBack
  BY <1>4, PopBackInv
<1>5. CASE Destroy
  BY <1>5, DestroyInv
<1>6. CASE UNCHANGED memVars
  BY <1>6 DEF memVars, MemInv, MemType
<1>. QED
  BY <1>1, <1>2, <1>3, <1>4, <1>5, <1>6 DEF MemNext

(* What the invariant says of a buffer is what its users rely on.          *)
LEMMA MemInvExact ==
  ASSUME BufferAssumption, MemInv
  PROVE  BufferExact
<1>1. /\ mem \in Buffer /\ wanted \in Text /\ Held(mem, wanted) /\ Owned(mem, heap, steps)
  BY DEF MemInv, MemType
<1>2. /\ mem.text \in Text /\ mem.capacity \in Nat /\ Len(mem.text) \in Nat /\ Len(wanted) \in Nat
      /\ Begins(mem.text, wanted) /\ Len(mem.text) <= mem.capacity /\ mem.form \in {"dynamic", "tracked", "fixed"}
  BY <1>1 DEF Buffer, Text, Held
<1>3. /\ mem.text = SubSeq(wanted, 1, Len(mem.text)) /\ IsPrefix(mem.text, wanted)
      /\ Len(mem.text) = Len(wanted) => mem.text = wanted
  BY <1>1, <1>2, BeginsIs
<1>4. ~mem.failed /\ mem.form = "dynamic" => mem.text = wanted
  BY <1>1, <1>3 DEF Held
<1>5. mem.form # "dynamic" => mem.text = SubSeq(wanted, 1, Small(mem.capacity, Len(wanted)))
  BY <1>1, <1>3 DEF Held
<1>6. ASSUME ~mem.failed, NEW n \in 0 .. MaxSize,
             mem.form = "dynamic" \/ (mem.form = "tracked" /\ mem.capacity = n)
      PROVE  vformat_to_n(n) = [out |-> SubSeq(wanted, 1, Small(n, Len(wanted))), size |-> Len(wanted)]
  <2>1. n \in Nat
    BY DEF BufferAssumption
  <2>2. CASE mem.form = "dynamic"
    <3>1. mem.text = wanted /\ Small(Len(wanted), n) = Small(n, Len(wanted))
      BY <1>2, <1>4, <1>6, <2>1, <2>2 DEF Small
    <3>. QED
      BY <2>2, <3>1 DEF vformat_to_n
  <2>3. CASE mem.form = "tracked" /\ mem.capacity = n
    <3>1. mem.text = SubSeq(wanted, 1, Small(n, Len(wanted)))
      BY <1>5, <2>3
    <3>2. tracked_size = Len(wanted)
      BY <1>1, <1>2, <2>3 DEF Held, tracked_size, avail, Small, Great
    <3>. QED
      BY <2>3, <3>1, <3>2 DEF vformat_to_n
  <2>. QED
    BY <1>6, <2>2, <2>3
<1>7. mem.form = "dynamic" =>
          /\ mem.data # 0 => mem.capacity <= MaxSize
          /\ heap = IF mem.gone \/ mem.data = 0 THEN {} ELSE {[block |-> mem.data, capacity |-> mem.capacity]}
  BY <1>1 DEF Owned, Block
<1>. QED
  BY <1>2, <1>3, <1>4, <1>5, <1>6, <1>7 DEF BufferExact

(* The buffers of membuffer.h hold what was put into them, or as much as   *)
(* they have room for; one that counts tells the length of all of it; and  *)
(* one that grows gives back every block it got, once and with the size it *)
(* was got with: for buffers of every size, for every series of calls.     *)
THEOREM BufferExactHolds == MemSpec => []BufferExact
<1>1. MemInit => MemInv
  BY BufferAssumption, MemInitInv
<1>2. MemInv /\ [MemNext]_memVars => MemInv'
  BY BufferAssumption, MemStepInv
<1>3. MemInv => BufferExact
  BY BufferAssumption, MemInvExact
<1>. QED
  BY <1>1, <1>2, <1>3, PTL DEF MemSpec
=============================================================================
