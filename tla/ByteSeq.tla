------------------------------ MODULE ByteSeq ------------------------------
(***************************************************************************)
(* uxs::basic_byteseq (include/uxs/byteseq.h, impl/byteseq_impl.h), a ring *)
(* of chunks with head_ the last one, and uxs::basic_byteseqdev            *)
(* (impl/io/byteseqdev_impl.h), the device that reads and writes it in     *)
(* place with map() and advance().                                         *)
(*                                                                         *)
(* The ring is the sequence of its chunks from head_->next to head_; an    *)
(* empty sequence is head_ = nullptr.  A chunk is its capacity and its     *)
(* bytes from data to end.  A byteseqdev holds a pointer into the ring, so *)
(* the sequence is changed only through it while it exists.                *)
(***************************************************************************)
EXTENDS Integers, Sequences, SequencesExt, FiniteSetsExt

CONSTANTS
  Byte,       \* values of a byte
  ChunkSize,  \* capacity of a chunk (chunk_size)
  MaxSize     \* bound on the size of the sequence

ASSUME ByteSeqAssumption ==
  /\ 0 \in Byte
  /\ ChunkSize \in Nat \ {0}
  /\ MaxSize \in Nat

VARIABLES
  chunks,   \* the ring, head_ last
  size,     \* size_
  access,   \* the device: "none", "ro" (rdonly) or "rw"
  chunk,    \* chunk_ of the device as a position in the ring, 0: nullptr
  pos0,     \* pos0_: where that chunk starts
  pos,      \* pos_
  todo,     \* what a running write() has not stored yet
  need,     \* how much a running read() still wants
  seen,     \* what the last turn of read() copied
  crashed   \* a null head_ was dereferenced

ring == <<chunks, size>>
device == <<access, chunk, pos0, pos>>
vars == <<ring, device, todo, need, seen, crashed>>

Chunk == [cap : 1 .. MaxSize + ChunkSize, data : Seq(Byte)]

HeadAt == Len(chunks)
ChunkLen(i) == Len(chunks[i].data)
Flat(ch) == FoldLeft(LAMBDA acc, c : acc \o c.data, <<>>, ch)
Zeros(n) == [i \in 1 .. n |-> 0]

TypeOK ==
  /\ chunks \in Seq(Chunk)
  /\ size \in 0 .. MaxSize
  /\ access \in {"none", "ro", "rw"}
  /\ chunk \in 0 .. HeadAt
  /\ pos0 \in Nat
  /\ pos \in Nat
  /\ todo \in Seq(Byte)
  /\ need \in Nat
  /\ seen \in Seq(Byte)
  /\ crashed \in BOOLEAN

Init ==
  /\ chunks = <<>>
  /\ size = 0
  /\ access = "none"
  /\ chunk = 0
  /\ pos0 = 0
  /\ pos = 0
  /\ todo = <<>>
  /\ need = 0
  /\ seen = <<>>
  /\ crashed = FALSE

-----------------------------------------------------------------------------
NewChunk(cap) == [cap |-> cap, data |-> <<>>]

(* create_next_chunk: the head is filled to its boundary, a new one        *)
(* follows it.                                                             *)
WithNextChunk(ch, fill) ==
  LET h == ch[Len(ch)]
  IN Append([ch EXCEPT ![Len(ch)].data = h.data \o SubSeq(fill, 1, h.cap - Len(h.data))],
            NewChunk(ChunkSize))

(* resize(sz), growing: zeros fill the head, then new chunks.              *)
Grown(ch, sz) ==
  LET first == IF ch = <<>> THEN <<NewChunk(ChunkSize)>> ELSE ch
      free == first[Len(first)].cap - Len(first[Len(first)].data)
      extra == sz - Len(Flat(ch))
      more == Min({k \in 0 .. extra : extra <= free + k * ChunkSize})
      full == [i \in 1 .. more |-> i]
      grown == FoldLeft(LAMBDA acc, i : WithNextChunk(acc, Zeros(MaxSize + ChunkSize)), first, full)
      last == Len(grown)
      rest == sz - Len(Flat(grown))
  IN [grown EXCEPT ![last].data = @ \o Zeros(rest)]

(* resize(sz), shrinking: chunks go from the back while they lie behind    *)
(* sz; the first that does not is cut and is the head, perhaps empty.      *)
Shrunk(ch, sz) ==
  LET before(i) == Len(Flat(SubSeq(ch, 1, i - 1)))
      last == CHOOSE i \in DOMAIN ch :
                /\ \A j \in i + 1 .. Len(ch) : sz < before(j)
                /\ sz >= before(i)
  IN [SubSeq(ch, 1, last) EXCEPT ![last].data = SubSeq(@, 1, sz - before(last))]

Resize(sz) ==
  IF sz > size
  THEN chunks' = Grown(chunks, sz) /\ size' = sz /\ UNCHANGED crashed
  ELSE IF chunks = <<>>
  THEN crashed' = TRUE /\ UNCHANGED ring
  ELSE chunks' = Shrunk(chunks, sz) /\ size' = sz /\ UNCHANGED crashed

(* clear(): the last chunk stays.                                          *)
Cleared ==
  IF chunks = <<>> THEN UNCHANGED ring
  ELSE chunks' = <<NewChunk(Last(chunks).cap)>> /\ size' = 0

-----------------------------------------------------------------------------
(* The sequence without a device.                                          *)
Idle == todo = <<>> /\ need = 0 /\ ~crashed
Alone == access = "none" /\ Idle

ResizeSeq(sz) ==
  /\ Alone
  /\ Resize(sz)
  /\ UNCHANGED <<device, todo, need, seen>>

ClearSeq ==
  /\ Alone
  /\ Cleared
  /\ UNCHANGED <<device, todo, need, seen, crashed>>

(* assign, from_vector, the copy constructor: clear_and_reserve gives one  *)
(* chunk, the old head if it is large enough, and all bytes go there.  The *)
(* allocator may round a capacity up.                                      *)
Assign(s) ==
  /\ Alone
  /\ IF chunks = <<>> /\ s = <<>> THEN UNCHANGED ring
     ELSE /\ size' = Len(s)
          /\ IF chunks # <<>> /\ Last(chunks).cap >= Len(s)
             THEN chunks' = <<[cap |-> Last(chunks).cap, data |-> s]>>
             ELSE \E cap \in {Len(s), Len(s) + 1} : chunks' = <<[cap |-> cap, data |-> s]>>
  /\ UNCHANGED <<device, todo, need, seen, crashed>>

(* The destructor and the moved-from state.                                *)
Release ==
  /\ Alone
  /\ chunks' = <<>>
  /\ size' = 0
  /\ UNCHANGED <<device, todo, need, seen, crashed>>

-----------------------------------------------------------------------------
(* The device: its constructors take the first chunk.                      *)
Open(how) ==
  /\ Alone
  /\ access' = how
  /\ chunk' = IF chunks = <<>> THEN 0 ELSE 1
  /\ pos0' = 0
  /\ pos' = 0
  /\ UNCHANGED <<ring, todo, need, seen, crashed>>

Close ==
  /\ access # "none"
  /\ Idle
  /\ access' = "none"
  /\ chunk' = 0
  /\ pos0' = 0
  /\ pos' = 0
  /\ seen' = <<>>
  /\ UNCHANGED <<ring, todo, need, crashed>>

ClearDev ==
  /\ access = "rw"
  /\ Idle
  /\ Cleared
  /\ chunk' = Len(chunks')
  /\ pos0' = 0
  /\ pos' = 0
  /\ UNCHANGED <<access, todo, need, seen, crashed>>

(* map(sz, wr): the part of the current chunk from the cursor on.  At the  *)
(* end of the last chunk a writer gets a new one.                          *)
InChunk == pos - pos0

MappedForReading == IF chunk = 0 THEN 0 ELSE ChunkLen(chunk) - InChunk

NeedsChunk == chunk = 0 \/ (chunk = HeadAt /\ InChunk = chunks[chunk].cap)

(* advance(n) after n bytes were stored at or read from the cursor: the    *)
(* end of the head moves along, and at the end of another chunk the device *)
(* goes on to the next.                                                    *)
Advance(ch, c, p0, n) ==
  /\ pos' = pos + n
  /\ size' = IF pos + n > size THEN pos + n ELSE size
  /\ IF pos + n <= size /\ c # Len(ch) /\ pos + n - p0 >= Len(ch[c].data)
     THEN pos0' = p0 + Len(ch[c].data) /\ chunk' = c + 1
     ELSE pos0' = p0 /\ chunk' = c

(* Mutant: the position in the chunk is forgotten.                         *)
Stored_AtStart(ch, c, p, s) ==
  [ch EXCEPT ![c].data = s \o SubSeq(@, Len(s) + 1, Len(@))]

Stored(ch, c, p, s) ==
  [ch EXCEPT ![c].data = SubSeq(@, 1, p) \o s \o SubSeq(@, p + Len(s) + 1, Len(@))]

(* One turn of write(): map, copy what fits, advance.                      *)
Write_Turn(s) ==
  LET ch == CASE ~NeedsChunk -> chunks
              [] chunk = 0 -> <<NewChunk(ChunkSize)>>
              [] OTHER -> Append(chunks, NewChunk(ChunkSize))
      c == IF NeedsChunk THEN Len(ch) ELSE chunk
      p0 == IF NeedsChunk /\ chunk # 0 THEN pos0 + chunks[chunk].cap ELSE pos0
      room == IF c = Len(ch) THEN ch[c].cap - (pos - p0) ELSE Len(ch[c].data) - (pos - p0)
      n == IF Len(s) < room THEN Len(s) ELSE room
  IN /\ n > 0
     /\ chunks' = Stored(ch, c, pos - p0, SubSeq(s, 1, n))
     /\ Advance(ch, c, p0, n)
     /\ todo' = SubSeq(s, n + 1, Len(s))
     /\ UNCHANGED <<access, need, seen, crashed>>

Write(s) ==
  /\ access = "rw"
  /\ Idle
  /\ s # <<>>
  /\ Write_Turn(s)

Write_More == todo # <<>> /\ Write_Turn(todo)

(* One turn of read(); at the end nothing is mapped.                       *)
Read_Turn(want) ==
  LET n == IF want < MappedForReading THEN want ELSE MappedForReading
  IN /\ seen' = IF n = 0 THEN <<>> ELSE SubSeq(chunks[chunk].data, InChunk + 1, InChunk + n)
     /\ IF n = 0 THEN UNCHANGED <<chunk, pos0, pos, size>> ELSE Advance(chunks, chunk, pos0, n)
     /\ need' = IF n = 0 THEN 0 ELSE want - n
     /\ UNCHANGED <<chunks, access, todo, crashed>>

Read(n) ==
  /\ access # "none"
  /\ Idle
  /\ n > 0
  /\ Read_Turn(n)

Read_More == need > 0 /\ Read_Turn(need)

(* seek(off, dir): where to, and which chunk that is.                      *)
Target(off, dir) ==
  CASE dir = "beg" -> IF off > 0 THEN off ELSE 0
    [] dir = "curr" -> IF off > 0 \/ -off < pos THEN pos + off ELSE 0
    [] OTHER -> IF off > 0 \/ -off < size THEN size + off ELSE 0

StartOf(ch, i) == Len(Flat(SubSeq(ch, 1, i - 1)))

(* Mutant: > for >= where seek() looks for the chunk.                      *)
Seek_Forward_StopsEarly(p) ==
  /\ p > pos0
  /\ p < size
  /\ LET reached(i) == /\ i >= chunk
                       /\ \A j \in chunk .. i - 1 : p - StartOf(chunks, j) > ChunkLen(j)
                       /\ i = HeadAt \/ p - StartOf(chunks, i) <= ChunkLen(i)
     IN /\ chunk' = CHOOSE i \in DOMAIN chunks : reached(i)
        /\ pos0' = pos0 + Len(Flat(SubSeq(chunks, chunk, chunk' - 1)))
        /\ pos' = p
        /\ UNCHANGED <<ring, crashed>>

Seek_Forward(p) ==
  /\ p > pos0
  /\ IF p >= size
     THEN IF chunks = <<>> /\ (access = "ro" \/ p = size)
          THEN crashed' = TRUE /\ UNCHANGED <<ring, chunk, pos0, pos>>
          ELSE /\ IF access = "rw" /\ p > size THEN Resize(p) ELSE UNCHANGED <<ring, crashed>>
               /\ pos' = size'
               /\ chunk' = Len(chunks')
               /\ pos0' = pos' - Len(Last(chunks').data)
     ELSE LET reached(i) == /\ i >= chunk
                            /\ \A j \in chunk .. i - 1 : p - StartOf(chunks, j) >= ChunkLen(j)
                            /\ i = HeadAt \/ p - StartOf(chunks, i) < ChunkLen(i)
          IN /\ chunk' = CHOOSE i \in DOMAIN chunks : reached(i)
             /\ pos0' = pos0 + Len(Flat(SubSeq(chunks, chunk, chunk' - 1)))
             /\ pos' = p
             /\ UNCHANGED <<ring, crashed>>

Seek_Back(p) ==
  /\ p <= pos0
  /\ pos' = p
  /\ IF p = pos0 THEN UNCHANGED <<chunk, pos0>>
     ELSE LET back(i) == pos0 - Len(Flat(SubSeq(chunks, i, chunk - 1)))
              reached == Max({i \in 1 .. chunk - 1 : back(i) <= p})
          IN chunk' = reached /\ pos0' = back(reached)
  /\ UNCHANGED <<ring, crashed>>

Seek(off, dir) ==
  /\ access # "none"
  /\ Idle
  /\ Seek_Forward(Target(off, dir)) \/ Seek_Back(Target(off, dir))
  /\ UNCHANGED <<access, todo, need, seen>>

(* truncate(): resize(pos_).                                               *)
Truncate ==
  /\ access = "rw"
  /\ Idle
  /\ Resize(pos)
  /\ UNCHANGED <<device, todo, need, seen>>

-----------------------------------------------------------------------------
Pieces == UNION { [1 .. n -> Byte] : n \in 1 .. ChunkSize + 1 }
Fits(n) == n <= MaxSize

Next ==
  \/ \E sz \in 0 .. MaxSize : ResizeSeq(sz)
  \/ \E s \in Pieces \union {<<>>} : Fits(Len(s)) /\ Assign(s)
  \/ \E s \in Pieces : Fits(pos + Len(s)) /\ Write(s)
  \/ \E n \in 1 .. MaxSize : Read(n)
  \/ \E off \in -MaxSize .. MaxSize, dir \in {"beg", "curr", "end"} :
       Fits(Target(off, dir)) /\ Seek(off, dir)
  \/ \E how \in {"ro", "rw"} : Open(how)
  \/ ClearSeq \/ Release \/ Close \/ ClearDev \/ Truncate
  \/ Write_More \/ Read_More

Spec == Init /\ [][Next]_vars

-----------------------------------------------------------------------------
(* Properties.                                                             *)

(* The device's pointer, chunk start and position agree: the cursor is in  *)
(* the chunk it points to, at the end of it only in the last chunk.  All   *)
(* chunks but the last are full, which is what map() relies on.            *)
CursorInChunk ==
  /\ \A i \in 1 .. HeadAt - 1 : ChunkLen(i) = chunks[i].cap
  /\ \A i \in DOMAIN chunks : ChunkLen(i) <= chunks[i].cap
  /\ access # "none" /\ chunk # 0 =>
       /\ pos0 = StartOf(chunks, chunk)
       /\ pos0 <= pos /\ pos <= pos0 + ChunkLen(chunk)
       /\ chunk # HeadAt => pos < pos0 + ChunkLen(chunk)
  /\ access # "none" /\ chunk = 0 => chunks = <<>> /\ pos = 0

(* size_, which is maintained in five places, is what the chunks hold.     *)
SizeExact == size = Len(Flat(chunks))

(* The only pointer that is dereferenced without being there is the head   *)
(* of a sequence that never had a chunk: resize(0), truncate() at its      *)
(* start, and a forward seek of a read-only device crash on it.            *)
CrashOnlyWithoutChunks == crashed => chunks = <<>> /\ pos = 0

(* The ring, its size and the cursor in it are consistent, and no other    *)
(* state crashes.                                                          *)
Inv == TypeOK /\ CursorInChunk /\ SizeExact /\ CrashOnlyWithoutChunks

(* The ring of chunks is a flat file.                                      *)
File == INSTANCE ByteFile WITH
  bytes <- Flat(chunks), access <- access, cursor <- pos, seen <- seen

IsAFile == File!Spec

=============================================================================
