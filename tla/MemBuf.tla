-------------------------------- MODULE MemBuf --------------------------------
(***************************************************************************)
(* The buffers that texts are made in (include/uxs/membuffer.h): of fixed  *)
(* size, of fixed size and counting what does not fit, or growing.         *)
(* Whether a growing buffer has its memory from the heap is told by its    *)
(* capacity: it is odd then, and even inside of the object.                *)
(***************************************************************************)
EXTENDS Integers, SequencesExt

CONSTANTS
    Forms,     \* what buffers there are: [form, capacity]
    Appended,  \* how much is appended at a time
    MaxSize,   \* what the allocator can give at most
    StepCount  \* bound: how many calls there are

VARIABLES
    mem,    \* form, data (the block, 0 inside of the object), text, capacity, tracked_size; whether it
            \* has thrown, and is gone
    heap,   \* the blocks there are: [block, capacity]
    wanted, \* what the calls so far should have left in the buffer
    steps   \* how many calls there have been

memVars == <<mem, heap, wanted, steps>>

Small(n, m) == IF n < m THEN n ELSE m
Great(n, m) == IF n < m THEN m ELSE n
FromHeap(capacity) == capacity % 2 = 1

(* A buffer inside of an object has an even number of elements, whatever   *)
(* number was asked for.                                                   *)
ASSUME BufferAssumption ==
    /\ Forms \subseteq [form : {"dynamic", "tracked", "fixed"}, capacity : Nat]
    /\ \A f \in Forms : f.form = "dynamic" => ~FromHeap(f.capacity)
    /\ Appended \subseteq Nat
    /\ MaxSize \in Nat

New(f) == [form |-> f.form, data |-> 0, text |-> <<>>, capacity |-> f.capacity, tracked_size |-> f.capacity,
           failed |-> FALSE, gone |-> FALSE]
MemInit == (\E f \in Forms : mem = New(f)) /\ heap = {} /\ wanted = <<>> /\ steps = 0

avail == mem.capacity - Len(mem.text)

(* The blocks without the one that is given back, which is told apart by   *)
(* its capacity; what is not from the heap must not be given back.         *)
Deallocated(blocks, data, capacity) ==
    IF FromHeap(capacity) THEN blocks \ {[block |-> data, capacity |-> capacity]} ELSE blocks

(* Mutant: the capacity is what was asked for.                             *)
GrownTo_AsAsked(size, extra) ==
    LET delta == Great(extra + 1, size \div 2)
        max_avail == MaxSize - size
        delta_sz == IF delta > max_avail THEN Great(extra + 1, max_avail \div 2) ELSE delta
    IN  size + delta_sz

(* try_grow of a growing buffer: half as much again, or what is needed,    *)
(* and one less if that is even.                                           *)
GrownTo(size, extra) ==
    LET delta == Great(extra + 1, size \div 2)
        max_avail == MaxSize - size
        delta_sz == IF delta > max_avail THEN Great(extra + 1, max_avail \div 2) ELSE delta
        last == size + delta_sz - 1
    IN  last - (last % 2) + 1
TooMuch(size, extra) == extra + 1 > MaxSize - size

NewBlock == steps + 1

Grow(m, extra) ==
    LET capacity == GrownTo(Len(m.text), extra)
    IN  CASE m.form = "tracked" -> [m EXCEPT !.tracked_size = @ + extra]
          [] m.form = "dynamic" /\ TooMuch(Len(m.text), extra) -> [m EXCEPT !.failed = TRUE]
          [] m.form = "dynamic" /\ ~TooMuch(Len(m.text), extra) -> [m EXCEPT !.data = NewBlock, !.capacity = capacity]
          [] OTHER -> m
HeapGrown(m, n) ==
    IF n.data = m.data THEN heap
    ELSE Deallocated(heap, m.data, m.capacity) \cup {[block |-> n.data, capacity |-> n.capacity]}

(* append, emplace_back: what there is room for is put down before the     *)
(* buffer grows, the rest then if it has.                                  *)
AppendChars(chars) ==
    LET now == Small(avail, Len(chars))
        part == [mem EXCEPT !.text = @ \o SubSeq(chars, 1, now)]
        grown == IF now = Len(chars) THEN part ELSE Grow(part, Len(chars) - now)
    IN  /\ mem' = IF grown.capacity - Len(grown.text) >= Len(chars) - now
                  THEN [grown EXCEPT !.text = @ \o SubSeq(chars, now + 1, Len(chars))] ELSE grown
        /\ heap' = HeapGrown(part, grown)
        /\ wanted' = wanted \o chars

Alive == ~mem.gone /\ ~mem.failed /\ steps < StepCount /\ steps' = steps + 1

AppendText == Alive /\ \E n \in Appended : AppendChars([i \in 1..n |-> Len(wanted) + i])

(* reserve, clear, pop_back; they are for growing buffers only, as what    *)
(* another buffer has not had room for cannot be known any more.           *)
Reserve ==
    LET Reserved(extra) == IF extra > avail THEN Grow(mem, extra) ELSE mem
    IN  /\ Alive /\ mem.form = "dynamic"
        /\ \E extra \in Appended : mem' = Reserved(extra) /\ heap' = HeapGrown(mem, Reserved(extra))
        /\ UNCHANGED wanted
Clear == Alive /\ mem.form = "dynamic" /\ mem' = [mem EXCEPT !.text = <<>>] /\ wanted' = <<>> /\ UNCHANGED heap
PopBack ==
    /\ Alive /\ mem.form = "dynamic" /\ mem.text # <<>>
    /\ mem' = [mem EXCEPT !.text = Front(@)] /\ wanted' = Front(wanted) /\ UNCHANGED heap

(* The destructor, and that of a buffer that has thrown.                   *)
Destroy ==
    /\ ~mem.gone
    /\ mem' = [mem EXCEPT !.gone = TRUE] /\ heap' = Deallocated(heap, mem.data, mem.capacity)
    /\ UNCHANGED <<wanted, steps>>

MemNext == AppendText \/ Reserve \/ Clear \/ PopBack \/ Destroy

MemSpec == MemInit /\ [][MemNext]_memVars

tracked_size == IF avail > 0 THEN Len(mem.text) ELSE mem.tracked_size

(* What format_to_n gives back for a text of which at most n characters    *)
(* are wanted: a growing buffer has all of it and is copied from, one that *)
(* counts has been of that size from the start.                            *)
vformat_to_n(n) ==
    IF mem.form = "dynamic" THEN [out |-> SubSeq(mem.text, 1, Small(Len(mem.text), n)), size |-> Len(mem.text)]
    ELSE [out |-> mem.text, size |-> tracked_size]

(* basic_membuffer, basic_dynbuffer, basic_membuffer_with_size_tracker:    *)
(* the buffer holds what has been put into it, or as much of that as it    *)
(* has room for; format_to_n gives the same text and the length that all   *)
(* of it has whichever of the two it is made in; and                       *)
(* the memory of a growing one is the block that it will give back with    *)
(* the size it was given, none if it is inside, and is given back once.    *)
BufferExact ==
    /\ ~mem.failed /\ mem.form = "dynamic" => mem.text = wanted
    /\ mem.form # "dynamic" => mem.text = SubSeq(wanted, 1, Small(mem.capacity, Len(wanted)))
    /\ ~mem.failed => \A n \in 0..MaxSize :
          mem.form = "dynamic" \/ (mem.form = "tracked" /\ mem.capacity = n) =>
              vformat_to_n(n) = [out |-> SubSeq(wanted, 1, Small(n, Len(wanted))), size |-> Len(wanted)]
    /\ IsPrefix(mem.text, wanted) /\ Len(mem.text) <= mem.capacity
    /\ mem.form = "dynamic" =>
          /\ mem.data # 0 => mem.capacity <= MaxSize
          /\ heap = IF mem.gone \/ mem.data = 0 THEN {} ELSE {[block |-> mem.data, capacity |-> mem.capacity]}
===============================================================================
