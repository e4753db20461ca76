------------------------------ MODULE DbValue ------------------------------
(***************************************************************************)
(* db::basic_value: null, a number, or an array kept in a flexarray_t, a   *)
(* block with a reference count that copies of the value share until one   *)
(* of them is written to.  An item of an array is a value again, so a      *)
(* block holds references to other blocks.  One action is one call of a    *)
(* member of basic_value, on a variable or on an item of its array reached *)
(* through the non-const operator[].  The thread-safety of the counter is  *)
(* the subject of CowPtr: here one thread calls.                           *)
(***************************************************************************)
EXTENDS Naturals, FiniteSets, FiniteSetsExt, Sequences, SequencesExt

CONSTANTS Handles,     \* the variables of the program
          Numbers,     \* the scalars it stores
          MaxBlocks,   \* bound on the blocks alive at once
          MaxItems,    \* bound on the length of an array
          MaxDepth,    \* bound on the nesting of arrays
          MaxStored,   \* bound on the items in all the blocks, weighted
          Header,      \* offsetof(data_t, x), in items
          Inline       \* items in data_t itself

ASSUME BlocksAssumption == MaxBlocks \in Nat /\ MaxItems \in Nat 
                           /\ MaxDepth \in Nat /\ MaxStored \in Nat
ASSUME LayoutAssumption == Header \in Nat /\ Inline \in Nat \ {0}

VARIABLES heap,      \* block -> its reference count, capacity and items
          var,       \* the value of each variable
          own,       \* ghost: the last call mixed a value with a part of it
          crashed    \* "no", or the block accessed: "freed", "lost", "null"

vars == <<heap, var, own, crashed>>

Blocks == 1..MaxBlocks
NoBlock == 0                                   \* p_ == nullptr
Free == [ref |-> 0, cap |-> 0, items |-> <<>>]

Null == [t |-> "null"]
Num(n) == [t |-> "num", n |-> n]
Arr(p) == [t |-> "array", p |-> p]
Scalars == {Null} \cup {Num(n) : n \in Numbers}
Values == Scalars \cup {Arr(p) : p \in Blocks \cup {NoBlock}}
IsArr(v) == v.t = "array"
Held(v) == IsArr(v) /\ v.p # NoBlock

(* A call works on S, the heap and the variables, and may end in a crash.  *)
State == [heap |-> heap, var |-> var, crash |-> "no"]
Crash(S, what) == [S EXCEPT !.crash = what]
Size(S, v) == IF Held(v) THEN Len(S.heap[v.p].items) ELSE 0
Items(S, v) == IF ~IsArr(v) THEN (IF v = Null THEN <<>> ELSE <<v>>)
               ELSE IF v.p = NoBlock THEN <<>> ELSE S.heap[v.p].items

TypeOK ==
  /\ heap \in [Blocks -> [ref : Nat, cap : Nat, items : Seq(Values)]]
  /\ var \in [Handles -> Values]
  /\ own \in BOOLEAN
  /\ crashed \in {"no", "freed", "lost", "null"}

Init ==
  /\ heap = [p \in Blocks |-> Free]
  /\ var = [h \in Handles |-> Null]
  /\ own = FALSE
  /\ crashed = "no"

-----------------------------------------------------------------------------
(* Blocks.                                                                 *)

(* alloc: the bytes are rounded up to whole data_t's, and what they hold   *)
(* beyond what was asked for is capacity too.                              *)
Rounded(cap) ==
  LET unit == Header + Inline
  IN  ((Header + cap + unit - 1) \div unit) * unit - Header

Unused(H) == {p \in Blocks : H[p].ref = 0}
New(H) == CHOOSE p \in Unused(H) : \A q \in Unused(H) : p <= q
Alloc(S, items, cap) ==
  [S EXCEPT !.heap[New(S.heap)] = [ref |-> 1, cap |-> Rounded(cap), items |-> items]]

(* init_from: a copy of a value takes a reference.                         *)
Ref(S, v) == IF Held(v) THEN [S EXCEPT !.heap[v.p].ref = @ + 1] ELSE S
RefAll(S, vs) == FoldLeft(Ref, S, vs)

RECURSIVE Unref(_, _)

(* destroy and destruct: the last reference destroys the items first.      *)
Unref(S, v) ==
  IF ~Held(v) THEN S
  ELSE IF S.heap[v.p].ref > 1 THEN [S EXCEPT !.heap[v.p].ref = @ - 1]
  ELSE [FoldLeft(Unref, [S EXCEPT !.heap[v.p].ref = 0], S.heap[v.p].items)
          EXCEPT !.heap[v.p] = Free]
UnrefAll(S, vs) == FoldLeft(Unref, S, vs)

(* A step on an array ends with the state and the block it holds.          *)
On(S, p) == [s |-> S, p |-> p]

(* construct of a range: nothing is allocated for an empty one.            *)
Construct(S, vs) ==
  IF vs = <<>> THEN On(S, NoBlock)
  ELSE On(Alloc(RefAll(S, vs), vs, Len(vs)), New(S.heap))

(* make_unique: a shared block is replaced by a copy of it, and that of an *)
(* empty one is no block at all.                                           *)
MakeUnique(S, p) ==
  IF S.heap[p].ref <= 1 THEN On(S, p)
  ELSE LET new == Construct(S, S.heap[p].items) IN On(Unref(new.s, Arr(p)), new.p)

(* grow: the items move to a block larger by half their number or extra.   *)
(* The old block has no other owner, so the new one keeps its name.        *)
Grow(S, p, extra) ==
  LET size == Len(S.heap[p].items)
      half == size \div 2
  IN  [S EXCEPT !.heap[p].cap = Rounded(size + (IF extra > half THEN extra ELSE half))]

(* An array that was there is made unique before it is written: one that   *)
(* has no block left is then accessed through a null pointer.              *)
Writable(S, p, Then(_, _)) ==
  LET u == MakeUnique(S, p)
  IN  IF u.p = NoBlock THEN On(Crash(u.s, "lost"), p) ELSE Then(u.s, u.p)

(* Before n items are added: an array without a block allocates one, any   *)
(* other is made unique and grows if they do not fit.                      *)
MakeRoom(S, p, n) ==
  LET Enough(T, q) ==
        On(IF n > T.heap[q].cap - Len(T.heap[q].items) THEN Grow(T, q, n) ELSE T, q)
  IN  IF p # NoBlock THEN Writable(S, p, Enough)
      ELSE IF n = 0 THEN On(S, p) ELSE On(Alloc(S, <<>>, n), New(S.heap))

(* The items are constructed at the end and rotated into place.            *)
AddItems(S, p, pos, vs) ==
  LET at == IF pos > Len(S.heap[p].items) THEN Len(S.heap[p].items) + 1 ELSE pos
  IN  IF p = NoBlock THEN On(S, p)
      ELSE On([RefAll(S, vs) EXCEPT !.heap[p].items =
                 SubSeq(@, 1, at - 1) \o vs \o SubSeq(@, at, Len(@))], p)

PopItem(S, p) ==
  LET Popped(T, q) ==
        LET n == Len(T.heap[q].items)
        IN  On([Unref(T, T.heap[q].items[n]) EXCEPT !.heap[q].items = SubSeq(@, 1, n - 1)], q)
  IN  Writable(S, p, Popped)

EraseItem(S, p, pos) ==
  LET Erased(T, q) == On([Unref(T, T.heap[q].items[pos])
                            EXCEPT !.heap[q].items = RemoveAt(@, pos)], q)
  IN  Writable(S, p, Erased)

(* Mutant: a shared block is emptied too.                                  *)
ClearItems_InPlace(S, p) ==
  IF p = NoBlock THEN On(S, p)
  ELSE On([UnrefAll(S, S.heap[p].items) EXCEPT !.heap[p].items = <<>>], p)
ClearItems(S, p) ==
  IF p = NoBlock THEN On(S, p)
  ELSE IF S.heap[p].ref # 1 THEN On(Unref(S, Arr(p)), NoBlock)
  ELSE On([UnrefAll(S, S.heap[p].items) EXCEPT !.heap[p].items = <<>>], p)

Repeated(v, n) == [i \in 1..n |-> v]
CutItems(S, p, n) ==
  LET Cut(T, q) == On([UnrefAll(T, SubSeq(T.heap[q].items, n + 1, Len(T.heap[q].items)))
                         EXCEPT !.heap[q].items = SubSeq(@, 1, n)], q)
  IN  Writable(S, p, Cut)

(* assign: an array with one owner is overwritten in place, any other is   *)
(* left to its owners.                                                     *)
AssignItems(S, p, vs) ==
  IF p # NoBlock /\ S.heap[p].ref = 1
  THEN LET size == Len(S.heap[p].items)
           G == IF Len(vs) > S.heap[p].cap THEN Grow(S, p, Len(vs) - size) ELSE S
       IN  On([UnrefAll(RefAll(G, vs), S.heap[p].items) EXCEPT !.heap[p].items = vs], p)
  ELSE LET new == Construct(S, vs) IN On(Unref(new.s, Arr(p)), new.p)

-----------------------------------------------------------------------------
(* Values.  A place is a variable (i = 0) or an item of its array; the one *)
(* item of a value that is no array is the value, and no place of its own. *)

Whole(h) == [h |-> h, i |-> 0]
Places == {Whole(h) : h \in Handles}
            \cup {[h |-> h, i |-> i] : h \in Handles, i \in 1..MaxItems}
Exists(d) == d.i <= Size(State, var[d.h])
Here == {d \in Places : Exists(d)}

InVariable(d) == d.i = 0
Get(S, d) == IF InVariable(d) THEN S.var[d.h] ELSE S.heap[S.var[d.h].p].items[d.i]
(* S is given d's new value; T is, at the address d had in S.              *)
PutAt(T, S, d, v) == IF InVariable(d) THEN [T EXCEPT !.var[d.h] = v]
                     ELSE [T EXCEPT !.heap[S.var[d.h].p].items[d.i] = v]
Put(S, d, v) == PutAt(S, S, d, v)

(* operator[] of a variable that is not const: its block is made unique,   *)
(* and so is the block of the item by what is called on it.                *)
Reach(S, d) ==
  IF InVariable(d) THEN S
  ELSE LET u == MakeUnique(S, S.var[d.h].p) IN [u.s EXCEPT !.var[d.h] = Arr(u.p)]

(* d's array goes through Op, and d holds the block it ends with.          *)
OnArray(S, d, Op(_, _)) ==
  LET r == Op(S, Get(S, d).p) IN Put(r.s, d, Arr(r.p))

(* destroy.                                                                *)
Destroy(S, d) == Put(Unref(S, Get(S, d)), d, Null)

(* convert_to_array: a value that is no array becomes the first item of    *)
(* one.  init_as_array: only null becomes an array, with no block.         *)
ConvertToArray(S, d) ==
  LET v == Get(S, d)
  IN  IF IsArr(v) THEN S
      ELSE IF v = Null THEN Put(S, d, Arr(NoBlock))
      ELSE Put(Alloc(S, <<v>>, 1), d, Arr(New(S.heap)))
CanBeArray(S, d) == Get(S, d) = Null \/ IsArr(Get(S, d))
InitAsArray(S, d) == IF Get(S, d) = Null THEN Put(S, d, Arr(NoBlock)) ELSE S

-----------------------------------------------------------------------------
(* The calls.                                                              *)

RECURSIVE Nesting(_, _, _)
Nesting(H, v, n) ==
  IF ~Held(v) \/ n = 0 THEN 0
  ELSE 1 + Max({0} \cup {Nesting(H, w, n - 1) : w \in ToSet(H[v.p].items)})
Cyclic(H) == \E p \in Blocks : Nesting(H, Arr(p), MaxBlocks + 1) > MaxBlocks

Alive == crashed = "no" /\ ~own             \* bound: one call on its own parts
Spare == Cardinality(Unused(heap)) >= 2          \* bound: enough for any call

(* Items count towards the bound, arrays in arrays twice.                  *)
Weight(items) == Len(items) + Cardinality({i \in DOMAIN items : IsArr(items[i])})

(* A call ends within the bounds, and a crash ends the program.            *)
Done(S, mixed) ==
  /\ own' = mixed
  /\ crashed' = S.crash
  /\ IF S.crash # "no" THEN UNCHANGED <<heap, var>>
     ELSE /\ heap' = S.heap
          /\ var' = S.var
          /\ \A p \in Blocks : Len(S.heap[p].items) <= MaxItems
          /\ FoldSet(LAMBDA p, n : n + Weight(S.heap[p].items), 0, Blocks) <= MaxStored
          /\ \/ Cyclic(S.heap)
             \/ \A h \in Handles : Nesting(S.heap, S.var[h], MaxDepth + 1) <= MaxDepth

(* What is stored is a temporary or, through a const reference, a value in *)
(* a place.  An item of a block that was freed since cannot be read.       *)
Sources == Scalars \cup Here
Read(S, s) == IF s \in Scalars THEN s
              ELSE IF InVariable(s) THEN S.var[s.h]
              ELSE S.heap[var[s.h].p].items[s.i]
Gone(S, s) == /\ s \in Here
              /\ ~InVariable(s)
              /\ S.heap[var[s.h].p].ref = 0
Overlap(d, s) == s \in Here /\ d.h = s.h /\ (d.i = 0 \/ s.i = 0 \/ d = s)

(* Mutant: what d held is not released.                                    *)
CopyTo_Leaks(S, d, s) == Put(Ref(S, Read(S, s)), d, Read(S, s))

(* operator=: what d held is destroyed first, then the other value is      *)
(* copied with a reference.                                                *)
CopyTo(S, d, s) ==
  LET D == Destroy(S, d)
  IN  IF Gone(D, s) THEN Crash(D, "freed") ELSE Put(Ref(D, Read(D, s)), d, Read(D, s))

Assign ==
  \E d \in Here, s \in Sources :
    /\ Alive /\ (Spare \/ d.i = 0)
    /\ LET S == Reach(State, d)
       IN  Done(IF d = s THEN S ELSE CopyTo(S, d, s), Overlap(d, s) /\ d # s)

(* operator= of a moved value: s is left null, after d was destroyed.      *)
Move ==
  \E d, s \in Here :
    /\ Alive /\ Spare
    /\ LET S == Reach(Reach(State, s), d)
           D == Destroy(S, d)
           gone == ~InVariable(s) /\ D.heap[S.var[s.h].p].ref = 0
       IN  Done(IF d = s THEN S
                ELSE IF gone THEN Crash(D, "freed")
                ELSE PutAt(Put(D, d, Get(S, s)), S, s, Null),
                Overlap(d, s) /\ d # s)

Swap ==
  \E d, s \in Here :
    /\ Alive /\ Spare
    /\ LET S == Reach(Reach(State, s), d)
       IN  Done(IF d = s THEN S ELSE PutAt(Put(S, d, Get(S, s)), S, s, Get(S, d)),
                Overlap(d, s) /\ d # s)

(* n values s are added to the array d.  An item of d that must grow is    *)
(* moved before it is copied from where it was.                            *)
Moved(S, d, s, n) ==
  /\ d # s /\ Overlap(d, s) /\ d.i = 0
  /\ IsArr(var[d.h])
  /\ LET b == S.heap[var[d.h].p] IN b.ref = 1 /\ Len(b.items) + n > b.cap
Added(S, d, s, pos, n) ==
  LET Room(T, p) == MakeRoom(T, p, n)
      R == OnArray(S, d, Room)
      Store(T, p) == AddItems(T, p, pos, Repeated(Read(R, s), n))
  IN  IF R.crash # "no" THEN R
      ELSE IF Moved(S, d, s, n) THEN Crash(S, "freed")
      ELSE OnArray(R, d, Store)

(* emplace_back, push_back: any value becomes an array first.              *)
PushBack ==
  \E d \in Here, s \in Sources :
    /\ Alive /\ Spare
    /\ Done(Added(ConvertToArray(Reach(State, d), d), d, s, MaxItems + 1, 1), Overlap(d, s))

(* emplace at a position: a value that is no array and not null throws.    *)
Emplace ==
  \E d \in Here, s \in Sources, pos \in 1..MaxItems :
    /\ Alive /\ Spare
    /\ LET S == Reach(State, d)
       IN  Done(IF CanBeArray(S, d) THEN Added(InitAsArray(S, d), d, s, pos, 1) ELSE S,
                Overlap(d, s))

(* insert and assign of a range, the items of another value: the second    *)
(* destroys first what is no array.                                        *)
InsertRange ==
  \E d, s \in Here, pos \in 1..MaxItems :
    /\ Alive /\ Spare /\ ~Overlap(d, s)
    /\ LET S == Reach(State, d)
           vs == Items(State, Get(State, s))
           Room(T, p) == MakeRoom(T, p, Len(vs))
           Store(T, p) == AddItems(T, p, pos, vs)
           R == OnArray(InitAsArray(S, d), d, Room)
       IN  Done(IF ~CanBeArray(S, d) THEN S
                ELSE IF R.crash # "no" THEN R ELSE OnArray(R, d, Store), FALSE)

AssignRange ==
  \E d, s \in Here :
    /\ Alive /\ Spare /\ ~Overlap(d, s)
    /\ LET S == Reach(State, d)
           I == IF IsArr(Get(S, d)) THEN S ELSE Put(Destroy(S, d), d, Arr(NoBlock))
           Over(T, p) == AssignItems(T, p, Items(State, Get(State, s)))
       IN  Done(OnArray(I, d, Over), FALSE)

(* pop_back and erase, of items that are there.                            *)
PopBack ==
  \E d \in Here :
    /\ Alive /\ Spare /\ Size(State, Get(State, d)) > 0
    /\ Done(OnArray(Reach(State, d), d, PopItem), FALSE)

Erase ==
  \E d \in Here, pos \in 1..MaxItems :
    /\ Alive /\ Spare /\ pos <= Size(State, Get(State, d))
    /\ LET At(T, p) == EraseItem(T, p, pos)
       IN  Done(OnArray(Reach(State, d), d, At), FALSE)

Clear ==
  \E d \in Here :
    /\ Alive /\ Spare
    /\ LET S == Reach(State, d)
       IN  Done(IF IsArr(Get(S, d)) THEN OnArray(S, d, ClearItems) ELSE S, FALSE)

(* make_unique has no test for an array without a block; a view has.       *)
Unshare ==
  \E d \in Here, view \in BOOLEAN :
    /\ Alive /\ Spare
    /\ LET S == Reach(State, d)
           v == Get(S, d)
           Own(T, p) == On(T, p)
           At(T, p) == IF view THEN Writable(T, p, Own) ELSE MakeUnique(T, p)
       IN  Done(IF Held(v) THEN OnArray(S, d, At)
                ELSE IF IsArr(v) /\ ~view THEN Crash(S, "null") ELSE S, FALSE)

Reserve ==
  \E d \in Here, n \in 0..MaxItems :
    /\ Alive /\ Spare
    /\ LET S == Reach(State, d)
           size == Size(S, Get(S, d))
           Room(T, p) == MakeRoom(T, p, IF n > size THEN n - size ELSE 0)
       IN  Done(IF CanBeArray(S, d) THEN OnArray(InitAsArray(S, d), d, Room) ELSE S, FALSE)

Resize ==
  \E d \in Here, s \in Sources, n \in 0..MaxItems :
    /\ Alive /\ Spare
    /\ LET S == Reach(State, d)
           I == InitAsArray(S, d)
           size == Size(I, Get(I, d))
           Cut(T, p) == CutItems(T, p, n)
       IN  Done(IF ~CanBeArray(S, d) THEN S
                ELSE IF n > size THEN Added(I, d, s, MaxItems + 1, n - size)
                ELSE IF Held(Get(I, d)) THEN OnArray(I, d, Cut) ELSE I, Overlap(d, s))

Next == \/ Assign \/ Move \/ Swap \/ PushBack \/ Emplace \/ InsertRange
        \/ AssignRange \/ PopBack \/ Erase \/ Clear \/ Unshare \/ Reserve \/ Resize

Spec == Init /\ [][Next]_vars

-----------------------------------------------------------------------------
(* What the value promises.                                                *)

(* The counter of a block is the number of values that hold it, in the     *)
(* variables and in the items of the blocks alive: with one too few it is  *)
(* freed in use, with one too many it is never freed.                      *)
Holders(p) ==
  Cardinality({h \in Handles : var[h] = Arr(p)})
    + Cardinality({qi \in Blocks \X (1..MaxItems) :
         /\ qi[2] <= Len(heap[qi[1]].items)
         /\ heap[qi[1]].items[qi[2]] = Arr(p)})
RefExact == \A p \in Blocks : heap[p].ref = Holders(p)

(* The items of a block fit its capacity, through every way to grow.       *)
CapacityHolds == \A p \in Blocks : Len(heap[p].items) <= heap[p].cap

(* A block that was freed is read, or an array comes to contain itself,    *)
(* only where a call is given a part of the value it changes: a value that *)
(* is assigned its own item, pushed an item of its own while it grows, or  *)
(* pushed or assigned into itself.                                         *)
OnlyOwnPartsBreak == ~own => crashed # "freed" /\ ~Cyclic(heap)

(* A call that begins with an array that has a block, and tests for it,    *)
(* should still have it when it reads size and capacity or grows: grow     *)
(* asserts it.  The block is lost in one case: the array is empty and      *)
(* shares a block that has room for items.  And make_unique, which has no  *)
(* such test, only reads a block that is not there where the array never   *)
(* had one.                                                                *)
LostOnlyWhenEmpty ==
  crashed \in {"lost", "null"} =>
    \E d \in Here :
      LET v == Get(State, d)
      IN  /\ IsArr(v)
          /\ Items(State, v) = <<>>
          /\ crashed = "lost" <=> Held(v) /\ \E w \in {v, var[d.h]} : heap[w.p].ref > 1

(* All the calls that break something, and no others.                      *)
BreaksOnly == OnlyOwnPartsBreak /\ LostOnlyWhenEmpty

(* The memory is sound, types, counters and capacities, and stays so but   *)
(* for those calls.                                                        *)
Inv == TypeOK /\ RefExact /\ CapacityHolds /\ BreaksOnly

RECURSIVE TreeOf(_)
TreeOf(v) == IF IsArr(v)
             THEN [t |-> "array", items |-> [i \in DOMAIN Items(State, v) |->
                                               TreeOf(Items(State, v)[i])]]
             ELSE v

(* Sharing is invisible: whatever the calls, each variable is a tree of    *)
(* its own, and a call on one variable changes no other.                   *)
Trees == [h \in Handles |-> TreeOf(var[h])]
Tree == INSTANCE ValueTree WITH tree <- Trees
IsATree == Tree!Init /\ [][own' \/ Tree!Next \/ UNCHANGED Trees]_vars
=============================================================================
