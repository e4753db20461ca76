------------------------------- MODULE Record -------------------------------
(***************************************************************************)
(* The record of db::basic_value, record_t: a block with a reference count *)
(* that the copies of a value share until one writes, a list of nodes in   *)
(* the order of insertion, and a table of buckets, each a chain of the     *)
(* nodes whose hash falls in it, newest first.  One action is one call.    *)
(* A node is its number within its block; key and value are copied with    *)
(* the node, as a block is.                                                *)
(***************************************************************************)
EXTENDS Integers, FiniteSets, Sequences, SequencesExt

CONSTANTS Handles,     \* the variables of the program
          Entries,     \* the keys and values that are inserted
          Hash,        \* key -> hash code
          MaxBlocks,   \* bound on the records alive at once
          MaxSize,     \* bound on the entries of a record alone
          MaxBoth,     \* bound on the entries of several together
          Header,      \* offsetof(data_t, hashtbl), in buckets
          Inline       \* buckets in data_t itself

Keys == {e.key : e \in Entries}

ASSUME EntryAssumption == \A e \in Entries : e = [key |-> e.key, val |-> e.val]
ASSUME HashAssumption == Hash \in [Keys -> Nat]
ASSUME SizeAssumption == MaxBlocks \in Nat /\ MaxSize \in Nat /\ MaxBoth \in Nat
ASSUME LayoutAssumption == Header \in Nat \ {0} /\ Inline \in Nat \ {0}

(* A call holds a new block besides those of the variables at most: there  *)
(* is memory for it.                                                       *)
ASSUME MemoryAssumption == IsFiniteSet(Handles) /\ Cardinality(Handles) < MaxBlocks

VARIABLES rec,       \* block -> its count, buckets, list and chains
          var,       \* variable -> the block it holds, or none when null
          crashed    \* a node that was destroyed has been read

vars == <<rec, var, crashed>>

Blocks == 1..MaxBlocks
NoBlock == 0

(* list is the chain of links_ from head.next on; node n of the list has   *)
(* the key and the value node[n]; bucket b of bucket_count is chain[b + 1].*)
Free == [ref |-> 0, size |-> 0, list |-> <<>>, node |-> [n \in {} |-> n], chain |-> <<>>]

(* The records whose nodes are S.                                          *)
Records(S) == [ref : Nat, size : Nat, list : Seq(Nat), node : [S -> Entries], chain : Seq(Seq(Nat))]

TypeOK ==
  /\ rec = [b \in Blocks |-> rec[b]]
  /\ \A b \in Blocks : rec[b] \in Records(ToSet(rec[b].list))
  /\ var \in [Handles -> Blocks \cup {NoBlock}]
  /\ crashed \in BOOLEAN

Init ==
  /\ rec = [b \in Blocks |-> Free]
  /\ var = [h \in Handles |-> NoBlock]
  /\ crashed = FALSE

-----------------------------------------------------------------------------
(* One record r.                                                           *)

(* What is left of s when all but the members of S go: SelectSeq by a set. *)
Only(s, S) ==
  LET left[i \in 0 .. Len(s)] == IF i = 0 THEN <<>>
                                 ELSE IF s[i] \in S THEN Append(left[i - 1], s[i]) ELSE left[i - 1]
  IN  left[Len(s)]

Rounded(count) ==
  LET unit == Header + Inline
  IN  ((Header + count + unit - 1) \div unit) * unit - Header
BucketCount(r) == Len(r.chain)

(* alloc and init.                                                         *)
Empty(count) == [Free EXCEPT !.ref = 1, !.chain = [b \in 1..Rounded(count) |-> <<>>]]

Bucket(r, k) == (Hash[k] % BucketCount(r)) + 1

(* add_to_hash: the node becomes the first of its bucket.                  *)
AddToHash(r, n) ==
  LET b == Bucket(r, r.node[n].key) IN [r EXCEPT !.chain[b] = <<n>> \o @]

(* create and insert_node: a number no node of the list has.               *)
NewNode(r) == CHOOSE n \in 1..(Len(r.list) + 1) : /\ n \notin ToSet(r.list)
                                                  /\ \A m \in 1..(n - 1) : m \in ToSet(r.list)
InsertNode(r, e) ==
  LET n == NewNode(r)
      s == [r EXCEPT !.node = [m \in ToSet(r.list) \cup {n} |-> IF m = n THEN e ELSE @[m]],
                     !.list = Append(@, n),
                     !.size = @ + 1]
  IN  AddToHash(s, n)

(* Mutant: the old chains are copied to the new table.                     *)
Rehash_Copies(r, extra) ==
  LET half == r.size \div 2
      count == Rounded(r.size + (IF extra > half THEN extra ELSE half))
  IN  [r EXCEPT !.chain = [b \in 1..count |-> IF b \in DOMAIN @ THEN @[b] ELSE <<>>]]

(* rehash: a larger table, to which the nodes are added in list order.     *)
Rehash(r, extra) ==
  LET half == r.size \div 2
      count == Rounded(r.size + (IF extra > half THEN extra ELSE half))
      bare == [r EXCEPT !.chain = [b \in 1..count |-> <<>>]]
  IN  FoldLeft(AddToHash, bare, r.list)

(* emplace, and one step of insert_impl for an input iterator.             *)
Emplaced(r, e) ==
  InsertNode(IF r.size = BucketCount(r) THEN Rehash(r, 1) ELSE r, e)

(* insert_impl for random access makes room for all of them first.         *)
Inserted(r, es) ==
  FoldLeft(InsertNode,
           IF BucketCount(r) - r.size < Len(es) THEN Rehash(r, Len(es)) ELSE r, es)

EntriesOf(r) == [i \in DOMAIN r.list |-> r.node[r.list[i]]]

(* construct of a copy: a table for the size, and the entries in order.    *)
CopyOf(r) == FoldLeft(InsertNode, Empty(r.size), EntriesOf(r))

(* find_impl: the first of the chain with the hash and the key.            *)
Matches(r, k) ==
  Only(r.chain[Bucket(r, k)],
       {n \in ToSet(r.list) : r.node[n].key = k /\ Hash[r.node[n].key] = Hash[k]})
Found(r, k) == Matches(r, k) # <<>>
FindNode(r, k) == Matches(r, k)[1]

(* Nodes are unlinked from their chain and the list, and destroyed.        *)
Without(r, gone) ==
  LET rest == ToSet(r.list) \ gone
  IN  [r EXCEPT !.list = Only(@, rest),
                !.chain = [b \in DOMAIN @ |-> Only(@[b], rest)],
                !.node = [n \in rest |-> @[n]],
                !.size = @ - Cardinality(gone)]

WithoutKey(r, k) == Without(r, ToSet(Matches(r, k)))

(* erase(key) goes on along the chain after it destroyed a node, and       *)
(* compares the key with that of each node of the same hash: where the key *)
(* is a view of node n's own, it is read after n is gone.                  *)
KeyReadAfter(r, n) ==
  LET k == r.node[n].key
      c == r.chain[Bucket(r, k)]
  IN  \E i, j \in DOMAIN c : c[i] = n /\ j > i /\ Hash[r.node[c[j]].key] = Hash[k]

-----------------------------------------------------------------------------
(* The blocks and the variables, S.                                        *)

State == [rec |-> rec, var |-> var]
Unused(S) == {b \in Blocks : S.rec[b].ref = 0}
New(S) == CHOOSE b \in Unused(S) : \A c \in Unused(S) : b <= c
Held(S, h) == S.rec[S.var[h]]
Size(S, h) == IF S.var[h] = NoBlock THEN 0 ELSE Held(S, h).size

(* unref and destruct.                                                     *)
Unref(S, b) ==
  IF b = NoBlock THEN S
  ELSE IF S.rec[b].ref > 1 THEN [S EXCEPT !.rec[b].ref = @ - 1]
  ELSE [S EXCEPT !.rec[b] = Free]

(* reset: h holds a new block r, and the old one a reference less.         *)
Reset(S, h, r) ==
  LET b == New(S)
      N == [S EXCEPT !.rec[b] = r, !.var[h] = b]
  IN  Unref(N, S.var[h])

Shared(S, h) == Held(S, h).ref > 1

(* Mutant: a shared record is written in place.                            *)
MakeUnique_Never(S, h) == S
(* make_unique.                                                            *)
MakeUnique(S, h) == IF Shared(S, h) THEN Reset(S, h, CopyOf(Held(S, h))) ELSE S

(* init_as_record: a null value becomes an empty record.                   *)
InitAsRecord(S, h) == IF S.var[h] = NoBlock THEN Reset(S, h, Empty(0)) ELSE S

(* The record of h, made unique, becomes Op(it).                           *)
Written(S, h, Op(_)) ==
  LET U == MakeUnique(InitAsRecord(S, h), h) IN [U EXCEPT !.rec[U.var[h]] = Op(@)]

(* clear_impl: a shared record is left to the others, else the table stays *)
(* and the nodes go.                                                       *)
Cleared(S, h, count) ==
  IF Held(S, h).ref # 1 THEN Reset(S, h, Empty(count))
  ELSE [S EXCEPT !.rec[S.var[h]] =
          [Free EXCEPT !.ref = 1, !.chain = [b \in 1..BucketCount(Held(S, h)) |-> <<>>]]]

-----------------------------------------------------------------------------
(* The calls.                                                              *)

Done(S) ==
  /\ rec' = S.rec
  /\ var' = S.var
  /\ \A b \in Blocks : S.rec[b].size <= MaxSize
  /\ LET alive == {b \in Blocks : S.rec[b].ref > 0}
     IN  Cardinality(alive) > 1 => FoldSet(LAMBDA b, n : n + S.rec[b].size, 0, alive) <= MaxBoth
  /\ UNCHANGED crashed
Alive == ~crashed
Roomy(h, n) == Size(State, h) + n <= MaxSize      \* bound

Emplace ==
  \E h \in Handles, e \in Entries :
    /\ Alive /\ Roomy(h, 1)
    /\ LET Op(r) == Emplaced(r, e) IN Done(Written(State, h, Op))

(* operator[] and emplace_unique, and the value assigned through them;     *)
(* find of a key that is there, with at.                                   *)
Set ==
  \E h \in Handles, e \in Entries :
    /\ Alive /\ Roomy(h, 1)
    /\ LET Op(r) == IF Found(r, e.key) THEN [r EXCEPT !.node[FindNode(r, e.key)].val = e.val]
                    ELSE Emplaced(r, e)
       IN  Done(Written(State, h, Op))

(* begin, end, range and find that are not const make the record unique.   *)
View ==
  \E h \in Handles :
    /\ Alive /\ var[h] # NoBlock
    /\ Done(MakeUnique(State, h))

(* insert and assign of another variable's entries, one at a time; of a    *)
(* list of entries, with the room made first.  Null gets a table to fit.   *)
Insert ==
  \E h, g \in Handles :
    /\ Alive /\ h # g /\ var[g] # NoBlock /\ Roomy(h, Size(State, g))
    /\ LET Op(r) == FoldLeft(Emplaced, r, EntriesOf(rec[var[g]]))
       IN  Done(Written(State, h, Op))

InsertList ==
  \E h \in Handles, es \in [1..2 -> Entries] :
    /\ Alive /\ Roomy(h, 2)
    /\ LET Op(r) == Inserted(r, es)
           S == IF var[h] = NoBlock THEN Reset(State, h, Empty(2)) ELSE State
       IN  Done(Written(S, h, Op))

AssignFrom ==
  \E h, g \in Handles :
    /\ Alive /\ h # g /\ var[g] # NoBlock
    /\ LET S == Cleared(InitAsRecord(State, h), h, 0)
           Op(r) == FoldLeft(Emplaced, r, EntriesOf(rec[var[g]]))
       IN  Done(Written(S, h, Op))

AssignList ==
  \E h \in Handles, es \in [1..2 -> Entries] :
    /\ Alive /\ MaxSize >= 2
    /\ LET S == IF var[h] = NoBlock THEN Reset(State, h, Empty(2)) ELSE State
           Op(r) == Inserted(r, es)
       IN  Done(Written(Cleared(S, h, 2), h, Op))

(* erase of an iterator: where the record is shared, a copy is made and    *)
(* the node at the same position in it is erased.                          *)
EraseAt ==
  \E h \in Handles, i \in 1..MaxSize :
    /\ Alive /\ i <= Size(State, h)
    /\ LET Op(r) == Without(r, {r.list[i]}) IN Done(Written(State, h, Op))

EraseKey ==
  \E h \in Handles, k \in Keys :
    /\ Alive /\ var[h] # NoBlock
    /\ LET Op(r) == WithoutKey(r, k) IN Done(Written(State, h, Op))

(* erase(key) with the key of an entry of the record itself.               *)
EraseOwnKey ==
  \E h \in Handles, i \in 1..MaxSize :
    /\ Alive /\ i <= Size(State, h)
    /\ LET r == Held(State, h)
           n == r.list[i]
           Op(q) == WithoutKey(q, r.node[n].key)
       IN  IF ~Shared(State, h) /\ KeyReadAfter(r, n)
           THEN crashed' = TRUE /\ UNCHANGED <<rec, var>>
           ELSE Done(Written(State, h, Op))

Clear ==
  \E h \in Handles :
    /\ Alive /\ var[h] # NoBlock
    /\ Done(Cleared(State, h, 0))

(* operator= of another variable, and a variable that becomes null.        *)
Copy ==
  \E h, g \in Handles :
    /\ Alive /\ h # g
    /\ LET S == [Unref(State, var[h]) EXCEPT !.var[h] = var[g]]
       IN  Done(IF var[g] = NoBlock THEN S ELSE [S EXCEPT !.rec[var[g]].ref = @ + 1])

Destroy ==
  \E h \in Handles :
    /\ Alive
    /\ Done([Unref(State, var[h]) EXCEPT !.var[h] = NoBlock])

Next == \/ Emplace \/ Set \/ View \/ Insert \/ InsertList \/ AssignFrom \/ AssignList
        \/ EraseAt \/ EraseKey \/ EraseOwnKey \/ Clear \/ Copy \/ Destroy

Spec == Init /\ [][Next]_vars

-----------------------------------------------------------------------------
(* What the record promises.                                               *)

(* The counter of a block is the number of variables that hold it.         *)
RefExact == \A b \in Blocks : rec[b].ref = Cardinality({h \in Handles : var[h] = b})

(* The chains and the list hold the same nodes: a bucket holds those of    *)
(* the list whose hash falls in it, newest first, whatever rehashes,       *)
(* copies and erasures went before.                                        *)
ChainsExact ==
  \A b \in Blocks :
    LET r == rec[b]
    IN  r.ref > 0 =>
          /\ r.size = Len(r.list)
          /\ IsInjective(r.list)
          /\ \A c \in DOMAIN r.chain :
               r.chain[c] = Reverse(Only(r.list, {n \in ToSet(r.list) : Bucket(r, r.node[n].key) = c}))

(* There are never more entries than buckets, and never no bucket: the     *)
(* count is what a hash is divided by.                                     *)
LoadHolds ==
  \A b \in Blocks :
    rec[b].ref > 0 => BucketCount(rec[b]) > 0 /\ rec[b].size <= BucketCount(rec[b])

(* A destroyed key is read only by an erase(key) given the key of an entry *)
(* of a record of one owner that has another entry of the same hash.       *)
CrashOnlyOnOwnKey ==
  crashed => \E h \in Handles :
               /\ var[h] # NoBlock
               /\ rec[var[h]].ref = 1
               /\ LET es == EntriesOf(rec[var[h]])
                  IN  \E i, j \in DOMAIN es : i # j /\ Hash[es[i].key] = Hash[es[j].key]

(* The memory is sound: types, counters, chains, the load of the table,    *)
(* and what is read of it.                                                 *)
Inv == TypeOK /\ RefExact /\ ChainsExact /\ LoadHolds /\ CrashOnlyOnOwnKey

(* Sharing, hashing and rehashing are invisible: each variable is a list   *)
(* of entries of its own, in the order of insertion, and a key finds the   *)
(* newest of its entries.                                                  *)
List == INSTANCE EntryList
          WITH lists <- [h \in Handles |-> IF var[h] = NoBlock THEN <<>> ELSE EntriesOf(rec[var[h]])]
IsAList == List!Spec
=============================================================================
