----------------------------- MODULE ValueTree -----------------------------
(***************************************************************************)
(* What db::basic_value promises, without any sharing: every variable      *)
(* holds a tree of its own, and a call changes only the tree of the        *)
(* variable it is called on.  A tree is null, a number, or an array of     *)
(* trees.  A place is a variable (i = 0) or an item of its array.  A call  *)
(* relates the trees before it, t, to those after it, u.                   *)
(***************************************************************************)
EXTENDS Naturals, Sequences, SequencesExt

CONSTANTS Handles,     \* the variables
          Numbers,     \* the scalars a program stores
          MaxItems     \* bound on the length of an array

VARIABLE tree

Null == [t |-> "null"]
Num(n) == [t |-> "num", n |-> n]
Arr(s) == [t |-> "array", items |-> s]
IsArr(v) == v.t = "array"
Scalars == {Null} \cup {Num(n) : n \in Numbers}

(* The items of v seen through as_array(): a number is its own one item.   *)
Items(v) == IF IsArr(v) THEN v.items ELSE IF v = Null THEN <<>> ELSE <<v>>

Places(t) == UNION {{[h |-> h, i |-> 0]}
                      \cup {[h |-> h, i |-> i] : i \in IF IsArr(t[h]) THEN DOMAIN t[h].items
                                                                   ELSE {}} : h \in Handles}
At(t, d) == IF d.i = 0 THEN t[d.h] ELSE t[d.h].items[d.i]
Put(t, d, v) == IF d.i = 0 THEN [t EXCEPT ![d.h] = v]
                ELSE [t EXCEPT ![d.h].items[d.i] = v]

(* One is not the other or an item of it.                                  *)
Apart(d, s) == d.h # s.h \/ (d # s /\ d.i # 0 /\ s.i # 0)

(* d = s, d = number, d = nullptr.                                         *)
Assign(t, u) ==
  \E d \in Places(t) :
    \E v \in Scalars \cup {At(t, s) : s \in Places(t)} : u = Put(t, d, v)

(* A move leaves its source null.                                          *)
Move(t, u) ==
  \E d, s \in Places(t) : Apart(d, s) /\ u = Put(Put(t, d, At(t, s)), s, Null)
Swap(t, u) ==
  \E d, s \in Places(t) : Apart(d, s) /\ u = Put(Put(t, d, At(t, s)), s, At(t, d))

(* push_back and emplace, of one value, and insert, of the items of one.   *)
Insert(t, u) ==
  \E d \in Places(t) :
    \E v \in Scalars \cup {At(t, s) : s \in Places(t)}, pos \in 0..MaxItems :
      LET old == Items(At(t, d))
      IN  /\ pos <= Len(old)
          /\ \E new \in {<<v>>, Items(v)} :
               u = Put(t, d, Arr(SubSeq(old, 1, pos) \o new \o SubSeq(old, pos + 1, Len(old))))

(* assign of the items of a value.                                         *)
Replace(t, u) ==
  \E d, s \in Places(t) : u = Put(t, d, Arr(Items(At(t, s))))

Erase(t, u) ==
  \E d \in Places(t) :
    /\ IsArr(At(t, d))
    /\ \E pos \in DOMAIN At(t, d).items : u = Put(t, d, Arr(RemoveAt(At(t, d).items, pos)))

(* resize, clear, and reserve, which may turn null into an empty array.    *)
Resize(t, u) ==
  \E d \in Places(t), n \in 0..MaxItems :
    LET old == Items(At(t, d))
    IN  /\ At(t, d) = Null \/ IsArr(At(t, d))
        /\ \E v \in Scalars \cup {At(t, s) : s \in Places(t)} :
             u = Put(t, d, Arr([i \in 1..n |-> IF i <= Len(old) THEN old[i] ELSE v]))

Call(t, u) == \/ Assign(t, u) \/ Move(t, u) \/ Swap(t, u) \/ Insert(t, u)
              \/ Replace(t, u) \/ Erase(t, u) \/ Resize(t, u)

Init == tree = [h \in Handles |-> Null]
Next == \E t \in {tree}, u \in {tree'} : Call(t, u)
Spec == Init /\ [][Next]_tree
=============================================================================
