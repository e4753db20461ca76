------------------------------ MODULE RbTree -------------------------------
(***************************************************************************)
(* The red-black tree of include/uxs/rbtree.h and src/rbtree.cpp: links    *)
(* and colours in the nodes, and a head whose left child is the root,      *)
(* whose parent is the first node and whose right child is the last.       *)
(*                                                                         *)
(* The code has every case twice, once for each side; here a side is a     *)
(* parameter.  The loops that rebalance are actions, one turn each.        *)
(* `list` remembers what was asked for.                                    *)
(***************************************************************************)
EXTENDS Integers, Sequences, SequencesExt, FiniteSetsExt

CONSTANTS Nodes, Key  \* the nodes, and the key of each

ASSUME TreeAssumption ==
  /\ Nodes \subseteq Nat \ {0}
  /\ Key \in [Nodes -> Nat]

-----------------------------------------------------------------------------
(* What the tree promises: a list of nodes in the order of their keys, and *)
(* where a node is inserted in it.  A place is an index: the node goes     *)
(* before the one that is there now.                                       *)
KeyAt(l, i) == Key[l[i]]
Sorted(l) == \A i \in 1 .. Len(l) - 1 : KeyAt(l, i) <= KeyAt(l, i + 1)

LowerBound(l, k) == Min({i \in DOMAIN l : KeyAt(l, i) >= k} \cup {Len(l) + 1})
UpperBound(l, k) == Min({i \in DOMAIN l : KeyAt(l, i) > k} \cup {Len(l) + 1})
Has(l, k) == \E n \in ToSet(l) : Key[n] = k

(* As close before the hint at `h` as the order allows.                    *)
HintedPlace(l, k, h) ==
  IF h > 1 /\ KeyAt(l, h - 1) > k THEN UpperBound(l, k)
  ELSE IF h <= Len(l) /\ KeyAt(l, h) < k THEN LowerBound(l, k)
  ELSE h

Inserted(l, n, place) == InsertAt(l, place, n)
Removed(l, n) == SelectSeq(l, LAMBDA m : m # n)

-----------------------------------------------------------------------------
HeadNode == 0
Nil == -1
Sides == {"left", "right"}
Other(s) == IF s = "left" THEN "right" ELSE "left"

VARIABLES
  t,     \* [left, right, parent, color], each a function of the node
  pc,    \* "idle", "insert", "remove": which loop runs
  node,  \* insert: `node`; remove: `fix`
  pos,   \* insert: `pos`; remove: `parent`
  right, \* history: every call has returned the node it should
  list   \* history: the nodes in their order

vars == <<t, pc, node, pos, right, list>>

Ids == Nodes \cup {HeadNode, Nil}
TypeOK ==
  /\ t \in [left : [Nodes \cup {HeadNode} -> Ids], right : [Nodes \cup {HeadNode} -> Ids],
            parent : [Nodes \cup {HeadNode} -> Ids], color : [Nodes \cup {HeadNode} -> {"red", "black"}]]
  /\ t.right[HeadNode] # Nil /\ t.parent[HeadNode] # Nil
  /\ pc \in {"idle", "insert", "remove"}
  /\ {node, pos} \subseteq Ids /\ right \in BOOLEAN
  /\ list \in Seq(Nodes)

-----------------------------------------------------------------------------
Red(x, n) == n # Nil /\ x.color[n] = "red"
SideOf(x, n) == IF x.left[x.parent[n]] = n THEN "left" ELSE "right"
Paint(x, n, c) == [x EXCEPT !.color[n] = c]
(* n becomes the child of p on side s.                                     *)
Link(x, p, s, n) == [x EXCEPT ![s][p] = n]
Adopt(x, n, p) == IF n = Nil THEN x ELSE [x EXCEPT !.parent[n] = p]

RECURSIVE Bound(_, _, _), RightParent(_, _), LeftParent(_, _)
(* rbtree_left_bound, rbtree_right_bound                                   *)
Bound(x, n, s) == IF x[s][n] = Nil THEN n ELSE Bound(x, x[s][n], s)
RightParent(x, n) == IF x.left[x.parent[n]] = n THEN x.parent[n] ELSE RightParent(x, x.parent[n])
LeftParent(x, n) == IF x.left[x.parent[n]] # n THEN x.parent[n] ELSE LeftParent(x, x.parent[n])

(* rbtree_next and rbtree_prev                                             *)
NextNode(x, n) == IF x.right[n] # Nil THEN Bound(x, x.right[n], "left") ELSE RightParent(x, n)
PrevNode(x, n) == IF x.left[n] # Nil THEN Bound(x, x.left[n], "right") ELSE LeftParent(x, n)

(* rbtree_rotate_left and rbtree_rotate_right: n goes down on side s.      *)
Rotate(x, n, s) ==
  LET up == x[Other(s)][n]
      inner == x[s][up]
      p == x.parent[n]
      a == Adopt(Adopt(Link(x, n, Other(s), inner), up, p), inner, n)
      b == Link(a, p, IF x.left[p] = n THEN "left" ELSE "right", up)
  IN Adopt(Link(b, up, s, n), n, up)

-----------------------------------------------------------------------------
(* The searches: down from the root, to the left where `less` has it.      *)
RECURSIVE Descend(_, _, _, _), LastLeft(_, _, _, _, _)
GoesLeft(n, k, leftish) == IF leftish THEN Key[n] >= k ELSE Key[n] > k
Descend(x, n, k, leftish) ==
  LET s == IF GoesLeft(n, k, leftish) THEN "left" ELSE "right"
  IN IF x[s][n] = Nil THEN <<n, s>> ELSE Descend(x, x[s][n], k, leftish)
LastLeft(x, n, h, k, leftish) ==
  IF n = Nil THEN h
  ELSE IF GoesLeft(n, k, leftish) THEN LastLeft(x, x.left[n], n, k, leftish)
  ELSE LastLeft(x, x.right[n], h, k, leftish)

Root(x) == x.left[HeadNode]
First(x) == x.parent[HeadNode]
Final(x) == x.right[HeadNode]

LowerBoundNode(x, k) == LastLeft(x, Root(x), HeadNode, k, TRUE)
UpperBoundNode(x, k) == LastLeft(x, Root(x), HeadNode, k, FALSE)

(* rbtree_equal_range: the first node of the key on the way down parts the *)
(* search in two.                                                          *)
RECURSIVE EqualRange(_, _, _, _)
(* Mutant: the upper end is the node after the found one.                  *)
EqualRange_Short(x, n, h, k) ==
  IF n = Nil THEN <<h, h>>
  ELSE IF k < Key[n] THEN EqualRange(x, x.left[n], n, k)
  ELSE IF Key[n] < k THEN EqualRange(x, x.right[n], h, k)
  ELSE <<LastLeft(x, x.left[n], n, k, TRUE), NextNode(x, n)>>

EqualRange(x, n, h, k) ==
  IF n = Nil THEN <<h, h>>
  ELSE IF k < Key[n] THEN EqualRange(x, x.left[n], n, k)
  ELSE IF Key[n] < k THEN EqualRange(x, x.right[n], h, k)
  ELSE <<LastLeft(x, x.left[n], n, k, TRUE), LastLeft(x, x.right[n], h, k, FALSE)>>

(* rbtree_find_insert_pos and ..._leftish_pos                              *)
FindPos(x, k) == IF Root(x) = Nil THEN <<HeadNode, "left">> ELSE Descend(x, Root(x), k, FALSE)
FindLeftishPos(x, k) == IF Root(x) = Nil THEN <<HeadNode, "left">> ELSE Descend(x, Root(x), k, TRUE)

(* Between two neighbours, the one that has room.                          *)
Between(x, a, b) == IF x.right[a] = Nil THEN <<a, "right">> ELSE <<b, "left">>

FindHintedPos(x, h, k) ==
  CASE h = HeadNode -> IF Root(x) # Nil /\ Key[Final(x)] <= k THEN <<Final(x), "right">> ELSE FindPos(x, k)
    [] h # HeadNode /\ k <= Key[h] ->
         IF h = First(x) THEN <<h, "left">>
         ELSE IF Key[PrevNode(x, h)] <= k THEN Between(x, PrevNode(x, h), h) ELSE FindPos(x, k)
    [] OTHER ->
         IF h = Final(x) THEN <<h, "right">>
         ELSE IF Key[NextNode(x, h)] < k THEN FindLeftishPos(x, k)
         ELSE IF x.left[NextNode(x, h)] = Nil THEN <<NextNode(x, h), "left">> ELSE <<h, "right">>

(* rbtree_find_insert_unique_pos: "none" where the key is there already.   *)
FindUniquePos(x, k) ==
  LET at == Descend(x, Root(x), k, FALSE)
      prev == IF at[2] = "right" THEN at[1] ELSE PrevNode(x, at[1])
  IN IF Root(x) = Nil THEN <<HeadNode, "left">>
     ELSE IF (at[2] = "right" \/ at[1] # First(x)) /\ Key[prev] >= k THEN <<prev, "none">>
     ELSE at

FindHintedUniquePos(x, h, k) ==
  CASE h = HeadNode -> IF Root(x) # Nil /\ Key[Final(x)] < k THEN <<Final(x), "right">> ELSE FindUniquePos(x, k)
    [] h # HeadNode /\ k < Key[h] ->
         IF h = First(x) THEN <<h, "left">>
         ELSE IF Key[PrevNode(x, h)] < k THEN Between(x, PrevNode(x, h), h) ELSE FindUniquePos(x, k)
    [] h # HeadNode /\ Key[h] < k ->
         IF h = Final(x) THEN <<h, "right">>
         ELSE IF k < Key[NextNode(x, h)]
              THEN IF x.left[NextNode(x, h)] = Nil THEN <<NextNode(x, h), "left">> ELSE <<h, "right">>
              ELSE FindUniquePos(x, k)
    [] OTHER -> <<h, "none">>

-----------------------------------------------------------------------------
(* rbtree_init_head                                                        *)
Init ==
  /\ t = [left |-> [n \in Nodes \cup {HeadNode} |-> Nil],
          right |-> [n \in Nodes \cup {HeadNode} |-> IF n = HeadNode THEN HeadNode ELSE Nil],
          parent |-> [n \in Nodes \cup {HeadNode} |-> IF n = HeadNode THEN HeadNode ELSE Nil],
          color |-> [n \in Nodes \cup {HeadNode} |-> "black"]]
  /\ pc = "idle" /\ node = Nil /\ pos = Nil /\ right = TRUE /\ list = <<>>

(* rbtree_insert up to its loop.                                           *)
Linked(n, p, s) ==
  LET leaf == [t EXCEPT !.left[n] = Nil, !.right[n] = Nil, !.parent[n] = p, !.color[n] = "red"]
      hung == Link(leaf, p, s, n)
      first == IF s = "left" /\ p = First(t) THEN [hung EXCEPT !.parent[HeadNode] = n] ELSE hung
  IN IF s = "left"
     THEN IF p = HeadNode THEN [first EXCEPT !.right[HeadNode] = n] ELSE first
     ELSE IF p = Final(t) THEN [first EXCEPT !.right[HeadNode] = n] ELSE first

(* The loop is left: its local variables are gone.                         *)
Return == pc' = "idle" /\ node' = Nil /\ pos' = Nil

InsertAtPos(n, at) ==
  IF at[2] = "none"
  THEN UNCHANGED <<t, pc, node, pos>>
  ELSE /\ t' = Linked(n, at[1], at[2])
       /\ pc' = "insert" /\ node' = n /\ pos' = at[1]

Free(n) == pc = "idle" /\ n \notin ToSet(list)
PlaceOf(n) == IF n = HeadNode THEN Len(list) + 1 ELSE CHOOSE i \in DOMAIN list : list[i] = n

InsertMulti(n) ==
  /\ Free(n)
  /\ InsertAtPos(n, FindPos(t, Key[n]))
  /\ list' = Inserted(list, n, UpperBound(list, Key[n])) /\ UNCHANGED right

InsertLeftish(n) ==
  /\ Free(n)
  /\ InsertAtPos(n, FindLeftishPos(t, Key[n]))
  /\ list' = Inserted(list, n, LowerBound(list, Key[n])) /\ UNCHANGED right

InsertHinted(n, h) ==
  /\ Free(n)
  /\ InsertAtPos(n, FindHintedPos(t, h, Key[n]))
  /\ list' = Inserted(list, n, HintedPlace(list, Key[n], PlaceOf(h))) /\ UNCHANGED right

(* In a tree of unique keys.                                               *)
InsertUnique(n, at) ==
  /\ Free(n)
  /\ \A i \in 1 .. Len(list) - 1 : KeyAt(list, i) < KeyAt(list, i + 1)
  /\ InsertAtPos(n, at)
  /\ right' = (right /\ (at[2] = "none") = Has(list, Key[n]) /\ (at[2] = "none" => Key[at[1]] = Key[n]))
  /\ list' = IF Has(list, Key[n]) THEN list ELSE Inserted(list, n, LowerBound(list, Key[n]))

(* Mutant: the loop ends at the head without painting the root.            *)
InsertFix_RedRoot ==
  LET parent == t.parent[pos]
      s == SideOf(t, pos)
      uncle == t[Other(s)][parent]
      red == Paint(t, parent, "red")
      inner == node = t[Other(s)][pos]
      straight == IF inner THEN Rotate(red, pos, s) ELSE red
  IN /\ pc = "insert"
     /\ IF t.color[pos] = "black"
        THEN pc' = "idle" /\ UNCHANGED <<t, node, pos>>
        ELSE IF Red(t, uncle)
        THEN /\ t' = Paint(Paint(red, uncle, "black"), pos, "black")
             /\ node' = parent /\ pos' = t.parent[parent] /\ UNCHANGED pc
        ELSE /\ t' = Paint(Rotate(straight, parent, Other(s)), IF inner THEN node ELSE pos, "black")
             /\ Return
     /\ UNCHANGED <<right, list>>

(* One turn of rbtree_insert's loop, or its end.                           *)
InsertFix ==
  LET parent == t.parent[pos]
      s == SideOf(t, pos)
      uncle == t[Other(s)][parent]
      red == Paint(t, parent, "red")
      inner == node = t[Other(s)][pos]
      straight == IF inner THEN Rotate(red, pos, s) ELSE red
  IN /\ pc = "insert"
     /\ IF t.color[pos] = "black"
        THEN t' = Paint(t, Root(t), "black") /\ Return
        ELSE IF Red(t, uncle)
        THEN /\ t' = Paint(Paint(red, uncle, "black"), pos, "black")
             /\ node' = parent /\ pos' = t.parent[parent] /\ UNCHANGED pc
        ELSE /\ t' = Paint(Rotate(straight, parent, Other(s)), IF inner THEN node ELSE pos, "black")
             /\ Return
     /\ UNCHANGED <<right, list>>

-----------------------------------------------------------------------------
(* The head's links to the first and the last node, when that one goes.    *)
NewFirst(x, n, m) == IF n = First(t) THEN [x EXCEPT !.parent[HeadNode] = m] ELSE x

NewFinal(x, n, m) == IF n = Final(t) THEN [x EXCEPT !.right[HeadNode] = m] ELSE x

(* rbtree_remove up to its loop: what is left of the tree, where it lacks  *)
(* a black node (`fix` below `parent`), the colour that went, the node     *)
(* after the removed one.                                                  *)
Unlink(n) ==
  LET x == t
      p == x.parent[n]
      s == SideOf(x, n)
      next == Bound(x, x.right[n], "left")
      below == IF x.right[n] # Nil THEN x.right[n] ELSE x.left[n]
      after == IF n = Final(x) THEN HeadNode ELSE IF s = "left" THEN p ELSE RightParent(x, p)
      lift == Link(Adopt(x, below, p), p, s, below)
      (* two children: the next node takes its place and colour            *)
      taken == Adopt(Adopt(Link(Link(x, p, s, next), next, "left", x.left[n]), x.left[n], next), next, p)
      painted == Paint(taken, next, x.color[n])
      hole == x.parent[next]
      far == Adopt(Adopt(Link(Link(painted, hole, "left", x.right[next]), next, "right", x.right[n]),
                         x.right[n], next), x.right[next], hole)
      result(y, fix, parent, color, m) == [tree |-> y, fix |-> fix, parent |-> parent, color |-> color, next |-> m]
  IN CASE x.right[n] # Nil /\ x.left[n] # Nil /\ x.right[n] = next ->
            result(painted, x.right[next], next, x.color[next], next)
       [] x.right[n] # Nil /\ x.left[n] # Nil /\ x.right[n] # next ->
            result(far, x.right[next], hole, x.color[next], next)
       [] x.right[n] # Nil /\ x.left[n] = Nil -> result(NewFirst(lift, n, next), below, p, x.color[n], next)
       [] x.right[n] = Nil /\ x.left[n] # Nil ->
            result(NewFinal(lift, n, Bound(x, below, "right")), below, p, x.color[n], after)
       [] OTHER -> result(NewFinal(NewFirst(lift, n, p), n, p), Nil, p, x.color[n], after)

(* The links of a removed node mean nothing any more.                      *)
Dropped(x, n) == [x EXCEPT !.left[n] = Nil, !.right[n] = Nil, !.parent[n] = Nil, !.color[n] = "black"]

RemoveNode(n) ==
  /\ pc = "idle" /\ n \in ToSet(list)
  /\ LET u == Unlink(n)
     IN /\ t' = Dropped(u.tree, n)
        /\ right' = (right /\ u.next = IF n = Last(list) THEN HeadNode ELSE list[PlaceOf(n) + 1])
        /\ IF u.color = "black" /\ Root(u.tree) # Nil
           THEN pc' = "remove" /\ node' = u.fix /\ pos' = u.parent
           ELSE Return
  /\ list' = Removed(list, n)

(* One turn of rbtree_remove's loop, or its end.                           *)
RemoveFix ==
  LET s == IF t.left[pos] = node THEN "left" ELSE "right"
      o == Other(s)
      sibling == t[o][pos]
      x == IF Red(t, sibling) THEN Rotate(Paint(Paint(t, sibling, "black"), pos, "red"), pos, s) ELSE t
      w == x[o][pos]
      near == x[s][w]
      y == IF Red(x, x[o][w]) THEN x ELSE Rotate(Paint(Paint(x, near, "black"), w, "red"), w, o)
      z == y[o][pos]
      final == Paint(Paint(Paint(y, z, y.color[pos]), pos, "black"), y[o][z], "black")
  IN /\ pc = "remove"
     /\ IF node # Nil /\ (pos = HeadNode \/ t.color[node] = "red")
        THEN t' = Paint(t, node, "black") /\ Return
        ELSE IF Red(x, near) \/ Red(x, x[o][w])
        THEN t' = Rotate(final, pos, s) /\ Return
        ELSE t' = Paint(x, w, "red") /\ node' = pos /\ pos' = x.parent[pos] /\ UNCHANGED pc
     /\ UNCHANGED <<right, list>>

Fix == InsertFix \/ RemoveFix

Next ==
  \/ \E n \in Nodes :
       \/ InsertMulti(n) \/ InsertLeftish(n) \/ RemoveNode(n)
       \/ InsertUnique(n, FindUniquePos(t, Key[n]))
       \/ \E h \in ToSet(list) \cup {HeadNode} :
            InsertHinted(n, h) \/ InsertUnique(n, FindHintedUniquePos(t, h, Key[n]))
  \/ Fix

Spec == Init /\ [][Next]_vars

-----------------------------------------------------------------------------
RECURSIVE InOrder(_), BlackHeight(_)
InOrder(n) == IF n = Nil THEN <<>> ELSE InOrder(t.left[n]) \o <<n>> \o InOrder(t.right[n])
(* The black nodes down from n, or -1 where two ways differ.               *)
BlackHeight(n) ==
  IF n = Nil THEN 0
  ELSE LET l == BlackHeight(t.left[n])
       IN IF l = -1 \/ l # BlackHeight(t.right[n]) THEN -1
          ELSE l + IF t.color[n] = "black" THEN 1 ELSE 0

(* The tree holds the nodes that were inserted and not removed, in their   *)
(* order and each new one at its place among equals, also while it is      *)
(* being rebalanced; links up and down agree, and the head knows the first *)
(* and the last.                                                           *)
TreeIsList ==
  /\ Sorted(list)
  /\ InOrder(Root(t)) = list
  /\ \A n \in ToSet(list) \cup {HeadNode}, s \in Sides :
       (n # HeadNode \/ s = "left") /\ t[s][n] # Nil => t.parent[t[s][n]] = n
  /\ First(t) = IF list = <<>> THEN HeadNode ELSE list[1]
  /\ Final(t) = IF list = <<>> THEN HeadNode ELSE Last(list)

(* rbtree_next and rbtree_prev walk the list; the end is the head.         *)
Walks ==
  \A i \in DOMAIN list :
    /\ NextNode(t, list[i]) = IF i = Len(list) THEN HeadNode ELSE list[i + 1]
    /\ i > 1 => PrevNode(t, list[i]) = list[i - 1]
    /\ i = Len(list) => PrevNode(t, HeadNode) = list[i]

(* Between calls the tree is balanced: the root black, no red node with a  *)
(* red child, as many black nodes on every way down.                       *)
Balanced ==
  pc = "idle" =>
    /\ ~Red(t, Root(t)) /\ ~Red(t, HeadNode)
    /\ \A n \in ToSet(list) : Red(t, n) => ~Red(t, t.left[n]) /\ ~Red(t, t.right[n])
    /\ BlackHeight(Root(t)) # -1

(* The type invariant, the order of the tree and its balance.              *)
Inv == TypeOK /\ TreeIsList /\ Balanced

(* The searches find the bounds of every key, found or not, although equal *)
(* keys lie on both sides of a node.                                       *)
NodeAt(i) == IF i > Len(list) THEN HeadNode ELSE list[i]
SearchesExact ==
  pc = "idle" =>
    \A k \in {Key[n] : n \in Nodes} :
      LET lower == NodeAt(LowerBound(list, k))
          upper == NodeAt(UpperBound(list, k))
      IN /\ LowerBoundNode(t, k) = lower /\ UpperBoundNode(t, k) = upper
         /\ EqualRange(t, Root(t), HeadNode, k) = <<lower, upper>>

(* rbtree_remove returns the node after the removed one, a unique search   *)
(* the node that has the key already, if there is one.                     *)
CallsReturn == right

(* What the tree answers: the walks, the searches, the calls' results.     *)
AnswersExact == Walks /\ SearchesExact /\ CallsReturn
=============================================================================
