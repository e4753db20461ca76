---------------------------- MODULE CowPtrProofs ----------------------------
(***************************************************************************)
(* CowPtr for every number of threads, handles and bodies: the inductive   *)
(* invariant, and the safety properties that follow from it.               *)
(***************************************************************************)
EXTENDS CowPtr, FiniteSetTheorems, TLAPS

(* The owners of a body are finitely many.                                 *)
LEMMA OwnersFinite ==
  ASSUME NEW b
  PROVE  IsFiniteSet(Owners(b)) /\ Cardinality(Owners(b)) \in Nat
<1>1. IsFiniteSet(Handle \union Thread)
  BY CowAssumption, FS_Union
<1>2. Owners(b) \subseteq Handle \union Thread
  BY DEF Owners
<1> QED
  BY <1>1, <1>2, FS_Subset, FS_CardinalityType

(* One owner more is one reference more, one less is one less.             *)
LEMMA OwnersAdd ==
  ASSUME NEW b, NEW x, x \notin Owners(b)
  PROVE  Cardinality(Owners(b) \union {x}) = Cardinality(Owners(b)) + 1
BY OwnersFinite, FS_AddElement

(* One owner less is counted as one less.                                  *)
LEMMA OwnersRemove ==
  ASSUME NEW b, NEW x, x \in Owners(b)
  PROVE  Cardinality(Owners(b) \ {x}) = Cardinality(Owners(b)) - 1
BY OwnersFinite, FS_RemoveElement

(* An owner that changes its name (a thread installs the reference it      *)
(* held, a handle is moved from) leaves the number of owners as it was.    *)
LEMMA OwnersReplace ==
  ASSUME NEW b, NEW x, NEW y, x \in Owners(b), y \notin Owners(b)
  PROVE  Cardinality((Owners(b) \ {x}) \union {y}) = Cardinality(Owners(b))
<1>1. IsFiniteSet(Owners(b) \ {x})
  BY OwnersFinite, FS_RemoveElement
<1>2. Cardinality((Owners(b) \ {x}) \union {y}) = Cardinality(Owners(b) \ {x}) + 1
  BY <1>1, FS_AddElement
<1> QED
  BY <1>2, OwnersRemove, OwnersFinite

(* A body with a count of one has one owner, one with two owners counts    *)
(* at least two.                                                           *)
LEMMA SoleOwner ==
  ASSUME NEW b, NEW x, x \in Owners(b), Cardinality(Owners(b)) = 1
  PROVE  Owners(b) = {x}
BY OwnersFinite, FS_Singleton

-----------------------------------------------------------------------------
(* The invariant holds before the first handle is made.                    *)
LEMMA InitInv == Init => Inv
<1> SUFFICES ASSUME Init PROVE Inv
  OBVIOUS
<1>1. \A b \in Body : Owners(b) = {}
  BY CowAssumption DEF Init, Owners
<1> QED
  BY <1>1, CowAssumption DEF Init, Inv, TypeOK, PC, Shape, Exclusive, CountsExact, OneDeleter,
     WriterAlone, Snapshot

(* Where an owner's body is: it is allocated and its count is not zero.    *)
LEMMA OwnedAlive ==
  ASSUME Inv, NEW b \in Body, NEW x \in Owners(b)
  PROVE  b \in alive /\ refCount[b] \in Nat /\ refCount[b] # 0
<1>1. b \in alive
  BY DEF Inv, CountsExact
<1>2. Cardinality(Owners(b)) # 0
  BY OwnersFinite, FS_EmptySet
<1> QED
  BY <1>1, <1>2 DEF Inv, CountsExact, TypeOK

(* A thread that made a body its own is, itself or by its handle, the only *)
(* owner of that body.                                                     *)
LEMMA WriterOwns ==
  ASSUME Inv, NEW t \in Thread, pc[t] \in {"swap", "write"}
  PROVE  /\ dst[t] \in Handle
         /\ ptr[dst[t]] \in Body
         /\ Private(t) \in Body
         /\ Owners(Private(t)) = {IF pc[t] = "swap" THEN t ELSE dst[t]}
<1>1. dst[t] \in Handle /\ ptr[dst[t]] \in Body /\ Private(t) \in Body
  BY DEF Inv, Shape, TypeOK, Private
<1>2. (IF pc[t] = "swap" THEN t ELSE dst[t]) \in Owners(Private(t))
  BY <1>1 DEF Owners, Private
<1>3. Cardinality(Owners(Private(t))) = 1
  BY <1>1, <1>2 DEF Inv, CountsExact, WriterAlone
<1> QED
  BY <1>1, <1>2, <1>3, SoleOwner

(* Dropping a reference that exists keeps the deleters right: the thread   *)
(* that reaches zero, and only that one, becomes the deleter.              *)
LEMMA UnrefDeleter ==
  ASSUME Inv, NEW t \in Thread, NEW b \in Body \union {Null},
         garbage[t] = Null, Unref(t, b), alive' = alive,
         b # Null => b \in alive /\ refCount[b] \in Nat \ {0}
  PROVE  OneDeleter'
<1> USE DEF Inv, Unref
<1>1. CASE b = Null
  BY <1>1 DEF OneDeleter, TypeOK
<1>2. CASE b # Null
  <2>1. \A u \in Thread : garbage[u] # b
    BY <1>2 DEF OneDeleter
  <2>2. \A c \in Body : refCount'[c] = IF c = b THEN refCount[b] - 1 ELSE refCount[c]
    BY <1>2 DEF TypeOK
  <2>3. \A u \in Thread : garbage'[u] = IF u # t THEN garbage[u]
                                         ELSE IF refCount[b] = 1 THEN b ELSE Null
    BY <1>2 DEF TypeOK
  <2>4. ASSUME NEW u \in Thread, garbage'[u] # Null
        PROVE  /\ garbage'[u] \in alive'
               /\ refCount'[garbage'[u]] = 0
               /\ \A w \in Thread \ {u} : garbage'[w] # garbage'[u]
    <3>1. CASE u = t
      <4>1. garbage'[u] = b /\ refCount[b] = 1
        BY <2>3, <2>4, <3>1
      <4>2. \A w \in Thread \ {u} : garbage'[w] # b
        BY <2>1, <2>3, <3>1
      <4> QED
        BY <1>2, <2>2, <4>1, <4>2
    <3>2. CASE u # t
      <4>1. garbage'[u] = garbage[u] /\ garbage[u] # b /\ garbage[u] # Null
        BY <2>1, <2>3, <2>4, <3>2
      <4>2. garbage[u] \in alive /\ garbage[u] \in Body /\ refCount[garbage[u]] = 0
        BY <4>1 DEF OneDeleter, TypeOK
      <4>3. \A w \in Thread \ {u} : garbage'[w] # garbage[u]
        BY <2>3, <4>1, <3>2 DEF OneDeleter
      <4> QED
        BY <2>2, <4>1, <4>2, <4>3
    <3> QED
      BY <3>1, <3>2
  <2>5. ASSUME NEW c \in alive', refCount'[c] = 0
        PROVE  \E u \in Thread : garbage'[u] = c
    <3>1. CASE c = b
      BY <1>2, <2>2, <2>3, <2>5, <3>1 DEF TypeOK
    <3>2. CASE c # b
      <4>1. PICK u \in Thread : garbage[u] = c
        BY <2>2, <2>5, <3>2 DEF OneDeleter, TypeOK
      <4>2. u # t
        BY <4>1, <2>5, CowAssumption DEF TypeOK
      <4> QED
        BY <2>3, <4>1, <4>2
    <3> QED
      BY <3>1, <3>2
  <2> QED
    BY <2>4, <2>5 DEF OneDeleter
<1> QED
  BY <1>1, <1>2

(* A new body has its maker for its only owner.                            *)
LEMMA MakeInv ==
  ASSUME Inv, NEW t \in Thread, NEW h \in Handle, NEW b \in Body, NEW v \in Value,
         Make(t, h, b, v)
  PROVE  Inv'
<1> USE DEF Inv, Make, Allocate
<1>1. TypeOK'
  BY DEF TypeOK
<1>2. \A c : Owners(c)' = IF c = b THEN Owners(c) \union {h}
                          ELSE IF c = Null THEN Owners(c) \ {h} ELSE Owners(c)
  BY CowAssumption DEF TypeOK, Owners
<1>3. Owners(b) = {}
  BY DEF CountsExact
<1>4. Cardinality({h}) = 1
  BY FS_Singleton
<1>5. CountsExact'
  <2>1. ASSUME NEW c \in Body
        PROVE  IF c \in alive' THEN refCount'[c] = Cardinality(Owners(c)')
                               ELSE Owners(c)' = {}
    BY <1>2, <1>3, <1>4, CowAssumption DEF CountsExact, TypeOK
  <2> QED
    BY <2>1, <1>1 DEF CountsExact, TypeOK
<1>6. \A u \in Thread : dst[u] # h /\ src[u] # h
  BY DEF Unused
<1>7. Shape'
  BY <1>6 DEF Shape, TypeOK
<1>8. Exclusive'
  BY DEF Exclusive
<1>9. OneDeleter'
  BY DEF OneDeleter, TypeOK
<1>10. \A u \in Thread : dst[u] # Null => ptr[dst[u]] # b
  BY <1>3 DEF Owners, TypeOK
<1>11. \A u \in Thread : held[u] # b
  BY <1>3 DEF Owners
<1>12. WriterAlone'
  BY <1>6, <1>10 DEF WriterAlone, Private, TypeOK, Shape
<1>13. Snapshot'
  BY <1>6, <1>10, <1>11 DEF Snapshot, TypeOK, Shape
<1> QED
  BY <1>1, <1>5, <1>7, <1>8, <1>9, <1>12, <1>13

(* Copying a handle adds an owner and a count.                             *)
LEMMA CopyConstructInv ==
  ASSUME Inv, NEW t \in Thread, NEW h \in Handle, NEW g \in Handle,
         CopyConstruct(t, h, g)
  PROVE  Inv'
<1> USE DEF Inv, CopyConstruct, Ref
<1>1. TypeOK'
  BY DEF TypeOK
<1>2. \A c \in Body : Owners(c)' = IF c = ptr[g] THEN Owners(c) \union {h} ELSE Owners(c)
  BY CowAssumption DEF TypeOK, Owners
<1>3. \A c \in Body : h \notin Owners(c)
  BY CowAssumption DEF TypeOK, Owners
<1>4. ptr[g] # Null => ptr[g] \in Body /\ g \in Owners(ptr[g])
  BY DEF TypeOK, Owners
<1>5. ptr[g] # Null => ptr[g] \in alive /\ refCount[ptr[g]] # 0
  BY <1>4, OwnedAlive
<1>6. CountsExact'
  <2>1. ASSUME NEW c \in Body
        PROVE  IF c \in alive' THEN refCount'[c] = Cardinality(Owners(c)')
                               ELSE Owners(c)' = {}
    BY <1>2, <1>3, <1>5, OwnersAdd, CowAssumption DEF CountsExact, TypeOK
  <2> QED
    BY <2>1, <1>1 DEF CountsExact, TypeOK
<1>7. \A u \in Thread : dst[u] # h /\ src[u] # h
  BY DEF Unused
<1>8. \A u \in Thread : pc[u] \in {"swap", "write"} => Private(u) # ptr[g]
  <2> SUFFICES ASSUME NEW u \in Thread, pc[u] \in {"swap", "write"}, Private(u) = ptr[g] PROVE FALSE
    OBVIOUS
  <2>1. Owners(ptr[g]) = {IF pc[u] = "swap" THEN u ELSE dst[u]} /\ ptr[g] \in Body
    BY WriterOwns
  <2> QED
    BY <2>1, <1>4, CowAssumption DEF Unchanging
<1>9. Shape'
  BY <1>7 DEF Shape, TypeOK
<1>10. Exclusive'
  BY DEF Exclusive
<1>11. OneDeleter'
  BY <1>5 DEF OneDeleter, TypeOK
<1>12. WriterAlone'
  BY <1>7, <1>8 DEF WriterAlone, Private, TypeOK, Shape
<1>13. Snapshot'
  BY <1>7 DEF Snapshot, TypeOK, Shape
<1> QED
  BY <1>1, <1>6, <1>9, <1>10, <1>11, <1>12, <1>13

(* The assignment counts the new body before it leaves the old one.        *)
LEMMA AssignRefInv ==
  ASSUME Inv, NEW t \in Thread, NEW h \in Handle, NEW g \in Handle,
         AssignRef(t, h, g)
  PROVE  Inv'
<1> USE DEF Inv, AssignRef, Ref, Ready
<1>1. TypeOK'
  BY DEF TypeOK, PC
<1>2. held[t] = Null
  BY DEF Shape
<1>3. \A c \in Body : Owners(c)' = IF c = ptr[g] THEN Owners(c) \union {t} ELSE Owners(c)
  BY <1>2, CowAssumption DEF TypeOK, Owners
<1>4. \A c \in Body : t \notin Owners(c)
  BY <1>2, CowAssumption DEF TypeOK, Owners
<1>5. ptr[g] # Null => ptr[g] \in Body /\ g \in Owners(ptr[g])
  BY DEF TypeOK, Owners
<1>6. ptr[g] # Null => ptr[g] \in alive /\ refCount[ptr[g]] # 0
  BY <1>5, OwnedAlive
<1>7. CountsExact'
  <2>1. ASSUME NEW c \in Body
        PROVE  IF c \in alive' THEN refCount'[c] = Cardinality(Owners(c)')
                               ELSE Owners(c)' = {}
    BY <1>3, <1>4, <1>6, OwnersAdd, CowAssumption DEF CountsExact, TypeOK
  <2> QED
    BY <2>1, <1>1 DEF CountsExact, TypeOK
<1>8. \A u \in Thread : dst[u] # h /\ src[u] # h /\ dst[u] # g
  BY DEF Unused, Unchanging
<1>9. \A u \in Thread : pc[u] \in {"swap", "write"} => Private(u) # ptr[g]
  <2> SUFFICES ASSUME NEW u \in Thread, pc[u] \in {"swap", "write"}, Private(u) = ptr[g] PROVE FALSE
    OBVIOUS
  <2>1. Owners(ptr[g]) = {IF pc[u] = "swap" THEN u ELSE dst[u]} /\ ptr[g] \in Body
    BY WriterOwns
  <2> QED
    BY <2>1, <1>5, <1>8, CowAssumption
<1>10. Shape'
  BY <1>2, <1>8, CowAssumption DEF Shape, TypeOK
<1>11. Exclusive'
  BY <1>8 DEF Exclusive, TypeOK
<1>12. OneDeleter'
  BY <1>6 DEF OneDeleter, TypeOK
<1>13. WriterAlone'
  BY <1>8, <1>9 DEF WriterAlone, Private, TypeOK, Shape
<1>14. Snapshot'
  BY <1>8 DEF Snapshot, TypeOK, Shape
<1> QED
  BY <1>1, <1>7, <1>10, <1>11, <1>12, <1>13, <1>14

(* The assignment then gives up the handle's old body.                     *)
LEMMA AssignResetInv ==
  ASSUME Inv, NEW t \in Thread, AssignReset(t)
  PROVE  Inv'
<1> DEFINE h == dst[t]
           old == ptr[h]
           new == held[t]
<1> USE DEF Inv, AssignReset, At, Finish, Unref
<1>1. h \in Handle /\ new \in Body \union {Null} /\ old \in Body \union {Null}
  BY DEF Shape, TypeOK
<1>2. TypeOK'
  <2>1. old # Null => old \in Body /\ h \in Owners(old)
    BY <1>1 DEF Owners
  <2>2. old # Null => refCount[old] \in Nat \ {0}
    BY <2>1, OwnedAlive
  <2> QED
    BY <1>1, <2>2 DEF TypeOK, PC
<1>a. /\ t \in Thread /\ t \notin Handle /\ h \notin Thread /\ held[t] = new /\ ptr[h] = old
      /\ Null \notin Body /\ Thread \intersect Handle = {}
  BY <1>1, CowAssumption
<1>b. /\ \A x \in Handle : ptr'[x] = IF x = h THEN new ELSE ptr[x]
      /\ \A x \in Thread : held'[x] = IF x = t THEN Null ELSE held[x]
  BY <1>1 DEF TypeOK
<1> HIDE DEF AssignReset, Inv, Finish, Unref, At, h, old, new
<1>3. \A c \in Body : c = old /\ c = new => Owners(c)' = Owners(c) \ {t}
  BY <1>1, <1>a, <1>b DEF Owners
<1>4. \A c \in Body : c = old /\ c # new => Owners(c)' = Owners(c) \ {h}
  BY <1>1, <1>a, <1>b DEF Owners
<1>5. \A c \in Body : c # old /\ c = new => Owners(c)' = (Owners(c) \ {t}) \union {h}
  BY <1>1, <1>a, <1>b DEF Owners
<1>6. \A c \in Body : c # old /\ c # new => Owners(c)' = Owners(c)
  BY <1>1, <1>a, <1>b DEF Owners
<1> USE DEF Inv, AssignReset, At, Finish, Unref, h, old, new
<1>7. /\ old # Null => h \in Owners(old)
      /\ new # Null => t \in Owners(new)
      /\ \A c \in Body : c # old => h \notin Owners(c)
  BY <1>1, CowAssumption DEF TypeOK, Owners
<1>8. old # Null => old \in alive /\ refCount[old] \in Nat \ {0}
  BY <1>1, <1>7, OwnedAlive
<1>9. CountsExact'
  <2>1. ASSUME NEW c \in Body
        PROVE  IF c \in alive' THEN refCount'[c] = Cardinality(Owners(c)')
                               ELSE Owners(c)' = {}
    <3>1. CASE c = old
      <4>1. refCount'[c] = refCount[c] - 1
        BY <3>1, CowAssumption DEF TypeOK
      <4>2. Cardinality(Owners(c)') = Cardinality(Owners(c)) - 1
        BY <3>1, <1>3, <1>4, <1>7, OwnersRemove, CowAssumption
      <4> QED
        BY <3>1, <4>1, <4>2, <1>8, CowAssumption DEF CountsExact
    <3>2. CASE c # old
      <4>1. refCount'[c] = refCount[c]
        BY <3>2, <1>1 DEF TypeOK
      <4>2. Cardinality(Owners(c)') = Cardinality(Owners(c))
        BY <3>2, <1>5, <1>6, <1>7, OwnersReplace, CowAssumption
      <4>3. c \notin alive => Owners(c)' = {}
        BY <3>2, <1>5, <1>6, <1>7, CowAssumption DEF CountsExact
      <4> QED
        BY <4>1, <4>2, <4>3 DEF CountsExact
    <3> QED
      BY <3>1, <3>2
  <2> QED
    BY <2>1, <1>2 DEF CountsExact, TypeOK
<1>10. \A u \in Thread : u # t => dst[u] # h /\ src[u] # h
  BY CowAssumption DEF Exclusive, Shape
<1>11. Shape'
  BY <1>1, <1>10, CowAssumption DEF Shape, TypeOK
<1>12. Exclusive'
  BY <1>10, CowAssumption DEF Exclusive, TypeOK, Shape
<1>13. OneDeleter'
  BY <1>1, <1>8, UnrefDeleter DEF Shape
<1>14. \A u \in Thread : pc[u] \in {"swap", "write"} => Private(u) # old
  <2> SUFFICES ASSUME NEW u \in Thread, pc[u] \in {"swap", "write"}, Private(u) = old PROVE FALSE
    OBVIOUS
  <2>1. Owners(old) = {IF pc[u] = "swap" THEN u ELSE dst[u]} /\ old \in Body
    BY WriterOwns
  <2> QED
    BY <2>1, <1>1, <1>7, <1>10, CowAssumption
<1>15. WriterAlone'
  BY <1>1, <1>10, <1>14 DEF WriterAlone, Private, TypeOK, Shape
<1>16. Snapshot'
  BY <1>1, <1>10 DEF Snapshot, TypeOK, Shape
<1> QED
  BY <1>2, <1>9, <1>11, <1>12, <1>13, <1>15, <1>16

(* A move gives up the target's body and hands the source's over.          *)
LEMMA MoveAssignInv ==
  ASSUME Inv, NEW t \in Thread, NEW h \in Handle, NEW g \in Handle,
         MoveAssign(t, h, g)
  PROVE  Inv'
<1> DEFINE old == ptr[h]
           new == ptr[g]
<1> USE DEF Inv, MoveAssign, Ready
<1>1. new \in Body \union {Null} /\ old \in Body \union {Null}
  BY DEF TypeOK
<1>2. /\ old # Null => old \in Body /\ h \in Owners(old)
      /\ new # Null => new \in Body /\ g \in Owners(new)
      /\ \A c \in Body : c # old => h \notin Owners(c)
  BY <1>1, CowAssumption DEF Owners
<1>3. old # Null => old \in alive /\ refCount[old] \in Nat \ {0}
  BY <1>2, OwnedAlive
<1>4. TypeOK'
  BY <1>1, <1>3 DEF TypeOK, Unref
<1>a. /\ g \notin Thread /\ h \notin Thread /\ h # g /\ ptr[g] = new /\ ptr[h] = old
      /\ Null \notin Body /\ Thread \intersect Handle = {}
  BY <1>1, CowAssumption
<1>b. /\ \A x \in Handle : ptr'[x] = IF x = g THEN Null ELSE IF x = h THEN new ELSE ptr[x]
      /\ held' = held
  BY <1>1 DEF TypeOK
<1> HIDE DEF MoveAssign, Inv, Ready, old, new
<1>5. \A c \in Body : c = old /\ c = new => Owners(c)' = Owners(c) \ {g}
  BY <1>1, <1>a, <1>b DEF Owners
<1>6. \A c \in Body : c = old /\ c # new => Owners(c)' = Owners(c) \ {h}
  BY <1>1, <1>a, <1>b DEF Owners
<1>7. \A c \in Body : c # old /\ c = new => Owners(c)' = (Owners(c) \ {g}) \union {h}
  BY <1>1, <1>a, <1>b DEF Owners
<1>8. \A c \in Body : c # old /\ c # new => Owners(c)' = Owners(c)
  BY <1>1, <1>a, <1>b DEF Owners
<1> USE DEF Inv, MoveAssign, Ready, old, new
<1>9. CountsExact'
  <2>1. ASSUME NEW c \in Body
        PROVE  IF c \in alive' THEN refCount'[c] = Cardinality(Owners(c)')
                               ELSE Owners(c)' = {}
    <3>1. CASE c = old
      <4>1. refCount'[c] = refCount[c] - 1
        BY <3>1, CowAssumption DEF TypeOK, Unref
      <4>2. Cardinality(Owners(c)') = Cardinality(Owners(c)) - 1
        BY <3>1, <1>2, <1>5, <1>6, OwnersRemove, CowAssumption
      <4> QED
        BY <3>1, <4>1, <4>2, <1>3, CowAssumption DEF CountsExact
    <3>2. CASE c # old
      <4>1. refCount'[c] = refCount[c]
        BY <3>2, <1>1 DEF TypeOK, Unref
      <4>2. Cardinality(Owners(c)') = Cardinality(Owners(c))
        BY <3>2, <1>2, <1>7, <1>8, OwnersReplace, CowAssumption
      <4>3. c \notin alive => Owners(c)' = {}
        BY <3>2, <1>2, <1>7, <1>8, CowAssumption DEF CountsExact
      <4> QED
        BY <4>1, <4>2, <4>3 DEF CountsExact
    <3> QED
      BY <3>1, <3>2
  <2> QED
    BY <2>1, <1>4 DEF CountsExact, TypeOK
<1>10. \A u \in Thread : dst[u] # h /\ src[u] # h /\ dst[u] # g /\ src[u] # g
  BY DEF Unused
<1>11. Shape'
  BY <1>10 DEF Shape, TypeOK, Unref
<1>12. Exclusive'
  BY DEF Exclusive
<1>13. OneDeleter'
  BY <1>1, <1>3, UnrefDeleter
<1>14. \A u \in Thread : pc[u] \in {"swap", "write"} => Private(u) # old
  <2> SUFFICES ASSUME NEW u \in Thread, pc[u] \in {"swap", "write"}, Private(u) = old PROVE FALSE
    OBVIOUS
  <2>1. Owners(old) = {IF pc[u] = "swap" THEN u ELSE dst[u]} /\ old \in Body
    BY WriterOwns
  <2> QED
    BY <2>1, <1>2, <1>10, CowAssumption
<1>15. WriterAlone'
  BY <1>1, <1>10, <1>14 DEF WriterAlone, Private, TypeOK, Shape, Unref
<1>16. Snapshot'
  BY <1>10 DEF Snapshot, TypeOK, Shape
<1> QED
  BY <1>4, <1>9, <1>11, <1>12, <1>13, <1>15, <1>16

(* A destructor takes its handle off the count.                            *)
LEMMA DestroyInv ==
  ASSUME Inv, NEW t \in Thread, NEW h \in Handle, Destroy(t, h)
  PROVE  Inv'
<1> DEFINE old == ptr[h]
<1> USE DEF Inv, Destroy, Ready
<1>1. old \in Body /\ h \in Owners(old)
  BY DEF TypeOK, Owners
<1>2. old \in alive /\ refCount[old] \in Nat \ {0}
  BY <1>1, OwnedAlive
<1>3. TypeOK'
  BY <1>1, <1>2 DEF TypeOK, Unref
<1>4. \A c \in Body : Owners(c)' = IF c = old THEN Owners(c) \ {h} ELSE Owners(c)
  BY <1>1, CowAssumption DEF TypeOK, Owners
<1>5. CountsExact'
  <2>1. ASSUME NEW c \in Body
        PROVE  IF c \in alive' THEN refCount'[c] = Cardinality(Owners(c)')
                               ELSE Owners(c)' = {}
    <3>1. refCount'[c] = IF c = old THEN refCount[c] - 1 ELSE refCount[c]
      BY <1>1 DEF TypeOK, Unref
    <3>2. Cardinality(Owners(old) \ {h}) = Cardinality(Owners(old)) - 1
      BY <1>1, OwnersRemove
    <3> QED
      BY <1>2, <1>4, <3>1, <3>2 DEF CountsExact
  <2> QED
    BY <2>1, <1>3 DEF CountsExact, TypeOK
<1>6. \A u \in Thread : dst[u] # h /\ src[u] # h
  BY DEF Unused
<1>7. Shape'
  BY <1>6 DEF Shape, TypeOK, Unref
<1>8. Exclusive'
  BY DEF Exclusive
<1>9. OneDeleter'
  BY <1>1, <1>2, UnrefDeleter
<1>10. \A u \in Thread : pc[u] \in {"swap", "write"} => Private(u) # old
  <2> SUFFICES ASSUME NEW u \in Thread, pc[u] \in {"swap", "write"}, Private(u) = old PROVE FALSE
    OBVIOUS
  <2>1. Owners(old) = {IF pc[u] = "swap" THEN u ELSE dst[u]}
    BY WriterOwns
  <2> QED
    BY <2>1, <1>1, <1>6, CowAssumption
<1>11. WriterAlone'
  BY <1>1, <1>6, <1>10 DEF WriterAlone, Private, TypeOK, Shape, Unref
<1>12. Snapshot'
  BY <1>6 DEF Snapshot, TypeOK, Shape
<1> QED
  BY <1>3, <1>5, <1>7, <1>8, <1>9, <1>11, <1>12

(* A body is deleted by the thread that counted it down to none.           *)
LEMMA DeleteInv ==
  ASSUME Inv, NEW t \in Thread, Delete(t)
  PROVE  Inv'
<1> DEFINE b == garbage[t]
<1> USE DEF Inv, Delete
<1>1. b \in Body /\ b \in alive /\ refCount[b] = 0
  BY DEF OneDeleter, TypeOK
<1>2. Owners(b) = {}
  BY <1>1, OwnedAlive
<1>3. \A c : Owners(c)' = Owners(c)
  BY DEF Owners
<1>4. TypeOK'
  BY DEF TypeOK
<1>5. CountsExact'
  BY <1>2, <1>3 DEF CountsExact, TypeOK
<1>6. Shape'
  BY DEF Shape, TypeOK
<1>7. Exclusive'
  BY DEF Exclusive
<1>8. OneDeleter'
  BY <1>1 DEF OneDeleter, TypeOK
<1>9. WriterAlone'
  BY DEF WriterAlone, Private
<1>10. Snapshot'
  BY DEF Snapshot
<1> QED
  BY <1>4, <1>5, <1>6, <1>7, <1>8, <1>9, <1>10

(* The steps that change neither a handle nor the heap.                    *)
LEMMA LocalInv ==
  ASSUME Inv, NEW t \in Thread, NEW g \in Handle,
         BeginRead(t, g) \/ EndRead(t) \/ Deref(t, g) \/ CloneThrows(t)
  PROVE  Inv'
<1> USE DEF Inv, BeginRead, EndRead, Deref, CloneThrows, Ready, At, Finish, heap
<1>1. TypeOK'
  BY DEF TypeOK, PC
<1>2. \A c : Owners(c)' = Owners(c)
  BY DEF Owners
<1>3. CountsExact'
  BY <1>2 DEF CountsExact
<1>4. Shape'
  BY CowAssumption DEF Shape, TypeOK
<1>5. Exclusive'
  BY CowAssumption DEF Exclusive, TypeOK, Unused, Unchanging
<1>6. OneDeleter'
  BY DEF OneDeleter
<1>7. ptr[g] # Null => ptr[g] \in Body /\ g \in Owners(ptr[g])
  BY DEF TypeOK, Owners
<1>8. ptr[g] # Null => refCount[ptr[g]] \in Nat /\ refCount[ptr[g]] # 0
  BY <1>7, OwnedAlive
<1>9. WriterAlone'
  BY <1>8 DEF WriterAlone, Private, TypeOK
<1>10. Snapshot'
  BY DEF Snapshot, TypeOK
<1> QED
  BY <1>1, <1>3, <1>4, <1>5, <1>6, <1>9, <1>10

(* A write to a shared body copies it first.                               *)
LEMMA CloneInv ==
  ASSUME Inv, NEW t \in Thread, NEW b \in Body, Clone(t, b)
  PROVE  Inv'
<1> USE DEF Inv, Clone, Allocate, At
<1>1. dst[t] \in Handle /\ ptr[dst[t]] \in Body /\ held[t] = Null
  BY DEF Shape, TypeOK
<1>2. TypeOK'
  BY <1>1 DEF TypeOK, PC
<1>3. \A c \in Body : Owners(c)' = IF c = b THEN Owners(c) \union {t} ELSE Owners(c)
  BY <1>1, CowAssumption DEF TypeOK, Owners
<1>4. Owners(b) = {}
  BY DEF CountsExact
<1>5. Cardinality({t}) = 1
  BY FS_Singleton
<1>6. CountsExact'
  <2>1. ASSUME NEW c \in Body
        PROVE  IF c \in alive' THEN refCount'[c] = Cardinality(Owners(c)')
                               ELSE Owners(c)' = {}
    BY <1>3, <1>4, <1>5 DEF CountsExact, TypeOK
  <2> QED
    BY <2>1, <1>2 DEF CountsExact, TypeOK
<1>7. Shape'
  BY <1>1, CowAssumption DEF Shape, TypeOK
<1>8. Exclusive'
  BY DEF Exclusive
<1>9. OneDeleter'
  BY DEF OneDeleter, TypeOK
<1>10. /\ \A h \in Handle : ptr[h] # b
       /\ \A u \in Thread : held[u] # b
  BY <1>4 DEF Owners
<1>11. WriterAlone'
  BY <1>10 DEF WriterAlone, Private, TypeOK, Shape
<1>12. Snapshot'
  BY <1>1, <1>10, CowAssumption DEF Snapshot, TypeOK, Shape
<1> QED
  BY <1>2, <1>6, <1>7, <1>8, <1>9, <1>11, <1>12

(* Then the shared body is given up.                                       *)
LEMMA CloneResetInv ==
  ASSUME Inv, NEW t \in Thread, CloneReset(t)
  PROVE  Inv'
<1> DEFINE h == dst[t]
           old == ptr[h]
           new == held[t]
<1> USE DEF Inv, CloneReset, At
<1>1. h \in Handle /\ new \in Body /\ old \in Body
  BY DEF Shape, TypeOK
<1>2. h \in Owners(old) /\ t \in Owners(new) /\ \A c \in Body : c # old => h \notin Owners(c)
  BY <1>1, CowAssumption DEF TypeOK, Owners
<1>3. old \in alive /\ refCount[old] \in Nat \ {0}
  BY <1>1, <1>2, OwnedAlive
<1>4. TypeOK'
  BY <1>1, <1>3 DEF TypeOK, PC, Unref
<1>5. Owners(new) = {t} /\ new # old
  BY <1>1, <1>2, WriterOwns, CowAssumption DEF Private
<1>6. \A c \in Body : Owners(c)' = IF c = old THEN Owners(c) \ {h}
                                  ELSE IF c = new THEN {h} ELSE Owners(c)
  BY <1>1, <1>5, CowAssumption DEF TypeOK, Owners
<1>7. CountsExact'
  <2>1. ASSUME NEW c \in Body
        PROVE  IF c \in alive' THEN refCount'[c] = Cardinality(Owners(c)')
                               ELSE Owners(c)' = {}
    <3>1. refCount'[c] = IF c = old THEN refCount[c] - 1 ELSE refCount[c]
      BY <1>1, CowAssumption DEF TypeOK, Unref
    <3>2. Cardinality(Owners(old) \ {h}) = Cardinality(Owners(old)) - 1
      BY <1>2, OwnersRemove
    <3>3. Cardinality({h}) = Cardinality({t})
      BY FS_Singleton
    <3> QED
      BY <1>3, <1>5, <1>6, <3>1, <3>2, <3>3 DEF CountsExact
  <2> QED
    BY <2>1, <1>4 DEF CountsExact, TypeOK
<1>8. \A u \in Thread : u # t => dst[u] # h /\ src[u] # h
  BY <1>1, CowAssumption DEF Exclusive
<1>9. Shape'
  BY <1>1, <1>8, CowAssumption DEF Shape, TypeOK, Unref
<1>10. Exclusive'
  BY DEF Exclusive
<1>11. OneDeleter'
  BY <1>1, <1>3, UnrefDeleter
<1>12. \A u \in Thread : pc[u] \in {"swap", "write"} => Private(u) # old
  <2> SUFFICES ASSUME NEW u \in Thread, pc[u] \in {"swap", "write"}, Private(u) = old PROVE FALSE
    OBVIOUS
  <2>1. Owners(old) = {IF pc[u] = "swap" THEN u ELSE dst[u]} /\ old \in Body
    BY WriterOwns
  <2> QED
    <3>1. CASE u = t
      BY <3>1, <1>5 DEF Private
    <3>2. CASE u # t
      BY <2>1, <3>2, <1>1, <1>2, <1>8, CowAssumption
    <3> QED
      BY <3>1, <3>2
<1>13. WriterAlone'
  BY <1>1, <1>5, <1>8, <1>12, CowAssumption DEF WriterAlone, Private, TypeOK, Shape, Unref
<1>14. Snapshot'
  BY <1>1, <1>8 DEF Snapshot, TypeOK, Shape
<1> QED
  BY <1>4, <1>7, <1>9, <1>10, <1>11, <1>13, <1>14

(* A write goes to a body with one owner.                                  *)
LEMMA WriteInv ==
  ASSUME Inv, NEW t \in Thread, NEW v \in Value, Write(t, v)
  PROVE  Inv'
<1> DEFINE b == ptr[dst[t]]
<1> USE DEF Inv, Write, At, Finish
<1>1. b \in Body /\ dst[t] \in Handle /\ Owners(b) = {dst[t]}
  BY WriterOwns DEF Private
<1>2. TypeOK'
  BY DEF TypeOK, PC
<1>3. \A c : Owners(c)' = Owners(c)
  BY DEF Owners
<1>4. CountsExact'
  BY <1>3 DEF CountsExact
<1>5. Shape'
  BY CowAssumption DEF Shape, TypeOK
<1>6. Exclusive'
  BY CowAssumption DEF Exclusive, TypeOK
<1>7. OneDeleter'
  BY DEF OneDeleter
<1>8. WriterAlone'
  BY DEF WriterAlone, Private, TypeOK
<1>9. \A u \in Thread : u # t /\ pc[u] = "swap" => held[u] # b /\ ptr[dst[u]] # b
  <2> SUFFICES ASSUME NEW u \in Thread, u # t, pc[u] = "swap",
                      held[u] = b \/ ptr[dst[u]] = b
               PROVE  FALSE
    OBVIOUS
  <2>1. u \in Owners(b) \/ dst[u] \in Owners(b)
    BY DEF Owners, Shape, TypeOK
  <2>2. dst[u] # dst[t]
    BY CowAssumption DEF Exclusive, Shape
  <2> QED
    BY <1>1, <2>1, <2>2, CowAssumption
<1>10. Snapshot'
  BY <1>1, <1>9 DEF Snapshot, TypeOK, Shape
<1> QED
  BY <1>2, <1>4, <1>5, <1>6, <1>7, <1>8, <1>10

-----------------------------------------------------------------------------
(* Every step keeps the invariant.                                         *)
LEMMA StepInv == Inv /\ [Next]_vars => Inv'
<1> SUFFICES ASSUME Inv, [Next]_vars PROVE Inv'
  OBVIOUS
<1>1. CASE UNCHANGED vars
  <2>1. \A c : Owners(c)' = Owners(c)
    BY <1>1 DEF vars, Owners
  <2> QED
    BY <1>1, <2>1 DEF vars, Inv, TypeOK, Shape, Exclusive, CountsExact, OneDeleter,
       WriterAlone, Private, Snapshot
<1>2. ASSUME NEW t \in Thread, Begin(t)
      PROVE  Inv'
  BY <1>2, MakeInv, CopyConstructInv, AssignRefInv, MoveAssignInv, DestroyInv, LocalInv
     DEF Begin
<1>3. ASSUME NEW t \in Thread, Continue(t)
      PROVE  Inv'
  <2>1. CASE EndRead(t) \/ CloneThrows(t)
    <3>1. PICK h \in Handle : TRUE
      BY <2>1 DEF Inv, EndRead, CloneThrows, At, Shape, TypeOK
    <3> QED
      BY <2>1, <3>1, LocalInv
  <2> QED
    BY <1>3, <2>1, AssignResetInv, DeleteInv, CloneInv, CloneResetInv, WriteInv DEF Continue
<1> QED
  BY <1>1, <1>2, <1>3 DEF Next

(* Inv holds of every reachable state.                                     *)
THEOREM Invariance == Spec => []Inv
BY InitInv, StepInv, PTL DEF Spec

(* Type correctness.                                                       *)
THEOREM TypeCorrect == Spec => []TypeOK
<1>1. Inv => TypeOK
  BY DEF Inv
<1> QED
  BY <1>1, Invariance, PTL

(* The reference counts are exact and no handle or thread refers to memory *)
(* that is not allocated.                                                  *)
THEOREM CountsAreExact == Spec => []CountsExact
<1>1. Inv => CountsExact
  BY DEF Inv
<1> QED
  BY <1>1, Invariance, PTL

(* A body without owners is deleted by exactly one thread.                 *)
THEOREM DeletedOnce == Spec => []OneDeleter
<1>1. Inv => OneDeleter
  BY DEF Inv
<1> QED
  BY <1>1, Invariance, PTL

(* A write in place never races with another access to the body.           *)
THEOREM RaceFree == Spec => []NoDataRace
<1>1. Inv => NoDataRace
  <2> SUFFICES ASSUME Inv, NEW t \in Thread, pc[t] = "write"
               PROVE  /\ Owners(ptr[dst[t]]) = {dst[t]}
                      /\ \A u \in Thread \ {t} : ~Accesses(u, ptr[dst[t]])
    BY DEF NoDataRace
  <2>1. Owners(ptr[dst[t]]) = {dst[t]} /\ dst[t] \in Handle /\ ptr[dst[t]] \in Body
    BY WriterOwns DEF Private
  <2>2. ASSUME NEW u \in Thread \ {t}, Accesses(u, ptr[dst[t]])
        PROVE  FALSE
    <3>1. CASE pc[u] = "read" /\ ptr[src[u]] = ptr[dst[t]]
      <4>1. src[u] \in Handle
        BY <3>1 DEF Inv, Shape, TypeOK
      <4>2. src[u] \in Owners(ptr[dst[t]])
        BY <3>1, <4>1 DEF Owners
      <4> QED
        BY <2>1, <4>2, CowAssumption DEF Inv, Exclusive
    <3>2. CASE pc[u] \in {"clone", "write"} /\ ptr[dst[u]] = ptr[dst[t]]
      <4>1. dst[u] \in Handle
        BY <3>2 DEF Inv, Shape, TypeOK
      <4>2. dst[u] \in Owners(ptr[dst[t]])
        BY <3>2, <4>1 DEF Owners
      <4> QED
        BY <2>1, <4>2, CowAssumption DEF Inv, Exclusive
    <3> QED
      BY <2>2, <3>1, <3>2 DEF Accesses
  <2> QED
    BY <2>1, <2>2
<1> QED
  BY <1>1, Invariance, PTL

-----------------------------------------------------------------------------
(* The handles' values are those of CowValues: each step either leaves     *)
(* every value alone or is one operation of that specification.            *)
LEMMA ViewStep == Inv /\ [Next]_vars => [Values!Next]_view
<1> SUFFICES ASSUME Inv, [Next]_vars PROVE Values!Next \/ view' = view
  BY DEF view
<1> USE DEF Inv
<1>0. Null \notin Body
  BY CowAssumption
<1>1. CASE UNCHANGED vars
  BY <1>1 DEF vars, view, ValueOf
<1>2. ASSUME NEW t \in Thread, NEW h \in Handle, NEW b \in Body, NEW v \in Value,
             Make(t, h, b, v)
      PROVE  Values!Next
  <2>1. \A x \in Handle : ptr[x] # b
    BY <1>2 DEF Make, Allocate, CountsExact, Owners
  <2>2. view' = [view EXCEPT ![h] = v]
    BY <1>0, <1>2, <2>1 DEF Make, Allocate, view, ValueOf, TypeOK
  <2> QED
    BY <2>2 DEF Values!Next, Values!Set
<1>3. ASSUME NEW t \in Thread, NEW h \in Handle, NEW g \in Handle, CopyConstruct(t, h, g)
      PROVE  Values!Next
  <2>1. view' = [view EXCEPT ![h] = view[g]]
    BY <1>0, <1>3 DEF CopyConstruct, view, ValueOf, TypeOK
  <2> QED
    BY <2>1 DEF Values!Next, Values!Copy
<1>4. ASSUME NEW t \in Thread, NEW h \in Handle, NEW g \in Handle, AssignRef(t, h, g)
      PROVE  view' = view
  BY <1>4 DEF AssignRef, view, ValueOf
<1>5. ASSUME NEW t \in Thread, AssignReset(t)
      PROVE  Values!Next
  <2>1. dst[t] \in Handle /\ src[t] \in Handle /\ held[t] = ptr[src[t]]
    BY <1>5 DEF AssignReset, At, Shape, Snapshot, TypeOK
  <2>2. view' = [view EXCEPT ![dst[t]] = view[src[t]]]
    BY <1>0, <1>5, <2>1 DEF AssignReset, view, ValueOf, TypeOK
  <2> QED
    BY <2>1, <2>2 DEF Values!Next, Values!Copy
<1>6. ASSUME NEW t \in Thread, NEW h \in Handle, NEW g \in Handle, MoveAssign(t, h, g)
      PROVE  Values!Next
  <2>1. view' = [view EXCEPT ![h] = view[g], ![g] = Null]
    BY <1>0, <1>6 DEF MoveAssign, view, ValueOf, TypeOK
  <2> QED
    BY <1>6, <2>1 DEF Values!Next, Values!Move, MoveAssign
<1>7. ASSUME NEW t \in Thread, NEW h \in Handle, Destroy(t, h)
      PROVE  Values!Next
  <2>1. view' = [view EXCEPT ![h] = Null]
    BY <1>0, <1>7 DEF Destroy, view, ValueOf, TypeOK
  <2> QED
    BY <2>1 DEF Values!Next, Values!Clear
<1>8. ASSUME NEW t \in Thread, NEW h \in Handle,
             \/ BeginRead(t, h) \/ Deref(t, h) \/ EndRead(t) \/ CloneThrows(t) \/ Delete(t)
      PROVE  view' = view
  BY <1>8 DEF BeginRead, Deref, EndRead, CloneThrows, Delete, heap, view, ValueOf
<1>9. ASSUME NEW t \in Thread, NEW b \in Body, Clone(t, b)
      PROVE  view' = view
  <2>1. \A x \in Handle : ptr[x] # b
    BY <1>9 DEF Clone, Allocate, CountsExact, Owners
  <2> QED
    BY <1>0, <1>9, <2>1 DEF Clone, Allocate, view, ValueOf, TypeOK
<1>10. ASSUME NEW t \in Thread, CloneReset(t)
       PROVE  view' = view
  <2>1. /\ dst[t] \in Handle /\ held[t] \in Body /\ ptr[dst[t]] \in Body
        /\ obj[held[t]] = obj[ptr[dst[t]]]
    BY <1>10 DEF CloneReset, At, Shape, Snapshot, TypeOK
  <2> QED
    BY <1>0, <1>10, <2>1 DEF CloneReset, view, ValueOf, TypeOK
<1>11. ASSUME NEW t \in Thread, NEW v \in Value, Write(t, v)
       PROVE  Values!Next
  <2>1. dst[t] \in Handle /\ ptr[dst[t]] \in Body /\ Owners(ptr[dst[t]]) = {dst[t]}
    BY <1>11, WriterOwns DEF Write, At, Private
  <2>2. \A x \in Handle : x # dst[t] => ptr[x] # ptr[dst[t]]
    BY <2>1 DEF Owners
  <2>3. view' = [view EXCEPT ![dst[t]] = v]
    <3>1. ptr' = ptr /\ obj' = [obj EXCEPT ![ptr[dst[t]]] = v] /\ obj \in [Body -> Value]
      BY <1>11 DEF Write, TypeOK
    <3>2. \A x \in Handle : ValueOf(x)' = IF x = dst[t] THEN v ELSE ValueOf(x)
      BY <1>0, <2>1, <2>2, <3>1 DEF ValueOf
    <3>. QED
      BY <2>1, <3>2 DEF view
  <2> QED
    BY <2>1, <2>3 DEF Values!Next, Values!Set
<1>12. ASSUME NEW t \in Thread, Continue(t)
       PROVE  Values!Next \/ view' = view
  <2>1. CASE EndRead(t) \/ CloneThrows(t)
    <3>1. PICK h \in Handle : TRUE
      BY <2>1 DEF EndRead, CloneThrows, At, Shape, TypeOK
    <3> QED
      BY <1>8, <2>1, <3>1
  <2>2. CASE Delete(t)
    BY <2>2 DEF Delete, view, ValueOf
  <2> QED
    BY <1>5, <1>9, <1>10, <1>11, <1>12, <2>1, <2>2 DEF Continue
<1> QED
  BY <1>1, <1>2, <1>3, <1>4, <1>6, <1>7, <1>8, <1>12 DEF Next, Begin

(* CowPtr implements CowValues: whatever the threads do, every handle      *)
(* behaves like a variable with a value of its own.                        *)
THEOREM IndependentValues == Spec => ValueSemantics
<1>1. Init => Values!Init
  BY DEF Init, view, ValueOf, Values!Init
<1> QED
  BY <1>1, ViewStep, Invariance, PTL DEF Spec, ValueSemantics, Values!Spec

=============================================================================
