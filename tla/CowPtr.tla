------------------------------- MODULE CowPtr -------------------------------
(***************************************************************************)
(* uxs::cow_ptr (include/uxs/cow_ptr.h): handles that share a body with an *)
(* atomic reference count, used by several threads.  The same protocol     *)
(* (ref, unref, make_unique, reset) is that of db::detail::flexarray_t and *)
(* db::detail::record_t.                                                   *)
(*                                                                         *)
(* One action is one access to memory that threads share: an increment, a  *)
(* decrement or a load of ref_count, an allocation, the read of a body, a  *)
(* write to it, its deletion.  A handle itself is an ordinary object: the  *)
(* program never lets a thread change a handle another thread is using,    *)
(* which is the guard of the actions that begin an operation.              *)
(***************************************************************************)
EXTENDS Integers, FiniteSets

CONSTANTS
  Thread,  \* threads of the program
  Handle,  \* cow_ptr objects
  Body,    \* heap addresses a body may be allocated at
  Value,   \* values of the pointed-to type
  Null     \* nullptr, and the value of an empty handle

ASSUME CowAssumption ==
  /\ IsFiniteSet(Thread)
  /\ IsFiniteSet(Handle)
  /\ Thread \intersect Handle = {}
  /\ Null \notin Body
  /\ Null \notin Value
  /\ Null \notin Handle

VARIABLES
  ptr,       \* ptr_ of each handle
  refCount,  \* ref_count of each body
  obj,       \* obj of each body
  alive,     \* the bodies that are allocated
  pc,        \* where in an operation each thread is
  dst,       \* the handle the thread's operation changes
  src,       \* the handle the thread's operation only reads
  held,      \* a body the thread owns a reference to, not yet in a handle
  garbage    \* a body whose count the thread dropped to zero, not yet deleted

vars == <<ptr, refCount, obj, alive, pc, dst, src, held, garbage>>
heap == <<refCount, obj, alive>>

PC == {"idle", "read", "assign", "clone", "swap", "write"}

TypeOK ==
  /\ ptr \in [Handle -> Body \union {Null}]
  /\ refCount \in [Body -> Nat]
  /\ obj \in [Body -> Value]
  /\ alive \subseteq Body
  /\ pc \in [Thread -> PC]
  /\ dst \in [Thread -> Handle \union {Null}]
  /\ src \in [Thread -> Handle \union {Null}]
  /\ held \in [Thread -> Body \union {Null}]
  /\ garbage \in [Thread -> Body \union {Null}]

Init ==
  /\ ptr = [h \in Handle |-> Null]
  /\ refCount = [b \in Body |-> 0]
  /\ obj \in [Body -> Value]
  /\ alive = {}
  /\ pc = [t \in Thread |-> "idle"]
  /\ dst = [t \in Thread |-> Null]
  /\ src = [t \in Thread |-> Null]
  /\ held = [t \in Thread |-> Null]
  /\ garbage = [t \in Thread |-> Null]

-----------------------------------------------------------------------------
(* The C++ rule for objects that are not atomic: nobody else uses a handle *)
(* that is being changed; handles that are only read may be shared.        *)
Unused(h) == \A t \in Thread : dst[t] # h /\ src[t] # h
Unchanging(h) == \A t \in Thread : dst[t] # h

Ready(t) == pc[t] = "idle" /\ garbage[t] = Null

At(t, label) == pc[t] = label /\ garbage[t] = Null

Finish(t) ==
  /\ pc' = [pc EXCEPT ![t] = "idle"]
  /\ dst' = [dst EXCEPT ![t] = Null]
  /\ src' = [src EXCEPT ![t] = Null]

(* ref(): a reference more on the body, if there is one.                   *)
Ref(b) ==
  refCount' = IF b = Null THEN refCount ELSE [refCount EXCEPT ![b] = @ + 1]

(* The first half of reset(): drop the reference on b; the thread that     *)
(* brings the count to zero has to delete the body before it goes on.      *)
Unref(t, b) ==
  /\ refCount' = IF b = Null THEN refCount ELSE [refCount EXCEPT ![b] = @ - 1]
  /\ garbage' = [garbage EXCEPT ![t] =
                   IF b # Null /\ refCount[b] = 1 THEN b ELSE Null]

(* ::new object_body_t: a fresh body whose count is one.                   *)
Allocate(b, v) ==
  /\ b \notin alive
  /\ alive' = alive \union {b}
  /\ refCount' = [refCount EXCEPT ![b] = 1]
  /\ obj' = [obj EXCEPT ![b] = v]

-----------------------------------------------------------------------------
(* cow_ptr() and make_cow(): a new body for an empty handle.               *)
Make(t, h, b, v) ==
  /\ Ready(t) /\ Unused(h)
  /\ ptr[h] = Null
  /\ Allocate(b, v)
  /\ ptr' = [ptr EXCEPT ![h] = b]
  /\ UNCHANGED <<pc, dst, src, held, garbage>>

(* cow_ptr(const cow_ptr&): one increment, the handle is new.              *)
CopyConstruct(t, h, g) ==
  /\ Ready(t) /\ h # g /\ Unused(h) /\ Unchanging(g)
  /\ ptr[h] = Null
  /\ Ref(ptr[g])
  /\ ptr' = [ptr EXCEPT ![h] = ptr[g]]
  /\ UNCHANGED <<obj, alive, pc, dst, src, held, garbage>>

(* operator=(const cow_ptr&), first `other.ref()' ...                      *)
AssignRef(t, h, g) ==
  /\ Ready(t) /\ h # g /\ Unused(h) /\ Unchanging(g)
  /\ Ref(ptr[g])
  /\ held' = [held EXCEPT ![t] = ptr[g]]
  /\ pc' = [pc EXCEPT ![t] = "assign"]
  /\ dst' = [dst EXCEPT ![t] = h]
  /\ src' = [src EXCEPT ![t] = g]
  /\ UNCHANGED <<ptr, obj, alive, garbage>>

(* ... then reset() of the own body, which installs the new one.           *)
AssignReset(t) ==
  /\ At(t, "assign")
  /\ Unref(t, ptr[dst[t]])
  /\ ptr' = [ptr EXCEPT ![dst[t]] = held[t]]
  /\ held' = [held EXCEPT ![t] = Null]
  /\ Finish(t)
  /\ UNCHANGED <<obj, alive>>

(* cow_ptr(cow_ptr&&) and operator=(cow_ptr&&): one decrement at most; the *)
(* source gives its reference away.                                        *)
MoveAssign(t, h, g) ==
  /\ Ready(t) /\ h # g /\ Unused(h) /\ Unused(g)
  /\ Unref(t, ptr[h])
  /\ ptr' = [ptr EXCEPT ![h] = ptr[g], ![g] = Null]
  /\ UNCHANGED <<obj, alive, pc, dst, src, held>>

(* ~cow_ptr(): reset(nullptr).                                             *)
Destroy(t, h) ==
  /\ Ready(t) /\ Unused(h)
  /\ ptr[h] # Null
  /\ Unref(t, ptr[h])
  /\ ptr' = [ptr EXCEPT ![h] = Null]
  /\ UNCHANGED <<obj, alive, pc, dst, src, held>>

(* delete ptr_, by the thread that dropped the last reference.             *)
Delete(t) ==
  /\ garbage[t] # Null
  /\ alive' = alive \ {garbage[t]}
  /\ garbage' = [garbage EXCEPT ![t] = Null]
  /\ UNCHANGED <<ptr, refCount, obj, pc, dst, src, held>>

(* operator*() const: the reader looks at the body from BeginRead to       *)
(* EndRead.                                                                *)
BeginRead(t, g) ==
  /\ Ready(t) /\ Unchanging(g)
  /\ ptr[g] # Null
  /\ pc' = [pc EXCEPT ![t] = "read"]
  /\ src' = [src EXCEPT ![t] = g]
  /\ UNCHANGED <<ptr, heap, dst, held, garbage>>

EndRead(t) ==
  /\ At(t, "read")
  /\ Finish(t)
  /\ UNCHANGED <<ptr, heap, held, garbage>>

(* Mutant: a body shared by two handles counts as private.                 *)
Deref_OffByOne(t, h) ==
  /\ Ready(t) /\ Unused(h)
  /\ ptr[h] # Null
  /\ pc' = [pc EXCEPT ![t] = IF refCount[ptr[h]] > 2 THEN "clone" ELSE "write"]
  /\ dst' = [dst EXCEPT ![t] = h]
  /\ UNCHANGED <<ptr, heap, src, held, garbage>>

(* operator*(): the load of ref_count decides between a write in place and *)
(* a private copy.                                                         *)
Deref(t, h) ==
  /\ Ready(t) /\ Unused(h)
  /\ ptr[h] # Null
  /\ pc' = [pc EXCEPT ![t] = IF refCount[ptr[h]] > 1 THEN "clone" ELSE "write"]
  /\ dst' = [dst EXCEPT ![t] = h]
  /\ UNCHANGED <<ptr, heap, src, held, garbage>>

(* ::new object_body_t(ptr_->obj): the copy reads a body others may share. *)
Clone(t, b) ==
  /\ At(t, "clone")
  /\ Allocate(b, obj[ptr[dst[t]]])
  /\ held' = [held EXCEPT ![t] = b]
  /\ pc' = [pc EXCEPT ![t] = "swap"]
  /\ UNCHANGED <<ptr, dst, src, garbage>>

(* Mutant: a failed allocation is tried again until it succeeds.           *)
CloneThrows_Retries(t) ==
  /\ At(t, "clone")
  /\ UNCHANGED vars

(* The allocation or the copy constructor throws; the handle is as before. *)
CloneThrows(t) ==
  /\ At(t, "clone")
  /\ Finish(t)
  /\ UNCHANGED <<ptr, heap, held, garbage>>

(* Mutant: the handle takes the copy but keeps counting in the old body.   *)
CloneReset_NoUnref(t) ==
  /\ At(t, "swap")
  /\ ptr' = [ptr EXCEPT ![dst[t]] = held[t]]
  /\ held' = [held EXCEPT ![t] = Null]
  /\ pc' = [pc EXCEPT ![t] = "write"]
  /\ UNCHANGED <<heap, dst, src, garbage>>

(* reset(copy): the handle leaves the shared body.                         *)
CloneReset(t) ==
  /\ At(t, "swap")
  /\ Unref(t, ptr[dst[t]])
  /\ ptr' = [ptr EXCEPT ![dst[t]] = held[t]]
  /\ held' = [held EXCEPT ![t] = Null]
  /\ pc' = [pc EXCEPT ![t] = "write"]
  /\ UNCHANGED <<obj, alive, dst, src>>

(* The caller writes through the reference operator*() returned.           *)
Write(t, v) ==
  /\ At(t, "write")
  /\ obj' = [obj EXCEPT ![ptr[dst[t]]] = v]
  /\ Finish(t)
  /\ UNCHANGED <<ptr, refCount, alive, held, garbage>>

-----------------------------------------------------------------------------
Begin(t) ==
  \E h \in Handle :
    \/ \E b \in Body, v \in Value : Make(t, h, b, v)
    \/ \E g \in Handle :
         CopyConstruct(t, h, g) \/ AssignRef(t, h, g) \/ MoveAssign(t, h, g)
    \/ Destroy(t, h)
    \/ BeginRead(t, h)
    \/ Deref(t, h)

Continue(t) ==
  \/ AssignReset(t)
  \/ Delete(t)
  \/ EndRead(t)
  \/ \E b \in Body : Clone(t, b)
  \/ CloneThrows(t)
  \/ CloneReset(t)
  \/ \E v \in Value : Write(t, v)

Next == \E t \in Thread : Begin(t) \/ Continue(t)

Spec == Init /\ [][Next]_vars

(* A thread that has begun an operation is scheduled until it is done;     *)
(* nothing obliges a program to begin one.                                 *)
FairSpec == Spec /\ \A t \in Thread : WF_vars(Continue(t))

-----------------------------------------------------------------------------
(* Who refers to body b: handles, and threads between two steps.           *)
Owners(b) == {h \in Handle : ptr[h] = b} \union {t \in Thread : held[t] = b}

(* The count of a body is exactly the number of its owners, whatever the   *)
(* threads are in the middle of; nobody refers to memory that is not       *)
(* allocated (no use after free).                                          *)
CountsExact ==
  /\ \A b \in alive : refCount[b] = Cardinality(Owners(b))
  /\ \A b \in Body \ alive : Owners(b) = {}

(* A body with no owner left has exactly one thread about to delete it: it *)
(* is neither leaked nor deleted twice.                                    *)
OneDeleter ==
  /\ \A t \in Thread : garbage[t] # Null =>
       /\ garbage[t] \in alive
       /\ refCount[garbage[t]] = 0
       /\ \A u \in Thread \ {t} : garbage[u] # garbage[t]
  /\ \A b \in alive : refCount[b] = 0 => \E t \in Thread : garbage[t] = b

(* While a thread may write to a body, no other handle shares it and no    *)
(* other thread reads or copies it: operator*() never causes a data race,  *)
(* although the load of ref_count and the write are separate steps.        *)
Accesses(t, b) ==
  \/ pc[t] = "read" /\ ptr[src[t]] = b
  \/ pc[t] \in {"clone", "write"} /\ ptr[dst[t]] = b

NoDataRace ==
  \A t \in Thread : pc[t] = "write" =>
    /\ Owners(ptr[dst[t]]) = {dst[t]}
    /\ \A u \in Thread \ {t} : ~Accesses(u, ptr[dst[t]])

(* What makes these facts inductive.  Which local variables an operation   *)
(* uses at each step, ...                                                  *)
Shape ==
  \A t \in Thread :
    /\ dst[t] # Null <=> pc[t] \in {"assign", "clone", "swap", "write"}
    /\ src[t] # Null <=> pc[t] \in {"read", "assign"}
    /\ held[t] # Null => pc[t] \in {"assign", "swap"}
    /\ pc[t] = "swap" => held[t] # Null
    /\ pc[t] = "read" => ptr[src[t]] # Null
    /\ pc[t] \in {"clone", "swap", "write"} => ptr[dst[t]] # Null
    /\ garbage[t] # Null => pc[t] \in {"idle", "write"}

(* ... that a handle being changed is nobody else's, ...                   *)
Exclusive ==
  \A t, u \in Thread : dst[t] # Null =>
    /\ src[u] # dst[t]
    /\ u # t => dst[u] # dst[t]

(* ... that the body a thread made its own has no other owner, ...         *)
Private(t) == IF pc[t] = "swap" THEN held[t] ELSE ptr[dst[t]]

WriterAlone ==
  \A t \in Thread : pc[t] \in {"swap", "write"} => refCount[Private(t)] = 1

(* ... and that what is about to be installed is the right value.          *)
Snapshot ==
  \A t \in Thread :
    /\ pc[t] = "assign" => held[t] = ptr[src[t]]
    /\ pc[t] = "swap" => obj[held[t]] = obj[ptr[dst[t]]]

(* The inductive invariant: every safety property above follows from it.   *)
Inv ==
  /\ TypeOK
  /\ Shape
  /\ Exclusive
  /\ CountsExact
  /\ OneDeleter
  /\ WriterAlone
  /\ Snapshot

(* Every begun operation ends, and every body without an owner is freed.   *)
OperationsEnd == \A t \in Thread : pc[t] # "idle" ~> Ready(t)
GarbageFreed == \A b \in Body : (b \in alive /\ refCount[b] = 0) ~> b \notin alive
Progress == OperationsEnd /\ GarbageFreed

(* The value a user sees through each handle; the handles have the         *)
(* independent values CowValues promises.                                  *)
ValueOf(h) == IF ptr[h] = Null THEN Null ELSE obj[ptr[h]]
view == [h \in Handle |-> ValueOf(h)]
Values == INSTANCE CowValues WITH val <- view
ValueSemantics == Values!Spec

=============================================================================
