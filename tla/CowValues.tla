------------------------------ MODULE CowValues ------------------------------
(***************************************************************************)
(* What a copy-on-write pointer promises to its user: every handle behaves *)
(* like a variable that holds its own value.  Copying a handle copies the  *)
(* value, moving transfers it, writing through one handle is never seen    *)
(* through another.  No body, no reference count, no thread appears here;  *)
(* CowPtr implements this specification.                                   *)
(***************************************************************************)

CONSTANTS
  Handle,  \* the cow_ptr objects of the program
  Value,   \* the values of the pointed-to type
  Null     \* the value of an empty (moved-from or destroyed) handle

VARIABLE val   \* the value each handle holds, or Null

Init == val = [h \in Handle |-> Null]

(* A handle gets a value of its own: make_cow, a write through the handle. *)
Set(h, v) == val' = [val EXCEPT ![h] = v]

(* Copy construction and copy assignment.                                  *)
Copy(h, g) == val' = [val EXCEPT ![h] = val[g]]

(* Move construction and move assignment leave the source empty.           *)
Move(h, g) ==
  /\ h # g
  /\ val' = [val EXCEPT ![h] = val[g], ![g] = Null]

Clear(h) == val' = [val EXCEPT ![h] = Null]

Next ==
  \E h \in Handle :
    \/ \E v \in Value : Set(h, v)
    \/ \E g \in Handle : Copy(h, g) \/ Move(h, g)
    \/ Clear(h)

Spec == Init /\ [][Next]_val

=============================================================================
