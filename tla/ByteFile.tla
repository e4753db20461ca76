------------------------------ MODULE ByteFile ------------------------------
(***************************************************************************)
(* What uxs::byteseq and uxs::byteseqdev promise: a file in memory, a flat *)
(* sequence of bytes with at most one cursor.  Reading and writing may go  *)
(* piece by piece; a cursor moved past the end extends the file with       *)
(* zeros if the device may write, and stays at the end if it may not.      *)
(***************************************************************************)
EXTENDS Integers, Sequences

CONSTANTS Byte, MaxSize

VARIABLES bytes, access, cursor, seen

vars == <<bytes, access, cursor, seen>>

Zeros(n) == [i \in 1 .. n |-> 0]
Resized(s, n) == IF n <= Len(s) THEN SubSeq(s, 1, n) ELSE s \o Zeros(n - Len(s))

(* s written over b from position p on.                                    *)
Overwrite(b, p, s) ==
  SubSeq(b, 1, p) \o s \o SubSeq(b, p + Len(s) + 1, Len(b))

Pieces == UNION { [1 .. n -> Byte] : n \in 1 .. MaxSize }

Init ==
  /\ bytes = <<>>
  /\ access = "none"
  /\ cursor = 0
  /\ seen = <<>>

Change(b) == access = "none" /\ bytes' = b /\ UNCHANGED <<access, cursor, seen>>

Open(how) ==
  /\ access = "none"
  /\ access' = how
  /\ cursor' = 0
  /\ UNCHANGED <<bytes, seen>>

Close == access' = "none" /\ cursor' = 0 /\ seen' = <<>> /\ UNCHANGED bytes

Write(s) ==
  /\ access = "rw"
  /\ bytes' = Overwrite(bytes, cursor, s)
  /\ cursor' = cursor + Len(s)
  /\ UNCHANGED <<access, seen>>

Read(n) ==
  /\ access # "none"
  /\ cursor + n <= Len(bytes)
  /\ seen' = SubSeq(bytes, cursor + 1, cursor + n)
  /\ cursor' = cursor + n
  /\ UNCHANGED <<bytes, access>>

Seek(p) ==
  /\ access # "none"
  /\ IF p <= Len(bytes) THEN cursor' = p /\ UNCHANGED bytes
     ELSE IF access = "rw" THEN cursor' = p /\ bytes' = Resized(bytes, p)
     ELSE cursor' = Len(bytes) /\ UNCHANGED bytes
  /\ UNCHANGED <<access, seen>>

Truncate ==
  /\ access = "rw"
  /\ bytes' = SubSeq(bytes, 1, cursor)
  /\ UNCHANGED <<access, cursor, seen>>

Wipe ==
  /\ access = "rw"
  /\ bytes' = <<>>
  /\ cursor' = 0
  /\ UNCHANGED <<access, seen>>

Next ==
  \/ \E n \in 0 .. MaxSize : Change(Resized(bytes, n)) \/ Read(n) \/ Seek(n)
  \/ \E s \in Pieces : Change(s) \/ Write(s)
  \/ \E how \in {"ro", "rw"} : Open(how)
  \/ Change(<<>>) \/ Close \/ Truncate \/ Wipe

Spec == Init /\ [][Next]_vars

=============================================================================
