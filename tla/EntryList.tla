----------------------------- MODULE EntryList -----------------------------
(***************************************************************************)
(* What a record of db::basic_value promises: each variable is a list of   *)
(* its own, of entries in the order of their insertion, several of which   *)
(* may have one key; the key stands for the newest of them.  A call        *)
(* relates the lists before it, t, to those after it, u.                   *)
(***************************************************************************)
EXTENDS Naturals, Sequences, SequencesExt

CONSTANTS Handles, Entries, MaxSize

VARIABLE lists

Entry(k, v) == [key |-> k, val |-> v]
Keys == {e.key : e \in Entries}

Has(s, k) == \E i \in DOMAIN s : s[i].key = k
Newest(s, k) == CHOOSE i \in DOMAIN s :
                  s[i].key = k /\ \A j \in DOMAIN s : s[j].key = k => j <= i

(* What is left of s when all but the members of S go.                     *)
Only(s, S) ==
  LET left[i \in 0 .. Len(s)] == IF i = 0 THEN <<>>
                                 ELSE IF s[i] \in S THEN Append(left[i - 1], s[i]) ELSE left[i - 1]
  IN  left[Len(s)]
Others(s, k) == Only(s, {e \in Entries : e.key # k})

To(t, u, h, s) == u = [t EXCEPT ![h] = s]

(* emplace and insert add entries at the end, whatever their keys; assign  *)
(* starts from none.                                                       *)
Add(t, u) == \E h \in Handles, e \in Entries : To(t, u, h, Append(t[h], e))
AddAll(t, u) ==
  \E h \in Handles, from \in {"old", "none"} :
    \E s \in {t[g] : g \in Handles} \cup [1..2 -> Entries] :
      To(t, u, h, (IF from = "old" THEN t[h] ELSE <<>>) \o s)

(* operator[] finds the newest entry of a key or adds one, and writes it.  *)
Set(t, u) ==
  \E h \in Handles, e \in Entries :
    To(t, u, h, IF Has(t[h], e.key) THEN [t[h] EXCEPT ![Newest(t[h], e.key)] = e]
                ELSE Append(t[h], e))

EraseOne(t, u) == \E h \in Handles : \E i \in DOMAIN t[h] : To(t, u, h, RemoveAt(t[h], i))
EraseKey(t, u) ==
  \E h \in Handles, k \in Keys : To(t, u, h, Others(t[h], k))

Copy(t, u) == \E h, g \in Handles : To(t, u, h, t[g])
Clear(t, u) == \E h \in Handles : To(t, u, h, <<>>)

Call(t, u) == \/ Add(t, u) \/ AddAll(t, u) \/ Set(t, u) \/ EraseOne(t, u)
              \/ EraseKey(t, u) \/ Copy(t, u) \/ Clear(t, u)

Init == lists = [h \in Handles |-> <<>>]
Next == \E t \in {lists}, u \in {lists'} : Call(t, u)
Spec == Init /\ [][Next]_lists
=============================================================================
