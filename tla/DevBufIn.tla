----------------------------- MODULE DevBufIn ------------------------------
(***************************************************************************)
(* The input half of basic_devbuf (include/uxs/impl/io/devbuf_impl.h) and  *)
(* of basic_ibuf: characters are taken from a buffer, which underflow()    *)
(* fills from the device, turning CR LF into LF.  A CR that ends a block   *)
(* is held back (pending_cr) until the next block shows what follows it.   *)
(*                                                                         *)
(* The device delivers blocks of any length, ends at the end of the file   *)
(* and may report errors, after which the program may clear() the state    *)
(* and go on.  One action is one turn of the loop of read().               *)
(***************************************************************************)
EXTENDS Integers, Sequences, SequencesExt, FiniteSetsExt

CONSTANTS
  Cap,       \* buf_->sz
  Contents,  \* the files that are read
  Modes,     \* "crlf", "plain", or "mapped": the device maps, no buffer
  Requests,  \* arguments of read() and skip()
  MaxFaults  \* bound on the device's failures

Char == {"a", "CR", "LF"}

ASSUME InAssumption ==
  /\ Cap \in Nat \ {0, 1}
  /\ Contents \subseteq Seq(Char)
  /\ Modes \subseteq {"crlf", "plain", "mapped"}
  /\ Requests \subseteq Nat \ {0}
  /\ MaxFaults \in Nat

VARIABLES
  mode,       \* mode_ and whether there is a buffer
  file,       \* what the device holds
  devpos,     \* the device's read position
  data,       \* the buffer: first() to last()
  pos,        \* pos()
  pendingCr,  \* devbuf_impl_flags::pending_cr
  state,      \* iostate_bits
  need,       \* how much the running read() still has to get
  aborted,    \* an assertion has failed
  start,      \* history: where the last seek went or a CR was lost last
  got,        \* history: what the program has read since the last seek
  prior,      \* history: what of it came before the text at start
  carried,    \* history: a held back CR survived that seek
  faults      \* history: how often the device failed

buffer == <<data, pos, pendingCr>>
history == <<start, prior, carried>>
vars == <<mode, file, devpos, buffer, state, need, aborted, got, history, faults>>

TypeOK ==
  /\ mode \in {"crlf", "plain", "mapped"}
  /\ file \in Seq(Char)
  /\ devpos \in 0 .. Len(file)
  /\ data \in Seq(Char)
  /\ pos \in 0 .. Len(data)
  /\ pendingCr \in BOOLEAN
  /\ state \subseteq {"bad", "fail", "eof"}
  /\ need \in Nat
  /\ aborted \in BOOLEAN
  /\ start \in 0 .. devpos
  /\ got \in Seq(Char)
  /\ prior \in Seq(Char)
  /\ carried \in BOOLEAN
  /\ faults \in Nat

-----------------------------------------------------------------------------
Avail == Len(data) - pos
Unread == SubSeq(data, pos + 1, Len(data))
Rest(p) == SubSeq(file, p + 1, Len(file))

(* The reference for CR LF translation: LF replaces a CR before it.        *)
Decode(s) ==
  FoldLeft(LAMBDA acc, c :
             IF c = "LF" /\ acc # <<>> /\ Last(acc) = "CR"
             THEN Append(Front(acc), "LF") ELSE Append(acc, c),
           <<>>, s)

(* Mutant: where CR LF was, neither of the two is left.                    *)
RemoveCrLf_DropsBoth(s) ==
  LET hits == {k \in 2 .. Len(s) : s[k] = "LF" /\ s[k - 1] = "CR"}
  IN SelectSeq([i \in DOMAIN s |-> IF i \in hits \/ i + 1 \in hits THEN "" ELSE s[i]],
               LAMBDA c : c # "")

(* remove_crlf: the first LF with a CR before it, then the rest moves down *)
(* in place; `p` is one past the last character kept.                      *)
RemoveCrLf(s) ==
  LET hits == {k \in 2 .. Len(s) : s[k] = "LF" /\ s[k - 1] = "CR"}
      k == Min(hits)
      move(acc, i) ==
        LET p == IF acc.d[i - 1] # "CR" \/ acc.d[i] # "LF" THEN acc.p + 1 ELSE acc.p
        IN [d |-> [acc.d EXCEPT ![p - 1] = acc.d[i]], p |-> p]
      moved == FoldLeft(move, [d |-> [s EXCEPT ![k - 1] = "LF"], p |-> k - 1],
                        [i \in 1 .. Len(s) - k + 1 |-> k + i - 1])
  IN IF hits = {} THEN s ELSE SubSeq(moved.d, 1, moved.p - 1)

Init ==
  /\ mode \in Modes
  /\ file \in Contents
  /\ devpos = 0
  /\ data = <<>>
  /\ pos = 0
  /\ pendingCr = FALSE
  /\ state = {}
  /\ need = 0
  /\ aborted = FALSE
  /\ start = 0
  /\ got = <<>>
  /\ prior = <<>>
  /\ carried = FALSE
  /\ faults = 0

-----------------------------------------------------------------------------
(* underflow() with a block of n characters from the device.               *)
Room == IF pendingCr THEN Cap - 1 ELSE Cap

(* Mutant: the held back CR is not put before the next block.              *)
Underflow_LosesCr(n) ==
  LET text == RemoveCrLf(SubSeq(file, devpos + 1, devpos + n))
      held == text # <<>> /\ Last(text) = "CR"
  IN /\ n \in 1 .. Room
     /\ devpos + n <= Len(file)
     /\ devpos' = devpos + n
     /\ data' = IF held THEN Front(text) ELSE text
     /\ pendingCr' = held
     /\ aborted' = (data' = <<>>)
     /\ UNCHANGED <<history, faults>>

(* Mutant: a CR at the end of a block is delivered at once.                *)
Underflow_KeepsCr(n) ==
  LET text == RemoveCrLf(SubSeq(file, devpos + 1, devpos + n))
  IN /\ n \in 1 .. Room
     /\ devpos + n <= Len(file)
     /\ devpos' = devpos + n
     /\ data' = text
     /\ UNCHANGED <<pendingCr, aborted, history, faults>>

Underflow(n) ==
  LET block == SubSeq(file, devpos + 1, devpos + n)
      raw == IF pendingCr THEN <<"CR">> \o block ELSE block
      text == RemoveCrLf(raw)
      held == text # <<>> /\ Last(text) = "CR"
      kept == IF held THEN Front(text) ELSE text
  IN /\ n \in 1 .. Room
     /\ devpos + n <= Len(file)
     /\ devpos' = devpos + n
     /\ IF mode = "crlf" THEN data' = kept /\ pendingCr' = held
        ELSE data' = block /\ UNCHANGED pendingCr
     /\ aborted' = (data' = <<>>)
     /\ UNCHANGED <<history, faults>>

(* underflow() at the end of the file or when the device fails.  The held  *)
(* back CR has been put into the buffer by then and its flag is cleared,   *)
(* so it is lost, and the history begins anew after it; a failed mapping   *)
(* leaves no buffer.                                                       *)
Underflow_Fails ==
  /\ \/ devpos = Len(file) /\ UNCHANGED faults
     \/ faults < MaxFaults /\ faults' = faults + 1
  /\ data' = CASE mode = "mapped" -> <<>>
               [] pendingCr /\ data # <<>> -> [data EXCEPT ![1] = "CR"]
               [] OTHER -> data
  /\ pendingCr' = FALSE
  /\ IF pendingCr THEN start' = devpos /\ prior' = got' /\ carried' = FALSE
     ELSE UNCHANGED history
  /\ UNCHANGED <<devpos, aborted>>

EndOfInput == state' = state \union {"eof", "fail"}

-----------------------------------------------------------------------------
(* read(), skip(), get(): what is available, then underflow().             *)
Take(n) ==
  /\ got' = got \o SubSeq(data, pos + 1, pos + n)

(* Enough is there.                                                        *)
Read_Done(n) ==
  /\ n <= Avail
  /\ Take(n)
  /\ pos' = pos + n
  /\ need' = 0
  /\ UNCHANGED <<devpos, data, pendingCr, state, aborted, history, faults>>

(* The buffer is used up and filled again.                                 *)
Read_More(n) ==
  /\ n > Avail
  /\ state = {}
  /\ Take(Avail)
  /\ \E k \in 1 .. Cap : Underflow(k)
  /\ pos' = 0
  /\ need' = n - Avail
  /\ UNCHANGED state

Read_Ends(n) ==
  /\ n > Avail
  /\ Take(Avail)
  /\ need' = 0
  /\ EndOfInput
  /\ IF state = {}
     THEN Underflow_Fails /\ pos' = Len(data')
     ELSE pos' = Len(data) /\ UNCHANGED <<devpos, data, pendingCr, aborted, history, faults>>

ReadStep(n) ==
  /\ Read_Done(n) \/ Read_More(n) \/ Read_Ends(n)
  /\ UNCHANGED <<mode, file>>

Read(n) == need = 0 /\ ~aborted /\ ReadStep(n)
Continue == need > 0 /\ ~aborted /\ ReadStep(need)

(* peek(): underflow() if there is nothing, but nothing is taken.          *)
Peek ==
  /\ need = 0 /\ ~aborted
  /\ Avail = 0
  /\ UNCHANGED got
  /\ \/ state = {} /\ (\E k \in 1 .. Cap : Underflow(k)) /\ pos' = 0 /\ UNCHANGED state
     \/ state = {} /\ Underflow_Fails /\ EndOfInput /\ pos' = Len(data')
     \/ state # {} /\ EndOfInput /\ UNCHANGED <<buffer, devpos, aborted, history, faults>>
  /\ UNCHANGED <<mode, file, need>>

(* A lost CR stands in place of the buffer's first character, if anything  *)
(* was in the buffer, until the next block comes.                          *)
Spoilt == devpos = start /\ prior # <<>>

(* unget(): only within the buffer, ungetfail() always fails.  What is put *)
(* back is what the buffer holds, a lost CR too.                           *)
Unget ==
  /\ need = 0 /\ ~aborted
  /\ IF pos > 0
     THEN /\ pos' = pos - 1
          /\ got' = Front(got)
          /\ state' = state \ {"eof"}
          /\ prior' = IF Spoilt THEN [prior EXCEPT ![Len(got)] = data[pos]] ELSE prior
     ELSE state' = (state \ {"eof"}) \union {"fail"} /\ UNCHANGED <<pos, got, prior>>
  /\ UNCHANGED <<mode, file, devpos, data, pendingCr, need, aborted, start, carried, faults>>

(* seek(off, dir): the device is moved and the buffer dropped; seekdir     *)
(* curr counts from where the program is, not from where the device is.    *)
Target(off, dir) ==
  CASE dir = "beg" -> off
    [] dir = "end" -> Len(file) + off
    [] OTHER -> devpos + off - Avail

Seek_Refused ==
  /\ state \intersect {"bad", "fail"} # {}
  /\ state' = state \ {"eof"}
  /\ UNCHANGED <<buffer, devpos, got, history, faults>>

Seek_Fails(off, dir) ==
  /\ state \intersect {"bad", "fail"} = {}
  /\ state' = {"fail"}
  /\ IF Target(off, dir) < 0 THEN UNCHANGED faults
     ELSE faults < MaxFaults /\ faults' = faults + 1
  /\ UNCHANGED <<buffer, devpos, got, history>>

Seek_Moves(off, dir) ==
  /\ state \intersect {"bad", "fail"} = {}
  /\ Target(off, dir) \in 0 .. Len(file)
  /\ off # 0 \/ dir # "curr"    \* otherwise it is tell()
  /\ devpos' = Target(off, dir)
  /\ start' = IF dir = "curr" /\ mode # "crlf" THEN start + Len(got) + off ELSE devpos'
  /\ got' = <<>>
  /\ data' = <<>>
  /\ pos' = 0
  /\ state' = {}
  /\ prior' = <<>>
  /\ carried' = pendingCr
  /\ UNCHANGED <<pendingCr, faults>>

Seek(off, dir) ==
  /\ need = 0 /\ ~aborted
  /\ Seek_Refused \/ Seek_Fails(off, dir) \/ Seek_Moves(off, dir)
  /\ UNCHANGED <<mode, file, need, aborted>>

Clear ==
  /\ need = 0 /\ ~aborted
  /\ state' = {}
  /\ UNCHANGED <<mode, file, devpos, buffer, need, aborted, got, history, faults>>

Call ==
  \/ \E n \in Requests : Read(n)
  \/ Peek \/ Unget \/ Clear
  \/ \E off \in -2 .. 2, dir \in {"beg", "curr", "end"} :
       /\ Target(off, dir) <= Len(file)
       /\ Seek(off, dir)

Next == Call \/ Continue

Spec == Init /\ [][Next]_vars

-----------------------------------------------------------------------------
(* Properties.                                                             *)

CarriedCr == IF carried THEN <<"CR">> ELSE <<>>
HeldCr == IF pendingCr THEN <<"CR">> ELSE <<>>
Translated(s) == IF mode = "crlf" THEN Decode(s) ELSE s

(* What the device has given since start, after a CR carried there.        *)
Delivered == CarriedCr \o SubSeq(file, start + 1, devpos)

(* What was read, what is in the buffer and what is still to come are      *)
(* together the translated file from start, whatever the blocks the device *)
(* cut it into, a pair CR LF split between two blocks too.  start is where *)
(* the last seek went, and a held back CR is carried along to there; or    *)
(* where underflow() met the end of the file or a failure and lost the CR  *)
(* it held back: that CR, the file's last one too, is in nobody's text.    *)
TextIntact ==
  got \o Unread \o Translated(HeldCr \o Rest(devpos))
    = prior \o Translated(CarriedCr \o Rest(start))

(* The CRs of s that are not in the buffer: those a LF follows, and one at *)
(* the end, which is held back.                                            *)
Removed(s) == Cardinality({i \in DOMAIN s : s[i] = "CR" /\ (i = Len(s) \/ s[i + 1] = "LF")})

(* What tell() says and relative seeks count from is the place in the file *)
(* of the character the program gets next, without CR LF translation.      *)
(* With it the place is too far by one for every CR that was taken out of  *)
(* the text ahead in the buffer, and for the one held back.  Characters    *)
(* put back from before a lost CR count one each.                          *)
TellExact ==
  IF Len(got) < Len(prior)
  THEN devpos - Avail = start - (Len(prior) - Len(got))
  ELSE \E k \in 0 .. Len(Delivered) :
         LET behind == SubSeq(Delivered, 1, k)
             ahead == SubSeq(Delivered, k + 1, Len(Delivered))
             place == start - Len(CarriedCr) + k
         IN /\ got = prior \o Translated(behind)
            /\ devpos - Avail = place + (IF mode = "crlf" THEN Removed(ahead) ELSE 0)

(* What the program has read, and where it is told that it is.             *)
InputExact == TextIntact /\ TellExact

(* All of a text that can reach the program when nothing follows it: with  *)
(* CR LF translation its last character, if that is a CR, cannot.          *)
Everything(s) ==
  IF mode # "crlf" THEN s
  ELSE IF s # <<>> /\ Last(s) = "CR" THEN Decode(Front(s)) ELSE Decode(s)

(* When the end of the input is reported, the program has read everything  *)
(* the device gave, no block is cut short; and that is the whole file      *)
(* unless the device failed.  A CR as the last character is the exception: *)
(* the program never gets it.                                              *)
EndAfterEverything ==
  [][state = {} /\ "eof" \in state' =>
       /\ got' = prior \o Everything(Delivered)
       /\ faults' = faults => devpos = Len(file)]_vars

(* underflow asserts that a block it has read leaves at least one          *)
(* character in the buffer.  The assertion fails in one case: the block,   *)
(* with what was held back before it, is a lone CR, held back in its turn. *)
AbortsOnlyOnLoneCr ==
  aborted => mode = "crlf" /\ pendingCr /\ file[devpos] = "CR"

(* Without CR LF translation no CR is held back or lost, and the device is *)
(* ahead of the program by what is in the buffer, in a read() too.         *)
Untranslated ==
  mode # "crlf" =>
    ~pendingCr /\ ~carried /\ prior = <<>> /\ ~aborted /\ devpos - Avail = start + Len(got)

(* A CR is held back exactly when it is the last character the device      *)
(* gave, and none is both lost and carried.                                *)
HeldIsLast ==
  /\ mode = "crlf" => (pendingCr <=> Delivered # <<>> /\ Last(Delivered) = "CR")
  /\ carried => prior = <<>>

(* What unget() can put back is what the program got last, from start on;  *)
(* or, after a CR was lost, what it got before, but for that CR.           *)
Ungettable ==
  /\ pos <= Len(got)
  /\ devpos # start => pos <= Len(got) - Len(prior)
  /\ \A i \in 1 .. pos : got[Len(got) - pos + i] = data[i] \/ (i = 1 /\ Spoilt)

(* The type invariant, where the assertion may fail, when a CR is held     *)
(* back, and what is in the buffer before and after pos().                 *)
Inv == TypeOK /\ AbortsOnlyOnLoneCr /\ Untranslated /\ HeldIsLast /\ Ungettable

=============================================================================
