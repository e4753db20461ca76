----------------------------- MODULE DevBufOut -----------------------------
(***************************************************************************)
(* The output half of basic_devbuf (include/uxs/impl/io/devbuf_impl.h) and *)
(* of basic_iobuf on a device without mapping: characters are stored in a  *)
(* buffer and flush_buffer() sends them to the device, expanding LF to     *)
(* CR LF in place and taking terminal escape sequences out of the text.    *)
(*                                                                         *)
(* For CR LF the buffer starts Gap characters before first(); the text is  *)
(* rewritten into that gap, towards lower addresses.  flush_buffer() is a  *)
(* machine: one action per turn of its inner loop, so that what the device *)
(* has seen when it fails half-way is exact.  The device may take any part *)
(* of a block and then report an error.                                    *)
(*                                                                         *)
(* Characters are "m" (any letter: it also ends a control sequence), "0"   *)
(* (a parameter), "[", "LF", "ESC"; "CR" and "SGR" (a call of              *)
(* ctrlesc_color) only ever reach the device.                              *)
(***************************************************************************)
EXTENDS Integers, Sequences, SequencesExt, FiniteSetsExt

CONSTANTS
  Gap,       \* cr_reserve_sz with CR LF translation
  Cap,       \* what the buffer has besides
  Modes,     \* iomode combinations: records [crlf, esc]
  Texts,     \* arguments of put() and write()
  MaxText,   \* bound on the characters the program writes
  MaxFaults  \* bound on the device's failures

Char == {"m", "0", "[", "LF", "ESC"}
Item == Char \union {"CR", "SGR"}
Esc == {"none", "ctrl", "skip"}   \* neither bit, ctrl_esc, skip_ctrl_esc

ASSUME OutAssumption ==
  /\ Gap \in Nat
  /\ Cap \in Nat \ {0}
  /\ Modes \subseteq [crlf : BOOLEAN, esc : Esc]
  /\ Texts \subseteq Seq(Char)
  /\ MaxText \in Nat
  /\ MaxFaults \in Nat

VARIABLES
  mode,    \* mode_: a member of Modes, or Closed
  buf,     \* *buf_->data, Gap + Cap characters
  pos,     \* pos()
  state,   \* iostate: "good", "bad" or (after freebuf) "fail"
  pc,      \* "idle", in the loop of flush_buffer, or between two writes
  caller,  \* the operation that called flush_buffer
  todo,    \* what the running write() has not stored yet
  from,    \* flush_buffer's read position in buf
  to,      \* flush_buffer's write position in buf
  dev,     \* everything the device has received
  want,    \* history: what was accepted, as a terminal would see it
  written, \* history: how many characters were accepted
  faults,  \* history: how often the device failed
  retried  \* history: clear() was called after a failure of the device

io == <<buf, pos, todo, from, to, dev>>
history == <<want, written, retried>>
vars == <<mode, state, pc, caller, io, history, faults>>

Closed == [crlf |-> FALSE, esc |-> "closed"]
Size == Gap + Cap

(* first(), curr() as indices of buf: room is kept for LF to CR LF only if *)
(* that is the mode.                                                       *)
First == IF mode.crlf THEN Gap ELSE 0
Curr == First + pos

TypeOK ==
  /\ mode \in Modes \union {Closed}
  /\ buf \in [0 .. Size - 1 -> Char \union {"CR"}]
  /\ pos \in 0 .. Size - First
  /\ state \in {"good", "bad", "fail"}
  /\ pc \in {"idle", "store", "scan", "sync"}
  /\ caller \in {"write", "reserve", "flush", "free"}
  /\ todo \in Seq(Char)
  /\ from \in 0 .. Size
  /\ to \in 0 .. Size
  /\ want \in [see : Seq(Item), in : {"text", "esc", "csi"}]
  /\ dev \in Seq(Item)
  /\ written \in Nat
  /\ faults \in Nat
  /\ retried \in BOOLEAN

-----------------------------------------------------------------------------
(* What a terminal makes of a character stream: `see` is the screen, `in`  *)
(* tells whether the stream is inside an escape sequence.  The reference   *)
(* that the buffered conversion is compared with.                          *)
Blank == [see |-> <<>>, in |-> "text"]

SeeChar(m, seen, c) ==
  CASE seen.in = "esc" -> [seen EXCEPT !.in = IF c = "[" THEN "csi" ELSE "text"]
    [] seen.in = "csi" /\ c \in {"m", "["} ->
         [see |-> IF c = "m" /\ m.esc = "ctrl" THEN Append(seen.see, "SGR") ELSE seen.see,
          in |-> "text"]
    [] seen.in = "csi" /\ c \notin {"m", "["} -> seen
    [] seen.in = "text" /\ c = "ESC" /\ m.esc # "none" -> [seen EXCEPT !.in = "esc"]
    [] seen.in = "text" /\ c = "LF" /\ m.crlf ->
         [seen EXCEPT !.see = seen.see \o <<"CR", "LF">>]
    [] OTHER -> [seen EXCEPT !.see = Append(seen.see, c)]

SeeText(m, seen, s) == FoldLeft(LAMBDA acc, c : SeeChar(m, acc, c), seen, s)

-----------------------------------------------------------------------------
(* A piece of buf as a sequence.                                           *)
Piece(a, b) == [i \in 1 .. b - a |-> buf[a + i - 1]]
Pending == Piece(First, Curr)

Init ==
  /\ mode \in Modes
  /\ buf = [i \in 0 .. Size - 1 |-> "m"]
  /\ pos = 0
  /\ state = "good"
  /\ pc = "idle"
  /\ caller = "flush"
  /\ todo = <<>>
  /\ from = 0
  /\ to = 0
  /\ dev = <<>>
  /\ want = Blank
  /\ written = 0
  /\ faults = 0
  /\ retried = FALSE

(* write_all: the device takes the whole block, or a part of it and fails. *)
WriteAll(s) ==
  /\ dev' = dev \o s
  /\ UNCHANGED faults

(* Mutant: a block that was taken in part is sent again from its start.    *)
WriteAll_Fails_Resends(s) ==
  /\ faults < MaxFaults
  /\ \E n \in 0 .. Len(s) :
       /\ n < Len(s) \/ s = <<>>
       /\ dev' = dev \o SubSeq(s, 1, n) \o SubSeq(s, 1, n)
  /\ faults' = faults + 1

WriteAll_Fails(s) ==
  /\ faults < MaxFaults
  /\ \E n \in 0 .. Len(s) :
       /\ n < Len(s) \/ s = <<>>
       /\ dev' = dev \o SubSeq(s, 1, n)
  /\ faults' = faults + 1

(* freebuf after its flush: the buffer is gone, the stream has failed.     *)
Release ==
  /\ mode' = Closed
  /\ state' = "fail"
  /\ pc' = "idle"

(* A failed flush_buffer, as seen by write, reserve, flush and freebuf.    *)
Fail ==
  /\ IF caller = "free" THEN Release
     ELSE state' = "bad" /\ pc' = "idle" /\ UNCHANGED mode
  /\ todo' = <<>>
  /\ UNCHANGED <<caller, history>>

(* flush_buffer has returned 0: overflow is done, sync still has to flush  *)
(* the device.                                                             *)
Return ==
  /\ pc' = CASE caller = "write" -> "store"
             [] caller = "reserve" -> "idle"
             [] OTHER -> "sync"
  /\ UNCHANGED <<mode, state, caller, todo, history>>

CallFlushBuffer(op) ==
  /\ caller' = op
  /\ pc' = "scan"
  /\ from' = First
  /\ to' = 0

-----------------------------------------------------------------------------
(* write(s), put(c): as much as fits is stored, whatever the state; then   *)
(* overflow() if the stream is good.                                       *)
Store(s) ==
  LET n == IF Len(s) < Size - Curr THEN Len(s) ELSE Size - Curr
      rest == SubSeq(s, n + 1, Len(s))
  IN /\ buf' = [i \in DOMAIN buf |->
                  IF i \in Curr .. Curr + n - 1 THEN s[i - Curr + 1] ELSE buf[i]]
     /\ pos' = pos + n
     /\ want' = SeeText(mode, want, SubSeq(s, 1, n))
     /\ written' = written + n
     /\ IF rest # <<>> /\ state = "good"
        THEN todo' = rest /\ CallFlushBuffer("write") /\ UNCHANGED state
        ELSE /\ todo' = <<>>
             /\ pc' = "idle"
             /\ state' = IF rest = <<>> THEN state ELSE "bad"
             /\ UNCHANGED <<caller, from, to>>
     /\ UNCHANGED <<mode, dev, faults, retried>>

Write(s) ==
  /\ pc = "idle"
  /\ mode # Closed
  /\ s # <<>>
  /\ Store(s)

Store_Again ==
  /\ pc = "store"
  /\ Store(todo)

(* reserve(): room for one character, by overflow() if there is none.      *)
Reserve ==
  /\ pc = "idle"
  /\ mode # Closed
  /\ Curr = Size
  /\ IF state = "good" THEN CallFlushBuffer("reserve") /\ UNCHANGED state
     ELSE state' = "bad" /\ UNCHANGED <<caller, pc, from, to>>
  /\ UNCHANGED <<mode, buf, pos, todo, dev, history, faults>>

Flush ==
  /\ pc = "idle"
  /\ mode # Closed
  /\ IF state = "good" THEN CallFlushBuffer("flush") /\ UNCHANGED state
     ELSE state' = "bad" /\ UNCHANGED <<caller, pc, from, to>>
  /\ UNCHANGED <<mode, buf, pos, todo, dev, history, faults>>

(* freebuf, called by close() and the destructor.                          *)
FreeBuf ==
  /\ pc = "idle"
  /\ mode # Closed
  /\ IF state = "good" THEN CallFlushBuffer("free") /\ UNCHANGED <<mode, state>>
     ELSE Release /\ UNCHANGED <<caller, from, to>>
  /\ UNCHANGED <<buf, pos, todo, dev, history, faults>>

(* initbuf on a stream that freebuf has closed.                            *)
InitBuf(m) ==
  /\ pc = "idle"
  /\ mode = Closed
  /\ mode' = m
  /\ state' = "good"
  /\ pos' = 0
  /\ dev' = <<>>
  /\ want' = Blank
  /\ retried' = FALSE
  /\ faults' = 0
  /\ UNCHANGED <<buf, pc, caller, todo, from, to, written>>

(* clear(): the program tries again after a failure.                       *)
Clear ==
  /\ pc = "idle"
  /\ mode # Closed
  /\ state = "bad"
  /\ state' = "good"
  /\ retried' = (retried \/ faults > 0)
  /\ UNCHANGED <<mode, pc, caller, io, want, written, faults>>

-----------------------------------------------------------------------------
(* flush_buffer.  Without conversion: one block.                           *)
Plain == ~mode.crlf /\ mode.esc = "none"

Scan_Plain ==
  /\ pc = "scan"
  /\ Plain
  /\ \/ WriteAll(Pending) /\ pos' = 0 /\ Return
     \/ WriteAll_Fails(Pending) /\ pos' = pos /\ Fail
  /\ UNCHANGED <<buf, from, to>>

Scanning == pc = "scan" /\ ~Plain

AtText == from # Curr
AtNewline == AtText /\ buf[from] = "LF" /\ mode.crlf
AtEscape == AtText /\ buf[from] = "ESC" /\ mode.esc # "none"

(* An ordinary character moves towards the front.                          *)
Scan_Char ==
  /\ Scanning
  /\ AtText /\ ~AtNewline /\ ~AtEscape
  /\ buf' = [buf EXCEPT ![to] = buf[from]]
  /\ to' = to + 1
  /\ from' = from + 1
  /\ UNCHANGED <<mode, pos, state, pc, caller, todo, dev, history, faults>>

(* Mutant: LF is expanded whether there is room or not.                    *)
Scan_Newline_NoGuard ==
  /\ Scanning
  /\ AtNewline
  /\ to + 1 < Size
  /\ buf' = [buf EXCEPT ![to] = "CR", ![to + 1] = "LF"]
  /\ to' = to + 2
  /\ from' = from + 1
  /\ UNCHANGED <<mode, pos, state, pc, caller, todo, dev, history, faults>>

(* LF becomes CR LF if there is room before it...                          *)
Scan_Newline ==
  /\ Scanning
  /\ AtNewline
  /\ to # from
  /\ buf' = [buf EXCEPT ![to] = "CR", ![to + 1] = "LF"]
  /\ to' = to + 2
  /\ from' = from + 1
  /\ UNCHANGED <<mode, pos, state, pc, caller, todo, dev, history, faults>>

(* ... and if not, what was converted is sent first: the outer loop.       *)
Scan_NoRoom ==
  /\ Scanning
  /\ AtNewline
  /\ to = from
  /\ \/ WriteAll(Piece(0, to)) /\ to' = 0 /\ UNCHANGED <<mode, state, pc, caller, todo, history>>
     \/ WriteAll_Fails(Piece(0, to)) /\ to' = to /\ Fail
  /\ UNCHANGED <<buf, pos, from>>

(* Mutant: the end is searched from one character too far.                 *)
EndOfEsc_TooFar ==
  LET f == from + 1
      ends == {p \in f + 2 .. Curr - 1 : buf[p] \in {"m", "["}}
  IN CASE f = Curr -> f
       [] f # Curr /\ buf[f] # "[" -> f + 1
       [] OTHER -> IF ends = {} THEN f ELSE Min(ends) + 1

(* find_end_of_ctrlesc(from + 1, curr()): from + 1 if there is no end yet. *)
EndOfEsc ==
  LET f == from + 1
      ends == {p \in f + 1 .. Curr - 1 : buf[p] \in {"m", "["}}
  IN CASE f = Curr -> f
       [] f # Curr /\ buf[f] # "[" -> f + 1
       [] OTHER -> IF ends = {} THEN f ELSE Min(ends) + 1

(* Mutant: an unfinished sequence never fails the flush.                   *)
Scan_Unfinished_NeverFails ==
  /\ Scanning
  /\ AtEscape
  /\ EndOfEsc = from + 1
  /\ WriteAll(Piece(0, to))
  /\ pos' = Curr - from
  /\ buf' = [i \in DOMAIN buf |->
               IF i \in First .. First + (Curr - from) - 1
               THEN buf[i + (from - First)] ELSE buf[i]]
  /\ Return
  /\ UNCHANGED <<from, to>>

(* An unfinished sequence at the very beginning is an error; elsewhere the *)
(* text before it is sent and it moves to the front of the buffer.         *)
Scan_Unfinished ==
  /\ Scanning
  /\ AtEscape
  /\ EndOfEsc = from + 1
  /\ IF from = First
     THEN Fail /\ UNCHANGED <<buf, pos, dev, faults>>
     ELSE \/ /\ WriteAll(Piece(0, to))
             /\ pos' = Curr - from
             /\ buf' = [i \in DOMAIN buf |->
                          IF i \in First .. First + (Curr - from) - 1
                          THEN buf[i + (from - First)] ELSE buf[i]]
             /\ Return
          \/ WriteAll_Fails(Piece(0, to)) /\ UNCHANGED <<buf, pos>> /\ Fail
  /\ UNCHANGED <<from, to>>

(* parse_ctrlesc: "[...m" is a colour, anything else means nothing.        *)
Colour(first, last) ==
  IF first # last /\ buf[first] = "[" /\ buf[last - 1] = "m" THEN <<"SGR">> ELSE <<>>

Scan_Escape ==
  /\ Scanning
  /\ AtEscape
  /\ EndOfEsc # from + 1
  /\ IF mode.esc = "skip"
     THEN from' = EndOfEsc /\ UNCHANGED <<mode, state, pc, caller, todo, to, dev, history, faults>>
     ELSE \/ /\ WriteAll(Piece(0, to) \o Colour(from + 1, EndOfEsc))
             /\ from' = EndOfEsc
             /\ to' = 0
             /\ UNCHANGED <<mode, state, pc, caller, todo, history>>
          \/ WriteAll_Fails(Piece(0, to)) /\ Fail /\ UNCHANGED <<from, to>>
  /\ UNCHANGED <<buf, pos>>

Scan_End ==
  /\ Scanning
  /\ ~AtText
  /\ \/ WriteAll(Piece(0, to)) /\ pos' = 0 /\ Return
     \/ WriteAll_Fails(Piece(0, to)) /\ pos' = pos /\ Fail
  /\ UNCHANGED <<buf, from, to>>

(* sync() ends with dev_->flush().                                         *)
Sync ==
  /\ pc = "sync"
  /\ \/ /\ IF caller = "free" THEN Release
           ELSE pc' = "idle" /\ UNCHANGED <<mode, state>>
        /\ UNCHANGED <<caller, todo, history, faults>>
     \/ faults < MaxFaults /\ faults' = faults + 1 /\ Fail
  /\ UNCHANGED <<buf, pos, from, to, dev>>

-----------------------------------------------------------------------------
FlushBuffer ==
  \/ Scan_Plain \/ Scan_Char \/ Scan_Newline \/ Scan_NoRoom
  \/ Scan_Unfinished \/ Scan_Escape \/ Scan_End

Continue == Store_Again \/ FlushBuffer \/ Sync

Call ==
  \/ \E s \in Texts : written + Len(s) <= MaxText /\ Write(s)
  \/ Reserve \/ Flush \/ FreeBuf \/ Clear
  \/ \E m \in Modes : InitBuf(m)

Next == Call \/ Continue

(* A call, once made, runs to its return.                                 *)
Spec == Init /\ [][Next]_vars /\ WF_vars(Continue)

-----------------------------------------------------------------------------
(* Properties.                                                             *)

(* The in-place expansion never writes over text it has not read: the      *)
(* write position stays behind the read position, inside the buffer.       *)
NeverOvertakes ==
  pc = "scan" => to <= from /\ from <= Curr /\ Curr <= Size

(* The type invariant and the bounds of the conversion in place.          *)
Inv == TypeOK /\ NeverOvertakes

(* Until the device fails, what it has received, what flush_buffer has     *)
(* converted and what still waits are together exactly what was written:   *)
(* nothing is lost, repeated, reordered or converted twice.                *)
TextIntact ==
  mode # Closed /\ faults = 0 =>
    want = IF pc = "scan"
           THEN SeeText(mode, [see |-> dev \o Piece(0, to), in |-> "text"], Piece(from, Curr))
           ELSE SeeText(mode, [see |-> dev, in |-> "text"], Pending)

(* When flush_buffer succeeds the device has everything that can be shown: *)
(* at most an unfinished escape sequence stays in the buffer.  A device    *)
(* that has failed has received the text from its beginning up to a point, *)
(* and receives nothing more before the program calls clear(): not by put, *)
(* write, flush, reserve or the destructor.                                *)
DeviceExact ==
  /\ pc \in {"store", "sync"} /\ faults = 0 => dev = want.see
  /\ ~retried => IsPrefix(dev, want.see)

(* What is on the device, at every turn and after a failure.               *)
OutputExact == TextIntact /\ DeviceExact

(* Every call returns: neither the loops of flush_buffer nor write() spin  *)
(* on a buffer that cannot be emptied.                                     *)
OperationsEnd == pc # "idle" ~> pc = "idle"

(* A stream whose device works fails only while the text written so far    *)
(* ends inside an escape sequence, which is then all that is in the        *)
(* buffer.  (The sequence need not be too long: a flush is enough.)  Once  *)
(* the device has failed this is not so: part of the buffer has been       *)
(* converted then, and is converted again after clear().                   *)
FailsOnlyInEscape ==
  [][state = "good" /\ state' = "bad" /\ faults' = 0 =>
       want.in # "text" /\ buf[First] = "ESC"]_vars

=============================================================================
