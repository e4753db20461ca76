------------------------------- MODULE Strings -------------------------------
(***************************************************************************)
(* Texts of bytes and their characters (include/uxs/utf.h), and strings    *)
(* and characters that are put down with a width, a precision and escapes  *)
(* (append_escaped_text of include/uxs/string_cvt.h, fmt_string of         *)
(* include/uxs/impl/string_cvt_impl.h).  Bytes and code points are         *)
(* numbers, and a text is a sequence of them.                              *)
(***************************************************************************)
EXTENDS IntText

CONSTANTS
    Unprintable, \* code points in the table of is_utf_code_printable
    WideCodes    \* code points in the table of get_utf_code_width

Forever == 1000000 \* the greatest number of a size

---------------------------------------------------------------------------
(* from_utf8: the code point at p and the number of its bytes.  What is    *)
(* not the text of a code point is taken byte by byte.                     *)
from_utf8(s, p) ==
    LET lead == s[p]
        count == CASE lead < 224 -> 1 [] lead \in 224..239 -> 2 [] OTHER -> 3
        bits == CASE count = 1 -> lead % 32 [] count = 2 -> lead % 16 [] OTHER -> lead % 8
        behind == SubSeq(s, p + 1, Min({p + count, Len(s)}))
        code == FoldLeft(LAMBDA n, b : 64 * n + (b % 64), bits, behind)
        single == [code |-> lead, size |-> 1]
    IN  CASE lead < 192 \/ lead >= 248 -> single
          [] lead \in 192..247 /\ (Len(behind) < count \/ \E i \in DOMAIN behind : behind[i] \notin 128..191) -> single
          [] OTHER -> IF code >= 1114112 \/ code \in 55296..57343 THEN single
                      ELSE [code |-> code, size |-> count + 1]

(* Mutant: three bytes are taken to hold what needs four.                  *)
to_utf8_ThreeBytes(code) ==
    LET c == IF code >= 1114112 \/ code \in 55296..57343 THEN 65533 ELSE code
        tail(k) == [i \in 1..k |-> 128 + ((c \div 64^(k - i)) % 64)]
        limit == <<31, 31, 7>>
        count == CHOOSE k \in 1..3 : c \div 64^k <= limit[k] /\ \A j \in 1..k - 1 : c \div 64^j > limit[j]
    IN  IF code < 128 THEN <<code>> ELSE <<<<192, 224, 240>>[count] + (c \div 64^count)>> \o tail(count)

(* to_utf8: as many bytes behind the first as are needed for the rest to   *)
(* fit into the first.                                                     *)
to_utf8(code) ==
    LET c == IF code >= 1114112 \/ code \in 55296..57343 THEN 65533 ELSE code
        tail(k) == [i \in 1..k |-> 128 + ((c \div 64^(k - i)) % 64)]
        limit == <<31, 15, 7>>
        count == CHOOSE k \in 1..3 : c \div 64^k <= limit[k] /\ \A j \in 1..k - 1 : c \div 64^j > limit[j]
    IN  IF code < 128 THEN <<code>> ELSE <<<<192, 224, 240>>[count] + (c \div 64^count)>> \o tail(count)

(* from_utf16, to_utf16: two surrogates, or the code point itself.         *)
from_utf16(s, p) ==
    IF p < Len(s) /\ s[p] \in 55296..56319 /\ s[p + 1] \in 56320..57343
    THEN [code |-> 65536 + 1024 * (s[p] % 1024) + (s[p + 1] % 1024), size |-> 2]
    ELSE [code |-> s[p], size |-> 1]

to_utf16(code) ==
    CASE code \in 65536..1114111 -> <<55296 + ((code - 65536) \div 1024), 56320 + ((code - 65536) % 1024)>>
      [] code >= 1114112 \/ code \in 55296..57343 -> <<65533>>
      [] OTHER -> <<code>>

(* utf_decoder, of bytes and of wide characters.                           *)
decode(form, s, p) == IF form = "utf8" THEN from_utf8(s, p) ELSE from_utf16(s, p)

(* The places at which a decoder finds code points, one behind the other.  *)
Starts(form, s) ==
    LET from[p \in Nat] == IF p > Len(s) THEN <<>> ELSE <<p>> \o from[p + decode(form, s, p).size]
    IN  from[1]
Decoded(form, s) == [i \in DOMAIN Starts(form, s) |-> decode(form, s, Starts(form, s)[i])]
CodesOf(units) == [i \in DOMAIN units |-> units[i].code]

(* utf_string_adapter *)
from_utf8_to_wide(s) == FlattenSeq([i \in DOMAIN Starts("utf8", s) |-> to_utf16(Decoded("utf8", s)[i].code)])
from_wide_to_utf8(s) == FlattenSeq([i \in DOMAIN Starts("utf16", s) |-> to_utf8(Decoded("utf16", s)[i].code)])

(* The tables of utf.cpp.                                                  *)
is_utf_code_printable(code) == code \notin Unprintable
get_utf_code_width(code) == IF code \in WideCodes THEN 2 ELSE 1

---------------------------------------------------------------------------
Quote(single_quoted) == IF single_quoted THEN 39 ELSE 34

(* The letter behind the backslash; 0 if there is none. *)
Escape(code, single_quoted) ==
    CASE code = 9 -> 116 [] code = 10 -> 110 [] code = 13 -> 114 [] code = 92 -> 92
      [] code = Quote(single_quoted) -> code [] OTHER -> 0

IsWellformed(unit) == unit.size > 1 \/ unit.code < 128

(* What is put for a code point of an escaped text, <<>> if it is put down *)
(* as it is; 123 and 125 are braces.                                       *)
HexDigitsOf(code) ==
    LET digit(n) == IF n < 10 THEN 48 + n ELSE 87 + n
        digits[n \in Nat] == IF n < 16 THEN <<digit(n)>> ELSE Append(digits[n \div 16], digit(n % 16))
    IN  digits[code]
EscapeOf(unit, single_quoted) ==
    CASE Escape(unit.code, single_quoted) # 0 -> <<92, Escape(unit.code, single_quoted)>>
      [] Escape(unit.code, single_quoted) = 0 /\ (unit.code \in {34, 39} \/ (IsWellformed(unit) /\ is_utf_code_printable(unit.code))) ->
            <<>>
      [] OTHER -> <<92, IF IsWellformed(unit) THEN 117 ELSE 120, 123>> \o HexDigitsOf(unit.code) \o <<125>>

(* append_escaped_text: what stands for itself is put down when something  *)
(* has to be escaped, from first0 on, or at the end.  The text that waits  *)
(* is put down before the width of the escape is looked at.  An escape in  *)
(* braces is counted for its digits and 5, and is one column shorter.      *)
Piece(unit, start, single_quoted) ==
    LET esc == EscapeOf(unit, single_quoted)
    IN  [start |-> start, behind |-> start + unit.size, esc |-> esc,
         width |-> CASE esc = <<>> /\ unit.code \in {34, 39} -> 1
                     [] esc = <<>> /\ unit.code \notin {34, 39} -> get_utf_code_width(unit.code)
                     [] Len(esc) = 2 -> 2
                     [] OTHER -> Len(esc) + 1]
PutDown(s, acc, piece, max_width) ==
    LET before == acc.text \o SubSeq(s, acc.first0, piece.start - 1)
    IN  CASE acc.cut -> acc
          [] ~acc.cut /\ max_width - acc.width < piece.width ->
                [acc EXCEPT !.cut = TRUE, !.text = IF piece.esc = <<>> THEN @ ELSE before]
          [] ~acc.cut /\ max_width - acc.width >= piece.width /\ piece.esc = <<>> ->
                [acc EXCEPT !.width = @ + piece.width, !.first = piece.behind]
          [] OTHER -> [text |-> before \o piece.esc, first0 |-> piece.behind, first |-> piece.behind,
                       width |-> acc.width + piece.width, cut |-> FALSE]
append_escaped_text(s, single_quoted, max_width) ==
    LET pieces == [i \in DOMAIN Starts("utf8", s) |-> Piece(Decoded("utf8", s)[i], Starts("utf8", s)[i], single_quoted)]
        done == FoldLeft(LAMBDA acc, piece : PutDown(s, acc, piece, max_width),
                         [text |-> <<Quote(single_quoted)>>, first0 |-> 1, first |-> 1, width |-> 1, cut |-> FALSE], pieces)
        whole(end) == end.text \o SubSeq(s, end.first0, end.first - 1)
        closed(end) == IF end.width = max_width THEN [text |-> whole(end), width |-> end.width]
                       ELSE [text |-> Append(whole(end), Quote(single_quoted)), width |-> end.width + 1]
    IN  IF max_width = 0 THEN [text |-> <<>>, width |-> 0] ELSE closed(done)

(* fmt_string, and fmt_character of a byte.                                *)
fmt_string(s, fmt) ==
    LET limit == IF fmt.prec >= 0 THEN fmt.prec ELSE Forever
        escaped == append_escaped_text(s, FALSE, limit)
        units == Decoded("utf8", s)
        width[i \in 0..Len(units)] == IF i = 0 THEN 0 ELSE width[i - 1] + get_utf_code_width(units[i].code)
        kept == Max({i \in 0..Len(units) : width[i] <= limit})
        size == FoldLeft(LAMBDA n, u : n + u.size, 0, SubSeq(units, 1, kept))
    IN  IF fmt.debug THEN append_adjusted(escaped.text, escaped.width, fmt, FALSE)
        ELSE append_adjusted(SubSeq(s, 1, size), width[kept], fmt, FALSE)

fmt_character(c, bits, fmt) ==
    LET escaped == append_escaped_text(<<c>>, TRUE, Forever)
    IN  CASE fmt.base \in {"dec", "bin", "oct", "hex"} -> fmt_number(c, bits, FALSE, fmt)
          [] fmt.base \notin {"dec", "bin", "oct", "hex"} /\ fmt.debug -> append_adjusted(escaped.text, escaped.width, fmt, FALSE)
          [] OTHER -> append_adjusted(<<c>>, 1, fmt, FALSE)
===============================================================================
