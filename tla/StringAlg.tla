------------------------------ MODULE StringAlg ------------------------------
(***************************************************************************)
(* The algorithms that take a string apart and put it together             *)
(* (include/uxs/string_alg.h, src/string_alg.cpp), and the steps that do   *)
(* one of them, or one conversion of Strings.  Positions count from 1, the *)
(* end of a string being the position behind its last character; a size    *)
(* that is not limited is Forever.                                         *)
(***************************************************************************)
EXTENDS Numbers, Strings

VARIABLES
    out,  \* <<what has been made of the string>>, or <<>>
    again \* <<what has been made of that>>, or <<>>

strVars == <<out, again>>

Nothing == <<>>
Backslash == 92
is_space(c) == c \in {9, 10, 11, 12, 13, 32}
to_lower(c) == IF c \in 65..90 THEN c + 32 ELSE c

End(s) == Len(s) + 1
Sub(first, second) == [first |-> first, second |-> second]
IsAt(t, s, p) == p + Len(t) <= End(s) /\ SubSeq(s, p, p + Len(t) - 1) = t

---------------------------------------------------------------------------
(* string_finder: a character that no backslash stands before, or a text.  *)
(* A finder is [kind, tgt].                                                *)
sfinder(f, s, begin) ==
    LET unescaped[p \in Nat] == CASE p >= End(s) -> Sub(End(s), End(s))
                                  [] p < End(s) /\ s[p] = Backslash -> unescaped[p + 2]
                                  [] p < End(s) /\ s[p] # Backslash /\ s[p] = f.tgt[1] -> Sub(p, p + 1)
                                  [] OTHER -> unescaped[p + 1]
        places == {p \in begin..End(s) - Len(f.tgt) : IsAt(f.tgt, s, p)}
    IN  CASE f.kind = "char" -> unescaped[begin]
          [] f.kind = "text" /\ places # {} -> Sub(Min(places), Min(places) + Len(f.tgt))
          [] OTHER -> Sub(End(s), End(s))

(* reversed_string_finder, in what stands before end.                      *)
rsfinder(f, s, end) ==
    LET places == {p \in 1..end - Len(f.tgt) : IsAt(f.tgt, s, p) /\ (f.kind = "char" => p = 1 \/ s[p - 1] # Backslash)}
    IN  IF places = {} THEN Sub(1, 1) ELSE Sub(Max(places), Max(places) + Len(f.tgt))

(* The sections between what the finder finds, from a place on; those that *)
(* the reversed finder finds, up to a place, the last one first.           *)
Sections(s, f, skip_empty) ==
    LET from[p \in 1..End(s)] ==
            LET sub == sfinder(f, s, p)
            IN  <<Sub(p, sub.first)>> \o IF sub.first = End(s) THEN <<>> ELSE from[sub.second]
    IN  SelectSeq(from[1], LAMBDA x : ~skip_empty \/ x.first # x.second)
ReversedSections(s, f, skip_empty) ==
    LET upto[p \in 1..End(s)] ==
            LET sub == rsfinder(f, s, p)
            IN  <<Sub(sub.second, p)>> \o IF sub.second = 1 THEN <<>> ELSE upto[sub.first]
    IN  SelectSeq(upto[End(s)], LAMBDA x : ~skip_empty \/ x.first # x.second)

Text(s, sub) == SubSeq(s, sub.first, sub.second - 1)
Texts(s, subs) == [i \in DOMAIN subs |-> Text(s, subs[i])]
Firsts(r, n) == SubSeq(r, 1, Min({n, Len(r)}))

split_string(s, f, skip_empty, n) == Firsts(Texts(s, Sections(s, f, skip_empty)), n)

string_section(s, f, skip_empty, start, fin) ==
    LET subs == Sections(s, f, skip_empty)
        last == Max({start, fin})
    IN  Text(s, Sub(IF start < Len(subs) THEN subs[start + 1].first ELSE End(s),
                    IF last < Len(subs) THEN subs[last + 1].second ELSE End(s)))

reversed_section(s, f, skip_empty, start, fin) ==
    LET subs == ReversedSections(s, f, skip_empty)
        last == Min({start, fin})
    IN  Text(s, Sub(IF start < Len(subs) THEN subs[start + 1].first ELSE 1,
                    IF last < Len(subs) THEN subs[last + 1].second ELSE 1))

(* replace_basic_strings goes on behind what it has replaced, and is done  *)
(* when there is nothing left.                                             *)
replace_strings(s, f, with) ==
    LET from[p \in 1..End(s)] ==
            LET sub == sfinder(f, s, p)
            IN  IF p = End(s) THEN <<>>
                ELSE Text(s, Sub(p, sub.first)) \o (IF sub.first # sub.second THEN with ELSE <<>>) \o from[sub.second]
    IN  from[1]

join_strings(r, sep) == FoldLeftDomain(LAMBDA t, i : t \o (IF i = 1 THEN <<>> ELSE sep) \o r[i], <<>>, r)

---------------------------------------------------------------------------
(* The end of a word that begins at p, and the state behind it.            *)
WordEnd(s, sep, p, state) ==
    LET at[q \in Nat] == CASE q >= End(s) -> [p |-> End(s), state |-> state]
                           [] q < End(s) /\ s[q] = Backslash -> at[q + 2]
                           [] q < End(s) /\ s[q] # Backslash /\ is_space(s[q]) -> [p |-> q, state |-> "skip_sep"]
                           [] q < End(s) /\ s[q] # Backslash /\ ~is_space(s[q]) /\ s[q] = sep -> [p |-> q, state |-> "sep_found"]
                           [] OTHER -> at[q + 1]
    IN  at[p]

(* Mutant: a separator behind a blank ends a word of its own.              *)
string_to_words_NoSkip(s, sep, n) ==
    LET SkipSpaces(p) == Min({q \in p..End(s) : q = End(s) \/ ~is_space(s[q])})
        from[p \in 1..End(s), state \in {"start", "sep_found", "skip_sep"}] ==
            LET p0 == SkipSpaces(p)
                end == WordEnd(s, sep, p0, state)
            IN  CASE p0 = End(s) -> IF state = "sep_found" THEN <<<<>>>> ELSE <<>>
                  [] OTHER -> <<Text(s, Sub(p0, end.p))>> \o IF end.p = End(s) THEN <<>> ELSE from[end.p + 1, end.state]
    IN  Firsts(from[1, "start"], n)

(* basic_string_to_words: blanks and separators end a word, and a          *)
(* separator behind a blank only ends the blanks.                          *)
string_to_words(s, sep, n) ==
    LET SkipSpaces(p) == Min({q \in p..End(s) : q = End(s) \/ ~is_space(s[q])})
        from[p \in 1..End(s), state \in {"start", "sep_found", "skip_sep"}] ==
            LET p0 == SkipSpaces(p)
                end == WordEnd(s, sep, p0, state)
            IN  CASE p0 = End(s) -> IF state = "sep_found" THEN <<<<>>>> ELSE <<>>
                  [] p0 < End(s) /\ end.p = p0 /\ state = "skip_sep" -> from[end.p + 1, end.state]
                  [] OTHER -> <<Text(s, Sub(p0, end.p))>> \o IF end.p = End(s) THEN <<>> ELSE from[end.p + 1, end.state]
    IN  Firsts(from[1, "start"], n)

(* parse_basic_flag_string: the flags added and the flags taken away, of   *)
(* those that are in the table.                                            *)
parse_flag_string(s, table) ==
    LET words == ToSet(string_to_words(s, 32, Forever))
        Name(w) == IF w[1] \in {43, 45} THEN Tail(w) ELSE w
        Flags(ws) == {Name(w) : w \in ws} \cap table
    IN  [first |-> Flags({w \in words : w[1] # 45}), second |-> Flags({w \in words : w[1] = 45})]

---------------------------------------------------------------------------
Masked(s, symb) == FlattenSeq([i \in DOMAIN s |-> IF s[i] \in symb THEN <<Backslash, s[i]>> ELSE <<s[i]>>])

(* pack_basic_strings: an empty string at the end gets a separator.        *)
pack_strings(r, sep) ==
    join_strings([i \in DOMAIN r |-> Masked(r[i], {Backslash, sep})], <<sep>>)
    \o IF r # <<>> /\ Last(r) = <<>> THEN <<sep>> ELSE <<>>

(* unpack_basic_strings: what a backslash stands before is taken as it is, *)
(* and there is no empty string at the end.                                *)
unpack_strings(s, sep, n) ==
    LET from[p \in Nat, result \in Seq(Nat)] ==
            CASE p >= End(s) -> IF result = <<>> THEN <<>> ELSE <<result>>
              [] p < End(s) /\ s[p] = Backslash -> from[p + 2, result \o Text(s, Sub(p + 1, Min({p + 2, End(s)})))]
              [] p < End(s) /\ s[p] # Backslash /\ s[p] = sep -> <<result>> \o from[p + 1, <<>>]
              [] OTHER -> from[p + 1, Append(result, s[p])]
    IN  Firsts(from[1, <<>>], n)

(* basic_encode_escapes, basic_decode_escapes: symb and code tell which    *)
(* letter stands for which character.                                      *)
encode_escapes(s, symb, code) ==
    LET pos(c) == Min({i \in DOMAIN symb : symb[i] = c})
    IN  FlattenSeq([i \in DOMAIN s |-> IF s[i] \in ToSet(symb) THEN <<Backslash, code[pos(s[i])]>> ELSE <<s[i]>>])

decode_escapes(s, symb, code) ==
    LET pos(c) == Min({i \in DOMAIN code : code[i] = c})
        from[p \in Nat] ==
            CASE p >= End(s) -> <<>>
              [] p < End(s) /\ s[p] # Backslash -> <<s[p]>> \o from[p + 1]
              [] p + 1 < End(s) /\ s[p] = Backslash /\ s[p + 1] \in ToSet(code) -> <<symb[pos(s[p + 1])]>> \o from[p + 2]
              [] OTHER -> Text(s, Sub(p + 1, Min({p + 2, End(s)}))) \o from[p + 2]
    IN  from[1]

trim_string(s) ==
    LET kept == {i \in DOMAIN s : ~is_space(s[i])}
    IN  IF kept = {} THEN <<>> ELSE SubSeq(s, Min(kept), Max(kept))

compare_strings_nocase(lhs, rhs) ==
    LET differ == {i \in DOMAIN lhs \cap DOMAIN rhs : to_lower(lhs[i]) # to_lower(rhs[i])}
    IN  CASE differ = {} -> (IF Len(lhs) < Len(rhs) THEN -1 ELSE IF Len(rhs) < Len(lhs) THEN 1 ELSE 0)
          [] OTHER -> IF to_lower(lhs[Min(differ)]) < to_lower(rhs[Min(differ)]) THEN -1 ELSE 1

---------------------------------------------------------------------------
(* Each step does what its kind of job asks for. *)
Make(kind, made) == job.kind = kind /\ out = Nothing /\ out' = <<made>> /\ UNCHANGED <<job, text, back, again>>
MakeAgain(kind, made) ==
    job.kind = kind /\ out # Nothing /\ again = Nothing /\ again' = <<made>> /\ UNCHANGED <<job, text, back, out>>

EncodeCode == Make("code", to_utf8(job.code)) \/ MakeAgain("code", to_utf16(job.code))
WidenAndBack == Make("utf8", from_utf8_to_wide(job.str)) \/ MakeAgain("utf8", from_wide_to_utf8(out[1]))
FormatString == Make("string", fmt_string(job.str, job.fmt))
FormatCharacter == Make("character", fmt_character(job.str[1], IntBits, job.fmt))

SplitAndJoin ==
    \/ Make("split", split_string(job.str, job.finder, job.skip_empty, job.n))
    \/ MakeAgain("split", join_strings(out[1], job.finder.tgt))
TakeSection == Make("section", string_section(job.str, job.finder, job.skip_empty, job.start, job.fin))
TakeReversed == Make("reversed", reversed_section(job.str, job.finder, job.skip_empty, job.start, job.fin))
Replace == Make("replace", replace_strings(job.str, job.finder, job.with))
TakeWords == Make("words", string_to_words(job.str, job.sep, job.n)) \/ MakeAgain("words", parse_flag_string(job.str, job.table))
PackAndUnpack == Make("pack", pack_strings(job.strs, job.sep)) \/ MakeAgain("pack", unpack_strings(out[1], job.sep, Forever))
Unpack == Make("unpack", unpack_strings(job.str, job.sep, job.n))
EscapeAndBack ==
    \/ Make("escapes", encode_escapes(job.str, job.symb, job.code))
    \/ MakeAgain("escapes", decode_escapes(out[1], job.symb, job.code))
TrimBlanks == Make("trim", trim_string(job.str))
CompareTexts ==
    \/ Make("compare", compare_strings_nocase(job.str, job.other))
    \/ MakeAgain("compare", compare_strings_nocase(job.other, job.str))

StringNext ==
    \/ EncodeCode \/ WidenAndBack \/ FormatString \/ FormatCharacter
    \/ SplitAndJoin \/ TakeSection \/ TakeReversed \/ Replace \/ TakeWords \/ PackAndUnpack \/ Unpack
    \/ EscapeAndBack \/ TrimBlanks \/ CompareTexts

---------------------------------------------------------------------------
Did(kind) == job.kind = kind /\ out # Nothing
DidAgain(kind) == job.kind = kind /\ again # Nothing

(* The encodings of Unicode, and the character for what it does not have.  *)
Scalar(c) == IF c \in 55296..57343 \/ c > 1114111 THEN 65533 ELSE c
Utf8(c) ==
    LET low(n) == 128 + (n % 64)
    IN  CASE c < 128 -> <<c>>
          [] c \in 128..2047 -> <<192 + (c \div 64), low(c)>>
          [] c \in 2048..65535 -> <<224 + (c \div 4096), low(c \div 64), low(c)>>
          [] OTHER -> <<240 + (c \div 262144), low(c \div 4096), low(c \div 64), low(c)>>
Utf16(c) == IF c < 65536 THEN <<c>> ELSE <<55232 + (c \div 1024), 56320 + (c % 1024)>>

(* from_utf8, to_utf8, from_utf16, to_utf16: a character is put into its   *)
(* shortest encoding, one that is none into U+FFFD; and whatever bytes     *)
(* stand before it, a character is found where it is, once, and goes to    *)
(* wide characters and back as it was.                                     *)
CodesExact ==
    /\ Did("code") => out[1] = Utf8(Scalar(job.code))
    /\ DidAgain("code") => again[1] = Utf16(Scalar(job.code))
    /\ Did("utf8") => out[1] = from_utf8_to_wide(job.before) \o Utf16(job.behind)
    /\ DidAgain("utf8") => again[1] = from_wide_to_utf8(from_utf8_to_wide(job.before)) \o Utf8(job.behind)

Columns(s) == FoldLeft(LAMBDA n, code : n + get_utf_code_width(code), 0, CodesOf(Decoded("utf8", s)))

(* The text that an escaped text stands for, behind its quote.             *)
ReadEscaped(s) ==
    LET letters == (116 :> 9) @@ (110 :> 10) @@ (114 :> 13)
        HexEnd(p) == Min({q \in p..Len(s) : s[q] = 125})
        Hex(p) == FoldLeft(LAMBDA n, c : 16 * n + (IF c < 58 THEN c - 48 ELSE c - 87), 0, SubSeq(s, p, HexEnd(p) - 1))
        from[p \in Nat] ==
            CASE p > Len(s) -> <<>>
              [] p <= Len(s) /\ s[p] # 92 -> <<s[p]>> \o from[p + 1]
              [] p < Len(s) /\ s[p] = 92 /\ s[p + 1] = 120 -> <<Hex(p + 3)>> \o from[HexEnd(p) + 1]
              [] p < Len(s) /\ s[p] = 92 /\ s[p + 1] = 117 -> Utf8(Hex(p + 3)) \o from[HexEnd(p) + 1]
              [] OTHER -> <<IF s[p + 1] \in DOMAIN letters THEN letters[s[p + 1]] ELSE s[p + 1]>> \o from[p + 2]
    IN  from[1]

(* The rest of a text between its fills, which are left where the          *)
(* adjustment puts them and as many as the width asks for.                 *)
Between(s, fmt) ==
    LET inner == {i \in DOMAIN s : s[i] # fmt.fill}
    IN  IF inner = {} THEN <<>> ELSE SubSeq(s, Min(inner), Max(inner))
IsFilled(s, fmt, columns) ==
    LET pads == Max({fmt.width - columns, 0})
        left == CASE fmt.adjust = "right" -> pads [] fmt.adjust = "internal" -> pads \div 2 [] OTHER -> 0
    IN  s = Copies(left, fmt.fill) \o Between(s, fmt) \o Copies(pads - left, fmt.fill)

Begins(s, t) == Len(t) <= Len(s) /\ SubSeq(s, 1, Len(t)) = t
Limit == IF job.kind = "string" /\ job.fmt.prec >= 0 THEN job.fmt.prec ELSE Forever

(* fmt_string, fmt_character: of a text no more columns are put down than  *)
(* the precision allows, and of its first characters as many as that.      *)
PlainShown ==
    LET inner == Between(out[1], job.fmt)
    IN  /\ IsFilled(out[1], job.fmt, Columns(inner))
        /\ Columns(inner) <= Limit
        /\ Begins(job.str, inner)
        /\ inner # job.str => Columns(inner) + get_utf_code_width(from_utf8(job.str, Len(inner) + 1).code) > Limit

(* The columns that a character of an escaped text is counted for are      *)
(* those it takes; for an escape in braces (123) it is one too many.       *)
Cost(unit, single_quoted) ==
    LET esc == EscapeOf(unit, single_quoted)
    IN  CASE esc = <<>> -> get_utf_code_width(unit.code)
          [] esc # <<>> /\ 123 \notin ToSet(esc) -> Len(esc)
          [] OTHER -> Len(esc) + 1

(* append_escaped_text: in its quotes the text can be read back, and       *)
(* nothing in it needs an escape.  With a precision as many characters are *)
(* put down as fit by their count, and the second quote if there is room.  *)
(* But where an escape is the first that does not fit, what stands between *)
(* the last escape before it and itself is there twice.  The width is      *)
(* filled by the count too: one fill is missing for each pair of braces,   *)
(* and what is there twice does not count.                                 *)
EscapedShown ==
    LET single == job.kind = "character"
        quote == IF single THEN 39 ELSE 34
        units == Decoded("utf8", job.str)
        counted[n \in 0..Len(units)] == IF n = 0 THEN 1 ELSE counted[n - 1] + Cost(units[n], single)
        kept == Max({n \in 0..Len(units) : counted[n] <= Limit})
        closed == counted[kept] # Limit
        escapes == {n \in DOMAIN units : EscapeOf(units[n], single) # <<>>}
        source(first, last) == SubSeq(job.str, Append(Starts("utf8", job.str), End(job.str))[first],
                                      Append(Starts("utf8", job.str), End(job.str))[last + 1] - 1)
        twice == IF kept + 1 \in escapes THEN source(Max({0} \cup (escapes \cap 1..kept)) + 1, kept) ELSE <<>>
        inner == Between(out[1], job.fmt)
        body == IF closed THEN Tail(Front(inner)) ELSE Tail(inner)
    IN  /\ Limit = 0 => inner = <<>> /\ IsFilled(out[1], job.fmt, 0)
        /\ Limit > 0 =>
               /\ IsFilled(out[1], job.fmt, counted[kept] + IF closed THEN 1 ELSE 0)
               /\ inner[1] = quote /\ (closed => Last(inner) = quote)
               /\ ReadEscaped(body) = source(1, kept) \o twice
               /\ \A code \in ToSet(CodesOf(Decoded("utf8", inner))) : code \notin Unprintable \cup {9, 10, 13}

(* Texts keep their characters in whatever form they are put; how many of  *)
(* an escaped text there are, and where it is filled up to, goes by the    *)
(* code's own count of columns.                                            *)
TextsExact ==
    /\ CodesExact
    /\ Did("string") \/ Did("character") => IF job.fmt.debug THEN EscapedShown ELSE PlainShown

---------------------------------------------------------------------------
(* A backslash stands before the character and is not itself masked.       *)
IsMasked(s, i) ==
    LET others == {j \in 1..i - 1 : s[j] # Backslash}
    IN  (i - 1 - Max({0} \cup others)) % 2 = 1
Unmasked(s) == {i \in DOMAIN s : ~IsMasked(s, i)}
InOrder(places, n) == SelectSeq([i \in 1..n |-> i], LAMBDA i : i \in places)
Bare(s) ==
    LET kept == InOrder({i \in DOMAIN s : s[i] # Backslash \/ IsMasked(s, i)}, Len(s))
    IN  [i \in DOMAIN kept |-> s[kept[i]]]

(* What stands between the places. *)
Fields(s, places) ==
    LET cuts == <<0>> \o InOrder(places \cup {Len(s) + 1}, Len(s) + 1)
    IN  [i \in 1..Len(cuts) - 1 |-> SubSeq(s, cuts[i] + 1, cuts[i + 1] - 1)]
FieldsAt(s, c) == Fields(s, {i \in Unmasked(s) : s[i] = c})
NonEmpty(r, skip_empty) == SelectSeq(r, LAMBDA t : ~skip_empty \/ t # <<>>)

(* The sections of a string by a text: the first ends where the text is    *)
(* found first.                                                            *)
AreSections(r, s, tgt) ==
    /\ join_strings(r, tgt) = s
    /\ \A i \in 1..Len(r) - 1 : \A p \in DOMAIN r[i] : ~IsAt(tgt, r[i] \o tgt, p)
    /\ \A p \in DOMAIN Last(r) : ~IsAt(tgt, Last(r), p)

(* split_basic_string: the fields between the separators no backslash      *)
(* masks, the first n that are asked for; joined again they are the        *)
(* string, and replace_basic_strings joins them with another text.         *)
SplitExact ==
    LET c == job.finder.tgt[1]
    IN  /\ Did("split") /\ job.finder.kind = "char" =>
               out[1] = Firsts(NonEmpty(FieldsAt(job.str, c), job.skip_empty), job.n)
        /\ Did("split") /\ job.finder.kind = "text" /\ ~job.skip_empty /\ job.n = Forever =>
               AreSections(out[1], job.str, job.finder.tgt)
        /\ DidAgain("split") /\ ~job.skip_empty /\ job.n = Forever => again[1] = job.str
        /\ Did("replace") /\ job.finder.kind = "char" => out[1] = join_strings(FieldsAt(job.str, c), job.with)
        /\ Did("replace") /\ job.finder.kind = "text" =>
               out[1] = join_strings(split_string(job.str, job.finder, FALSE, Forever), job.with)

(* The fields from one to another, counted from 0, with what is between    *)
(* them; nothing if the string has not as many.                            *)
IsSection(s, part, c, skip_empty, first, last) ==
    LET fields == NonEmpty(FieldsAt(s, c), skip_empty)
    IN  IF first >= Len(fields) THEN part = <<>>
        ELSE NonEmpty(FieldsAt(part, c), skip_empty) = SubSeq(fields, first + 1, Min({last + 1, Len(fields)}))

TwoBackslashes(s) == \E i \in 1..Len(s) - 1 : s[i] = Backslash /\ s[i + 1] = Backslash

(* basic_string_section: the section has the fields from start to fin;     *)
(* counted from the end of the string, it is the same section as counted   *)
(* from its beginning, or of the string read backwards.                    *)
SectionExact ==
    LET c == job.finder.tgt[1]
        count == Len(NonEmpty(FieldsAt(job.str, c), job.skip_empty))
        low == Min({job.start, job.fin})
    IN  /\ Did("section") /\ job.finder.kind = "char" =>
               IsSection(job.str, out[1], c, job.skip_empty, job.start, Max({job.start, job.fin}))
        /\ Did("reversed") /\ job.finder.kind = "char" /\ ~TwoBackslashes(job.str) =>
               IF low < count THEN IsSection(job.str, out[1], c, job.skip_empty, Max({count - 1 - job.start, 0}), count - 1 - low)
               ELSE out[1] = <<>>
        /\ Did("reversed") /\ job.finder.kind = "text" =>
               Reverse(out[1]) = string_section(Reverse(job.str), [kind |-> "text", tgt |-> Reverse(job.finder.tgt)],
                                                job.skip_empty, low, job.start)

(* basic_string_to_words: a separator parts two groups of words, blanks    *)
(* part words, and a group without words is an empty word, unless it is    *)
(* all there is.  The flags of parse_flag_string are such words.           *)
WordsOf(s) == NonEmpty(Fields(s, {i \in Unmasked(s) : is_space(s[i])}), TRUE)
GroupedWords(s, sep) ==
    LET groups == IF is_space(sep) THEN <<s>> ELSE FieldsAt(s, sep)
    IN  FlattenSeq([i \in DOMAIN groups |-> IF WordsOf(groups[i]) = <<>> /\ Len(groups) > 1 THEN <<<<>>>> ELSE WordsOf(groups[i])])
WordsFound ==
    /\ Did("words") => out[1] = Firsts(GroupedWords(job.str, job.sep), job.n)
    /\ DidAgain("words") => again[1] = [first |-> {w \in job.table : w \in ToSet(WordsOf(job.str)) \/ <<43>> \o w \in ToSet(WordsOf(job.str))},
                                       second |-> {w \in job.table : <<45>> \o w \in ToSet(WordsOf(job.str))}]

(* pack_strings, unpack_strings: any strings can be packed into one and    *)
(* are unpacked as they were, empty ones too; what nothing has packed is   *)
(* the fields without their backslashes, an empty one at the end left out. *)
PackExact ==
    /\ DidAgain("pack") => again[1] = job.strs
    /\ Did("unpack") =>
           LET fields == [i \in DOMAIN FieldsAt(job.str, job.sep) |-> Bare(FieldsAt(job.str, job.sep)[i])]
           IN  out[1] = Firsts(IF Last(fields) = <<>> THEN Front(fields) ELSE fields, job.n)

(* encode_escapes, decode_escapes: any text is read back if the backslash  *)
(* is one of the characters that have a letter.                            *)
EscapesUndone == DidAgain("escapes") /\ Backslash \in ToSet(job.symb) => again[1] = job.str

Lower(s) == [i \in DOMAIN s |-> to_lower(s[i])]
Before(s, t) == \/ Len(s) < Len(t) /\ Begins(t, s)
                \/ \E k \in DOMAIN s \cap DOMAIN t : SubSeq(s, 1, k - 1) = SubSeq(t, 1, k - 1) /\ s[k] < t[k]

(* compare_strings_nocase is the order of the lower case, either way.      *)
OrderKept ==
    /\ Did("compare") => /\ out[1] < 0 <=> Before(Lower(job.str), Lower(job.other))
                         /\ out[1] = 0 <=> Lower(job.str) = Lower(job.other)
    /\ DidAgain("compare") => again[1] = -out[1]

(* The algorithms agree on what a separator is and lose nothing of a text. *)
WordsExact == SplitExact /\ SectionExact /\ WordsFound /\ PackExact /\ EscapesUndone /\ OrderKept
===============================================================================
