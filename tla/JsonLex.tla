------------------------------ MODULE JsonLex ------------------------------
(***************************************************************************)
(* json::detail::lexer::lex (src/db/json.cpp): tokens from an ibuf whose   *)
(* buffer is refilled when it is used up.  The generated automaton         *)
(* (src/db/json_lex_analyzer.inl) wants the longest match, so a token that *)
(* reaches the buffer's end is kept in `stash` while the next block is     *)
(* read, and characters read too far are put back.  The state stack of the *)
(* automaton grows when the portion it is given fills it.                  *)
(*                                                                         *)
(* The text is one sequence; the buffer shows text[lo + 1 .. hi], the next *)
(* character is text[pos + 1].  The device's blocks end at `cuts`.  A call *)
(* of lex() follows the one before until it gives "eof" or throws.         *)
(***************************************************************************)
EXTENDS Integers, Sequences, SequencesExt, FiniteSetsExt

-----------------------------------------------------------------------------
(***************************************************************************)
(* What the JSON lexer should make of a text: its tokens, read off the     *)
(* whole text at once from the patterns of src/db/json.lex, with neither a *)
(* table nor a buffer.  The lexer is checked against it.                   *)
(*                                                                         *)
(* Characters stand for classes: "d" a digit but 0, "w" a blank, "nl" a    *)
(* line feed, "q" a quote, "bs" a backslash, "a" a letter of no meaning;   *)
(* "n" "u" is a keyword.  After "bs" "u", one of "H" "L" "N" stands for    *)
(* four hexadecimal digits: a high surrogate, a low one, a plain one.      *)
(***************************************************************************)
Digits == {"0", "d"}
Quads == {"H", "L", "N"}
Punctuation == {"[", "]", "{", "}", ",", ":"}
Char == Digits \cup Quads \cup
        {"-", "+", ".", "e", "n", "u", "a", "/", "*", "w", "nl", "q", "bs"} \cup Punctuation

IsInt(s) == s = <<"0">> \/ (s # <<>> /\ s[1] = "d" /\ \A i \in DOMAIN s : s[i] \in Digits)
IsDigits(s) == s # <<>> /\ \A i \in DOMAIN s : s[i] \in Digits
IsFraction(s) == s = <<>> \/ (s[1] = "." /\ IsDigits(Tail(s)))
IsExponent(s) ==
  \/ s = <<>>
  \/ s[1] = "e" /\ (IsDigits(Tail(s)) \/ (Len(s) > 1 /\ s[2] \in {"+", "-"} /\ IsDigits(SubSeq(s, 3, Len(s)))))
IsNumber(s) ==
  \E m \in {0, 1}, i, j \in 0 .. Len(s) :
    /\ m <= i /\ i <= j
    /\ (m = 1) => s[1] = "-"
    /\ IsInt(SubSeq(s, m + 1, i))
    /\ IsFraction(SubSeq(s, i + 1, j))
    /\ IsExponent(SubSeq(s, j + 1, Len(s)))

Kind(s) ==
  CASE s = <<"n", "u">> -> "keyword"
    [] IsNumber(s) /\ (s[1] = "-") /\ IsInt(Tail(s)) -> "negative"
    [] IsNumber(s) /\ IsInt(s) -> "integer"
    [] IsNumber(s) -> "real"
    [] OTHER -> "none"

Token(tok, val, ln) == [tok |-> tok, val |-> val, ln |-> ln]
LineAt(t, p) == 1 + Cardinality({i \in 1 .. p : t[i] = "nl"})

(* The units of a string: "pair" is two escapes that make one character.   *)
Pairs(units) ==
  FoldLeft(LAMBDA acc, c : IF c = "L" /\ acc # <<>> /\ Last(acc) = "H"
                           THEN Append(Front(acc), "pair") ELSE Append(acc, c), <<>>, units)

(* Whether every surrogate has its other half next to it.                  *)
Paired(s) == \A i \in DOMAIN s : s[i] \notin {"H", "L"}

(* The units if one has not: a high surrogate waits for the next escape of *)
(* a code, and makes a pair with it, or comes out before it, wherever that *)
(* is in the string; if there is none it does not come out at all.         *)
Late(units) ==
  LET next(acc, c) ==
        CASE c \notin Quads -> [acc EXCEPT !.shown = Append(@, c)]
          [] acc.high /\ c = "L" -> [high |-> FALSE, shown |-> Append(acc.shown, "pair")]
          [] acc.high /\ c \in {"H", "N"} -> [high |-> FALSE, shown |-> acc.shown \o <<"H", c>>]
          [] ~acc.high /\ c = "H" -> [acc EXCEPT !.high = TRUE]
          [] ~acc.high /\ c \in {"L", "N"} -> [acc EXCEPT !.shown = Append(@, c)]
  IN FoldLeft(next, [high |-> FALSE, shown |-> <<>>], units).shown

Shown(units) == IF Paired(Pairs(units)) THEN Pairs(units) ELSE Late(units)

RECURSIVE Body(_, _, _), Tokens(_, _)
(* The rest of a string whose next character is t[p + 1]: where it ends    *)
(* and its units, or how it fails.                                         *)
Body(t, p, units) ==
  LET c == t[p + 1]
      e == t[p + 2]
  IN CASE p >= Len(t) -> [end |-> p, why |-> "eof", units |-> units]
       [] c = "q" -> [end |-> p + 1, why |-> "", units |-> units]
       [] c = "nl" -> [end |-> p, why |-> "unterminated", units |-> units]
       [] c # "bs" -> Body(t, p + 1, Append(units, c))
       [] p + 2 <= Len(t) /\ e \in {"q", "bs", "n"} -> Body(t, p + 2, Append(units, "esc"))
       [] p + 3 <= Len(t) /\ e = "u" /\ t[p + 3] \in Quads -> Body(t, p + 3, Append(units, t[p + 3]))
       [] OTHER -> [end |-> p, why |-> "escape", units |-> units]

(* The tokens of what follows t[p].                                        *)
Tokens(t, p) ==
  LET c == t[p + 1]
      ln == LineAt(t, p)
      starts(a, b) == p + 2 <= Len(t) /\ c = a /\ t[p + 2] = b
      ends == {i \in p + 3 .. Len(t) : t[i] = "nl"}
      closes == {i \in p + 4 .. Len(t) : t[i - 1] = "*" /\ t[i] = "/"}
      long == {n \in 1 .. Len(t) - p : Kind(SubSeq(t, p + 1, p + n)) # "none"}
      lexeme == SubSeq(t, p + 1, p + Max(long))
      str == Body(t, p + 1, <<>>)
  IN CASE p >= Len(t) -> <<Token("eof", <<>>, ln)>>
       [] c \in {"w", "nl"} -> Tokens(t, p + 1)
       [] starts("/", "/") -> IF ends = {} THEN <<Token("eof", <<>>, ln)>> ELSE Tokens(t, Min(ends))
       [] starts("/", "*") -> IF closes = {} THEN <<Token("throw", <<"comment">>, LineAt(t, Len(t)))>>
                              ELSE Tokens(t, Min(closes))
       [] c = "q" /\ str.why = "" -> <<Token("string", Shown(str.units), ln)>> \o Tokens(t, str.end)
       [] c = "q" /\ str.why = "eof" -> <<Token("eof", <<>>, ln)>>
       [] c = "q" -> <<Token("throw", <<str.why>>, ln)>>
       [] long # {} -> <<Token(Kind(lexeme), lexeme, ln)>> \o Tokens(t, p + Len(lexeme))
       [] OTHER -> <<Token("char", <<c>>, ln)>> \o Tokens(t, p + 1)

-----------------------------------------------------------------------------
CONSTANTS
  Texts,   \* the texts that are read
  MaxCuts, \* bound on the blocks but one
  Inline   \* the state stack's inline capacity

ASSUME LexAssumption ==
  /\ Texts \subseteq Seq(Char)
  /\ MaxCuts \in Nat
  /\ Inline \in Nat \ {0}

VARIABLES
  text, cuts,   \* what is read and where its blocks end
  lo, hi, pos,  \* the buffer, and the position in it
  failed,       \* in.fail(): also what keeps the next block from coming
  cond,         \* stack[0]: "initial" or "string"
  str, stash,   \* the lexer's buffers
  states, room, \* the state stack above stack[0], its capacity
  first,        \* the next character the automaton sees
  surrogate,    \* a high surrogate's escape seen in this call
  star,         \* in a C comment, after a `*`
  ln,           \* lexer::ln
  pc,           \* the loop the call is in
  toks,         \* history: the tokens returned
  lost          \* history: unget() could not put a character back

buffer == <<lo, hi, pos, failed>>
lexer == <<cond, str, stash, states, room, first, surrogate, star, ln>>
lexVars == <<text, cuts, buffer, lexer, pc, toks, lost>>

States == {"minus", "zero", "int", "nzero", "nint", "dot", "frac", "exp", "sign", "expd",
           "slash", "line", "block", "n", "null", "esc", "esc1", "escu", "hex"}

LexTypeOK ==
  /\ text \in Seq(Char) /\ cuts \subseteq 1 .. Len(text)
  /\ lo \in 0 .. pos /\ hi \in pos .. Len(text)
  /\ failed \in BOOLEAN /\ lost \in BOOLEAN /\ star \in BOOLEAN
  /\ cond \in {"initial", "string"}
  /\ str \in Seq(Char \cup {"esc", "pair"}) /\ stash \in Seq(Char)
  /\ states \in Seq(States) /\ room >= Len(states)
  /\ first \in pos .. hi
  /\ surrogate \in {"", "H"}
  /\ ln \in 1 .. Len(text) + 1
  /\ pc \in {"top", "scan", "line", "block", "stopped"}

-----------------------------------------------------------------------------
(* The automaton: an arc <<s, c, s'>>.                                     *)
Arcs ==
  LET from(s, cs, s1) == {<<s, c, s1>> : c \in cs}
  IN UNION {
    {<<"initial", "-", "minus">>, <<"initial", "0", "zero">>, <<"initial", "d", "int">>,
     <<"initial", "/", "slash">>, <<"initial", "n", "n">>, <<"n", "u", "null">>,
     <<"slash", "/", "line">>, <<"slash", "*", "block">>,
     <<"minus", "0", "nzero">>, <<"minus", "d", "nint">>,
     <<"string", "bs", "esc">>, <<"esc", "u", "escu">>},
    from("esc", {"q", "bs", "n"}, "esc1"), from("escu", Quads, "hex"),
    from("int", Digits, "int"), from("nint", Digits, "nint"),
    UNION {{<<s, ".", "dot">>, <<s, "e", "exp">>} : s \in {"zero", "int", "nzero", "nint"}},
    from("dot", Digits, "frac"), from("frac", Digits, "frac"), {<<"frac", "e", "exp">>},
    from("exp", {"+", "-"}, "sign"), from("exp", Digits, "expd"),
    from("sign", Digits, "expd"), from("expd", Digits, "expd")}

Dtran(s, c) == {a[3] : a \in {b \in Arcs : b[1] = s /\ b[2] = c}}

Accept(s) ==
  CASE s \in {"zero", "int"} -> "integer"
    [] s \in {"nzero", "nint"} -> "negative"
    [] s \in {"frac", "expd"} -> "real"
    [] s = "line" -> "comment" [] s = "block" -> "c_comment" [] s = "null" -> "keyword"
    [] s = "esc" -> "invalid" [] s = "esc1" -> "escape" [] s = "hex" -> "unicode"
    [] OTHER -> "none"

-----------------------------------------------------------------------------
(* The ways to divide a text into blocks, at up to n places.               *)
Divided(t, n) == {{f[i] : i \in 1 .. n} \ {Len(t)} : f \in [1 .. n -> 1 .. Len(t)]}

Given == text \in Texts /\ cuts \in Divided(text, MaxCuts)

LexStart ==
  /\ lo = 0 /\ hi = 0 /\ pos = 0 /\ failed = FALSE
  /\ cond = "initial" /\ str = <<>> /\ stash = <<>> /\ states = <<>> /\ room = Inline
  /\ first = 0 /\ surrogate = "" /\ star = FALSE /\ ln = 1
  /\ pc = "top" /\ toks = <<>> /\ lost = FALSE

HasMore == ~failed /\ hi < Len(text)
BlockEnd == Min({c \in cuts \cup {Len(text)} : c > hi})
Next1 == text[pos + 1]
Piece(a, b) == SubSeq(text, a + 1, b)
Newlines(a, b) == Cardinality({i \in a + 1 .. b : text[i] = "nl"})

(* The call returns a token; the next call has no surrogate.               *)
Return(tok, val, line) ==
  /\ toks' = Append(toks, Token(tok, val, line))
  /\ surrogate' = ""
  /\ pc' = IF tok \in {"eof", "throw"} THEN "stopped" ELSE "top"

(* underflow(): the next block takes the place of the one before.          *)
Load == lo' = hi /\ hi' = BlockEnd /\ pos' = hi /\ UNCHANGED failed

(* peek() or get() at the end of the buffer, with a block to come ...      *)
Underflow ==
  /\ pc \in {"top", "line", "block"} /\ pos = hi /\ HasMore
  /\ Load /\ first' = hi
  /\ UNCHANGED <<text, cuts, cond, str, stash, states, room, surrogate, star, ln, pc, toks, lost>>

(* ... and without one.                                                    *)
AtEnd ==
  /\ pc \in {"top", "line", "block"} /\ pos = hi /\ ~HasMore
  /\ failed' = TRUE
  /\ IF pc = "block" THEN Return("throw", <<"comment">>, ln) ELSE Return("eof", <<>>, ln)
  /\ UNCHANGED <<text, cuts, lo, hi, pos, cond, str, stash, states, room, first, star, ln, lost>>

(* Blanks are skipped to the next character or the end of the buffer.      *)
SkipBlanks ==
  /\ pc = "top" /\ cond = "initial" /\ pos < hi /\ Next1 \in {"w", "nl"}
  /\ LET p == Min({i \in pos .. hi - 1 : text[i + 1] \notin {"w", "nl"}} \cup {hi})
     IN pos' = p /\ first' = p /\ ln' = ln + Newlines(pos, p)
  /\ UNCHANGED <<text, cuts, lo, hi, failed, cond, str, stash, states, room, surrogate, star, pc, toks, lost>>

(* A character no pattern starts with: a token of its own, or a string.    *)
SingleChar ==
  /\ pc = "top" /\ cond = "initial" /\ pos < hi /\ Next1 \notin {"w", "nl"}
  /\ Dtran("initial", Next1) = {}
  /\ pos' = pos + 1 /\ first' = pos + 1
  /\ IF Next1 = "q"
     THEN cond' = "string" /\ UNCHANGED <<surrogate, pc, toks>>
     ELSE Return("char", <<Next1>>, ln) /\ UNCHANGED cond
  /\ UNCHANGED <<text, cuts, lo, hi, failed, str, stash, states, room, star, ln, lost>>

(* The first character of a lexeme is accepted.                            *)
PushFirst(s) ==
  /\ states' = <<s>> /\ room' = Max({room, 1})
  /\ pc' = "scan"

StartLexeme ==
  /\ pc = "top" /\ cond = "initial" /\ pos < hi
  /\ \E s \in Dtran("initial", Next1) : PushFirst(s)
  /\ first' = pos + 1
  /\ UNCHANGED <<text, cuts, buffer, cond, str, stash, surrogate, star, ln, toks, lost>>

(* The string read so far: str and what the buffer has of it.              *)
StringSoFar(p) == str \o Piece(pos, p)

(* In a string: plain characters up to a quote, an escape, a control       *)
(* character or the end of the buffer.                                     *)
InString ==
  /\ pc = "top" /\ cond = "string" /\ pos < hi
  /\ LET p == Min({i \in pos .. hi - 1 : text[i + 1] \in {"q", "bs", "nl"}} \cup {hi})
         c == text[p + 1]
         read == StringSoFar(p)
     IN \/ /\ p = hi
           /\ str' = read /\ pos' = p /\ first' = p
           /\ UNCHANGED <<cond, surrogate, states, room, pc, toks>>
        \/ /\ p < hi /\ c = "q"
           /\ Return("string", read, ln) /\ str' = <<>> /\ cond' = "initial"
           /\ pos' = p + 1 /\ first' = p + 1 /\ UNCHANGED <<states, room>>
        \/ /\ p < hi /\ c = "nl"
           /\ Return("throw", <<"unterminated">>, ln)
           /\ pos' = p /\ first' = p /\ UNCHANGED <<cond, str, states, room>>
        \/ /\ p < hi /\ c = "bs"
           /\ \E s \in Dtran("string", c) : PushFirst(s)
           /\ str' = read /\ pos' = p /\ first' = p + 1
           /\ UNCHANGED <<cond, surrogate, toks>>
  /\ UNCHANGED <<text, cuts, lo, hi, failed, stash, star, ln, lost>>

-----------------------------------------------------------------------------
(* lex_detail::lex over the portion of the buffer the state stack can hold *)
PortionEnd == Min({hi, first + room - Len(states)})
Dead == Dtran(Last(states), text[first + 1]) = {}

Analyze ==
  /\ pc = "scan" /\ first < PortionEnd
  /\ \E s \in Dtran(Last(states), text[first + 1]) : states' = Append(states, s)
  /\ first' = first + 1
  /\ UNCHANGED <<text, cuts, buffer, cond, str, stash, room, surrogate, star, ln, pc, toks, lost>>

(* The portion is used up but the buffer is not: more room for states.     *)
EnlargeStack ==
  /\ pc = "scan" /\ first = PortionEnd /\ first < hi
  /\ room' = room + Len(states)
  /\ UNCHANGED <<text, cuts, buffer, cond, str, stash, states, first, surrogate, star, ln, pc, toks, lost>>

(* Mutant: at the end of the text the stream does not fail.               *)
NextBlock_NoEof ==
  /\ pc = "scan" /\ first = hi /\ ~failed
  /\ stash' = stash \o Piece(pos, hi)
  /\ first' = hi
  /\ IF HasMore THEN Load ELSE pos' = hi /\ UNCHANGED <<lo, hi, failed>>
  /\ UNCHANGED <<text, cuts, cond, str, states, room, surrogate, star, ln, pc, toks, lost>>

(* The buffer is used up: it goes to the stash and the next block is read; *)
(* at the end of the text the buffer stays.                                *)
NextBlock ==
  /\ pc = "scan" /\ first = hi /\ ~failed
  /\ stash' = stash \o Piece(pos, hi)
  /\ first' = hi
  /\ IF HasMore THEN Load ELSE pos' = hi /\ failed' = TRUE /\ UNCHANGED <<lo, hi>>
  /\ UNCHANGED <<text, cuts, cond, str, states, room, surrogate, star, ln, pc, toks, lost>>

(* What lex() takes from the characters analysed: up to the last accepting *)
(* state, or one character.                                                *)
Accepting == {k \in DOMAIN states : Accept(states[k]) # "none"}
Llen == IF Accepting = {} THEN 1 ELSE Max(Accepting)
Pattern == IF Accepting = {} THEN "default" ELSE Accept(states[Llen])
Lexeme == SubSeq(stash \o Piece(pos, first), 1, Llen)

(* The characters of the lexeme are consumed, those analysed beyond it are *)
(* put back by unget(), which cannot go back behind the buffer's start.    *)
Consume ==
  LET back == Min({Len(stash) - Llen, pos - lo})
  IN IF Llen >= Len(stash)
     THEN /\ pos' = pos + Llen - Len(stash)
          /\ UNCHANGED <<failed, lost>>
     ELSE /\ pos' = pos - back
          /\ failed' = (failed \/ back < Len(stash) - Llen)
          /\ lost' = (lost \/ back < Len(stash) - Llen)

(* A \u escape: a high surrogate waits for the low one.                    *)
Unicode(x) ==
  IF surrogate # ""
  THEN /\ str' = str \o IF x = "L" THEN <<"pair">> ELSE <<"H", x>>
       /\ surrogate' = ""
  ELSE IF x = "H" THEN surrogate' = "H" /\ UNCHANGED str
  ELSE str' = Append(str, x) /\ UNCHANGED surrogate

Finish ==
  /\ pc = "scan"
  /\ \/ first < PortionEnd /\ Dead
     \/ first = hi /\ failed
  /\ Consume
  /\ first' = pos' /\ states' = <<>> /\ stash' = <<>>
  /\ CASE Pattern = "escape" -> /\ str' = Append(str, "esc") /\ pc' = "top"
                                /\ UNCHANGED <<surrogate, toks, star>>
       [] Pattern = "unicode" -> Unicode(Lexeme[3]) /\ pc' = "top" /\ UNCHANGED <<toks, star>>
       [] Pattern = "invalid" -> Return("throw", <<"escape">>, ln) /\ UNCHANGED <<str, star>>
       [] Pattern = "comment" -> pc' = "line" /\ UNCHANGED <<str, surrogate, toks, star>>
       [] Pattern = "c_comment" -> pc' = "block" /\ star' = FALSE /\ UNCHANGED <<str, surrogate, toks>>
       [] Pattern = "default" -> Return("char", <<Lexeme[1]>>, ln) /\ UNCHANGED <<str, star>>
       [] OTHER -> Return(Pattern, IF Pattern = "keyword" THEN <<"n", "u">> ELSE Lexeme, ln)
                   /\ UNCHANGED <<str, star>>
  /\ UNCHANGED <<text, cuts, lo, hi, cond, room, ln>>

(* A comment, one get() at a time.                                         *)
LineComment ==
  /\ pc = "line" /\ pos < hi
  /\ pos' = pos + 1 /\ first' = pos + 1
  /\ IF Next1 = "nl" THEN pc' = "top" /\ ln' = ln + 1 ELSE UNCHANGED <<pc, ln>>
  /\ UNCHANGED <<text, cuts, lo, hi, failed, cond, str, stash, states, room, surrogate, star, toks, lost>>

BlockComment ==
  /\ pc = "block" /\ pos < hi
  /\ pos' = pos + 1 /\ first' = pos + 1
  /\ ln' = ln + IF Next1 = "nl" THEN 1 ELSE 0
  /\ star' = (Next1 = "*")
  /\ pc' = IF star /\ Next1 = "/" THEN "top" ELSE "block"
  /\ UNCHANGED <<text, cuts, lo, hi, failed, cond, str, stash, states, room, surrogate, toks, lost>>

Lex ==
  \/ Underflow \/ AtEnd \/ SkipBlanks \/ SingleChar \/ StartLexeme \/ InString
  \/ Analyze \/ EnlargeStack \/ NextBlock \/ Finish \/ LineComment \/ BlockComment

-----------------------------------------------------------------------------
Expected == Tokens(text, 0)

(* Wherever the blocks end, the tokens are those of the text read at once, *)
(* on their lines and with their characters: no match is cut short by a    *)
(* block's end, no character is read twice or skipped, no escape is torn,  *)
(* two halves of a pair are joined.  (Of lone surrogates, see Late.)  What *)
(* comes after characters were lost has a property of its own.             *)
TokensExact == pc = "stopped" /\ ~lost => toks = Expected

(* Characters get lost only in a text that is no JSON however it is cut:   *)
(* its tokens, read at once, have a character that is no token of JSON.    *)
LostOnlyInBadText ==
  pc = "stopped" /\ lost => \E t \in ToSet(Expected) : t.tok = "char" /\ t.val # <<"[">>

=============================================================================
