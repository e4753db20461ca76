------------------------------- MODULE XmlParse -------------------------------
(***************************************************************************)
(* xml::parser::next_impl and the lexer it calls (src/db/xml.cpp), reading *)
(* from an ibuf that is refilled when it is used up.  The parser is called *)
(* again until it gives "eof" or throws.                                   *)
(*                                                                         *)
(* The text is one sequence; the buffer shows text[lo + 1 .. hi], the next *)
(* character is text[pos + 1], and the device's blocks end at `cuts`.  A   *)
(* run of the automaton over what the buffer has is one step (how its      *)
(* state stack grows meanwhile is in JsonLex, whose loop it is).           *)
(***************************************************************************)
EXTENDS XmlText

CONSTANT Inputs       \* sets of texts that are read, each with the number of
                      \* blocks (less one) its texts come in, at most

ASSUME InputsAssumption ==
    \A in \in Inputs : in.borders \in Nat /\ in.texts \subseteq Seq(Char) \ {<<>>}

VARIABLES
    text, cuts,           \* what is read and where its blocks end
    lo, hi, pos, failed,  \* the buffer, and in.fail()
    pc,                   \* the loop the call is in
    ctx,                  \* what the parser does with the next lexical token
    quote, broken,        \* current_string_quot, need_to_normalize_string
    str, stash,           \* the lexer's buffers
    name,                 \* name_cache_.front()
    attrName, attrs,      \* the attribute being read, attrs_
    lval,                 \* the name of an end tag, where it is in the buffer ...
    stale,                \* ... and whether something else is there by now
    pending,              \* is_end_element_pending_
    dashes,               \* in a comment, the dashes just read
    toks,                 \* history: the tokens returned
    lost                  \* history: unget() could not put a character back

buffer == <<lo, hi, pos, failed>>
lexer == <<quote, broken, str, stash>>
parser == <<ctx, name, attrName, attrs, lval, stale, pending, dashes>>
vars == <<text, cuts, buffer, pc, lexer, parser, toks, lost>>

None == -1

TypeOK ==
    /\ text \in Seq(Char) /\ cuts \subseteq 1..Len(text)
    /\ lo \in 0..pos /\ hi \in pos..Len(text)
    /\ pc \in {"next", "lex", "string", "scan", "comment", "stopped"}
    /\ ctx \in {"tag", "start", "pi", "eq", "value", "close", "entity"}
    /\ quote \in {"", "q", "p"} /\ (pc = "string" => quote # "")
    /\ str \in Seq(Char \cup {"code"}) /\ stash \in Seq(Char)
    /\ stash # <<>> => pc = "scan"
    /\ lval.at # None => ctx = "close"
    /\ dashes \in 0..Len(text)

(* Up to n buffer borders in a text. *)
Divided(t, c, n) == \E f \in [1..n -> 1..Len(t)] : c = {f[i] : i \in 1..n}

Given == \E in \in Inputs : text \in in.texts /\ Divided(text, cuts, in.borders)

Start ==
    /\ lo = 0 /\ hi = 0 /\ pos = 0 /\ failed = FALSE
    /\ pc = "next" /\ ctx = "tag"
    /\ quote = "" /\ broken = FALSE /\ str = <<>> /\ stash = <<>>
    /\ name = <<>> /\ attrName = [tag |-> "", name |-> <<>>] /\ attrs = NoAttrs
    /\ lval = [val |-> <<>>, at |-> None] /\ stale = FALSE
    /\ pending = FALSE /\ dashes = 0 /\ toks = <<>> /\ lost = FALSE

Init == Given /\ Start

Next1 == text[pos + 1]
Piece(a, b) == SubSeq(text, a + 1, b)
HasMore == ~failed /\ hi < Len(text)
BlockEnd == Min({c \in cuts \cup {Len(text)} : c > hi})
Same == UNCHANGED <<text, cuts>>

Return(tok, val, at) ==
    /\ toks' = Append(toks, Token(tok, val, at))
    /\ pc' = IF tok \in {"eof", "throw"} THEN "stopped" ELSE "next"

Throw == Return("throw", <<>>, NoAttrs)

(* underflow(): the next block takes the place of the one before, and of   *)
(* what anyone still refers to in it.                                      *)
Load ==
    /\ lo' = hi /\ hi' = BlockEnd /\ pos' = hi /\ UNCHANGED failed
    /\ IF lval.at = None THEN UNCHANGED <<lval, stale>>
       ELSE LET at(i) == hi + lval.at + i
                now == [i \in DOMAIN lval.val |->
                            IF at(i) <= BlockEnd THEN text[at(i)] ELSE lval.val[i]]
            IN  lval' = [lval EXCEPT !.val = now] /\ stale' = TRUE

---------------------------------------------------------------------------
(* The parser's turn: what it makes of a token of the lexer. *)
NewAttrs(val) ==
    [n \in DOMAIN attrs \cup {attrName.name} |-> IF n \in DOMAIN attrs THEN attrs[n] ELSE val]

Go(c) == ctx' = c /\ pc' = "lex" /\ UNCHANGED toks

(* The switch over the token that follows `<`. *)
TagToken(lt, val, at) ==
    \/ /\ lt = "start" \/ (lt = "pi" /\ val = <<"xml">>)
       /\ Go(lt) /\ name' = val
       /\ UNCHANGED <<attrName, attrs, lval, pending, dashes>>
    \/ /\ lt = "end"
       /\ Go("close") /\ lval' = [val |-> val, at |-> at]
       /\ UNCHANGED <<name, attrName, attrs, pending, dashes>>
    \/ /\ lt = "pi" /\ val # <<"xml">>
       /\ Throw /\ UNCHANGED <<ctx, name, attrName, attrs, lval, pending, dashes>>
    \/ /\ lt = "comment"
       /\ pc' = "comment" /\ dashes' = 0
       /\ UNCHANGED <<ctx, name, attrName, attrs, lval, pending, toks>>
    \/ /\ lt \notin {"start", "end", "pi", "comment"}
       /\ pc' = "next"
       /\ UNCHANGED <<ctx, name, attrName, attrs, lval, pending, toks, dashes>>

InTag(lt, val) ==
    \/ /\ lt = "name"
       /\ Go("eq") /\ attrName' = [tag |-> ctx, name |-> val]
       /\ UNCHANGED <<name, attrs, lval, pending, dashes>>
    \/ /\ ctx = "start" /\ lt \in {"close", "empty"}
       /\ Return("start_element", name, attrs)
       /\ pending' = (lt = "empty")
       /\ UNCHANGED <<ctx, name, attrName, attrs, lval, dashes>>
    \/ /\ ctx = "pi" /\ lt = "pi_close"
       /\ Return("preamble", name, attrs)
       /\ UNCHANGED <<ctx, name, attrName, attrs, lval, pending, dashes>>
    \/ /\ lt \notin {"name", "close", "empty", "pi_close"} \/ (ctx = "pi" /\ lt \in {"close", "empty"})
          \/ (ctx = "start" /\ lt = "pi_close")
       /\ Throw /\ UNCHANGED <<ctx, name, attrName, attrs, lval, pending, dashes>>

(* read_attribute(). *)
Attribute(lt, val) ==
    \/ /\ ctx = "eq" /\ lt = "eq"
       /\ Go("value") /\ UNCHANGED attrs
    \/ /\ ctx = "value" /\ lt = "string"
       /\ Go(attrName.tag) /\ attrs' = NewAttrs(val)
    \/ /\ lt # (IF ctx = "eq" THEN "eq" ELSE "string")
       /\ Throw /\ UNCHANGED <<ctx, attrs>>

(* lex() returns: the token goes to whoever has called it. *)
Give(lt, val, at) ==
    CASE ctx = "tag" -> TagToken(lt, val, at) /\ UNCHANGED stale
      [] ctx \in {"start", "pi"} -> InTag(lt, val) /\ UNCHANGED stale
      [] ctx \in {"eq", "value"} ->
            Attribute(lt, val) /\ UNCHANGED <<name, attrName, lval, stale, pending, dashes>>
      [] ctx = "close" ->
            /\ IF lt = "close" THEN Return("end_element", lval.val, NoAttrs) ELSE Throw
            /\ ctx' = "tag" /\ lval' = [lval EXCEPT !.at = None]
            /\ UNCHANGED <<name, attrName, attrs, stale, pending, dashes>>
      [] ctx = "entity" ->
            /\ IF lt = "predef" THEN Return("plain_text", val, NoAttrs)
                                ELSE Return("entity", val, NoAttrs)
            /\ UNCHANGED parser

---------------------------------------------------------------------------
Underflow ==
    /\ pc \in {"next", "lex", "string", "comment"} /\ pos = hi /\ HasMore
    /\ ~(pc = "next" /\ pending)
    /\ Load
    /\ UNCHANGED <<pc, lexer, ctx, name, attrName, attrs, pending, dashes, toks, lost>> /\ Same

AtEnd ==
    /\ pc \in {"next", "lex", "string", "comment"} /\ pos = hi /\ ~HasMore
    /\ ~(pc = "next" /\ pending)
    /\ failed' = TRUE
    /\ IF pc \in {"next", "comment"} THEN Return("eof", <<>>, NoAttrs) /\ UNCHANGED parser
                                     ELSE Give("eof", <<>>, None)
    /\ UNCHANGED <<lo, hi, pos, lexer, lost>> /\ Same

(* The end of `<name/>`, which the text has no tag for. *)
PendingEnd ==
    /\ pc = "next" /\ pending
    /\ Return("end_element", name, NoAttrs) /\ pending' = FALSE
    /\ UNCHANGED <<buffer, lexer, ctx, name, attrName, attrs, lval, stale, dashes, lost>> /\ Same

Nul ==
    /\ pc = "next" /\ ~pending /\ pos < hi /\ Next1 = "0"
    /\ Return("eof", <<>>, NoAttrs)
    /\ UNCHANGED <<buffer, lexer, parser, lost>> /\ Same

Markup ==
    /\ pc = "next" /\ ~pending /\ pos < hi /\ Next1 \in {"<", "&"}
    /\ IF Next1 = "<" THEN ctx' = "tag" /\ attrs' = NoAttrs
                      ELSE ctx' = "entity" /\ UNCHANGED attrs
    /\ pc' = "lex"
    /\ UNCHANGED <<buffer, lexer, name, attrName, lval, stale, pending, dashes, toks, lost>> /\ Same

(* Plain text up to a special character or to the end of the buffer. *)
PlainText ==
    /\ pc = "next" /\ ~pending /\ pos < hi /\ Next1 \notin {"<", "&", "0"}
    /\ LET p == Min({i \in pos..hi - 1 : text[i + 1] \in {"<", "&", "0"}} \cup {hi})
       IN  pos' = p /\ Return("plain_text", Piece(pos, p), NoAttrs)
    /\ UNCHANGED <<lo, hi, failed, lexer, parser, lost>> /\ Same

Comment ==
    /\ pc = "comment" /\ pos < hi
    /\ pos' = pos + 1
    /\ dashes' = IF Next1 = "-" THEN dashes + 1 ELSE 0
    /\ IF Next1 = "0" THEN Return("eof", <<>>, NoAttrs)
       ELSE /\ pc' = IF dashes >= 2 /\ Next1 = ">" THEN "next" ELSE "comment"
            /\ UNCHANGED toks
    /\ UNCHANGED <<lo, hi, failed, lexer, ctx, name, attrName, attrs, lval, stale, pending, lost>> /\ Same

---------------------------------------------------------------------------
(* lex(): blanks, single characters, strings. *)
SkipBlanks ==
    /\ pc = "lex" /\ pos < hi /\ Next1 \in Blank
    /\ pos' = Min({i \in pos..hi - 1 : text[i + 1] \notin Blank} \cup {hi})
    /\ UNCHANGED <<lo, hi, failed, pc, lexer, parser, toks, lost>> /\ Same

Starting == Letters \cup {"&", "<", "/", "?"}

SingleChar ==
    /\ pc = "lex" /\ pos < hi /\ Next1 \notin Blank \cup Starting
    /\ pos' = pos + 1
    /\ IF Next1 \in {"q", "p"}
       THEN /\ quote' = Next1 /\ broken' = FALSE /\ pc' = "string"
            /\ UNCHANGED <<parser, toks>>
       ELSE /\ Give(CASE Next1 = "=" -> "eq" [] Next1 = ">" -> "close" [] OTHER -> "char", <<>>, None)
            /\ UNCHANGED <<quote, broken>>
    /\ UNCHANGED <<lo, hi, failed, str, stash, lost>> /\ Same

StartLexeme ==
    /\ pc = "lex" /\ pos < hi /\ Next1 \in Starting
    /\ pc' = "scan"
    /\ UNCHANGED <<buffer, lexer, parser, toks, lost>> /\ Same

(* normalize_string: blanks around a line feed become one blank. *)
Normalize(s) ==
    LET strip(o) == SubSeq(o, 1, Max({i \in DOMAIN o : o[i] \notin Blank} \cup {0}))
        step(acc, c) ==
            CASE c = "nl" -> [out |-> Append(strip(acc.out), "w"), skip |-> TRUE]
              [] acc.skip /\ c \in Blank -> acc
              [] OTHER -> [out |-> Append(acc.out, c), skip |-> FALSE]
    IN  FoldLeft(step, [out |-> <<>>, skip |-> FALSE], s).out

StringEnd == Min({i \in pos..hi - 1 :
                    text[i + 1] \in ({"q", "p", "<", "&", "nl", "0"} \ ({"q", "p"} \ {quote}))} \cup {hi})
StringSoFar == str \o Piece(pos, StringEnd)

(* In a string: plain characters up to the quote, an entity, a line feed,  *)
(* a character that may not be there, or the end of the buffer.            *)
InString ==
    /\ pc = "string" /\ pos < hi
    /\ LET p == StringEnd
           c == IF p = hi THEN "none" ELSE text[p + 1]
       IN  CASE c = "none" ->
                  /\ str' = StringSoFar /\ pos' = p
                  /\ UNCHANGED <<pc, quote, broken, parser, toks>>
             [] c = quote ->
                  /\ str' = <<>> /\ pos' = p + 1 /\ quote' = ""
                  /\ Give("string", IF broken THEN Normalize(StringSoFar) ELSE StringSoFar, None)
                  /\ UNCHANGED broken
             [] c = "nl" ->
                  /\ str' = Append(StringSoFar, "nl") /\ pos' = p + 1 /\ broken' = TRUE
                  /\ UNCHANGED <<pc, quote, parser, toks>>
             [] c = "&" ->
                  /\ str' = StringSoFar /\ pos' = p /\ pc' = "scan"
                  /\ UNCHANGED <<quote, broken, parser, toks>>
             [] OTHER ->
                  /\ str' = StringSoFar /\ pos' = p /\ Throw
                  /\ UNCHANGED <<quote, broken, parser>>
    /\ UNCHANGED <<lo, hi, failed, stash, lost>> /\ Same

---------------------------------------------------------------------------
(* What the automaton has a state for: the beginnings of its patterns. *)
Begins(s) ==
    \/ Len(s) = 1 \/ IsName(s)
    \/ /\ s[1] = "&"
       /\ LET t == Tail(s)
              u == IF Last(t) = ";" THEN Front(t) ELSE t
          IN  \/ IsName(u)
              \/ u # <<>> /\ u[1] = "#" /\ (IsNumber(Tail(u)) \/ t = <<"#">>)
    \/ s[1] = "<" /\ (Len(s) = Opens(s) \/ IsName(From(s, Opens(s) + 1)))
    \/ IsPrefix(s, <<"<", "!", "-", "-">>)
    \/ s \in {<<"/", ">">>, <<"?", ">">>}

Seen(f) == stash \o Piece(pos, f)
Reach == Max({f \in pos..hi : \A g \in pos + 1..f : Begins(Seen(g))})

(* Mutant: a token ends where the buffer does. *)
Ready_AtBorder(reach) == TRUE

(* Nothing behind the buffer's end can make the token longer. *)
Ready(reach) == reach < hi \/ failed

(* The buffer is used up in the middle of a token: it goes to the stash    *)
(* and the next block is read.                                             *)
NextBlock ==
    /\ pc = "scan" /\ ~Ready(Reach)
    /\ stash' = stash \o Piece(pos, hi)
    /\ IF HasMore THEN Load ELSE pos' = hi /\ failed' = TRUE /\ UNCHANGED <<lo, hi, lval, stale>>
    /\ UNCHANGED <<pc, quote, broken, str, ctx, name, attrName, attrs, pending, dashes, toks, lost>> /\ Same

(* The longest lexeme at the front of what has been seen, or one character. *)
LexemeOf(seen) ==
    LET ok == {n \in DOMAIN seen : Pattern(SubSeq(seen, 1, n)) # "none"}
    IN  SubSeq(seen, 1, Max(ok \cup {1}))
Kind(lexeme) == IF Pattern(lexeme) = "none" THEN "char" ELSE Pattern(lexeme)

(* The lexeme is consumed; what was analysed beyond it is put back, as far *)
(* as the buffer goes.                                                     *)
Consume(llen) ==
    LET back == Min({Len(stash) - llen, pos - lo})
    IN  IF llen >= Len(stash)
        THEN pos' = pos + llen - Len(stash) /\ UNCHANGED <<failed, lost>>
        ELSE /\ pos' = pos - back
             /\ failed' = (failed \/ back < Len(stash) - llen)
             /\ lost' = (lost \/ back < Len(stash) - llen)

(* The token's text without what marks it. *)
Val(kind, lexeme) ==
    CASE kind = "predef" -> <<Predefined[lexeme[2]]>>
      [] kind = "entity" -> Front(Tail(lexeme))
      [] kind = "code" -> <<"code">>
      [] kind = "name" -> lexeme
      [] kind = "start" -> Tail(lexeme)
      [] kind \in {"end", "pi"} -> From(lexeme, 3)
      [] OTHER -> <<>>

Finish ==
    /\ pc = "scan"
    /\ \E reach \in {Reach} :
        /\ Ready(reach)
        /\ \E lexeme \in {LexemeOf(Seen(reach))} :
            /\ Consume(Len(lexeme))
            /\ LET kind == Kind(lexeme)
                   val == Val(kind, lexeme)
               IN  CASE kind = "invalid" \/ (quote # "" /\ kind = "entity") ->
                            Throw /\ UNCHANGED <<str, parser>>
                     [] quote # "" /\ kind \in {"predef", "code"} ->
                            /\ str' = str \o val /\ pc' = "string"
                            /\ UNCHANGED <<parser, toks>>
                     [] OTHER ->
                            /\ Give(IF kind = "code" THEN "entity" ELSE kind, val,
                                    IF stash = <<>> THEN pos + 2 - lo ELSE None)
                            /\ UNCHANGED str
    /\ stash' = <<>>
    /\ UNCHANGED <<lo, hi, quote, broken>> /\ Same

Done == pc = "stopped" /\ UNCHANGED vars

Next ==
    \/ Underflow \/ AtEnd \/ PendingEnd \/ Nul \/ Markup \/ PlainText \/ Comment
    \/ SkipBlanks \/ SingleChar \/ StartLexeme \/ InString \/ NextBlock \/ Finish
    \/ Done

Spec == Init /\ [][Next]_vars

---------------------------------------------------------------------------
Expected == Tokens(text, 0)
IsBare(t) == t.tok = "bare"

(* Wherever the blocks end, the tokens are those of the text read at once, *)
(* pieces of plain text taken together: names, attributes and their values *)
(* are whole, entities are not torn and comments end where they should.    *)
(* Characters that unget() loses and the name of an end tag that a refill  *)
(* overwrites have properties of their own.                                *)
TokensExact ==
    pc = "stopped" /\ ~lost /\ ~stale =>
        Merged(toks) = Merged(SelectSeq(Expected, LAMBDA t : ~IsBare(t)))

(* Characters get lost only behind a `<` that opens nothing, or where the  *)
(* text is refused anyway.                                                 *)
LostOnlyInBadText ==
    pc = "stopped" /\ lost =>
        \E t \in Range(Expected) : t.tok \in {"bare", "throw"}

(* The name of an end tag is overwritten only where blanks follow it. *)
StaleOnlyBeforeBlank ==
    stale => \E i, j \in 1..Len(text) :
                /\ i < j /\ text[i] = "<" /\ text[i + 1] = "/" /\ text[j] \in Blank
                /\ IsName(SubSeq(text, i + 2, j - 1))

(* The type invariant, and the two exceptions that TokensExact makes.      *)
Inv == TypeOK /\ LostOnlyInBadText /\ StaleOnlyBeforeBlank

(* The comment on the token in next_impl, "</name>": the end of an element *)
(* is returned with the name its tag has.                                  *)
EndHasItsName ==
    pc = "stopped" /\ ~lost =>
        LET ends(s) == SelectSeq(s, LAMBDA t : t.tok = "end_element")
        IN  ends(toks) = ends(Expected)
===============================================================================
