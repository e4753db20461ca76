------------------------------- MODULE XmlText -------------------------------
(***************************************************************************)
(* What the XML parser should make of a text: the patterns of              *)
(* src/db/xml.lex and the tokens of a whole text, read off it at once with *)
(* no buffer.  XmlParse is checked against it.                             *)
(*                                                                         *)
(* Characters stand for classes: "n" a letter, "d" a digit from 1 to 9,    *)
(* "w" a blank, "nl" a line feed, "q" and "p" the two quotes, "0" the NUL  *)
(* character.  The words that mean something are letters of their own.     *)
(***************************************************************************)
EXTENDS Integers, Sequences, SequencesExt, FiniteSetsExt

Predefined == [amp |-> "&", lt |-> "<", gt |-> ">", apos |-> "p", quot |-> "q"]
Words == {"xml", "null", "true", "false"}
Letters == {"n"} \cup Words \cup DOMAIN Predefined
Char == Letters \cup {"d", "w", "nl", "q", "p", "<", ">", "/", "=", "?", "!", "-", "&", "#", ";", "0"}
Blank == {"w", "nl"}

IsName(s) == s # <<>> /\ s[1] \in Letters /\ ToSet(s) \subseteq Letters \cup {"d", "-"}
IsNumber(s) == s # <<>> /\ ToSet(s) = {"d"}
From(s, i) == SubSeq(s, i, Len(s))
Opens(s) == \* how many characters open what s may be: `<`, `</`, `<?`
    IF Len(s) > 1 /\ s[2] \in {"/", "?"} THEN 2 ELSE 1

(* The pattern all of s matches; of two the one xml.lex has first. *)
Pattern(s) ==
    CASE s = <<"&">> -> "invalid"
      [] Len(s) = 3 /\ s[1] = "&" /\ s[2] \in DOMAIN Predefined /\ s[3] = ";" -> "predef"
      [] s[1] = "&" /\ Last(s) = ";" /\ IsName(Front(Tail(s))) -> "entity"
      [] s[1] = "&" /\ Last(s) = ";" /\ Len(s) > 3 /\ s[2] = "#" /\ IsNumber(Front(From(s, 3))) -> "code"
      [] IsName(s) -> "name"
      [] s[1] = "<" /\ IsName(From(s, Opens(s) + 1)) ->
            IF Opens(s) = 1 THEN "start" ELSE IF s[2] = "/" THEN "end" ELSE "pi"
      [] s = <<"/", ">">> -> "empty"
      [] s = <<"?", ">">> -> "pi_close"
      [] s = <<"<", "!", "-", "-">> -> "comment"
      [] OTHER -> "none"

NoAttrs == [n \in {} |-> <<>>]
Token(tok, val, attrs) == [tok |-> tok, val |-> val, attrs |-> attrs]
Simple(tok, val) == Token(tok, val, NoAttrs)

(* Blanks around and including a line feed are one blank. *)
InBreak(s, i) ==
    \E j \in DOMAIN s : s[j] = "nl" /\ \A k \in Min({i, j})..Max({i, j}) : s[k] \in Blank
OneBlank(s) ==
    LET kept == {i \in DOMAIN s : ~InBreak(s, i) \/ i = 1 \/ ~InBreak(s, i - 1)}
    IN  [k \in 1..Cardinality(kept) |->
            LET i == CHOOSE i \in kept : Cardinality({j \in kept : j <= i}) = k
            IN  IF InBreak(s, i) THEN "w" ELSE s[i]]

Skip(t, p) == Min({i \in p..Len(t) - 1 : t[i + 1] \notin Blank} \cup {Len(t)})
Longest(t, p) ==
    LET ok == {n \in 1..Len(t) - p : Pattern(SubSeq(t, p + 1, p + n)) # "none"}
    IN  IF ok = {} THEN 0 ELSE Max(ok)
At(t, p) == IF p < Len(t) THEN t[p + 1] ELSE "none"

RECURSIVE Quoted(_, _, _, _), Attributes(_, _, _, _, _), Tokens(_, _)
(* A string behind its opening quote: its end and its characters, "code"   *)
(* for a character given by its number; or no end.                         *)
Quoted(t, p, quote, units) ==
    LET c == At(t, p)
        n == Longest(t, p)
        kind == Pattern(SubSeq(t, p + 1, p + n))
    IN  CASE c \in {"none", "<", "0"} -> [end |-> 0, units |-> <<>>]
          [] c = quote -> [end |-> p + 1, units |-> units]
          [] c = "&" /\ kind = "predef" -> Quoted(t, p + n, quote, Append(units, Predefined[t[p + 2]]))
          [] c = "&" /\ kind = "code" -> Quoted(t, p + n, quote, Append(units, "code"))
          [] c = "&" -> [end |-> 0, units |-> <<>>]
          [] OTHER -> Quoted(t, p + 1, quote, Append(units, c))

(* What follows the name of an element or of a declaration. *)
Attributes(t, p, kind, name, attrs) ==
    LET p1 == Skip(t, p)
        n  == Longest(t, p1)
        lexeme == SubSeq(t, p1 + 1, p1 + n)
        eq == Skip(t, p1 + n)
        qt == Skip(t, eq + 1)
        str == Quoted(t, qt + 1, At(t, qt), <<>>)
        throw == <<Simple("throw", <<>>)>>
    IN  CASE n > 0 /\ Pattern(lexeme) = "name" ->
                IF /\ At(t, eq) = "=" /\ At(t, qt) \in {"q", "p"} /\ str.end > 0
                THEN Attributes(t, str.end, kind, name,
                                [m \in DOMAIN attrs \cup {lexeme} |->
                                    IF m \in DOMAIN attrs THEN attrs[m] ELSE OneBlank(str.units)])
                ELSE throw
          [] At(t, p1) = ">" /\ kind = "start" ->
                <<Token("start_element", name, attrs)>> \o Tokens(t, p1 + 1)
          [] n > 0 /\ Pattern(lexeme) = "empty" /\ kind = "start" ->
                <<Token("start_element", name, attrs), Simple("end_element", name)>> \o Tokens(t, p1 + n)
          [] n > 0 /\ Pattern(lexeme) = "pi_close" /\ kind = "pi" ->
                <<Token("preamble", name, attrs)>> \o Tokens(t, p1 + n)
          [] OTHER -> throw

(* The tokens of what follows t[p]; "bare" is a `<` that opens nothing. *)
Tokens(t, p) ==
    LET c == At(t, p)
        n == Longest(t, p)
        lexeme == SubSeq(t, p + 1, p + n)
        kind == IF n = 0 THEN "none" ELSE Pattern(lexeme)
        plain == Min({i \in p..Len(t) - 1 : t[i + 1] \in {"<", "&", "0"}} \cup {Len(t)})
        nul == Min({i \in p..Len(t) - 1 : t[i + 1] = "0"} \cup {Len(t)})
        closes == {i \in p + 7..nul : t[i] = ">" /\ t[i - 1] = "-" /\ t[i - 2] = "-"}
    IN  CASE c \in {"none", "0"} -> <<Simple("eof", <<>>)>>
          [] c \notin {"<", "&"} -> <<Simple("plain_text", SubSeq(t, p + 1, plain))>> \o Tokens(t, plain)
          [] kind = "start" -> Attributes(t, p + n, "start", Tail(lexeme), NoAttrs)
          [] kind = "pi" /\ From(lexeme, 3) = <<"xml">> -> Attributes(t, p + n, "pi", <<"xml">>, NoAttrs)
          [] kind = "end" /\ At(t, Skip(t, p + n)) = ">" ->
                <<Simple("end_element", From(lexeme, 3))>> \o Tokens(t, Skip(t, p + n) + 1)
          [] kind = "comment" -> IF closes = {} THEN <<Simple("eof", <<>>)>> ELSE Tokens(t, Min(closes))
          [] kind = "predef" -> <<Simple("plain_text", <<Predefined[lexeme[2]]>>)>> \o Tokens(t, p + n)
          [] kind = "entity" -> <<Simple("entity", Front(Tail(lexeme)))>> \o Tokens(t, p + n)
          [] kind = "code" -> <<Simple("entity", <<"code">>)>> \o Tokens(t, p + n)
          [] kind = "none" -> <<Simple("bare", <<>>)>> \o Tokens(t, p + 1)
          [] OTHER -> <<Simple("throw", <<>>)>>

(* Pieces of plain text that follow each other are one text. *)
Merged(tokens) ==
    FoldLeft(LAMBDA acc, t :
                IF t.tok = "plain_text" /\ acc # <<>> /\ Last(acc).tok = "plain_text"
                THEN Append(Front(acc), Simple("plain_text", Last(acc).val \o t.val))
                ELSE Append(acc, t), <<>>, tokens)
===============================================================================
