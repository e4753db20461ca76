----------------------------- MODULE MCJsonDoc -----------------------------
(* JsonDoc on numbers and comments, on strings put together of escapes, and *)
(* on every sequence of tokens up to a length, plain and in two layouts.    *)
EXTENDS JsonDoc, TLC

Upto(cs, n) == UNION {[1 .. k -> cs] : k \in 1 .. n}

Numbers == Upto({"0", "d", "-", ".", "e", "+", "["}, 4)
LongNumbers ==
  LET cs == {"d", ".", "e", "+"}
  IN  {<<"[">> \o b \o <<"[">> : b \in {<<"d">> \o c : c \in Upto(cs, 4)} \cup {<<"-", "0">> \o c : c \in Upto(cs, 3)}}
Comments == LET cs == {"/", "*", "nl", "d"}
            IN  Upto(cs, 3) \cup {<<"/", c>> \o b : c \in {"/", "*"}, b \in Upto(cs, 3)}
NumberTexts == Numbers \cup LongNumbers \cup Upto({"n", "u", "w", "nl", "d"}, 4)

Units == {<<"a">>, <<"bs", "u", "H">>, <<"bs", "u", "L">>, <<"bs", "u", "N">>, <<"bs", "n">>}
Bodies == {<<>>} \cup {a \o b \o c : a, b \in Units, c \in Units \cup {<<>>, <<"bs", "e">>, <<"nl">>}}
StringTexts == {<<"q">> \o b \o <<"q", "[">> : b \in Bodies} \cup {<<"q">> \o b : b \in Bodies}
MCTexts == NumberTexts \cup StringTexts \cup Comments

Style(f, o, a) == [formatted |-> f, obj |-> o, arr |-> a]
MCStyles == {Style(FALSE, "sp", "sp"), Style(TRUE, "nl", "nl"), Style(TRUE, "nl", "sp")}
MCSpelling == [v |-> <<"-", "d", ".", "0">>, s |-> <<"esc", "a", "N">>]
=============================================================================
