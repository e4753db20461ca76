------------------------------- MODULE MCXmlDom -------------------------------
(* XmlDom on documents put together of pieces, on any few characters, and   *)
(* on what is written of values with arrays in arrays and empty ones.       *)
EXTENDS XmlDom, TLC

N == <<"n">>
NN == <<"n", "n">>

(* Markup: pieces of documents, also broken ones. *)
Pieces == {
    Opened(N), <<"<", "n", "w", "/", ">">>, Closed(NN), <<"<", "/", "n", "w", ">">>,
    <<"<", "?", "xml", "?", ">">>, <<"<", "?", "n", ">">>,
    <<"<", "n", "w", "n", "=", "q", "n", "p", "q", "/", ">">>,
    <<"<", "!", "-", "-", "n", "-", ">", "-", "-", ">">>,
    <<"&", "amp", ";">>, <<"&", "n", ";">>, <<"&", "#", "d", ";">>,
    <<"n", "nl">>, <<"<">>, <<"0">> }
Documents == Pieces \cup {a \o b : a, b \in Pieces}
Longer == {a \o b \o c : a, b, c \in Pieces}

(* Attributes: a name given twice, quotes, entities and broken lines. *)
Inner == {<<"n">>, <<"w">>, <<"nl">>, <<"p">>, <<"q">>, <<"<">>,
          <<"&", "amp", ";">>, <<"&", "n", ";">>, <<"&", "#", "d", ";">>}
AttrTexts ==
    {<<"<", "n", "w", "n", "w", "=", "q">> \o a \o b \o c \o <<"q", ">">> : a, b, c \in Inner}
      \cup {<<"<", "n", "w", "n", "=", "p", "d", "p">> \o a \o <<"n", "=", "q", "n", "q">> \o b :
              a \in {<<>>, <<"w">>, <<"d">>}, b \in {<<>>, <<">">>, <<"/", ">">>, <<"?", ">">>, <<"w", ">", "n">>}}

Upto(cs, n) == UNION {[1..k -> cs] : k \in 1..n}
Noise == Upto({"<", "!", "-", "n", "/", ">", "?"}, 4) \cup Upto({"&", "#", "n", "d", ";"}, 4)
CommentTexts == {<<"<", "!", "-", "-">> \o b \o <<">", "n">> : b \in Upto({"-", ">", "n", "0"}, 4)}

(* Elements in elements, of two names, repeated, and with an attribute; and *)
(* texts of every class.                                                    *)
Parts == {Opened(N), Closed(N), Opened(NN), Closed(NN), <<"<", "n", "/", ">">>, <<"d">>, <<"nl">>,
          <<"<", "n", "n", "w", "n", "=", "q", "d", "q", ">">>}
Trees(k) == {Opened(N) \o FlattenSeq(b) \o Closed(N) \o Closed(N) : b \in [1..k -> Parts]}
Scalars ==
    {Opened(N) \o b \o Closed(N) : b \in Upto({"w", "d", "-", "null", "nl"}, 3)}
      \cup {Opened(NN) \o Opened(N) \o Closed(N) \o Closed(NN) \o Opened(N) \o <<"true">> \o Closed(N)}

MCInputs == {
    [texts |-> Documents, borders |-> 2], [texts |-> Longer, borders |-> 1],
    [texts |-> Noise, borders |-> 2],
    [texts |-> AttrTexts, borders |-> 1], [texts |-> CommentTexts, borders |-> 2],
    [texts |-> Trees(3), borders |-> 1], [texts |-> Trees(4), borders |-> 0],
    [texts |-> Scalars, borders |-> 1] }

(* Values: strings that look like something else, and containers in each    *)
(* other, up to two levels deep.                                            *)
Plain == {Null, Value("true", <<>>, <<>>), Number(<<"-", "d">>)}
           \cup {Value("string", s, <<>>) : s \in {<<>>, <<"n">>, <<"<", "q">>, <<"nl">>, <<"w", "d">>}}
Few == {Null, Value("string", <<"&">>, <<>>)}
Arrays(vs, n) == {Array(s) : s \in UNION {[1..k -> vs] : k \in 0..n}}
Records(vs, n) ==
    {Record([i \in 1..k |-> Entry(keys[i], vals[i])]) :
        k \in 0..n, keys \in [1..n -> {N, NN}], vals \in [1..n -> vs]}
Nested == {Number(<<"d">>)} \cup Few \cup Arrays(Few, 2) \cup Records(Few, 1)
MCWritten == {
    [values |-> Plain \cup Nested, borders |-> 1],
    [values |-> Arrays(Plain, 2) \cup Records(Plain, 2), borders |-> 0],
    [values |-> Arrays(Nested, 2) \cup Records(Nested, 2), borders |-> 0] }

(* An element whose end tag has a blank behind the name. *)
BlankInEnd == <<"<", "n", ">", "<", "/", "n", "w", ">", "d", "d", "d", "d", "d", "d">>
StaleInputs == {[texts |-> {BlankInEnd}, borders |-> 1]}
===============================================================================
