------------------------------ MODULE MCCliParse ------------------------------
(* CliParse over texts of three characters: 1 a dash, 2 a digit, 3 a letter. *)
EXTENDS CliParse, TLC

Num == Value(TRUE, FALSE, FALSE)
Str == Value(FALSE, FALSE, FALSE)
OptNum == Value(TRUE, TRUE, FALSE)
Nums == Value(TRUE, FALSE, TRUE)
OptNums == Value(TRUE, TRUE, TRUE)
Strs == Value(FALSE, FALSE, TRUE)
OptStrs == Value(FALSE, TRUE, TRUE)

NoSubs == [t \in {} |-> {}]
A(vals, opt) == Option(<< <<1, 3>> >>, vals, opt)
B(vals, opt) == Option(<< <<3>>, <<1, 2>> >>, vals, opt)
C(vals, opt) == Option(<< <<1, 3, 3>>, <<1, 3>> >>, vals, opt)

Trees == <<
    << A(<<>>, TRUE), B(<<Num>>, TRUE) >>,
    << Or(A(<<>>, TRUE), B(<<>>, TRUE)) >>,
    << Or(A(<<>>, FALSE), B(<<OptNum>>, FALSE)) >>,
    << And(A(<<OptNums>>, FALSE), B(<<Str>>, TRUE)) >>,
    << Or(And(A(<<>>, FALSE), B(<<>>, FALSE)), C(<<>>, FALSE)) >>,
    << And(Or(A(<<>>, FALSE), B(<<>>, FALSE)), C(<<Nums>>, TRUE)), A(<<>>, TRUE) >>,
    << MadeOptional(And(A(<<Num, OptNum>>, FALSE), B(<<>>, FALSE))), C(<<>>, FALSE) >> >>

ValueLists == << <<>>, <<Num>>, <<OptNums, Str, Num>>, <<Nums, Strs>>, <<OptNum, OptStrs, Num>> >>

Sub == Command(<< A(<<>>, FALSE) >>, <<Num>>, NoSubs)
MCCommands ==
    {Command(Trees[t], ValueLists[v], NoSubs) :
        t \in DOMAIN Trees, v \in DOMAIN ValueLists}
      \cup {Command(<< A(<<>>, TRUE) >>, <<Strs>>, (<<3>> :> Sub))}

MCArgs == { <<1, 3>>, <<3>>, <<1, 2>>, <<1, 3, 3>>, <<1, 3, 2>>, <<3, 2>>, <<2>>, <<1>> }

Runs == [cmd : MCCommands, args : UNION {[1..n -> MCArgs] : n \in 0..3}]

(* Commands that differ in their keys only, for the search.                *)
Texts(n) == UNION {[1..k -> {1, 2}] : k \in 1..n}
WithKeys(keys, vals) ==
    Command([i \in DOMAIN keys |-> Option(<<keys[i]>>, vals, TRUE)], <<>>, NoSubs)
KeyCommands == {WithKeys(SetToSeq(ks), vals) : ks \in kSubset(3, Texts(3)), vals \in {<<>>, <<Str>>}}
Searches == [cmd : KeyCommands, args : {<<a>> : a \in Texts(4)}]

MCInputs == Runs \cup Searches
MCAllCommands == MCCommands \cup KeyCommands \cup {Sub}
===============================================================================
