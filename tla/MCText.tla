-------------------------------- MODULE MCText --------------------------------
(***************************************************************************)
(* Words of 14 bits, packs of 2 digits, and floating point numbers of 5    *)
(* bits of mantissa and 5 of exponent: from 2^-19 to 63 * 2^10; integers   *)
(* and widths of 8 bits; texts of a few characters.  Each behaviour does   *)
(* one job: a number, a text, a format string, a buffer, or a value.       *)
(***************************************************************************)
EXTENDS Format, MemBuf, DbScalar

MCPowTable == <<<<10995, 15>>, <<8589, 120>>, <<13421, 99>>, <<10485, 97>>, <<8192, 0>>, <<12800, 0>>,
                <<10000, 0>>, <<15625, 0>>, <<12207, 4>>>>
MCMinExp10 == -30
MCCharOf == [n \in 48..57 |-> Digits[n - 47]]

Fmt(float, prec) ==
    [base |-> "none", float |-> float, prec |-> prec, sign |-> "neg", adjust |-> "none", zeroes |-> FALSE,
     alternate |-> FALSE, json_compat |-> FALSE, width |-> 0, fill |-> " ", grouping |-> <<>>]

FloatJobs(negs, bits, fmts) == [kind : {"float"}, neg : negs, bits : bits, fmt : fmts, way : {"quick", "long", "late"}]

(* The middle of two numbers as it is, with digits behind it, as a whole   *)
(* number with an exponent, or a little less than it is.                   *)
MiddleText(j) ==
    LET x == Middle(j.bits)
        y == IF j.form = "whole" THEN [int |-> x.int \o x.frac, frac |-> <<>>] ELSE x
        behind == CASE j.form \in {"exact", "whole"} -> <<>>
                    [] j.form = "zeros" -> Copies(9, 0)
                    [] j.form = "above" -> Append(Copies(9, 0), 1)
                    [] OTHER -> <<9>>
        frac == IF j.form = "below" THEN Append(Front(x.frac), Last(x.frac) - 1) ELSE y.frac
    IN  [neg |-> j.form = "below", int |-> y.int, frac |-> frac \o behind,
         exp |-> IF j.form = "whole" THEN -Len(x.frac) ELSE 0,
         behind |-> IF j.form = "below" THEN <<"x">> ELSE <<>>]

(* Three digits behind the point, or before it. *)
ShortText(j) ==
    LET digits == <<j.bits \div 100, (j.bits \div 10) % 10, j.bits % 10>>
    IN  [neg |-> FALSE, int |-> IF j.form = "short" THEN <<>> ELSE digits,
         frac |-> IF j.form = "short" THEN digits ELSE <<>>, exp |-> j.exp, behind |-> <<"e", "-">>]

MCGiven(j) == IF j.form \in {"short", "long"} THEN ShortText(j) ELSE MiddleText(j)

DecimalJobs(bits, forms, exps) == [kind : {"chars"}, bits : bits, form : forms, exp : exps]
Middles == 0..Infinity - 1

\* exponents at the ends of an int, of its bits, and beyond them
BigExps == UNION {-131..-124, 123..132, 236..259, {-300, -257, -256, -255, -200, 300, 999}}

ReadJobs ==
    UNION {DecimalJobs(Middles, {"exact", "whole", "zeros", "above"}, {0}), DecimalJobs(0..21 * 2^Mantissa - 1, {"below"}, {0}),
           DecimalJobs(0..999, {"short"}, {-5, -2, 0, 3, 5}), DecimalJobs({b \in 0..99 : b % 3 = 0}, {"long"}, -33..7),
           DecimalJobs({0, 1, 125, 999}, {"short", "long"}, BigExps)}

Formats(floats, precs) == {Fmt(float, prec) : float \in floats, prec \in precs}
Json == [Fmt("none", -1) EXCEPT !.json_compat = TRUE]
ShowJobs ==
    UNION {FloatJobs({FALSE}, 0..Infinity + 1, {Fmt("none", -1), Json}),
           FloatJobs({FALSE}, {b \in 0..Infinity - 1 : b % 3 = 0}, Formats({"fixed", "scientific", "general"}, 0..10)),
           FloatJobs({TRUE}, {b \in 0..Infinity - 1 : b % 29 = 0},
                     {[f EXCEPT !.alternate = TRUE, !.sign = "pos", !.grouping = g] :
                          f \in Formats({"fixed", "scientific", "general", "none"}, 0..8), g \in {<<>>, <<1, 2>>}}
                     \cup {[Fmt("none", p) EXCEPT !.base = "hex"] : p \in -1..4})}

IntFormats == {[base |-> b, float |-> "none", prec |-> -1, sign |-> s, adjust |-> a, zeroes |-> z, alternate |-> alt,
                json_compat |-> FALSE, width |-> w, fill |-> "*", grouping |-> g] :
                  b \in {"dec", "bin", "hex", "oct"}, s \in {"neg", "align"}, a \in {"none", "left", "internal"}, z \in BOOLEAN,
                  alt \in BOOLEAN, w \in {0, 7}, g \in {<<>>, <<3>>, <<2, 1>>, <<1, 0>>}}
IntJobs == [kind : {"int"}, val : {0, 7, 8, 9, 10, 15, 16, 63, 64, 99, 100, 127, 128, 255}, is_signed : BOOLEAN, fmt : IntFormats]
WordJobs == [kind : {"word"}, val : BOOLEAN, fmt : {[Fmt("none", -1) EXCEPT !.base = b] : b \in {"none", "dec", "bin"}}]
DigitJobs == [kind : {"digits"}, neg : BOOLEAN, val : 0..2^IntBits - 1]

NumberJobs == UNION {ReadJobs, ShowJobs, IntJobs, WordJobs, DigitJobs}

---------------------------------------------------------------------------
MCUnprintable == {1, 10, 128}
MCWideCodes == {4352}

\* the ends of what has so many bytes, and bytes of every kind
Codes == {0, 65, 127, 128, 233, 2047, 2048, 4352, 55295, 57344, 65533, 65535, 65536, 128512, 1114111}
NoCodes == {55296, 56320, 57343, 1114112, 2000000}
SomeBytes == {65, 128, 191, 194, 224, 237, 160, 240, 244, 255}
CodeJobs == [kind : {"code"}, code : Codes \cup NoCodes]
WideJobs == {[kind |-> "utf8", before |-> b, behind |-> c, str |-> b \o Utf8(c)] :
                b \in UNION {BoundedSeq(SomeBytes, 3), {Utf8(c) : c \in Codes}}, c \in {65, 233, 4352, 128512}}

\* letters, quotes, what is escaped, what is malformed, wide or not printable
Letters == {<<65>>, <<34>>, <<39>>, <<92>>, <<10>>, <<128>>, <<195, 169>>, <<225, 132, 128>>, <<1>>, <<194, 128>>}
TextFormats == [base : {"none"}, width : {0, 9}, prec : {-1, 0, 2, 3, 6, 7}, adjust : {"none", "right", "internal"}, fill : {42}, debug : BOOLEAN]
ShowTextJobs ==
    UNION {{[kind |-> "string", str |-> FlattenSeq(t), fmt |-> f] : t \in BoundedSeq(Letters, 2), f \in TextFormats},
           {[kind |-> "string", str |-> FlattenSeq(t), fmt |-> f] :
                t \in [1..4 -> {<<65>>, <<39>>, <<128>>, <<225, 132, 128>>}], f \in {g \in TextFormats : g.adjust = "none"}},
           [kind : {"character"}, str : {t \in Letters : Len(t) = 1}, fmt : {f \in TextFormats : f.prec < 0}]}

\* texts of "a", ",", the backslash and the blank
Comma == [kind |-> "char", tgt |-> <<44>>]
Finders == [kind : {"text"}, tgt : {<<97>>, <<97, 97>>, <<97, 44>>, <<97, 44, 97>>}]
Masks(n) == BoundedSeq({97, 44, 92}, n)
Pairs(n) == BoundedSeq({97, 44}, n)
SplitJobs ==
    UNION {[kind : {"split"}, str : Masks(5), finder : {Comma}, skip_empty : BOOLEAN, n : {0, 2, Forever}],
           [kind : {"split"}, str : Pairs(6), finder : Finders, skip_empty : {FALSE}, n : {Forever}],
           [kind : {"replace"}, str : Masks(4), finder : Finders \cup {Comma}, with : {<<>>, <<97, 44>>}]}
SectionJobs ==
    UNION {[kind : {"section", "reversed"}, str : Masks(4), finder : {Comma}, skip_empty : BOOLEAN, start : 0..2, fin : {0, 2, Forever}],
           [kind : {"reversed"}, str : Pairs(5), finder : Finders, skip_empty : BOOLEAN, start : 0..2, fin : {0, 2}]}
TakeWordsJobs ==
    UNION {[kind : {"words"}, str : BoundedSeq({97, 44, 92, 32}, 5), sep : {44, 32}, n : {Forever}, table : {{}}],
           [kind : {"words"}, str : BoundedSeq({97, 44, 92, 32}, 4), sep : {44, 32}, n : {2}, table : {{}}],
           [kind : {"words"}, str : BoundedSeq({97, 43, 45, 32}, 4), sep : {44}, n : {Forever}, table : {{<<97>>, <<97, 97>>, <<98>>}}]}
PackJobs ==
    UNION {[kind : {"pack"}, strs : BoundedSeq(Masks(2), 3), sep : {44}], [kind : {"unpack"}, str : Masks(5), sep : {44}, n : {0, 2, Forever}]}
EscapeJobs == [kind : {"escapes"}, str : BoundedSeq({110, 10, 92, 34}, 4), symb : {<<92, 10, 34>>}, code : {<<92, 110, 34>>}]
TrimJobs == [kind : {"trim"}, str : BoundedSeq({97, 32, 9}, 4)]
CompareJobs == [kind : {"compare"}, str : BoundedSeq({65, 97, 66, 91}, 2), other : BoundedSeq({65, 97, 66, 91}, 3)]
StringJobs == UNION {CodeJobs, WideJobs, ShowTextJobs, SplitJobs, SectionJobs, TakeWordsJobs, PackJobs, EscapeJobs, TrimJobs, CompareJobs}

---------------------------------------------------------------------------
NoSize == [kind |-> "none", n |-> 0]
Num(n) == [kind |-> "num", n |-> n]
Arg(n) == [kind |-> "arg", n |-> n]
NoOptions == [fill |-> "", align |-> "", sign |-> "", alt |-> FALSE, zero |-> FALSE, width |-> NoSize, prec |-> NoSize, loc |-> FALSE, type |-> ""]
FormatJob(plan, args) == [kind |-> "format", plan |-> plan, str |-> Written(plan), args |-> args]

\* one field with any type, any adjustment and two more options
Specs == {s \in [fill : {"", "*", "}", "{"}, align : {"", "^"}, sign : {"", "+"}, alt : BOOLEAN, zero : BOOLEAN,
                 width : {NoSize, Num(120), Arg(Auto)}, prec : {NoSize, Num(0), Arg(Auto)}, loc : BOOLEAN,
                 type : {"", "d", "x", "c", "s", "?", "e", "p"}] :
            /\ s.fill # "" => s.align # ""
            /\ Cardinality({f \in DOMAIN s \ {"type", "align"} : s[f] # NoOptions[f]}) <= 2}
Types == {"bool", "char", "int", "float", "pointer", "string"}
Value(type, val) == [type |-> type, val |-> val]
FieldJobs == {FormatJob(<<[id |-> Auto, colon |-> TRUE, spec |-> s]>>, <<Value(t, 50), Value("uint", 9), Value("int", 128)>>) :
                 s \in Specs, t \in Types}

\* up to three items, numbered in every way, with arguments that fit or not
PlanFields == UNION {[id : {Auto, 0, 2}, colon : {TRUE},
                   spec : {NoOptions, [NoOptions EXCEPT !.width = Arg(Auto)], [NoOptions EXCEPT !.prec = Arg(1), !.width = Arg(0)],
                           [NoOptions EXCEPT !.width = Num(3), !.prec = Arg(0)]}],
                  [id : {Auto, 1}, colon : {FALSE}, spec : {NoOptions}]}
Items == UNION {[text : {"a", "{", "}"}], PlanFields}
ArgLists == {<<Value("string", 0), Value("int", -1), Value("int", 3)>>, <<Value("int", 4), Value("float", 1)>>,
             <<Value("uint", 200), Value("string", 1)>>, <<>>}
PlanJobs == UNION {{FormatJob(p, a) : p \in UNION {[1..n -> Items] : n \in {1, 2}}, a \in ArgLists},
                   {FormatJob(p, a) : p \in [1..3 -> PlanFields], a \in {args \in ArgLists : Len(args) = 3}}}

\* any strings
AnyFormatJobs == [kind : {"format"}, plan : {<<>>}, str : BoundedSeq({"{", "}", ":", "0", "."}, 5),
                  args : {<<>>, <<Value("float", 1), Value("int", 1)>>}]
FormatJobs == UNION {FieldJobs, PlanJobs, AnyFormatJobs}

---------------------------------------------------------------------------
MCForms == UNION {[form : {"dynamic"}, capacity : {0, 4}], [form : {"tracked", "fixed"}, capacity : 0..5]}
BufferJobs == [kind : {"buffer"}]

---------------------------------------------------------------------------
Ints == UNION {[type : {t}, val : Limits[t]] : t \in IntTypes}
Doubles == [type : {"double_precision"}, neg : BOOLEAN, bits : 0..Infinity + 1]
Strs == [type : {"string"}, str : UNION {BoundedSeq({"1", "9", "-", "."}, 4), {TrueName, FalseName, NanName, <<"2", "e", "1">>}}]
Others == UNION {[type : {"null"}], [type : {"boolean"}, flag : BOOLEAN], [type : {"array", "record"}, items : {<<>>}]}
ValueJobs == [kind : {"value"}, value : UNION {Ints, Doubles, Strs, Others}]

\* integers at the ends of the types, doubles beside them, and items
Ends == UNION {{-2^n - 1, -2^n, 2^n - 1, 2^n} : n \in {0, NarrowBits - 1, NarrowBits, WideBits - 1, WideBits}}
EndInts == {v \in Ints : v.val \in Ends}
SomeScalars == UNION {EndInts, Others, {d \in Doubles : d.bits \in {0, 480, Infinity, Infinity + 1}}, {s \in Strs : Len(s.str) = 1}}
Inner == {v \in SomeScalars : v.type = "null" \/ (HasInt(v) /\ v.val \in {-1, 1, 2^WideBits - 1})}
Arrays == [type : {"array"}, items : BoundedSeq(Inner, 2)]
Records == [type : {"record"}, items : BoundedSeq([key : {"a", "b"}, value : {v \in Inner : v.type = "null" \/ v.val = 1} \ {[type |-> "long_integer", val |-> 1]}], 2)]
PairJobs == UNION {[kind : {"pair"}, value : s, other : s] : s \in {SomeScalars, Arrays, Records}}

MCJobs == UNION {NumberJobs, StringJobs, FormatJobs, BufferJobs, ValueJobs, PairJobs}

textVars == <<numberVars, strVars, formatVars>>

Init ==
    /\ NumberInit /\ ScalarInit /\ out = Nothing /\ again = Nothing /\ parse = StartParse
    /\ IF job.kind = "buffer" THEN MemInit
       ELSE mem = New([form |-> "fixed", capacity |-> 0]) /\ heap = {} /\ wanted = <<>> /\ steps = 0

Next ==
    \/ NumberNext /\ UNCHANGED <<strVars, formatVars, memVars, answers>>
    \/ StringNext /\ UNCHANGED <<formatVars, memVars, answers>>
    \/ FormatNext /\ UNCHANGED <<memVars, answers>>
    \/ ScalarNext /\ UNCHANGED <<strVars, formatVars, memVars>>
    \/ job.kind = "buffer" /\ MemNext /\ UNCHANGED <<textVars, answers>>

Spec == Init /\ [][Next]_<<textVars, memVars, answers>>
===============================================================================
