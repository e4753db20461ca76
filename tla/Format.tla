-------------------------------- MODULE Format --------------------------------
(***************************************************************************)
(* Formatting by a format string (include/uxs/format_base.h,               *)
(* include/uxs/impl/format_impl.h): parse_format goes over the string      *)
(* twice, once when the program is compiled, with the types of the         *)
(* arguments, and once when it runs, with their values.  The text is a     *)
(* sequence of characters and of calls [arg, opts] of the conversions that *)
(* Numbers and Strings are about.                                          *)
(***************************************************************************)
EXTENDS StringAlg

VARIABLE parse \* how far parse_format has come

formatVars == <<parse>>

(* The automatic number of the next argument is gone once one is numbered. *)
Manual == -1

\* where a parser is in the string, and what it has found
Cursor(pos, next) == [pos |-> pos, next |-> next, error |-> "none", id |-> 0, num |-> 0, stop |-> FALSE, state |-> 0,
                      opts |-> [fill |-> " ", adjust |-> "none", sign |-> "none", alternate |-> FALSE, zeroes |-> FALSE,
                                localize |-> FALSE, width |-> 0, prec |-> -1, width_arg |-> 0, prec_arg |-> 0, type |-> ""]]
Cursors == [pos : Nat, next : Int, error : STRING, id : Nat, num : Nat, stop : BOOLEAN, state : Nat,
            opts : [fill : STRING, adjust : STRING, sign : STRING, alternate : BOOLEAN, zeroes : BOOLEAN, localize : BOOLEAN,
                    width : Nat, prec : Int, width_arg : Nat, prec_arg : Nat, type : STRING]]
Fail(c, error) == IF c.error = "none" THEN [c EXCEPT !.error = error, !.stop = TRUE] ELSE c

Is(s, pos, chars) == pos <= Len(s) /\ s[pos] \in chars
DecDigits == {Digits[n] : n \in 1..10}
Dig(ch) == (CHOOSE n \in 1..10 : Digits[n] = ch) - 1

---------------------------------------------------------------------------
(* parse_number; the number wraps around, and what gets smaller is taken   *)
(* to have done so.                                                        *)
parse_number(s, c0) ==
    LET from[c \in Cursors] ==
            LET num == (10 * c.num + Dig(s[c.pos])) % 2^IntBits
            IN  CASE ~Is(s, c.pos, DecDigits) -> c
                  [] Is(s, c.pos, DecDigits) /\ num < c.num -> Fail(c, "overflow")
                  [] OTHER -> from[[c EXCEPT !.pos = @ + 1, !.num = num]]
    IN  from[c0]

(* The contexts of the parsers: the one of the compiler knows how many     *)
(* arguments there are and whether one is an integer.                      *)
next_arg_id(c, count, compiling) ==
    CASE c.next = Manual \/ (compiling /\ c.next >= count) -> Fail(c, "index")
      [] OTHER -> [c EXCEPT !.id = c.next, !.next = @ + 1]
check_arg_id(c, count, compiling) ==
    CASE c.next > 0 \/ (compiling /\ c.num >= count) -> Fail(c, "index")
      [] OTHER -> [c EXCEPT !.id = c.num, !.next = Manual]

(* Mutant: the compiler takes any argument for a width.                    *)
check_dynamic_spec_integral_AnyType(c, args, compiling) == c

(* A width or a precision must be an integer.                              *)
check_dynamic_spec_integral(c, args, compiling) ==
    IF c.error = "none" /\ ~c.stop /\ compiling /\ args[c.id + 1].type \notin {"int", "uint"} THEN Fail(c, "argument") ELSE c

Numbered(s, c, args, compiling) ==
    LET d == parse_number(s, [c EXCEPT !.num = 0])
    IN  IF d.error = "none" THEN check_arg_id(d, Len(args), compiling) ELSE d

(* What stands for the width or the precision in braces, from behind the   *)
(* first brace to the second.                                              *)
parse_dynamic_parameter(s, c, args, compiling) ==
    LET d == Numbered(s, c, args, compiling)
        closed == parse_number(s, [c EXCEPT !.num = 0])
    IN  check_dynamic_spec_integral(
            CASE Is(s, c.pos, {"}"}) -> next_arg_id(c, Len(args), compiling)
              [] Is(s, c.pos, DecDigits) /\ (closed.error # "none" \/ Is(s, closed.pos, {"}"})) -> d
              [] OTHER -> [c EXCEPT !.stop = TRUE], args, compiling)

(* The order of the options: each of them once, and none after a later one.*)
Level(ch) ==
    CASE ch \in {"<", "^", ">"} -> 1 [] ch \in {"-", "+", " "} -> 2 [] ch = "#" -> 3 [] ch = "0" -> 4
      [] ch \in {"{"} \cup (DecDigits \ {"0"}) -> 5 [] ch = "." -> 6 [] ch = "L" -> 7 [] OTHER -> 0

Adjust(ch) == CASE ch = "<" -> "left" [] ch = "^" -> "internal" [] OTHER -> "right"
Sign(ch) == CASE ch = "-" -> "neg" [] ch = "+" -> "pos" [] OTHER -> "align"

WidthOf(s, c, args, compiling) ==
    LET Fixed(num) == [num EXCEPT !.opts.width = num.num]
        Taken(arg) == IF arg.stop THEN [arg EXCEPT !.pos = c.pos]
                      ELSE [arg EXCEPT !.pos = @ + 1, !.opts.width = 1, !.opts.width_arg = arg.id + 1]
    IN  IF Is(s, c.pos, {"{"}) THEN Taken(parse_dynamic_parameter(s, [c EXCEPT !.pos = @ + 1], args, compiling))
        ELSE Fixed(parse_number(s, [c EXCEPT !.num = 0]))

(* Mutant: a precision from an argument takes the number of the width.     *)
PrecOf_SameArg(s, c, args, compiling) ==
    LET Fixed(num) == [num EXCEPT !.opts.prec = num.num]
        Taken(arg) == IF arg.stop THEN [arg EXCEPT !.pos = c.pos]
                      ELSE [arg EXCEPT !.pos = @ + 1, !.opts.prec = 1, !.opts.prec_arg = Max({c.opts.width_arg, 1})]
    IN  CASE Is(s, c.pos + 1, DecDigits) -> Fixed(parse_number(s, [c EXCEPT !.pos = @ + 1, !.num = 0]))
          [] Is(s, c.pos + 1, {"{"}) -> Taken(parse_dynamic_parameter(s, [c EXCEPT !.pos = @ + 2], args, compiling))
          [] OTHER -> [c EXCEPT !.stop = TRUE]

(* parse_integral_parameter *)
PrecOf(s, c, args, compiling) ==
    LET Fixed(num) == [num EXCEPT !.opts.prec = num.num]
        Taken(arg) == IF arg.stop THEN [arg EXCEPT !.pos = c.pos]
                      ELSE [arg EXCEPT !.pos = @ + 1, !.opts.prec = 1, !.opts.prec_arg = arg.id + 1]
    IN  CASE Is(s, c.pos + 1, DecDigits) -> Fixed(parse_number(s, [c EXCEPT !.pos = @ + 1, !.num = 0]))
          [] Is(s, c.pos + 1, {"{"}) -> Taken(parse_dynamic_parameter(s, [c EXCEPT !.pos = @ + 2], args, compiling))
          [] OTHER -> [c EXCEPT !.stop = TRUE]

(* One option, from its first character on. *)
Option(s, c, ch, args, compiling) ==
    LET behind == [c EXCEPT !.pos = @ + 1]
    IN  CASE Level(ch) = 1 -> [behind EXCEPT !.opts.adjust = Adjust(ch)]
          [] Level(ch) = 2 -> [behind EXCEPT !.opts.sign = Sign(ch)]
          [] Level(ch) = 3 -> [behind EXCEPT !.opts.alternate = TRUE]
          [] Level(ch) = 4 -> [behind EXCEPT !.opts.zeroes = TRUE]
          [] Level(ch) = 5 -> WidthOf(s, c, args, compiling)
          [] Level(ch) = 6 -> PrecOf(s, c, args, compiling)
          [] OTHER -> [behind EXCEPT !.opts.localize = TRUE]

(* parse_standard: any character before an adjustment is the fill.         *)
parse_standard(s, c0, args, compiling) ==
    LET filled == [c0 EXCEPT !.pos = @ + 2, !.state = 1, !.opts.fill = s[c0.pos], !.opts.adjust = Adjust(s[c0.pos + 1])]
        from[c \in Cursors] ==
            IF c.stop \/ c.pos > Len(s) THEN c
            ELSE IF Level(s[c.pos]) <= c.state THEN c
            ELSE from[[Option(s, c, s[c.pos], args, compiling) EXCEPT !.state = Level(s[c.pos])]]
    IN  from[IF Is(s, c0.pos + 1, {"<", "^", ">"}) THEN filled ELSE c0]

classify_standard_type(ch) ==
    CASE ch \in {"d", "B", "b", "o", "X", "x"} -> "integer"
      [] ch \in {"F", "f", "E", "e", "G", "g", "A", "a"} -> "floating_point"
      [] ch \in {"P", "p"} -> "pointer"
      [] ch = "c" -> "character" [] ch = "s" -> "string" [] ch = "?" -> "debug_string" [] OTHER -> "none"

(* What a formatter takes: the presentations, and those of them that are a *)
(* text, in which there is no sign, no prefix and no zero to fill with.    *)
Presentations(type) ==
    CASE type = "bool" -> {"none", "string", "integer"} [] type = "char" -> {"none", "character", "debug_string", "integer"}
      [] type \in {"int", "uint"} -> {"none", "integer", "character"} [] type = "float" -> {"none", "floating_point"}
      [] type = "pointer" -> {"none", "pointer"} [] OTHER -> {"none", "string", "debug_string"}
IsText(type, shown) ==
    CASE type = "bool" -> shown \in {"none", "string"} [] type = "char" -> shown \in {"none", "character", "debug_string"}
      [] type \in {"int", "uint"} -> shown = "character" [] OTHER -> type = "string"

Refused(type, shown, opts) ==
    \/ shown \notin Presentations(type)
    \/ opts.prec >= 0 /\ type \notin {"float", "string"}
    \/ opts.sign # "none" /\ (IsText(type, shown) \/ type = "pointer")
    \/ opts.alternate /\ (IsText(type, shown) \/ type = "pointer")
    \/ opts.zeroes /\ IsText(type, shown)
    \/ opts.localize /\ type \in {"pointer", "string"}

(* The parse function of a formatter, which takes what is behind a colon.  *)
Typed(s, d, type) ==
    LET shown == IF d.pos > Len(s) THEN "none" ELSE classify_standard_type(s[d.pos])
    IN  CASE d.error # "none" -> d
          [] d.error = "none" /\ Refused(type, shown, d.opts) -> Fail(d, "refused")
          [] OTHER -> IF shown = "none" THEN d ELSE [d EXCEPT !.pos = @ + 1, !.opts.type = s[d.pos]]
ParseSpec(s, c, type, args, compiling) ==
    IF Is(s, c.pos, {":"}) THEN Typed(s, parse_standard(s, [c EXCEPT !.pos = @ + 1], args, compiling), type) ELSE c

(* A field, from behind its brace to the other one.                        *)
ToTheBrace(s, c, id) == IF c.error = "none" /\ ~Is(s, c.pos, {"}"}) THEN Fail(c, "syntax") ELSE [c EXCEPT !.id = id]
OfArgument(s, c, args, compiling) ==
    CASE c.error # "none" -> c
      [] c.error = "none" /\ c.id >= Len(args) -> Fail(c, "index")
      [] OTHER -> ToTheBrace(s, ParseSpec(s, [c EXCEPT !.stop = FALSE], args[c.id + 1].type, args, compiling), c.id)
ParseField(s, c, args, compiling) ==
    OfArgument(s, IF Is(s, c.pos, DecDigits) THEN Numbered(s, c, args, compiling) ELSE next_arg_id(c, Len(args), compiling),
               args, compiling)

---------------------------------------------------------------------------
(* get_unsigned: what a dynamic parameter may be. *)
Dynamic(c, args, id, limit) ==
    CASE id > Len(args) -> Fail(c, "index")
      [] id <= Len(args) /\ args[id].type \notin {"int", "uint"} -> Fail(c, "argument")
      [] OTHER -> IF args[id].val \notin 0..limit THEN Fail(c, "value") ELSE [c EXCEPT !.num = args[id].val]

(* The format function of a formatter: the options with the values of the  *)
(* dynamic ones, for a conversion that may still refuse the argument.      *)
Call(c, args) ==
    LET arg == args[c.id + 1]
        width == IF c.opts.width_arg > 0 THEN Dynamic(c, args, c.opts.width_arg, 2^IntBits - 1) ELSE [c EXCEPT !.num = c.opts.width]
        prec == IF c.opts.prec_arg > 0 THEN Dynamic(width, args, c.opts.prec_arg, 2^(IntBits - 1) - 1) ELSE width
        given == [width EXCEPT !.opts.width = width.num, !.opts.prec = IF c.opts.prec_arg > 0 THEN prec.num ELSE @,
                                !.opts.width_arg = 0, !.opts.prec_arg = 0,
                                !.opts.alternate = @ \/ arg.type = "pointer"]
    IN  CASE prec.error # "none" -> prec
          [] prec.error = "none" /\ c.opts.type = "c" /\ arg.type \in {"int", "uint"} /\ arg.val % 2^IntBits \notin DOMAIN CharOf ->
                Fail(c, "value")
          [] OTHER -> given

---------------------------------------------------------------------------
Compiling == parse.phase = "compile"
Running == job.kind = "format" /\ parse.phase \in {"compile", "run"}

\* checked: the error that the compiler has found
StartParse == [phase |-> "compile", first |-> 1, pos |-> 1, next |-> 0, checked |-> "none", error |-> "none"]

(* Where the next brace is, and the text before it.                        *)
Brace == Min({p \in parse.pos..Len(job.str) : job.str[p] \in {"{", "}"}} \cup {Len(job.str) + 1})
Write(items) == out' = IF Compiling THEN out ELSE out \o items
Literal(chars) == [i \in DOMAIN chars |-> [text |-> chars[i]]]
TextBefore == Literal(SubSeq(job.str, parse.first, Brace - 1))
IsDoubled == Brace < Len(job.str) /\ job.str[Brace + 1] = job.str[Brace]
IsField == Brace < Len(job.str) /\ job.str[Brace] = "{" /\ ~IsDoubled

(* parse_format is done with the string, or throws. *)
Stopped(error) ==
    IF Compiling THEN [StartParse EXCEPT !.phase = "run", !.checked = error]
    ELSE [parse EXCEPT !.phase = "done", !.error = error]

TextToTheEnd ==
    /\ Running /\ Brace > Len(job.str)
    /\ Write(TextBefore) /\ parse' = Stopped("none")
    /\ UNCHANGED <<job, text, back, again>>

(* Of two braces the second is text. *)
DoubledBrace ==
    /\ Running /\ IsDoubled
    /\ Write(TextBefore) /\ parse' = [parse EXCEPT !.first = Brace + 1, !.pos = Brace + 2]
    /\ UNCHANGED <<job, text, back, again>>

Field ==
    /\ Running /\ IsField
    /\ \E c \in {ParseField(job.str, Cursor(Brace + 1, parse.next), job.args, Compiling)} :
       \E call \in {IF Compiling \/ c.error # "none" THEN c ELSE Call(c, job.args)} :
          /\ Write(TextBefore \o IF call.error = "none" THEN <<[arg |-> c.id, opts |-> call.opts]>> ELSE <<>>)
          /\ parse' = IF call.error # "none" THEN Stopped(call.error)
                      ELSE [parse EXCEPT !.first = c.pos + 1, !.pos = c.pos + 1, !.next = c.next]
    /\ UNCHANGED <<job, text, back, again>>

(* A brace that is neither of two nor one of a field. *)
LoneBrace ==
    /\ Running /\ Brace <= Len(job.str) /\ ~IsDoubled /\ ~IsField
    /\ Write(TextBefore) /\ parse' = Stopped("syntax")
    /\ UNCHANGED <<job, text, back, again>>

FormatNext == TextToTheEnd \/ DoubledBrace \/ Field \/ LoneBrace

---------------------------------------------------------------------------
(* What a format string says, whichever way it is read: a plan is made of  *)
(* [text] and of fields [id, colon, spec]; an id is a number or Auto, a    *)
(* width or a precision "none", a number or the id of an argument.         *)
Auto == -1
Numeral(n) == IF n = Auto THEN <<>> ELSE DigitsOf(10, n)
Size(x) == CASE x.kind = "none" -> <<>> [] x.kind = "num" -> Numeral(x.n) [] OTHER -> <<"{">> \o Numeral(x.n) \o <<"}">>
If(b, chars) == IF b THEN chars ELSE <<>>
WrittenSpec(spec) ==
    If(spec.fill # "", <<spec.fill>>) \o If(spec.align # "", <<spec.align>>) \o If(spec.sign # "", <<spec.sign>>)
    \o If(spec.alt, <<"#">>) \o If(spec.zero, <<"0">>) \o Size(spec.width)
    \o If(spec.prec.kind # "none", <<".">>) \o Size(spec.prec) \o If(spec.loc, <<"L">>) \o If(spec.type # "", <<spec.type>>)
IsLiteral(item) == DOMAIN item = {"text"}
Written(plan) ==
    FlattenSeq([i \in DOMAIN plan |->
        IF IsLiteral(plan[i]) THEN If(plan[i].text \in {"{", "}"}, <<plan[i].text>>) \o <<plan[i].text>>
        ELSE <<"{">> \o Numeral(plan[i].id) \o If(plan[i].colon, <<":">> \o WrittenSpec(plan[i].spec)) \o <<"}">>])

(* The arguments it names, in the order it does. *)
RefsOf(item) ==
    IF IsLiteral(item) THEN <<>>
    ELSE <<item.id>> \o If(item.spec.width.kind = "arg", <<item.spec.width.n>>) \o If(item.spec.prec.kind = "arg", <<item.spec.prec.n>>)
Refs(plan) == FlattenSeq([i \in DOMAIN plan |-> RefsOf(plan[i])])
Ref(plan, i, k) ==
    LET place == Len(Refs(SubSeq(plan, 1, i - 1))) + k
    IN  IF Refs(plan)[place] = Auto THEN place - 1 ELSE Refs(plan)[place]
WidthRef(plan, i) == Ref(plan, i, 2)
PrecRef(plan, i) == Ref(plan, i, Len(RefsOf(plan[i])))

Integral(arg) == arg.type \in {"int", "uint"}
Whole == {"d", "b", "B", "o", "x", "X"}
TypesOf(arg) ==
    CASE Integral(arg) -> Whole \cup {"", "c"} [] arg.type = "bool" -> Whole \cup {"", "s"} [] arg.type = "char" -> Whole \cup {"", "c", "?"}
      [] arg.type = "float" -> {"", "a", "A", "e", "E", "f", "F", "g", "G"}
      [] arg.type = "pointer" -> {"", "p", "P"} [] OTHER -> {"", "s", "?"}
IsNumber(arg, type) == type \in Whole \/ arg.type = "float" \/ (Integral(arg) /\ type # "c")

ValidField(plan, i, args) ==
    LET spec == plan[i].spec
        arg == args[Ref(plan, i, 1) + 1]
        number == IsNumber(arg, spec.type)
    IN  /\ spec.type \in TypesOf(arg)
        /\ (spec.sign # "" \/ spec.alt) => number
        /\ spec.zero => number \/ arg.type = "pointer"
        /\ spec.prec.kind # "none" => arg.type \in {"float", "string"}
        /\ spec.loc => arg.type \notin {"pointer", "string"}
        /\ spec.width.kind = "arg" => Integral(args[WidthRef(plan, i) + 1])
        /\ spec.prec.kind = "arg" => Integral(args[PrecRef(plan, i) + 1])
FieldsOf(plan) == {i \in DOMAIN plan : ~IsLiteral(plan[i])}
Valid(plan, args) ==
    LET refs == Refs(plan)
    IN  /\ ToSet(refs) = {Auto} \/ Auto \notin ToSet(refs)
        /\ \A i \in FieldsOf(plan) : \A k \in DOMAIN RefsOf(plan[i]) : Ref(plan, i, k) < Len(args)
        /\ \A i \in FieldsOf(plan) : ValidField(plan, i, args)

(* The values that make a conversion impossible. *)
BadValue(plan, args) ==
    \E i \in FieldsOf(plan) :
        \/ plan[i].spec.width.kind = "arg" /\ args[WidthRef(plan, i) + 1].val \notin 0..2^IntBits - 1
        \/ plan[i].spec.prec.kind = "arg" /\ args[PrecRef(plan, i) + 1].val \notin 0..2^(IntBits - 1) - 1
        \/ LET arg == args[Ref(plan, i, 1) + 1] IN plan[i].spec.type = "c" /\ Integral(arg) /\ arg.val % 2^IntBits \notin DOMAIN CharOf

Amount(x, default, ref, args) == CASE x.kind = "none" -> default [] x.kind = "num" -> x.n [] OTHER -> args[ref + 1].val
Meaning(plan, args) ==
    [i \in DOMAIN plan |->
        IF IsLiteral(plan[i]) THEN plan[i]
        ELSE LET spec == plan[i].spec
                 arg == Ref(plan, i, 1)
             IN  [arg |-> arg,
                  opts |-> [fill |-> IF spec.fill = "" THEN " " ELSE spec.fill,
                            adjust |-> IF spec.align = "" THEN "none" ELSE Adjust(spec.align),
                            sign |-> IF spec.sign = "" THEN "none" ELSE Sign(spec.sign),
                            alternate |-> spec.alt \/ args[arg + 1].type = "pointer", zeroes |-> spec.zero, localize |-> spec.loc,
                            width |-> Amount(spec.width, 0, WidthRef(plan, i), args),
                            prec |-> Amount(spec.prec, -1, PrecRef(plan, i), args),
                            width_arg |-> 0, prec_arg |-> 0, type |-> spec.type]]]

Checked == job.kind = "format" /\ ~Compiling
Formatted == job.kind = "format" /\ parse.phase = "done"

(* basic_format_string, vformat: a plan that is written down as a format   *)
(* string is taken by the compiler if and only if every field may have its *)
(* options and names arguments that are there, all of them by their        *)
(* numbers or none; then the text is what the plan says, with the widths   *)
(* and precisions of the arguments, unless a value makes that impossible.  *)
FormatExact ==
    /\ Checked /\ job.plan # <<>> => (parse.checked = "none" <=> Valid(job.plan, job.args))
    /\ Formatted /\ job.plan # <<>> /\ Valid(job.plan, job.args) =>
           IF BadValue(job.plan, job.args) THEN parse.error = "value"
           ELSE parse.error = "none" /\ out = Meaning(job.plan, job.args)

(* compile_parse_context: a format string that the compiler has taken,     *)
(* whatever it is, fails when the program runs only for the value of an    *)
(* argument; and one that it refuses would have failed.                    *)
CheckedNeverFails ==
    Formatted => /\ parse.checked = "none" => parse.error \in {"none", "value"}
                 /\ parse.checked # "none" => parse.error # "none"
===============================================================================
