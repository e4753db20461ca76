------------------------------- MODULE Numbers -------------------------------
(***************************************************************************)
(* A number is put into text by to_string and the text is read by          *)
(* from_string, or a text that nothing has written is read.                *)
(***************************************************************************)
EXTENDS FloatShow

CONSTANTS
    Jobs,     \* what is to be done
    Given(_), \* the number that a job gives in text: its sign, its digits
              \* before and behind the point, its exponent and what follows
    TypeMax   \* the greatest number of the unsigned type

VARIABLES
    job,  \* the number and its format, or the text to read and its number
    text, \* the text, <<>> before there is one
    back  \* what has been read, with the place behind it

numberVars == <<job, text, back>>

---------------------------------------------------------------------------
(* What numbers and their texts ought to be: exact decimal expansions,     *)
(* digit by digit, and nothing of the way src/string_cvt.cpp computes.  An *)
(* expansion is [int, frac], its digits before and behind the point.       *)

(* m * 2^k *)
Expansion(m, k) ==
    LET digits[n \in Nat] == IF n < 10 THEN <<n>> ELSE Append(digits[n \div 10], n % 10)
        unit == 2^(-k)
        rest[i \in 0..-k] == IF i = 0 THEN m % unit ELSE (10 * rest[i - 1]) % unit
    IN  IF k >= 0 THEN [int |-> digits[m * 2^k], frac |-> <<>>]
        ELSE [int |-> digits[m \div unit], frac |-> [i \in 1..-k |-> (10 * rest[i - 1]) \div unit]]

(* The number with these bits is Significand * 2^Scale; infinity counts as *)
(* the number that would come next.                                        *)
Significand(bits) == (bits % 2^Mantissa) + (IF bits >= 2^Mantissa THEN 2^Mantissa ELSE 0)
Scale(bits) == Max({bits \div 2^Mantissa, 1}) - ExpBias - Mantissa
Exact(bits) == Expansion(Significand(bits), Scale(bits))
Middle(bits) == Expansion(2 * Significand(bits) + 1, Scale(bits) - 1)

(* The point moved by exp places to the right. *)
Moved(x, exp) ==
    LET all == x.int \o x.frac
        point == Len(x.int) + exp
        padded == Copies(-point, 0) \o all \o Copies(point - Len(all), 0)
        at == Max({point, 0})
    IN  [int |-> SubSeq(padded, 1, at), frac |-> SubSeq(padded, at + 1, Len(padded))]

Compare(x, y) ==
    LET ints == Max({Len(x.int), Len(y.int)})
        fracs == Max({Len(x.frac), Len(y.frac)})
        Wide(z) == Copies(ints - Len(z.int), 0) \o z.int \o z.frac \o Copies(fracs - Len(z.frac), 0)
        a == Wide(x)
        b == Wide(y)
        differ == {i \in 1..ints + fracs : a[i] # b[i]}
    IN  IF differ = {} THEN 0 ELSE a[Min(differ)] - b[Min(differ)]

(* The rounding of IEEE 754: to nearest, and of two to the even one. *)
IsNearest(x, bits) ==
    /\ bits \in 0..Infinity
    /\ bits < Infinity => LET c == Compare(x, Middle(bits)) IN c < 0 \/ (c = 0 /\ bits % 2 = 0)
    /\ bits > 0 => LET c == Compare(x, Middle(bits - 1)) IN c > 0 \/ (c = 0 /\ bits % 2 = 0)

---------------------------------------------------------------------------
(* The first n digits, rounded to nearest even: one digit more if nothing  *)
(* but nines went up.                                                      *)
RoundDigits(digits, n) ==
    LET kept == SubSeq(digits, 1, Min({n, Len(digits)})) \o Copies(n - Len(digits), 0)
        tail == SubSeq(digits, n + 1, Len(digits))
        more == \E i \in 2..Len(tail) : tail[i] # 0
        up == /\ tail # <<>>
              /\ tail[1] > 5 \/ (tail[1] = 5 /\ (more \/ (n > 0 /\ kept[n] % 2 = 1)))
        last == Max({0} \cup {i \in 1..n : kept[i] # 9})
        raised == SubSeq(kept, 1, last - 1) \o <<kept[last] + 1>> \o Copies(n - last, 0)
    IN  CASE ~up -> kept
          [] up /\ last > 0 -> raised
          [] OTHER -> <<1>> \o Copies(n, 0)

Chars(digits) == [i \in DOMAIN digits |-> Digits[digits[i] + 1]]
Point(fmt, frac) == IF frac # <<>> \/ fmt.alternate THEN <<".">> ELSE <<>>

FixedText(x, prec, fmt) ==
    LET r == RoundDigits(x.int \o x.frac, Len(x.int) + prec)
        point == Len(r) - prec
        int == Chars(SubSeq(r, 1, point))
        frac == Chars(SubSeq(r, point + 1, Len(r)))
    IN  (IF fmt.grouping = <<>> THEN int ELSE Grouped(int, fmt.grouping)) \o Point(fmt, frac) \o frac

(* The digits of d.ddd * 10^exp. *)
Scientific(x, prec) ==
    LET all == x.int \o x.frac
        first == Min({i \in DOMAIN all : all[i] # 0 \/ i = Len(all)})
        r == RoundDigits(SubSeq(all, first, Len(all)), prec + 1)
    IN  IF \A i \in DOMAIN all : all[i] = 0 THEN [digits |-> Copies(prec + 1, 0), exp |-> 0]
        ELSE [digits |-> SubSeq(r, 1, prec + 1), exp |-> Len(x.int) - first + (Len(r) - prec - 1)]

ScientificText(digits, exp, fmt) ==
    Chars(<<digits[1]>>) \o Point(fmt, Tail(digits)) \o Chars(Tail(digits))
    \o <<"e", IF exp < 0 THEN "-" ELSE "+">> \o Chars(<<Abs(exp) \div 10, Abs(exp) % 10>>)

(* %g: of the two ways the one that the exponent calls for. *)
FixedGeneral(y, fmt) ==
    LET int == IF y.int = <<>> THEN <<"0">> ELSE Chars(y.int)
    IN  (IF fmt.grouping = <<>> THEN int ELSE Grouped(int, fmt.grouping)) \o Point(fmt, y.frac) \o Chars(y.frac)

GeneralText(s, p, fmt) ==
    LET fixed == -4 <= s.exp /\ s.exp < p
        point == IF fixed THEN s.exp + 1 ELSE 1
        ends == {1, point} \cup {i \in DOMAIN s.digits : s.digits[i] # 0}
        digits == IF Trims(fmt) THEN SubSeq(s.digits, 1, Max(ends)) ELSE s.digits
    IN  IF fixed THEN FixedGeneral(Moved([int |-> <<digits[1]>>, frac |-> Tail(digits)], s.exp), fmt)
        ELSE ScientificText(digits, s.exp, fmt)

FloatText(bits, fmt) ==
    LET prec == IF fmt.prec < 0 THEN 6 ELSE fmt.prec
        Of(s) == ScientificText(s.digits, s.exp, fmt)
    IN  CASE fmt.float = "fixed" -> FixedText(Exact(bits), prec, fmt)
          [] fmt.float = "scientific" -> Of(Scientific(Exact(bits), prec))
          [] OTHER -> GeneralText(Scientific(Exact(bits), Max({prec, 1}) - 1), Max({prec, 1}), fmt)

---------------------------------------------------------------------------
NotRead == [last |-> 0]

TypeOK ==
    /\ text \in Seq(ToSet(Digits) \cup {"+", "-", ".", ",", " ", "*", "x", "p", "i", "n", "t", "r", "u", "l", "s"})
    /\ back = NotRead \/ back.last \in 1..Len(text) + 1

NumberInit == job \in Jobs /\ text = <<>> /\ back = NotRead

(* to_basic_string of a floating point number. *)
ShowFloat ==
    /\ text = <<>> /\ job.kind = "float"
    /\ text' = fmt_float_common(job.neg, job.bits, job.fmt, job.way)
    /\ UNCHANGED <<job, back>>

(* to_basic_string of an integer, or of a truth value. *)
ShowInteger ==
    /\ text = <<>> /\ job.kind = "int"
    /\ text' = fmt_integer_common(job.val, IntBits, job.is_signed, job.fmt)
    /\ UNCHANGED <<job, back>>

ShowBoolean ==
    /\ text = <<>> /\ job.kind = "word"
    /\ text' = fmt_boolean(job.val, IntBits, job.fmt)
    /\ UNCHANGED <<job, back>>

NumberOf(x) ==
    (IF x.neg THEN <<"-">> ELSE <<>>) \o Chars(x.int) \o (IF x.frac = <<>> THEN <<>> ELSE <<".">> \o Chars(x.frac))
    \o (IF x.exp = 0 THEN <<>> ELSE <<"e">> \o (IF x.exp < 0 THEN <<"-">> ELSE <<>>) \o DigitsOf(10, Abs(x.exp)))
TextOf(x) == NumberOf(x) \o x.behind

(* A text from elsewhere. *)
GetText ==
    /\ text = <<>> /\ job.kind \in {"chars", "digits"}
    /\ text' = IF job.kind = "chars" THEN TextOf(Given(job))
               ELSE (IF job.neg THEN <<"-">> ELSE <<>>) \o DigitsOf(10, job.val)
    /\ UNCHANGED <<job, back>>

(* from_basic_string; the three conversions. *)
ReadFloat ==
    /\ text # <<>> /\ back = NotRead /\ job.kind \in {"float", "chars"}
    /\ back' = to_float_common(text, 1)
    /\ UNCHANGED <<job, text>>

ReadInteger ==
    /\ text # <<>> /\ back = NotRead /\ job.kind = "digits"
    /\ back' = to_integer_common(text, 1, IntBits, TypeMax)
    /\ UNCHANGED <<job, text>>

ReadBoolean ==
    /\ text # <<>> /\ back = NotRead /\ job.kind = "word"
    /\ back' = to_boolean(text, 1)
    /\ UNCHANGED <<job, text>>

NumberNext == ShowFloat \/ ShowInteger \/ ShowBoolean \/ GetText \/ ReadFloat \/ ReadInteger \/ ReadBoolean

---------------------------------------------------------------------------
Shown == text # <<>> /\ job.kind = "float"
Shortest(fmt) == fmt.float = "none" /\ fmt.prec < 0 /\ fmt.base # "hex"

(* The digits of a long general format are characters, and if all but the  *)
(* first are cut off the text is made of the number instead, which is zero *)
(* (generate_scientific).                                                  *)
LosesDigit(bits, fmt) ==
    LET s == Scientific(Exact(bits), Max({fmt.prec - 1, 0}))
    IN  /\ Trims(fmt) /\ fmt.prec >= Digs /\ bits # 0
        /\ s.exp \notin -4..fmt.prec - 1 /\ \A i \in 2..Len(s.digits) : s.digits[i] = 0

(* fp_dec_fmt_t and generate: the text of a number is that of its exact    *)
(* value rounded to the digits asked for, whichever of the three ways its  *)
(* digits have been found, and it fills the buffer that was measured.      *)
ShowExact ==
    Shown /\ job.bits < Infinity /\ ~Shortest(job.fmt) /\ job.fmt.base # "hex" /\ ~LosesDigit(job.bits, job.fmt)
        => text = SignPrefix(job.neg, job.fmt) \o FloatText(job.bits, job.fmt)

(* fp_dec_fmt_t without a format: what it writes is read back as the same  *)
(* number, infinities included, by fp10_to_fp2; so is a truth value.        *)
ReadsBack ==
    /\ back # NotRead /\ job.kind = "float" /\ Shortest(job.fmt) =>
            /\ back.bits = (IF job.bits > Infinity THEN NaN ELSE job.bits)
            /\ back.neg = job.neg /\ back.last = Len(text) + 1
    /\ back # NotRead /\ job.kind = "word" => back.val = job.val /\ back.last = Len(text) + 1

(* x is read with its exponent, in an int: from half its numbers on, a     *)
(* positive one, and so its sum with the places behind the point, goes     *)
(* round and is another (chars_to_fp10).                                   *)
ReadAs(x) ==
    /\ back.last = Len(NumberOf(x)) + 1
    /\ IsNearest(Moved([int |-> x.int, frac |-> x.frac], Signed(x.exp - Len(x.frac), IntBits) + Len(x.frac)), back.bits)

(* chars_to_fp10, fp10_to_fp2: what is read is the number nearest to the   *)
(* text, of two the even one, however many digits the text has; the sign   *)
(* and the end of the number are found.  The exponent has to be one of an  *)
(* int with the places behind the point counted in: a positive one that is *)
(* beyond that but still of as many bits makes another number, and a       *)
(* negative one ends the number before it.  An exponent of more bits may   *)
(* do either.                                                              *)
ReadExact ==
    back # NotRead /\ job.kind = "chars" =>
        LET x == Given(job)
        IN  /\ back.neg = x.neg
            /\ \/ x.exp \notin 1 - 2^IntBits..-1 - 2^(IntBits - 1) /\ ReadAs(x)
               \/ x.exp \notin -2^(IntBits - 1)..2^IntBits - 1 /\ ReadAs([x EXCEPT !.exp = 0])

(* The number that the digits of a text are, without separators. *)
ValueOf(base, digits) == FoldLeft(LAMBDA n, c : base * n + dig_v(c), 0, SelectSeq(digits, LAMBDA c : c # ","))

(* The separators of a text, by the number of digits to their right, and   *)
(* where the locale wants them: the sizes add up, and the last repeats.    *)
Separators(digits) ==
    {Cardinality({k \in i..Len(digits) : digits[k] # ","}) : i \in {k \in DOMAIN digits : digits[k] = ","}}
GroupEnds(grouping, count) ==
    LET size(i) == Max({grouping[Min({i, Len(grouping)})], 1})
        ends[i \in 0..count] == IF i = 0 THEN 0 ELSE ends[i - 1] + size(i)
    IN  {ends[i] : i \in 1..count} \cap 1..count - 1

(* fmt_integer_common, adjust_numeric: the text is the sign, the prefix    *)
(* and the digits of the number, in groups that end where the locale wants *)
(* them, none of it cut off or left unwritten; it is as wide as asked for, *)
(* filled on the side asked for, by zeros behind the prefix or by fill.    *)
IntegerText ==
    LET fmt == job.fmt
        neg == job.is_signed /\ job.val >= 2^(IntBits - 1)
        n == IF neg THEN 2^IntBits - job.val ELSE job.val
        bare == SelectSeq(text, LAMBDA c : c # fmt.fill)
        prefix == SignPrefix(neg, fmt) \o BasePrefix(fmt)
        digits == SubSeq(bare, Len(prefix) + 1, Len(bare))
        zeroes == fmt.zeroes /\ fmt.adjust = "none" /\ fmt.width = Len(text)
        left == Len(SelectSeq(text, LAMBDA c : c = fmt.fill)) - (Len(text) - Max({i \in DOMAIN text : text[i] # fmt.fill}))
    IN  /\ SubSeq(bare, 1, Len(prefix)) = prefix /\ digits # <<>>
        /\ \A i \in DOMAIN digits : digits[i] = "," \/ dig_v(digits[i]) < BaseOf(fmt)
        /\ ValueOf(BaseOf(fmt), digits) = n
        /\ Separators(digits) = IF fmt.grouping = <<>> THEN {} ELSE GroupEnds(fmt.grouping, Len(DigitsOf(BaseOf(fmt), n)))
        /\ zeroes \/ n = 0 \/ digits[1] # "0"
        /\ Len(text) = Max({fmt.width, Len(bare)})
        /\ left = CASE fmt.adjust = "left" -> 0
                    [] fmt.adjust = "internal" -> (Len(text) - Len(bare)) \div 2
                    [] OTHER -> Len(text) - Len(bare)

InRange(neg, n) == IF neg THEN n <= 1 + (TypeMax \div 2) ELSE n <= TypeMax

(* to_integer_common, with the note on the range of the result; what does  *)
(* not fit is refused, and nothing of the text is used then.               *)
IntegerRead(neg, n, length) ==
    IF InRange(neg, n) THEN back.last = length + 1 /\ back.val = IF neg THEN (-n) % 2^IntBits ELSE n
    ELSE back.last = 1 /\ back.val = 0

(* An integer is shown as asked for, and read exactly or refused, if its  *)
(* digits make a number of that many bits: more wrap around unseen.        *)
IntegersExact ==
    /\ text # <<>> /\ job.kind = "int" => IntegerText
    /\ back # NotRead /\ job.kind = "digits" /\ job.val < 2^IntBits => IntegerRead(job.neg, job.val, Len(text))
===============================================================================
