------------------------------ MODULE FloatShow ------------------------------
(***************************************************************************)
(* Floating point numbers as text: fp_dec_fmt_t and fp_hex_fmt_t of        *)
(* src/string_cvt.cpp find the digits, and generate writes them into a     *)
(* buffer of the length that get_len gives                                 *)
(* (include/uxs/impl/string_cvt_impl.h).                                   *)
(*                                                                         *)
(* The digits are a number, fp.sig, or if it is zero the characters        *)
(* fp.digs and after them fp.zeroes zeros; the number is                   *)
(* d.ddd * 10^fp.exp with fp.prec digits behind the point, and is written  *)
(* like that unless fp.fixed.                                              *)
(***************************************************************************)
EXTENDS FloatRead

HexDigs == (WordBits - 2) \div 4 \* hexadecimal digits behind the point: 15

---------------------------------------------------------------------------
(* The mantissa with its first bit at the top, and the exponent without    *)
(* its bias; bpm: the bits behind the first one.                           *)
Aligned(m, exp) ==
    LET log == ulog2[m]
    IN  IF exp > 0 THEN [m |-> Word \div 2 + m * 2^(WordBits - 1 - Mantissa), exp |-> exp - ExpBias, bpm |-> Mantissa]
        ELSE [m |-> m * 2^(WordBits - 1 - log), exp |-> 1 + log - Mantissa - ExpBias, bpm |-> log]

(* The number times a power of ten, rounded: its integral part and half a  *)
(* word of its fraction.                                                   *)
Scaled(fp2, pow) ==
    LET shift == WordBits - 2 - fp2.exp - exp10to2(pow)
        t == (MulPow(get_cached_pow10(pow), fp2.m) \div 2^shift) + 2^(HalfBits - 1)
    IN  [sig |-> t \div Word, frac |-> (t % Word) \div 2^HalfBits, shift |-> shift]

remove_trailing_zeros(n, max_remove) == Max({k \in 0..max_remove : n % 10^k = 0})

(* The digits with one or two too many are cut to n - 1: the first of them *)
(* can be two digits.                                                      *)
Cut(sig, exp, n, float, Up(_, _)) ==
    LET excess == float # "fixed" /\ sig >= 10^n
        unit == IF excess THEN 100 ELSE 10
        q == sig \div unit
        rounded == IF Up(sig % unit, unit) THEN q + 1 ELSE q
        carry == ~excess /\ rounded >= 10^(n - 1)
    IN  [sig |-> IF carry /\ float # "fixed" THEN rounded \div 10 ELSE rounded,
         exp |-> IF excess \/ carry THEN exp + 1 ELSE exp]

(* format_short_decimal_slow: with long division.  mul_and_shift gives the *)
(* numerator one word more if it shifts to the right; the number of words  *)
(* goes to bignum_divmod in the same call, and is read after that if way   *)
(* is "late".                                                              *)
format_short_decimal_slow(fp2, exp, n, float, way) ==
    LET mul10 == 10^(Digs - 1 - ((exp - n) % Digs))
        index == (exp - n) \div Digs + 1
        p == fp2.m * mul10
        shifted(shift) ==
            IF shift >= 0
            THEN [digs |-> (p * 2^shift) \div Word, num |-> <<(p * 2^shift) % Word>>]
            ELSE [digs |-> p \div 2^(WordBits - shift),
                  num |-> <<(p \div 2^(-shift)) % Word, ((p % Word) * 2^(WordBits + shift)) % Word>>]
        divided ==
            LET denominator == BigPow[index - 1]
                s == shifted(fp2.exp - denominator.exp)
                d == DivMod(s.digs, IF way = "late" THEN s.num ELSE <<s.num[1]>>, denominator.x)
            IN  [digs |-> d.q, num |-> IF d.q = 0 THEN s.num ELSE d.x]
        multiplied ==
            LET multiplier == BigPow[-1 - index]
                shift == 2 + fp2.exp + multiplier.exp
                r == Mul(multiplier.x, fp2.m, 0)
                s == Mul(<<r.hi>> \o r.x, mul10, 0)
                left == ShiftLeft(s.x, shift)
                right == ShiftRight(s.hi, s.x, -shift)
            IN  CASE shift > 0 -> [digs |-> s.hi * 2^shift + left.hi, num |-> left.x]
                  [] shift = 0 -> [digs |-> s.hi, num |-> s.x]
                  [] OTHER -> [digs |-> s.hi \div 2^(-shift), num |-> Append(right.x, right.lo)]
        result == CASE index > 0 -> divided
                    [] index < 0 -> multiplied
                    [] OTHER -> shifted(1 + fp2.exp)
    IN  Cut(result.digs, exp, n, float,
            LAMBDA r, unit :
                2 * r > unit \/ (2 * r = unit /\ ((result.digs \div unit) % 2 = 1 \/ ~IsZero(result.num))))

(* How the number is written when no format is asked for, or general. *)
Select(fp, fmt) ==
    IF fmt.float \in {"none", "general"} /\ fp.exp >= -4 /\ fp.exp <= fp.prec
    THEN [fp EXCEPT !.fixed = TRUE, !.prec = @ - fp.exp] ELSE fp

Trims(fmt) == fmt.float = "none" \/ (fmt.float = "general" /\ ~fmt.alternate)

(* format_short_decimal: fewer than Digs digits, with the way above if the *)
(* product is too close to a tie; or else if way is not "quick": that must *)
(* make no difference.                                                     *)
ShortDecimal(r, fp, fmt) ==
    LET selected == Select([fp EXCEPT !.sig = r.sig, !.exp = r.exp], fmt)
        zeros == remove_trailing_zeros(r.sig, selected.prec)
    IN  CASE r.sig = 0 -> [fp EXCEPT !.exp = 0, !.zeroes = fp.prec + 1]
          [] r.sig # 0 /\ Trims(fmt) -> [selected EXCEPT !.sig = r.sig \div 10^zeros, !.prec = @ - zeros]
          [] OTHER -> selected

ShortDigits(s, fp, fp2, n, fmt, way) ==
    LET unit == IF fmt.float # "fixed" /\ s.sig >= 10^n THEN 100 ELSE 10
        err == s.frac + (s.sig % unit) * 2^HalfBits
        half == (unit \div 2) * 2^HalfBits
    IN  IF way # "quick" \/ err \in {half - 1, half} THEN format_short_decimal_slow(fp2, fp.exp, n, fmt.float, way)
        ELSE Cut(s.sig, fp.exp, n, fmt.float, LAMBDA rest, of : err > half)

format_short_decimal(fp, fp2, n_digs, fmt, way) ==
    ShortDecimal(ShortDigits(Scaled(fp2, n_digs - fp.exp), fp, fp2, n_digs + 1, fmt, way), fp, fmt)

---------------------------------------------------------------------------
(* The digits of a pack in len characters. *)
Pack(digs, len, fill) == LET text == DigitsOf(10, digs) IN Copies(len - Len(text), fill) \o text

(* The packs of format_long_decimal.  n is the number of digits that are   *)
(* still to be made, one more than needed; num is what is left.            *)
FirstDigits(fp2, index) ==
    LET Quotient(d) == [digs |-> d.q, num |-> d.x]
        Product(p) == [digs |-> p.hi, num |-> p.x]
        shift == fp2.exp - BigPow[index - 1].exp
        multiplier == BigPow[-1 - index]
        Times(p) == ShiftLeft(<<p.hi>> \o p.x, 2 + fp2.exp + multiplier.exp)
    IN  CASE index > 0 -> Quotient(DivMod(fp2.m \div 2^(WordBits - shift), <<(fp2.m * 2^shift) % Word>>, BigPow[index - 1].x))
          [] index < 0 -> Product(Times(Mul(multiplier.x, fp2.m, 0)))
          [] OTHER -> [digs |-> fp2.m \div 2^(WordBits - 1 - fp2.exp), num |-> <<(fp2.m * 2^(1 + fp2.exp)) % Word>>]

FirstPack(fp, fp2, n, float) ==
    LET index == fp.exp \div Digs
        len == 1 + (fp.exp % Digs)
        Of(first, more) ==
            [buf |-> Pack(first.digs, len + more, Garbage), num |-> first.num, index |-> index - 1,
             exp |-> fp.exp + more, n |-> n - len - (IF float = "fixed" THEN 0 ELSE more)]
        Made(first) == Of(first, IF first.digs >= 10^len THEN 1 ELSE 0)
    IN  Made(FirstDigits(fp2, index))

(* A pack is divided by the same denominator if it is the last and short;  *)
(* by the next one of the table if it is not; and then by nothing.         *)
NextPack(s) ==
    LET num == Trim(s.num)
        len == Min({s.n, Digs})
        Quotient(d) == [digs |-> d.q, num |-> d.x]
        Kept(d) == [digs |-> d.q, num |-> SubSeq(d.x, 1, Len(num))]
        Product(p) == [digs |-> p.hi, num |-> p.x]
        By(p, y) == DivMod(p.hi, p.x, y)
        left == ShiftLeft(num, 1 + BigPow[s.index].exp - (IF s.index > 0 THEN 1 + BigPow[s.index - 1].exp ELSE 0))
        Put(r) == [s EXCEPT !.buf = @ \o Pack(r.digs, len, "0"), !.num = r.num, !.n = @ - len, !.index = @ - 1]
    IN  Put(CASE s.index >= 0 /\ len < Digs -> Kept(By(Mul(num, 10^len, 0), BigPow[s.index].x))
              [] s.index > 0 /\ len = Digs -> Quotient(By(left, BigPow[s.index - 1].x))
              [] s.index = 0 /\ len = Digs -> Product(left)
              [] OTHER -> Product(Mul(num, 10^len, 0)))

Packs(first) ==
    LET after[k \in 0..first.n] ==
            IF k = 0 THEN first
            ELSE LET s == after[k - 1] IN IF s.n > 0 /\ ~IsZero(s.num) THEN NextPack(s) ELSE s
    IN  after[first.n]

(* Mutant: a number of nines is rounded to 1 and not to 10.               *)
Rounded_Nines(s, float) ==
    LET body == Front(s.buf)
        up == \/ dig_v(Last(s.buf)) > 5
              \/ Last(s.buf) = "5" /\ (dig_v(Last(body)) % 2 = 1 \/ ~IsZero(s.num))
        kept == Max({0} \cup {i \in DOMAIN body : body[i] # "9"})
    IN  CASE s.n > 0 -> [s EXCEPT !.n = @ - 1]
          [] s.n = 0 /\ ~up -> [s EXCEPT !.buf = body]
          [] s.n = 0 /\ up /\ kept > 0 ->
                [s EXCEPT !.buf = Append(SubSeq(body, 1, kept - 1), Digits[dig_v(body[kept]) + 2]), !.n = Len(body) - kept]
          [] OTHER -> [s EXCEPT !.buf = <<"1">>, !.n = Len(body)]

(* The last digit goes; n counts the zeros behind the digits then. *)
Rounded(s, float) ==
    LET body == Front(s.buf)
        up == \/ dig_v(Last(s.buf)) > 5
              \/ Last(s.buf) = "5" /\ (dig_v(Last(body)) % 2 = 1 \/ ~IsZero(s.num))
        kept == Max({0} \cup {i \in DOMAIN body : body[i] # "9"})
    IN  CASE s.n > 0 -> [s EXCEPT !.n = @ - 1]
          [] s.n = 0 /\ ~up -> [s EXCEPT !.buf = body]
          [] s.n = 0 /\ up /\ kept > 0 ->
                [s EXCEPT !.buf = Append(SubSeq(body, 1, kept - 1), Digits[dig_v(body[kept]) + 2]), !.n = Len(body) - kept]
          [] OTHER -> [s EXCEPT !.buf = <<"1">>, !.exp = @ + 1, !.n = Len(body) - (IF float # "fixed" THEN 1 ELSE 0)]

(* format_long_decimal: the zeros at the end are counted, or go. *)
LongDecimal(s, fp, fmt) ==
    LET selected == Select([fp EXCEPT !.digs = s.buf, !.exp = s.exp], fmt)
        ends == {0} \cup {i \in DOMAIN s.buf : s.buf[i] # "0"}
        zeros == Min({selected.prec - s.n, Len(s.buf) - Max(ends)})
    IN  CASE ~Trims(fmt) -> [selected EXCEPT !.zeroes = s.n]
          [] Trims(fmt) /\ s.n < selected.prec -> [selected EXCEPT !.zeroes = 0, !.prec = @ - s.n - zeros]
          [] OTHER -> [selected EXCEPT !.zeroes = s.n - selected.prec, !.prec = 0]

format_long_decimal(fp, fp2, n_digs, fmt) ==
    LongDecimal(Rounded(Packs(FirstPack(fp, fp2, n_digs + 1, fmt.float)), fmt.float), fp, fmt)

---------------------------------------------------------------------------
(* The digits for reading back: as many as every number of its size needs, *)
(* and two or one fewer if the error stays within the interval that is     *)
(* rounded to the number; below a power of two that is half as wide.       *)
FewestDigits(s, prec, delta_minus, delta_plus) ==
    LET err_p(unit) == s.frac + (s.sig % unit) * 2^HalfBits
        err_m(unit) == unit * 2^HalfBits - err_p(unit)
        Removable(unit) == err_p(unit) < delta_plus \/ err_m(unit) < delta_minus
        Digit(unit, removed) ==
            LET up == \/ unit > 1 /\ err_p(unit) >= delta_plus
                      \/ err_m(unit) < err_p(unit)
                      \/ err_m(unit) = err_p(unit) /\ (s.sig \div unit) % 2 = 1
            IN  [sig |-> (s.sig \div unit) + (IF up THEN 1 ELSE 0), kept |-> prec - removed]
    IN  CASE Removable(100) -> Digit(100, 2)
          [] ~Removable(100) /\ Removable(10) -> Digit(10, 1)
          [] OTHER -> Digit(1, 0)

(* An integral number keeps the zeros before its point, and json has one   *)
(* behind it.                                                              *)
Shortened(r, exp, kept, fp, fmt) ==
    LET zeros == remove_trailing_zeros(r.sig, Max({0, kept - (IF exp <= 4 THEN exp ELSE 0)}))
        selected == Select([fp EXCEPT !.sig = r.sig \div 10^zeros, !.exp = exp, !.prec = kept - zeros], fmt)
    IN  IF fmt.json_compat /\ selected.prec = 0 THEN [selected EXCEPT !.sig = 10 * @, !.prec = 1] ELSE selected

ShortestOf(r, fp, fmt) ==
    LET more == IF r.sig >= 10^(1 + r.kept) THEN 1 ELSE 0
    IN  Shortened(r, fp.exp + more, r.kept + more, fp, fmt)

ShortestScaled(s, prec, fp, fp2, fmt) ==
    LET delta == get_cached_pow10(prec - fp.exp)[1] \div 2^(fp2.bpm + s.shift - (HalfBits - 2))
        narrow == fp2.m = Word \div 2 /\ fp2.exp > 1 - ExpBias
    IN  ShortestOf(FewestDigits(s, prec, delta, IF narrow THEN delta \div 2 ELSE delta), fp, fmt)

shortest(fp, fp2, fmt) ==
    LET prec == get_exp2_dig_count(fp2.bpm + 1)
    IN  ShortestScaled(Scaled(fp2, prec - fp.exp), prec, fp, fp2, fmt)

(* fp_dec_fmt_t: its constructor. *)
fp_dec_fmt(m, exp, fmt, way) ==
    LET digits == IF fmt.prec < 0 THEN 6 ELSE fmt.prec
        fp2 == Aligned(m, exp)
        fp(prec) == [sig |-> 0, exp |-> exp2to10(fp2.exp), prec |-> prec, zeroes |-> 0,
                     fixed |-> fmt.float = "fixed", alternate |-> fmt.alternate, digs |-> <<>>]
        general == fmt.float \in {"none", "general"}
        prec == IF general THEN Max({digits - 1, 0}) ELSE digits
        n_digs == 1 + prec + (IF fmt.float = "fixed" THEN fp(0).exp ELSE 0)
        zero_prec == CASE fmt.float = "none" -> IF fmt.prec < 0 /\ fmt.json_compat THEN 1 ELSE 0
                       [] fmt.float = "general" -> IF fmt.alternate THEN Max({digits - 1, 0}) ELSE 0
                       [] OTHER -> digits
    IN  CASE m = 0 /\ exp = 0 ->
                [fp(zero_prec) EXCEPT !.exp = 0, !.fixed = @ \/ general, !.zeroes = zero_prec + 1]
          [] (m # 0 \/ exp # 0) /\ fmt.float = "none" /\ fmt.prec < 0 -> shortest(fp(0), fp2, fmt)
          [] (m # 0 \/ exp # 0) /\ ~(fmt.float = "none" /\ fmt.prec < 0) ->
                CASE n_digs \in 0..Digs - 1 -> format_short_decimal(fp(prec), fp2, n_digs, fmt, way)
                  [] n_digs >= Digs -> format_long_decimal(fp(prec), fp2, n_digs, fmt)
                  [] OTHER -> [fp(prec) EXCEPT !.exp = 0, !.zeroes = prec + 1]

---------------------------------------------------------------------------
FracLen(fp) == IF fp.prec > 0 \/ fp.alternate THEN fp.prec + 1 ELSE 0
IntegralLen(fp) == 1 + Max({fp.exp, 0})

(* get_len and get_len_with_grouing: two digits of exponent here. *)
get_len(fp, grouping) ==
    (CASE fp.fixed /\ grouping = <<>> -> IntegralLen(fp)
       [] fp.fixed /\ grouping # <<>> -> calc_len_with_grouping(IntegralLen(fp), grouping)
       [] OTHER -> 5)
    + FracLen(fp)

Abs(n) == IF n < 0 THEN -n ELSE n

generate_scientific(fp) ==
    LET exponent == <<"e", IF fp.exp < 0 THEN "-" ELSE "+">> \o Pack(Abs(fp.exp), 2, "0")
        digits == IF fp.sig # 0 THEN DigitsOf(10, fp.sig)
                  ELSE SubSeq(fp.digs, 1, fp.prec + 1 - fp.zeroes) \o Copies(fp.zeroes, "0")
    IN  CASE fp.prec > 0 -> <<digits[1], ".">> \o Tail(digits) \o exponent
          [] fp.prec = 0 /\ fp.alternate -> <<Digits[fp.sig + 1], ".">> \o exponent
          [] OTHER -> <<Digits[fp.sig + 1]>> \o exponent

(* generate_fixed, into a buffer.  A number below one is put down as if    *)
(* its digits were an integral part, over the zeros behind the point.      *)
generate_fixed(fp, grouping) ==
    LET buf == Copies(get_len(fp, grouping), Garbage)
        end == Len(buf)
        k == 1 + fp.exp
        below == fp.prec > 0 /\ k <= 0
        Chars(n, zeroes) == SubSeq(fp.digs, 1, n - zeroes) \o Copies(Min({zeroes, n}), "0")
        fraction == CASE fp.sig # 0 /\ fp.prec > 0 -> Pack(fp.sig % 10^fp.prec, fp.prec, "0")
                      [] fp.sig = 0 /\ fp.zeroes < fp.prec ->
                            SubSeq(fp.digs, k + 1, k + fp.prec - fp.zeroes) \o Copies(fp.zeroes, "0")
                      [] OTHER -> Copies(fp.prec, "0")
        behind == CASE below -> WriteEnding(WriteEnding(buf, end - fp.prec - k, Copies(2 - k, "0")), end - fp.prec, <<".">>)
                    [] ~below /\ FracLen(fp) > 0 -> WriteEnding(buf, end, <<".">> \o fraction)
                    [] OTHER -> buf
        integral == CASE fp.sig # 0 -> DigitsOf(10, IF below THEN fp.sig ELSE fp.sig \div 10^fp.prec)
                      [] fp.sig = 0 /\ below -> Chars(k + fp.prec, fp.zeroes)
                      [] OTHER -> Chars(k, Max({0, fp.zeroes - fp.prec}))
    IN  WriteEnding(behind, IF below THEN end ELSE end - FracLen(fp),
                    IF grouping = <<>> \/ fp.exp <= 0 THEN integral ELSE Grouped(integral, grouping))

(* fp_hex_fmt_t and its generate: one digit, and as many behind the point  *)
(* as there are or as are asked for.                                       *)
hex_text(m, exp, fmt) ==
    LET zero == m = 0 /\ exp = 0
        sig == (m + (IF exp > 0 THEN 2^Mantissa ELSE 0)) * 2^(4 * HexDigs - Mantissa)
        ends == CHOOSE n \in 0..HexDigs : sig % 16^n = 0 /\ (n = HexDigs \/ sig % 16^(n + 1) # 0)
        prec == CASE fmt.prec >= 0 -> fmt.prec [] fmt.prec < 0 /\ zero -> 0 [] OTHER -> HexDigs - ends
        unit == 16^(HexDigs - Min({prec, HexDigs}))
        q == sig \div unit
        up == fmt.prec >= 0 /\ (2 * (sig % unit) > unit \/ (2 * (sig % unit) = unit /\ q % 2 = 1))
        digits == DigitsOf(16, IF up THEN q + 1 ELSE q)
        count == Min({prec, HexDigs})
        shown == CASE zero -> 0 [] ~zero /\ exp > 0 -> exp - ExpBias [] OTHER -> 1 - ExpBias
        padded == Copies(count + 1 - Len(digits), "0") \o digits
    IN  <<padded[1]>> \o (IF prec > 0 \/ fmt.alternate THEN <<".">> ELSE <<>>) \o Tail(padded) \o Copies(prec - count, "0")
        \o <<"p", IF shown < 0 THEN "-" ELSE "+">> \o DigitsOf(10, Abs(shown))

(* fmt_float_common, of a number with its sign. *)
DecimalText(fp, prefix, fmt) ==
    adjust_numeric(IF fp.fixed THEN generate_fixed(fp, fmt.grouping) ELSE generate_scientific(fp),
                   Len(prefix) + get_len(fp, fmt.grouping), prefix, fmt)

fmt_float_common(neg, bits, fmt, way) ==
    LET prefix == SignPrefix(neg, fmt)
        m == bits % 2^Mantissa
        exp == bits \div 2^Mantissa
        name == prefix \o (IF m = 0 THEN InfName ELSE NanName)
        hex == hex_text(m, exp, fmt)
    IN  CASE exp = ExpMax -> append_adjusted(name, Len(name), fmt, TRUE)
          [] exp # ExpMax /\ fmt.base = "hex" -> adjust_numeric(hex, Len(prefix) + Len(hex), prefix, fmt)
          [] OTHER -> DecimalText(fp_dec_fmt(m, exp, fmt, way), prefix, fmt)
===============================================================================
