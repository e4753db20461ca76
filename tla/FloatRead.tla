------------------------------ MODULE FloatRead ------------------------------
(***************************************************************************)
(* Numbers out of text (include/uxs/impl/string_cvt_impl.h and             *)
(* fp10_to_fp2 in src/string_cvt.cpp).  A text is a sequence of            *)
(* characters, p a place in it; a conversion gives a value and the place   *)
(* behind what it has used, which is p if there was nothing to use.        *)
(*                                                                         *)
(* A floating point number is its bits, without the sign: an exponent of   *)
(* up to ExpMax and Mantissa bits, instead of 2047 and 52.                 *)
(***************************************************************************)
EXTENDS IntText

-----------------------------------------------------------------------------
(***************************************************************************)
(* Numbers of several machine words, the most significant first, as        *)
(* src/string_cvt.cpp computes with them, and its two tables of powers of  *)
(* ten.  A word has WordBits bits instead of 64, and Digs decimal digits   *)
(* instead of 18 are safe in it (digs_per_64).                             *)
(***************************************************************************)
CONSTANTS
    WordBits, \* bits of a word, even
    Digs,     \* digs_per_64
    BigPows,  \* bigpow10_tbl_size
    StepPow,  \* step_pow: every 2^StepPow-th power of ten is in PowTable
    PowMax,   \* pow10_max
    PowTable  \* powtbl: 10^pow with its highest bit moved to the top of one
              \* word and a half, rounded, for pow = -PowMax, ...

Word == 2^WordBits
HalfBits == WordBits \div 2

ASSUME WordAssumption ==
    /\ WordBits \in {2 * n : n \in 4..7}
    /\ Digs \in Nat \ {0} /\ 10^(Digs + 1) <= Word
    /\ BigPows \in Nat \ {0} /\ StepPow \in Nat /\ PowMax % 2^StepPow = 0
    /\ \A n \in DOMAIN PowTable : PowTable[n] \in ((Word \div 2)..(Word - 1)) \X (0..(2^HalfBits - 1))

---------------------------------------------------------------------------
(* x * mul + bias: the words of x and what goes beyond them. *)
Mul(x, mul, bias) ==
    LET higher[i \in 1..Len(x) + 1] ==
            IF i > Len(x) THEN bias ELSE (x[i] * mul + higher[i + 1]) \div Word
    IN  [hi |-> higher[1], x |-> [i \in DOMAIN x |-> (x[i] * mul + higher[i + 1]) % Word]]

Carried(product) == IF product.hi = 0 THEN product.x ELSE <<product.hi>> \o product.x

(* x + y * mul, for y as long as x. *)
AddMul(x, y, mul) ==
    LET higher[i \in 1..Len(y) + 1] ==
            IF i > Len(y) THEN 0 ELSE (x[i] + y[i] * mul + higher[i + 1]) \div Word
    IN  [hi |-> higher[1], x |-> [i \in DOMAIN y |-> (x[i] + y[i] * mul + higher[i + 1]) % Word]]

(* bignum_mul_vec: a row for each word of x, from the last, each of them   *)
(* written where the word was.                                             *)
MulVec(x, y) ==
    FoldRight(LAMBDA word, acc :
                LET row == AddMul(SubSeq(acc, 1, Len(y)), y, word)
                IN  <<row.hi>> \o row.x \o SubSeq(acc, Len(y) + 1, Len(acc)),
              x, [i \in DOMAIN y |-> 0])

Trim(x) == SubSeq(x, 1, Max({0} \cup {i \in DOMAIN x : x[i] # 0}))

(* x - y * mul; x goes on with zeros if y is longer. *)
SubMul(x, y, mul) ==
    LET at(i) == IF i \in DOMAIN x THEN x[i] ELSE 0
        borrow[i \in 1..Len(y) + 1] ==
            IF i > Len(y) THEN 0 ELSE -((at(i) - y[i] * mul - borrow[i + 1]) \div Word)
    IN  [hi |-> borrow[1],
         x |-> [i \in 1..Max({Len(x), Len(y)}) |->
                    IF i \in DOMAIN y THEN (at(i) - y[i] * mul - borrow[i + 1]) % Word ELSE x[i]]]

AddBack(x, y) == AddMul(SubSeq(x, 1, Len(y)), y, 1).x \o SubSeq(x, Len(y) + 1, Len(x))

(* Mutant: the estimate is taken for the quotient.                         *)
DivMod_NoCorrection(integral, x, y) ==
    LET q == (integral * Word + (IF x = <<>> THEN 0 ELSE x[1]) + (IF Len(x) > 1 THEN 1 ELSE 0)) \div y[1]
    IN  IF q = 0 THEN [q |-> 0, x |-> x] ELSE [q |-> q, x |-> SubMul(x, y, q).x]

(* bignum_divmod: integral.x / 0.y, where the first bit of y is one.  The  *)
(* quotient is estimated with the first word of y, from above, and is at   *)
(* most one too great.                                                     *)
DivMod(integral, x, y) ==
    LET num == integral * Word + (IF x = <<>> THEN 0 ELSE x[1]) + (IF Len(x) > 1 THEN 1 ELSE 0)
        q == num \div y[1]
        rest == SubMul(x, y, q)
    IN  CASE q = 0 -> [q |-> 0, x |-> x]
          [] q # 0 /\ integral < rest.hi -> [q |-> q - 1, x |-> AddBack(rest.x, y)]
          [] OTHER -> [q |-> q, x |-> rest.x]

ShiftLeft(x, shift) ==
    LET at(i) == IF i \in DOMAIN x THEN x[i] ELSE 0
    IN  [hi |-> x[1] \div 2^(WordBits - shift),
         x |-> [i \in DOMAIN x |-> ((x[i] * 2^shift) % Word) + at(i + 1) \div 2^(WordBits - shift)]]

ShiftRight(higher, x, shift) ==
    LET at(i) == IF i = 0 THEN higher ELSE x[i]
    IN  [lo |-> (Last(x) * 2^(WordBits - shift)) % Word,
         x |-> [i \in DOMAIN x |-> ((at(i - 1) * 2^(WordBits - shift)) % Word) + x[i] \div 2^shift]]

---------------------------------------------------------------------------
(* bigpow10: 10^(Digs * (index + 1)), shifted so that its first bit is     *)
(* one, without zeros at the end, and the exponent of that bit.            *)
BigPow ==
    LET raw[n \in 1..BigPows] ==
            Carried(Mul(IF n = 1 THEN <<1>> ELSE raw[n - 1], 10^Digs, 0))
    IN  [n \in 0..BigPows - 1 |->
            LET r == raw[n + 1]
                exp == (Len(r) - 1) * WordBits + ulog2[r[1]]
            IN  [x |-> Trim(ShiftLeft(r, WordBits - 1 - ulog2[r[1]]).x), exp |-> exp]]

(* Mutant: the multiplier is the next power.                               *)
get_cached_pow10_Next(pow) ==
    LET base == PowTable[(PowMax + pow) \div 2^StepPow + 1]
        k == (pow + 1) % 2^StepPow
        mul10 == 10^k * 2^(HalfBits - 1 - ulog2[10^k])
        t == (base[1] * 2^HalfBits + base[2]) * mul10
        p == IF t >= Word * (Word \div 2) THEN t ELSE 2 * t
    IN  IF k = 0 THEN base ELSE <<p \div Word, (((p % Word) + 2^(HalfBits - 1)) % Word) \div 2^HalfBits>>

(* get_cached_pow10: a power between two of the table is its multiple by   *)
(* a power of ten of half a word, rounded again.                           *)
get_cached_pow10(pow) ==
    LET base == PowTable[(PowMax + pow) \div 2^StepPow + 1]
        k == pow % 2^StepPow
        mul10 == 10^k * 2^(HalfBits - 1 - ulog2[10^k])
        t == (base[1] * 2^HalfBits + base[2]) * mul10
        p == IF t >= Word * (Word \div 2) THEN t ELSE 2 * t
    IN  IF k = 0 THEN base ELSE <<p \div Word, (((p % Word) + 2^(HalfBits - 1)) % Word) \div 2^HalfBits>>

(* umul96x64_higher128: the upper two words of the product. *)
MulPow(coef, y) == coef[1] * y + (coef[2] * y) \div 2^HalfBits

(* floor(exp * log2(10)), floor(exp * log10(2)).                           *)
exp10to2(exp) == (exp * 217706) \div 65536
exp2to10(exp) == (exp * 19728) \div 65536

-----------------------------------------------------------------------------
CONSTANTS
    Mantissa,  \* bits_per_mantissa
    ExpMax,    \* exp_max
    MantWords, \* max_fp10_mantissa_size
    MinExp10,  \* below this exponent every number is zero (-1100)
    MaxExp10,  \* above this one every number is infinite (310)
    IntBits,   \* bits of an int
    Behind     \* what is in memory behind the literals "inf" and "nan"

ASSUME FloatAssumption ==
    /\ Mantissa \in 1..WordBits - 4 /\ ExpMax \in {2^n - 1 : n \in 2..6}
    /\ MantWords \in Nat \ {0} /\ MinExp10 <= -PowMax /\ MaxExp10 \in Nat

ExpBias == ExpMax \div 2
Infinity == ExpMax * 2^Mantissa
NaN == Infinity + 2^Mantissa - 1

DigV == [c \in ToSet(Digits) |-> CHOOSE n \in 0..15 : Digits[n + 1] = c]
dig_v(c) == IF c \in DOMAIN DigV THEN DigV[c] ELSE 255

DigitsEnd(t, p) == Min({i \in p..Len(t) + 1 : i > Len(t) \/ dig_v(t[i]) >= 10})

---------------------------------------------------------------------------
(* starts_with compares as far as the text goes, and reads on behind the   *)
(* end of the word.                                                        *)
starts_with(t, p, word) ==
    IF /\ Len(t) - p + 1 >= Len(word)
       /\ \A i \in p..Len(t) : t[i] = IF i - p < Len(word) THEN word[i - p + 1] ELSE Behind
    THEN p + Len(word) ELSE p

InfName == <<"i", "n", "f">>
NanName == <<"n", "a", "n">>

to_boolean(t, p) ==
    LET last == DigitsEnd(t, p)
    IN  CASE starts_with(t, p, TrueName) > p -> [val |-> TRUE, last |-> p + 4]
          [] starts_with(t, p, FalseName) > p -> [val |-> FALSE, last |-> p + 5]
          [] OTHER -> [val |-> \E i \in p..last - 1 : t[i] # "0", last |-> last]

(* An unsigned number of `bits` bits.  It is taken for too big when the    *)
(* next digit makes it smaller, which does not always happen.              *)
to_integer_common(t, p, bits, pos_limit) ==
    LET neg == p <= Len(t) /\ t[p] = "-"
        q == IF p <= Len(t) /\ t[p] \in {"+", "-"} THEN p + 1 ELSE p
        last == DigitsEnd(t, q)
        next(v, dig) == (10 * v + dig) % 2^bits
        val == FoldLeft(LAMBDA v, c : IF v < 0 \/ next(v, dig_v(c)) < v THEN -1 ELSE next(v, dig_v(c)),
                        0, SubSeq(t, q, last - 1))
    IN  IF last = q \/ val < 0 \/ (neg /\ val > 1 + (pos_limit \div 2)) \/ (~neg /\ val > pos_limit)
        THEN [val |-> 0, last |-> p]
        ELSE [val |-> IF neg THEN (-val) % 2^bits ELSE val, last |-> last]

(* The conversion to a signed type of as many bits. *)
Signed(n, bits) == LET m == n % 2^bits IN IF m < 2^(bits - 1) THEN m ELSE m - 2^bits

---------------------------------------------------------------------------
(* The mantissa takes digits until its last word is in use; of the rest    *)
(* only their number, and whether they are zeros, is kept.                 *)
accum_mantissa(fp10, digits) ==
    LET next(fp, dig) ==
            CASE Len(fp.bits) = 1 /\ fp.bits[1] < 10^Digs -> [fp EXCEPT !.bits = <<10 * @[1] + dig>>]
              [] Len(fp.bits) < MantWords /\ ~(Len(fp.bits) = 1 /\ fp.bits[1] < 10^Digs) ->
                    [fp EXCEPT !.bits = Carried(Mul(@, 10, dig))]
              [] OTHER -> [fp EXCEPT !.zero_tail = @ /\ dig = 0, !.exp = @ + 1]
    IN  FoldLeft(LAMBDA fp, c : next(fp, dig_v(c)), fp10, digits)

(* The exponent behind a mantissa; a sum that an int does not hold wraps.  *)
Exponent(t, p, fp10) ==
    LET With(e) == IF e.last = p + 1 THEN [fp10 |-> fp10, last |-> p]
                   ELSE [fp10 |-> [fp10 EXCEPT !.exp = Signed(@ + Signed(e.val, IntBits), IntBits)], last |-> e.last]
    IN  IF p <= Len(t) /\ t[p] = "e" THEN With(to_integer_common(t, p + 1, IntBits, 2^IntBits - 1))
        ELSE [fp10 |-> fp10, last |-> p]

chars_to_fp10(t, p) ==
    LET zero == [exp |-> 0, bits |-> <<0>>, zero_tail |-> TRUE]
        Split(point, last) ==
            LET integral == accum_mantissa(zero, SubSeq(t, p, point - 1))
                fraction == accum_mantissa(integral, SubSeq(t, point + 1, last - 1))
            IN  CASE point > Len(t) -> [fp10 |-> integral, last |-> point]
                  [] point <= Len(t) /\ t[point] = "." /\ (point > p \/ last > point + 1) ->
                        Exponent(t, last, [fraction EXCEPT !.exp = @ - (last - point - 1)])
                  [] point > p /\ point <= Len(t) /\ t[point] # "." -> Exponent(t, point, integral)
                  [] OTHER -> [fp10 |-> zero, last |-> p]
    IN  Split(DigitsEnd(t, p), DigitsEnd(t, DigitsEnd(t, p) + 1))

---------------------------------------------------------------------------
(* The bits of the mantissa that a number with this exponent has: fewer if *)
(* it is not normalized.                                                   *)
BitCount(exp2) == IF exp2 > 0 THEN 1 + Mantissa ELSE Mantissa + exp2

(* m is rounded already, which may have given it one bit more. *)
Compose(m, exp2) ==
    LET e == IF m >= 2^BitCount(exp2) THEN exp2 + 1 ELSE exp2
    IN  IF e <= 0 THEN m ELSE e * 2^Mantissa + (m % 2^Mantissa)

(* 10^(Digs * (index + 1)) for any index: a product of powers of the       *)
(* table, the greatest ones first.                                         *)
BigDenominator(index) ==
    LET cut(x) == IF Last(x) = 0 THEN Front(x) ELSE x
        reached(n) == Min({index, BigPows - 1 + n * BigPows})
        product[n \in 0..index \div BigPows] ==
            IF n = 0 THEN BigPow[reached(0)]
            ELSE LET y == BigPow[reached(n) - reached(n - 1) - 1]
                 IN  [x |-> cut(MulVec(product[n - 1].x, y.x)), exp |-> product[n - 1].exp + 1 + y.exp]
        whole == product[index \div BigPows]
        shift == WordBits - 1 - ulog2[whole.x[1]]
    IN  IF shift = 0 THEN whole
        ELSE [x |-> cut(ShiftLeft(whole.x, shift).x), exp |-> whole.exp - shift]

(* Banker's rounding of a word whose highest bit is zero; zero_tail: there *)
(* is nothing behind it.                                                   *)
RoundEven(word, zero_tail, exp2) ==
    LET m == IF word < 2^(WordBits - 2) THEN 2 * word ELSE word
        e == IF word < 2^(WordBits - 2) THEN exp2 - 1 ELSE exp2
        lsb == 2^(WordBits - 1 - BitCount(e))
        frac == m % lsb
        up == 2 * frac > lsb \/ (2 * frac = lsb /\ (~zero_tail \/ (m \div lsb) % 2 = 1))
    IN  CASE e >= ExpMax -> Infinity
          [] e < -Mantissa -> 0
          [] OTHER -> Compose((m \div lsb) + (IF up THEN 1 ELSE 0), e)

IsZero(x) == \A i \in DOMAIN x : x[i] = 0

(* The first word with two bits in reserve; what goes out at the other end *)
(* is one word more.                                                       *)
Reserved(m10, log) ==
    LET right == ShiftRight(0, m10, log - (WordBits - 3))
    IN  CASE log <= WordBits - 3 -> ShiftLeft(m10, WordBits - 3 - log).x
          [] log > WordBits - 3 /\ right.lo = 0 -> right.x
          [] OTHER -> Append(right.x, right.lo)

(* num times 10^(Digs * index), and its exponent. *)
ScaledRound(num, index, exp2, zero_tail) ==
    LET Of(x, integral, e) == RoundEven(integral, zero_tail /\ IsZero(x), e)
        Product(x, e) == Of(Tail(x), 2 * x[1], e)
        Quotient(d, e) == Of(d.x, d.q, e)
        Divided(by) == Quotient(DivMod(num[1], Tail(num), by.x), exp2 - by.exp)
    IN  CASE index < 0 -> Divided(BigDenominator(-1 - index))
          [] index = 0 -> Product(num, exp2)
          [] index > BigPows -> Infinity
          [] OTHER -> Product(MulVec(<<num[1]>> \o Trim(Tail(num)), BigPow[index - 1].x), exp2 + 1 + BigPow[index - 1].exp)

(* fp10_to_fp2_slow: the mantissa is divided by a power of 10^Digs or      *)
(* multiplied by one.                                                      *)
fp10_to_fp2_slow(fp10) ==
    LET Of(m10, log) == ScaledRound(Reserved(m10, log), fp10.exp \div Digs,
                                    ExpBias + log + (Len(m10) - 1) * WordBits, fp10.zero_tail)
        Normalized(m10) == Of(m10, ulog2[m10[1]])
    IN  Normalized(Carried(Mul(fp10.bits, 10^(fp10.exp % Digs), 0)))

(* fp10_to_fp2: a mantissa of one word is multiplied by a rounded power of *)
(* ten, and the product is good enough unless it is too close to a tie.    *)
RoundProduct(fp10, p, log) ==
    LET top == p >= Word * (Word \div 2)
        exp2 == ExpBias + log + exp10to2(fp10.exp) + (IF top THEN 1 ELSE 0)
        t == (p \div 2^((IF top THEN WordBits ELSE WordBits - 1) - BitCount(exp2))) + 2^(HalfBits - 1)
        frac == (t % Word) \div 2^HalfBits
    IN  CASE exp2 >= ExpMax -> Infinity
          [] exp2 < -Mantissa -> 0
          [] exp2 \in -Mantissa..ExpMax - 1 /\ frac \in {2^(HalfBits - 1) - 1, 2^(HalfBits - 1)} -> fp10_to_fp2_slow(fp10)
          [] OTHER -> Compose((t \div Word) + (IF frac > 2^(HalfBits - 1) THEN 1 ELSE 0), exp2)

fp10_to_fp2(fp10) ==
    LET m10 == fp10.bits[1]
        log == ulog2[m10]
    IN  CASE m10 = 0 \/ fp10.exp < MinExp10 -> 0
          [] m10 # 0 /\ fp10.exp > MaxExp10 -> Infinity
          [] m10 # 0 /\ fp10.exp \in MinExp10..MaxExp10 /\ (Len(fp10.bits) > 1 \/ fp10.exp \notin -PowMax..PowMax) ->
                fp10_to_fp2_slow(fp10)
          [] OTHER -> RoundProduct(fp10, MulPow(get_cached_pow10(fp10.exp), m10 * 2^(WordBits - 1 - log)), log)

(* What is not a number may be the name of one. *)
Result(number, neg, t, p, q) ==
    CASE number.last > q -> [neg |-> neg, bits |-> fp10_to_fp2(number.fp10), last |-> number.last]
      [] number.last = q /\ starts_with(t, q, InfName) > q -> [neg |-> neg, bits |-> Infinity, last |-> q + Len(InfName)]
      [] number.last = q /\ starts_with(t, q, NanName) > q -> [neg |-> neg, bits |-> NaN, last |-> q + Len(NanName)]
      [] OTHER -> [neg |-> FALSE, bits |-> 0, last |-> p]

to_float_common(t, p) ==
    LET q == IF p <= Len(t) /\ t[p] \in {"+", "-"} THEN p + 1 ELSE p
    IN  Result(chars_to_fp10(t, q), p <= Len(t) /\ t[p] = "-", t, p, q)

=============================================================================
