------------------------------ MODULE DbScalar ------------------------------
(***************************************************************************)
(* What a basic_value answers when it is asked for another type than it    *)
(* holds, and when two values are equal (include/uxs/impl/db/value_impl.h).*)
(* The integers have two widths, of which the narrow one fits into the     *)
(* mantissa of a double and the wide one does not, as 32 and 64 bits do.   *)
(*                                                                         *)
(* A value is a record with its type, and its val (an integer), flag, str, *)
(* items, or sign and bits; the items of a record are entries [key, value].*)
(* An optional is <<>> or <<x>>.                                           *)
(***************************************************************************)
EXTENDS Numbers

CONSTANTS
    NarrowBits, \* bits of an integer and an unsigned_integer
    WideBits    \* bits of a long_integer and an unsigned_long_integer

ASSUME ScalarAssumption == NarrowBits \in 2..Mantissa + 1 /\ WideBits \in Mantissa + 2..ExpBias

VARIABLE answers \* of a value, and of its text as a value; or of a comparison

Limits ==
    [integer |-> -2^(NarrowBits - 1)..2^(NarrowBits - 1) - 1, unsigned_integer |-> 0..2^NarrowBits - 1,
     long_integer |-> -2^(WideBits - 1)..2^(WideBits - 1) - 1, unsigned_long_integer |-> 0..2^WideBits - 1]
IntTypes == DOMAIN Limits
HasInt(v) == v.type \in IntTypes

Optional(given, x) == IF given THEN <<x>> ELSE <<>>

---------------------------------------------------------------------------
(* The comparisons and casts of the processor.  No comparison holds for    *)
(* what is not a number.                                                   *)
Floor(v) ==
    LET m == Significand(v.bits)
        k == Scale(v.bits)
        units == IF k >= 0 THEN m * 2^k ELSE m \div 2^(-k)
        rest == k < 0 /\ m % 2^(-k) # 0
    IN  IF v.neg THEN -units - (IF rest THEN 1 ELSE 0) ELSE units

Negated(v) == [v EXCEPT !.neg = ~@]
AtLeast(v, n) == IF v.bits >= Infinity THEN v.bits = Infinity /\ ~v.neg ELSE Floor(v) >= n
AtMost(v, n) == AtLeast(Negated(v), -n)
IsBelow(v, limit) == v.bits <= Infinity /\ (v.neg \/ v.bits < limit.bits)

Cast(v) == IF v.neg THEN -Floor(Negated(v)) ELSE Floor(v)

(* An integer as a double: rounded to nearest even if it has more bits.    *)
ToDouble(n) ==
    LET size == Abs(n)
        log == Max({0} \cup {k \in 0..WideBits : 2^k <= size})
        unit == 2^Max({log - Mantissa, 0})
        up == 2 * (size % unit) > unit \/ (2 * (size % unit) = unit /\ (size \div unit) % 2 = 1)
        m == (size \div unit) + (IF up THEN 1 ELSE 0)
    IN  [neg |-> n < 0,
         bits |-> IF n = 0 THEN 0 ELSE Compose(m * 2^Max({Mantissa - log, 0}), ExpBias + log)]

(* is_integral of a number within some limits: no fractional part.         *)
is_integral_double(v) == Floor(v) = -Floor(Negated(v))

---------------------------------------------------------------------------
(* from_basic_string of an integer: the sign is of the type, but texts up  *)
(* to the limit of the unsigned type are read.                             *)
IntOfText(t, bits, is_signed) ==
    LET Of(r) == Optional(r.last > 1, IF is_signed THEN Signed(r.val, bits) ELSE r.val)
    IN  Of(to_integer_common(t, 1, bits, 2^bits - 1))

DoubleOfText(t) ==
    LET Of(r) == Optional(r.last > 1, [neg |-> r.neg, bits |-> r.bits]) IN Of(to_float_common(t, 1))

BoolOfText(t) == LET Of(r) == Optional(r.last > 1, r.val) IN Of(to_boolean(t, 1))

get_bool(v) ==
    CASE v.type = "boolean" -> <<v.flag>>
      [] HasInt(v) -> <<v.val # 0>>
      [] v.type = "double_precision" -> <<v.bits # 0>>
      [] v.type = "string" -> BoolOfText(v.str)
      [] OTHER -> <<>>

get_int(v) ==
    CASE HasInt(v) -> Optional(v.val \in Limits.integer, v.val)
      [] v.type = "double_precision" ->
            Optional(AtLeast(v, -2^(NarrowBits - 1)) /\ AtMost(v, 2^(NarrowBits - 1) - 1), Cast(v))
      [] v.type = "string" -> IntOfText(v.str, NarrowBits, TRUE)
      [] OTHER -> <<>>

get_uint(v) ==
    CASE HasInt(v) -> Optional(v.val \in Limits.unsigned_integer, v.val)
      [] v.type = "double_precision" -> Optional(AtLeast(v, 0) /\ AtMost(v, 2^NarrowBits - 1), Cast(v))
      [] v.type = "string" -> IntOfText(v.str, NarrowBits, FALSE)
      [] OTHER -> <<>>

(* The greatest wide number is not a double: it is rounded up, and excluded.*)
FitsInt64(v) == AtLeast(v, -2^(WideBits - 1)) /\ IsBelow(v, ToDouble(2^(WideBits - 1) - 1))
FitsUint64(v) == AtLeast(v, 0) /\ IsBelow(v, ToDouble(2^WideBits - 1))

(* Mutant: the limit is rounded up like any number, and included.          *)
get_int64_Inclusive(v) ==
    CASE HasInt(v) -> Optional(v.val \in Limits.long_integer, v.val)
      [] v.type = "double_precision" ->
            Optional(FitsInt64(v) \/ (~v.neg /\ v.bits = ToDouble(2^(WideBits - 1) - 1).bits), Cast(v))
      [] v.type = "string" -> IntOfText(v.str, WideBits, TRUE)
      [] OTHER -> <<>>

get_int64(v) ==
    CASE HasInt(v) -> Optional(v.val \in Limits.long_integer, v.val)
      [] v.type = "double_precision" -> Optional(FitsInt64(v), Cast(v))
      [] v.type = "string" -> IntOfText(v.str, WideBits, TRUE)
      [] OTHER -> <<>>

get_uint64(v) ==
    CASE HasInt(v) -> Optional(v.val \in Limits.unsigned_long_integer, v.val)
      [] v.type = "double_precision" -> Optional(FitsUint64(v), Cast(v))
      [] v.type = "string" -> IntOfText(v.str, WideBits, FALSE)
      [] OTHER -> <<>>

get_double(v) ==
    CASE HasInt(v) -> <<ToDouble(v.val)>>
      [] v.type = "double_precision" -> <<[neg |-> v.neg, bits |-> v.bits]>>
      [] v.type = "string" -> DoubleOfText(v.str)
      [] OTHER -> <<>>

DefaultFmt ==
    [base |-> "none", float |-> "none", prec |-> -1, sign |-> "neg", adjust |-> "none", zeroes |-> FALSE,
     alternate |-> FALSE, json_compat |-> FALSE, width |-> 0, fill |-> " ", grouping |-> <<>>]

IsSigned(v) == v.type \in {"integer", "long_integer"}
BitsOf(v) == IF v.type \in {"integer", "unsigned_integer"} THEN NarrowBits ELSE WideBits

get_string(v) ==
    CASE v.type = "null" -> <<<<"n", "u", "l", "l">>>>
      [] v.type = "boolean" -> <<IF v.flag THEN TrueName ELSE FalseName>>
      [] HasInt(v) -> <<fmt_integer_common(v.val % 2^BitsOf(v), BitsOf(v), IsSigned(v), DefaultFmt)>>
      [] v.type = "double_precision" ->
            <<fmt_float_common(v.neg, v.bits, [DefaultFmt EXCEPT !.json_compat = TRUE], "quick")>>
      [] v.type = "string" -> <<v.str>>
      [] OTHER -> <<>>

---------------------------------------------------------------------------
is_int(v) ==
    \/ HasInt(v) /\ v.val \in Limits.integer
    \/ /\ v.type = "double_precision"
       /\ AtLeast(v, -2^(NarrowBits - 1)) /\ AtMost(v, 2^(NarrowBits - 1) - 1) /\ is_integral_double(v)

is_uint(v) ==
    \/ HasInt(v) /\ v.val \in Limits.unsigned_integer
    \/ /\ v.type = "double_precision"
       /\ AtLeast(v, 0) /\ AtMost(v, 2^NarrowBits - 1) /\ is_integral_double(v)

is_int64(v) ==
    \/ HasInt(v) /\ v.val \in Limits.long_integer
    \/ v.type = "double_precision" /\ FitsInt64(v) /\ is_integral_double(v)

is_uint64(v) ==
    \/ HasInt(v) /\ v.val \in Limits.unsigned_long_integer
    \/ v.type = "double_precision" /\ FitsUint64(v) /\ is_integral_double(v)

is_integral(v) ==
    \/ HasInt(v)
    \/ /\ v.type = "double_precision" /\ AtLeast(v, -2^(WideBits - 1))
       /\ IsBelow(v, ToDouble(2^WideBits - 1)) /\ is_integral_double(v)

Answers(v) ==
    [bool |-> get_bool(v), double |-> get_double(v), string |-> get_string(v),
     get |-> [integer |-> get_int(v), unsigned_integer |-> get_uint(v),
              long_integer |-> get_int64(v), unsigned_long_integer |-> get_uint64(v)],
     is |-> [integer |-> is_int(v), unsigned_integer |-> is_uint(v),
             long_integer |-> is_int64(v), unsigned_long_integer |-> is_uint64(v)],
     integral |-> is_integral(v)]

---------------------------------------------------------------------------
(* compare_long_integer and compare_unsigned_long_integer: the other side  *)
(* is converted to a wide type of the same sign, if it may be.             *)
compare_long_integer(n, v) ==
    /\ HasInt(v)
    /\ v.type = "unsigned_long_integer" => v.val < 2^(WideBits - 1)
    /\ n = Signed(v.val, WideBits)

compare_unsigned_long_integer(n, v) ==
    /\ HasInt(v)
    /\ IsSigned(v) => v.val >= 0
    /\ n = v.val % 2^WideBits

RECURSIVE equal(_, _)

(* operator==: items in their order, entries of a record too.              *)
equal(v, w) ==
    CASE v.type \in {"integer", "long_integer"} -> compare_long_integer(v.val, w)
      [] v.type \in {"unsigned_integer", "unsigned_long_integer"} -> compare_unsigned_long_integer(v.val, w)
      [] v.type = "null" -> w.type = "null"
      [] v.type = "double_precision" ->
            w.type = v.type /\ v.bits = w.bits /\ v.bits <= Infinity /\ (v.neg = w.neg \/ v.bits = 0)
      [] v.type = "boolean" -> w.type = v.type /\ v.flag = w.flag
      [] v.type = "string" -> w.type = v.type /\ v.str = w.str
      [] v.type = "array" ->
            w.type = v.type /\ Len(v.items) = Len(w.items) /\ \A i \in DOMAIN v.items : equal(v.items[i], w.items[i])
      [] OTHER ->
            /\ w.type = v.type /\ Len(v.items) = Len(w.items)
            /\ \A i \in DOMAIN v.items : v.items[i].key = w.items[i].key /\ equal(v.items[i].value, w.items[i].value)

---------------------------------------------------------------------------
ScalarInit == answers = <<>>

(* A value is asked for every type, and then a value made of the text that *)
(* it has given.                                                           *)
Asked == IF answers = <<>> THEN job.value ELSE [type |-> "string", str |-> answers[1].string[1]]

Ask ==
    /\ job.kind = "value" /\ Len(answers) < 2
    /\ answers # <<>> => answers[1].string # <<>>
    /\ answers' = Append(answers, Answers(Asked))

(* operator==, both ways. *)
CompareValues ==
    /\ job.kind = "pair" /\ answers = <<>>
    /\ answers' = <<equal(job.value, job.other), equal(job.other, job.value)>>

ScalarNext == (Ask \/ CompareValues) /\ UNCHANGED numberVars

---------------------------------------------------------------------------
IsFinite(v) == v.bits < Infinity
IsWhole(v) == IsFinite(v) /\ \A i \in DOMAIN Exact(v.bits).frac : Exact(v.bits).frac[i] = 0
Truncated(v) == (IF v.neg THEN -1 ELSE 1) * FoldLeft(LAMBDA n, d : 10 * n + d, 0, Exact(v.bits).int)

(* numbers: the number of the value without its fraction, if it has one.  *)
GivenExactly(a, exact, numbers) ==
    \A t \in IntTypes :
        /\ a.is[t] <=> exact /\ numbers \subseteq Limits[t]
        /\ exact => ToSet(a.get[t]) = numbers \cap Limits[t]
        /\ ToSet(a.get[t]) \subseteq numbers \cap Limits[t]
        /\ \A n \in numbers : {n - 1, n, n + 1} \subseteq Limits[t] => a.get[t] # <<>>

(* The integer getters: an integer is given if it is one of the type, and  *)
(* a double if it is; a double with a fraction is cut off, or refused at   *)
(* the ends of the type, but never cast to what the type cannot hold.      *)
(* is_int and the others hold for just the numbers that are in the type.   *)
IntegersGiven ==
    job.kind = "value" /\ answers # <<>> =>
        LET v == job.value
            a == answers[1]
        IN  /\ a.integral <=> \E t \in IntTypes : a.is[t]
            /\ HasInt(v) => GivenExactly(a, TRUE, {v.val})
            /\ v.type = "double_precision" => GivenExactly(a, IsWhole(v), IF IsFinite(v) THEN {Truncated(v)} ELSE {})
            /\ v.type \notin {"double_precision", "string"} \cup IntTypes => GivenExactly(a, FALSE, {})

(* get_double is the nearest double, and of get_string every getter that   *)
(* has an answer for the value makes the same answer retold.                *)
TextsGiven ==
    /\ job.kind = "value" /\ answers # <<>> /\ HasInt(job.value) =>
          LET d == answers[1].double[1]
          IN  /\ d.neg = (job.value.val < 0)
              /\ IsNearest([int |-> Expansion(Abs(job.value.val), 0).int, frac |-> <<>>], d.bits)
    /\ job.kind = "value" /\ Len(answers) = 2 =>
          LET v == job.value
              a == answers[1]
              retold == answers[2]
          IN  /\ HasInt(v) => /\ \A t \in IntTypes : a.get[t] # <<>> => retold.get[t] = a.get[t]
                              /\ retold.double = a.double
              /\ v.type = "double_precision" /\ v.bits <= Infinity => retold.double = a.double
              /\ v.type = "boolean" => retold.bool = a.bool
              /\ v.type = "string" => retold = a

(* operator==: integers of different types are equal if they are the same  *)
(* number, whichever side is converted; and nothing else is equal to what  *)
(* has another type.                                                       *)
EqualExact ==
    job.kind = "pair" /\ answers # <<>> =>
        LET v == job.value
            w == job.other
        IN  /\ answers[1] <=> answers[2]
            /\ HasInt(v) /\ HasInt(w) => (answers[1] <=> v.val = w.val)
            /\ answers[1] => v.type = w.type \/ (HasInt(v) /\ HasInt(w))

(* The conversions of basic_value, and of integers and their texts below   *)
(* them: a number that is in the type asked for is given as it is, and any *)
(* other is refused.  That is said of numbers, and of texts of what an     *)
(* unsigned type of the width holds; the text of a greater number, or of   *)
(* one beyond the signed type that is asked for, may wrap around.          *)
ConversionsExact == IntegersExact /\ IntegersGiven /\ TextsGiven /\ EqualExact
===============================================================================
