------------------------------- MODULE IntText -------------------------------
(***************************************************************************)
(* Integers, truth values and characters as text, and how a text is        *)
(* brought to a width (include/uxs/impl/string_cvt_impl.h, append_adjusted *)
(* of include/uxs/string_cvt.h).                                           *)
(*                                                                         *)
(* fmt is a record: base and float, prec (-1: none), sign, adjust, zeroes  *)
(* (leading_zeroes), alternate, json_compat, width, and grouping: the      *)
(* sizes of the groups that the locale asks for, <<>> without a locale.    *)
(***************************************************************************)
EXTENDS Integers, SequencesExt

CONSTANT CharOf \* the characters by their numbers

Digits == <<"0", "1", "2", "3", "4", "5", "6", "7", "8", "9", "a", "b", "c", "d", "e", "f">>

(* What is in a buffer where nothing has been written. *)
Garbage == "?"

Copies(n, c) == [i \in 1..Max({n, 0}) |-> c]

(* gen_digits and the fmt_gen functions: as many digits as there are. *)
DigitsOf(base, n) ==
    LET digits[k \in Nat] == IF k < base THEN <<Digits[k + 1]>>
                             ELSE Append(digits[k \div base], Digits[(k % base) + 1])
    IN  digits[n]

(* ulog2, which takes 0 for 1. *)
ulog2[x \in Nat] == IF x < 2 THEN 0 ELSE 1 + ulog2[x \div 2]

(* get_exp2_dig_count: its table, the digits of 2^exp. *)
get_exp2_dig_count(exp) ==
    <<1, 1, 1, 1, 2, 2, 2, 3, 3, 3, 4, 4, 4, 4, 5, 5, 5, 6, 6, 6, 7, 7,
      7, 7, 8, 8, 8, 9, 9, 9, 10, 10, 10, 10, 11, 11, 11, 12, 12, 12, 13, 13, 13, 13,
      14, 14, 14, 15, 15, 15, 16, 16, 16, 16, 17, 17, 17, 18, 18, 18, 19, 19, 19, 19, 20>>[exp + 1]

(* The digits of n, counted by its bits: those of the power of two below   *)
(* n, and one more if that is not enough (fmt_dec_unsigned_len).           *)
DigitCount(base, n) ==
    LET log == ulog2[n]
        least == get_exp2_dig_count(log)
    IN  CASE base = "bin" -> 1 + log
          [] base = "oct" -> 1 + log \div 3
          [] base = "hex" -> 1 + log \div 4
          [] OTHER -> IF n >= 10^least THEN least + 1 ELSE least

(* A text written from the end of a buffer, over what is there. *)
WriteEnding(buf, end, text) ==
    [i \in DOMAIN buf |-> IF i \in end - Len(text) + 1..end THEN text[i - end + Len(text)] ELSE buf[i]]

---------------------------------------------------------------------------
(* Mutant: a group that ends with the digits has a separator too.         *)
calc_len_with_grouping_OneMore(len, grouping) ==
    LET size(i) == IF grouping[i] > 0 THEN grouping[i] ELSE 1
        left[i \in 0..Len(grouping)] == IF i = 0 THEN len ELSE left[i - 1] - size(i)
        ends == {i \in DOMAIN grouping : left[i - 1] < size(i)}
    IN  IF ends # {} THEN len + Min(ends) - 1
        ELSE len + Len(grouping) + ((left[Len(grouping)] - 1) \div size(Len(grouping)))

(* calc_len_with_grouping: the digits, and a separator behind every group  *)
(* but the last; the last size is the size of all the groups to the left.  *)
calc_len_with_grouping(len, grouping) ==
    LET size(i) == IF grouping[i] > 0 THEN grouping[i] ELSE 1
        left[i \in 0..Len(grouping)] == IF i = 0 THEN len ELSE left[i - 1] - size(i)
        ends == {i \in DOMAIN grouping : left[i - 1] <= size(i)}
    IN  IF ends # {} THEN len + Min(ends) - 1
        ELSE len + Len(grouping) + ((left[Len(grouping)] - 1) \div size(Len(grouping)))

(* The digits from the last to the first, and a separator when the group   *)
(* is used up.                                                             *)
Grouped(digits, grouping) ==
    LET next(d, acc) ==
            CASE acc.text = <<>> -> [text |-> <<d>>, cnt |-> grouping[1], at |-> 1]
              [] acc.text # <<>> /\ acc.cnt - 1 > 0 -> [acc EXCEPT !.text = <<d>> \o @, !.cnt = @ - 1]
              [] OTHER -> LET at == Min({acc.at + 1, Len(grouping)})
                          IN  [text |-> <<d, ",">> \o acc.text, cnt |-> grouping[at], at |-> at]
    IN  FoldRight(next, digits, [text |-> <<>>, cnt |-> 0, at |-> 0]).text

---------------------------------------------------------------------------
(* print_functor: the prefix is written at the beginning of the len        *)
(* characters and the number from their end.                               *)
Printed(len, prefix, text) == WriteEnding(WriteEnding(Copies(len, Garbage), Len(prefix), prefix), len, text)

Padding(fmt, len) == fmt.width - len

(* append_adjusted, for what is not a number. *)
append_adjusted(text, len, fmt, prefer_right) ==
    LET left == CASE fmt.adjust = "left" -> 0
                  [] fmt.adjust = "internal" -> Padding(fmt, len) \div 2
                  [] fmt.adjust = "right" \/ (fmt.adjust = "none" /\ prefer_right) -> Padding(fmt, len)
                  [] OTHER -> 0
    IN  IF fmt.width <= len THEN text
        ELSE Copies(left, fmt.fill) \o text \o Copies(Padding(fmt, len) - left, fmt.fill)

(* Mutant: the zeros are put before the sign.                              *)
adjust_numeric_ZerosFirst(text, len, prefix, fmt) ==
    LET left == CASE fmt.adjust = "left" -> 0
                  [] fmt.adjust = "internal" -> Padding(fmt, len) \div 2
                  [] OTHER -> Padding(fmt, len)
    IN  CASE fmt.width <= len -> Printed(len, prefix, text)
          [] fmt.width > len /\ fmt.adjust = "none" /\ fmt.zeroes ->
                Copies(Padding(fmt, len), "0") \o Printed(len, prefix, text)
          [] OTHER -> Copies(left, fmt.fill) \o Printed(len, prefix, text) \o Copies(Padding(fmt, len) - left, fmt.fill)

(* adjust_numeric, and what is done if the text is as wide already. *)
adjust_numeric(text, len, prefix, fmt) ==
    LET left == CASE fmt.adjust = "left" -> 0
                  [] fmt.adjust = "internal" -> Padding(fmt, len) \div 2
                  [] OTHER -> Padding(fmt, len)
    IN  CASE fmt.width <= len -> Printed(len, prefix, text)
          [] fmt.width > len /\ fmt.adjust = "none" /\ fmt.zeroes ->
                prefix \o Copies(Padding(fmt, len), "0") \o Printed(len - Len(prefix), <<>>, text)
          [] OTHER -> Copies(left, fmt.fill) \o Printed(len, prefix, text) \o Copies(Padding(fmt, len) - left, fmt.fill)

SignPrefix(neg, fmt) ==
    CASE neg -> <<"-">>
      [] ~neg /\ fmt.sign = "pos" -> <<"+">>
      [] ~neg /\ fmt.sign = "align" -> <<" ">>
      [] OTHER -> <<>>

BasePrefix(fmt) ==
    CASE ~fmt.alternate -> <<>>
      [] fmt.alternate /\ fmt.base = "bin" -> <<"0", "b">>
      [] fmt.alternate /\ fmt.base = "oct" -> <<"0">>
      [] fmt.alternate /\ fmt.base = "hex" -> <<"0", "x">>
      [] OTHER -> <<>>

BaseOf(fmt) == CASE fmt.base = "bin" -> 2 [] fmt.base = "oct" -> 8 [] fmt.base = "hex" -> 16 [] OTHER -> 10

(* fmt_bin, fmt_oct, fmt_hex and fmt_dec; the digits are counted before    *)
(* they are made.                                                          *)
fmt_number(val, bits, is_signed, fmt) ==
    LET neg == is_signed /\ val >= 2^(bits - 1)
        n == IF neg THEN 2^bits - val ELSE val
        count == DigitCount(fmt.base, n)
        prefix == SignPrefix(neg, fmt) \o BasePrefix(fmt)
    IN  IF fmt.grouping = <<>>
        THEN adjust_numeric(DigitsOf(BaseOf(fmt), n), count + Len(prefix), prefix, fmt)
        ELSE adjust_numeric(Grouped(DigitsOf(BaseOf(fmt), n), fmt.grouping),
                            calc_len_with_grouping(count, fmt.grouping) + Len(prefix), prefix, fmt)

(* fmt_integer_common; a number that no character has is an error.         *)
fmt_integer_common(val, bits, is_signed, fmt) ==
    CASE fmt.base # "character" -> fmt_number(val, bits, is_signed, fmt)
      [] fmt.base = "character" /\ val \in DOMAIN CharOf -> append_adjusted(<<CharOf[val]>>, 1, fmt, FALSE)
      [] OTHER -> <<"error">>

TrueName == <<"t", "r", "u", "e">>
FalseName == <<"f", "a", "l", "s", "e">>

fmt_boolean(val, bits, fmt) ==
    LET name == IF val THEN TrueName ELSE FalseName
    IN  IF fmt.base \in {"dec", "bin", "oct", "hex"} THEN fmt_number(IF val THEN 1 ELSE 0, bits, FALSE, fmt)
        ELSE append_adjusted(name, Len(name), fmt, FALSE)
===============================================================================
