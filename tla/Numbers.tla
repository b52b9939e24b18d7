------------------------------- MODULE Numbers -------------------------------
(***************************************************************************)
(* Numbers as text: itoa, atoi and strtol (utils.c) and number, which      *)
(* renders the conversions of vsprintf (vsprintf.c).  A text is a sequence *)
(* of characters without its terminating null.                             *)
(***************************************************************************)
EXTENDS Integers, SequencesExt

CONSTANT UIntRange  \* 2^32 in the kernel

ASSUME RangeAssumption == UIntRange \in Nat \ {0} /\ UIntRange % 2 = 0

\* digits_lower, digits_upper; a letter and its capital differ only in what the
\* flag LARGE prints.
digits_lower == <<"0", "1", "2", "3", "4", "5", "6", "7", "8", "9", "a", "b", "c", "d", "e", "f">>
digits_upper == <<"0", "1", "2", "3", "4", "5", "6", "7", "8", "9", "A", "B", "C", "D", "E", "F">>

Digits == {digits_lower[k] : k \in 1..10}
AlphaNumeric == Range(digits_lower) \cup Range(digits_upper)
is_digit(c) == c \in Digits
is_alpha(c) == c \in AlphaNumeric \ Digits

\* to_lower(c) - 'a' + 10, or c - '0'
digit_value(c) == (CHOOSE k \in 1..16 : c \in {digits_lower[k], digits_upper[k]}) - 1

Times(c, n) == [k \in 1..n |-> c]

-----------------------------------------------------------------------------
(* utils.c                                                                 *)

\* The digits in the order the loops find them, the last one first.
RECURSIVE reversed(_, _, _)
reversed(num, base, digits) ==
  <<digits[(num % base) + 1]>> \o
    IF num \div base = 0 THEN <<>> ELSE reversed(num \div base, base, digits)

itoa(value, base) == Reverse(reversed(value, base, digits_lower))

\* Wraps like an int.
int(n) == LET u == n % UIntRange IN IF u < UIntRange \div 2 THEN u ELSE u - UIntRange

accumulate(text, base) ==
  FoldLeft(LAMBDA n, c : int(n * base + digit_value(c)), 0, text)

\* What is before the first element that is not in S, and the rest.
Leading(text, S) ==
  LET k == SelectInSeq(text, LAMBDA c : c \notin S)
  IN  IF k = 0 THEN text ELSE SubSeq(text, 1, k - 1)
Dropped(text, S) == SubSeq(text, Len(Leading(text, S)) + 1, Len(text))

\* A leading 0 makes the rest octal.  vsprintf calls it with digits only, so that
\* the spaces and the 0x it also knows do not occur.
atoi(str) ==
  IF str[1] = "0" THEN accumulate(Tail(str), 8) ELSE accumulate(str, 10)

\* Fault: the sign is dropped.
strtol_unsigned(str, base) ==
  accumulate(Leading(Dropped(str, {" ", "-", "+"}), AlphaNumeric), base)

\* A base of 0 is refused before it could be found out, and a letter that is one
\* too large for the base is taken for a digit.
strtol(str, base) ==
  LET text == Dropped(str, {" "})
      signed == text # <<>> /\ text[1] \in {"-", "+"}
      sign == IF signed /\ text[1] = "-" THEN -1 ELSE 1
      accepted == {c \in AlphaNumeric : is_alpha(c) => digit_value(c) <= base}
      body == Leading(IF signed THEN Tail(text) ELSE text, accepted)
  IN  IF base < 2 \/ base > 36 THEN 0 ELSE int(sign * accumulate(body, base))

-----------------------------------------------------------------------------
(* number                                                                  *)

drain(width) == IF width > 0 THEN -1 ELSE width - 1

prefix_of(base, flags) ==
  CASE "PREFIX" \in flags /\ base = 8 -> <<"0">>
    [] "PREFIX" \in flags /\ base = 16 -> <<"0", IF "LARGE" \in flags THEN "X" ELSE "x">>
    [] OTHER -> <<>>

sign_of(num, flags) ==
  CASE "SIGNED" \in flags /\ int(num) < 0 -> <<"-">>
    [] "SIGNED" \in flags /\ int(num) >= 0 /\ "PLUS" \in flags -> <<"+">>
    [] "SIGNED" \in flags /\ int(num) >= 0 /\ "PLUS" \notin flags /\ "SPACE" \in flags -> <<" ">>
    [] OTHER -> <<>>

\* The field without its sign and its prefix.
room(num, base, width, flags) ==
  width - Len(sign_of(num, flags)) - Len(prefix_of(base, flags))

\* What number writes to str; it returns one less than the length.  Each loop on
\* width leaves it negative, so that only the first of them that is entered pads.
number(num, base, width, precision, given) ==
  LET flags == IF "LEFT" \in given THEN given \ {"ZEROS"} ELSE given
      left == "LEFT" \in flags
      zeros == "ZEROS" \in flags
      magnitude == IF "SIGNED" \in flags /\ int(num) < 0 THEN (-num) % UIntRange ELSE num
      body == Reverse(reversed(magnitude, base,
                               IF "LARGE" \in flags THEN digits_upper ELSE digits_lower))
      least == IF Len(body) > precision THEN Len(body) ELSE precision
      width1 == room(num, base, width, flags) - least
      width2 == IF zeros \/ left THEN width1 ELSE drain(width1)
      width3 == IF left THEN width2 ELSE drain(width2)
  IN  (IF zeros \/ left THEN <<>> ELSE Times(" ", width1))
      \o sign_of(num, flags)
      \o prefix_of(base, flags)
      \o (IF left THEN <<>> ELSE Times(IF zeros THEN "0" ELSE " ", width2))
      \o Times("0", least - Len(body))
      \o body
      \o Times(" ", width3)

=============================================================================
