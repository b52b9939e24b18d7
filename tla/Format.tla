------------------------------- MODULE Format --------------------------------
(***************************************************************************)
(* vsprintf (vsprintf.c) as kprintf calls it: the scan of a format with    *)
(* its index i and the place loc in the buffer, both of which the loop and *)
(* every conversion move.  One step is one turn of the loop.               *)
(*                                                                         *)
(* A call is given by the directives it was written from, so that what the *)
(* scan makes of the characters can be compared with what was meant.       *)
(***************************************************************************)
EXTENDS Numbers

CONSTANTS
  Requests,  \* the calls, a sequence of directives each
  Behind     \* what may follow a format in memory

VARIABLES
  request,  \* the directives
  fmt,      \* the characters of the format, its null and what follows it
  args,     \* the arguments
  taken,    \* how many of them va_arg has taken
  i, loc,
  buf       \* the characters of the buffer, from 0 on

fvars == <<request, fmt, args, taken, i, loc, buf>>

Null == "null"
Junk == "junk"  \* in a place of the buffer that was never written

-----------------------------------------------------------------------------
(* Directives: [char], or [flags, width, precision, spec, arg] where a     *)
(* width or precision is [form |-> "none", "digits" or "star", n].         *)

Written(size) ==
  CASE size.form = "none" -> <<>> [] size.form = "digits" -> itoa(size.n, 10) [] OTHER -> <<"*">>
Given(size) == IF size.form = "star" THEN <<size.n>> ELSE <<>>

IsChar(d) == "char" \in DOMAIN d
Characters(d) ==
  IF IsChar(d) THEN <<d.char>>
  ELSE <<"%">> \o d.flags \o Written(d.width)
       \o (IF d.precision.form = "none" THEN <<>> ELSE <<".">> \o Written(d.precision))
       \o <<d.spec>>
Arguments(d) == IF IsChar(d) THEN <<>> ELSE Given(d.width) \o Given(d.precision) \o <<d.arg>>

Concat(f(_), s) == FoldLeft(LAMBDA text, d : text \o f(d), <<>>, s)

FormatInit ==
  /\ request \in Requests
  /\ \E rest \in Behind : fmt = Concat(Characters, request) \o <<Null>> \o rest
  /\ args = Concat(Arguments, request)
  /\ taken = 0 /\ i = 0 /\ loc = 0
  /\ buf = <<>>

-----------------------------------------------------------------------------

strlen_fmt == SelectInSeq(fmt, LAMBDA c : c = Null)
at(k) == IF k < Len(fmt) THEN fmt[k + 1] ELSE Null
run(k, S) == Leading(SubSeq(fmt, k + 1, Len(fmt)), S)
arg(n) == IF n <= Len(args) THEN args[n] ELSE 0

Write(k, text) ==
  buf' = [j \in 1..(IF Len(buf) > k + Len(text) THEN Len(buf) ELSE k + Len(text)) |->
            IF j - k \in DOMAIN text THEN text[j - k] ELSE IF j <= Len(buf) THEN buf[j] ELSE Junk]

FlagChars == {"#", "0", "-", "+", " "}

set_flag(flags, c) ==
  CASE c = "#" -> flags \cup {"PREFIX"}
    [] c = "0" -> IF "LEFT" \in flags THEN flags ELSE flags \cup {"ZEROS"}
    [] c = "-" -> (flags \ {"ZEROS"}) \cup {"LEFT"}
    [] c = "+" -> flags \cup {"PLUS"}
    [] c = " " -> (flags \ {"PLUS"}) \cup {"SPACE"}

\* A number or a star at k, after n arguments.
size_at(k, n) ==
  IF is_digit(at(k))
  THEN [next |-> k + Len(run(k, Digits)), value |-> atoi(run(k, Digits)), taken |-> n, star |-> FALSE]
  ELSE IF at(k) = "*"
  THEN [next |-> k + 1, value |-> arg(n + 1), taken |-> n + 1, star |-> TRUE]
  ELSE [next |-> k, value |-> -1, taken |-> n, star |-> FALSE]

precision_at(k, n) ==
  IF at(k) = "."
  THEN LET size == size_at(k + 1, n)
       IN  [size EXCEPT !.value = IF @ < 0 THEN 0 ELSE @]
  ELSE [next |-> k, value |-> -1, taken |-> n, star |-> FALSE]

\* Flags, width, precision and specifier of the conversion at i.
parse ==
  LET k == i + 1 + Len(run(i + 1, FlagChars))
      flags == FoldLeft(set_flag, {}, run(i + 1, FlagChars))
      width == size_at(k, taken)
      precision == precision_at(width.next, width.taken)
      left == width.star /\ width.value < 0
  IN  [flags |-> IF left THEN flags \cup {"LEFT"} ELSE flags,
       width |-> IF left THEN -width.value ELSE width.value,
       precision |-> precision.value,
       taken |-> precision.taken,
       next |-> precision.next]

base_of(spec) == CASE spec \in {"d", "i", "u"} -> 10 [] spec = "o" -> 8 [] spec = "b" -> 2 [] OTHER -> 16
flags_of(spec) == IF spec \in {"d", "i"} THEN {"SIGNED"} ELSE IF spec = "X" THEN {"LARGE"} ELSE {}

\* Fault: number returns the characters it has written.
number_returns_all(text) == Len(text)

number_returns(text) == Len(text) - 1

\* Fault: a conversion takes two words of arguments.
took_two(n) == n + 2

took(n) == n + 1

\* The text of a conversion p, and by how much loc moves before the loop moves it.
convert(p) ==
  LET spec == at(p.next)
      value == arg(p.taken + 1)
      text == CASE p.taken >= Len(args) -> <<Junk>>
                [] p.taken < Len(args) /\ spec = "c" -> <<value>>
                [] p.taken < Len(args) /\ spec = "s" -> value \o <<Null>>
                [] OTHER -> number(value, base_of(spec), p.width, p.precision,
                                   p.flags \cup flags_of(spec))
  IN  /\ Write(loc, text)
      /\ loc' = loc + 1 + (CASE spec = "c" -> 0
                             [] spec = "s" -> Len(text) - 2
                             [] OTHER -> number_returns(text))
      /\ taken' = took(p.taken)
      /\ i' = p.next + 1

\* What is no conversion is taken for text from the specifier on, behind a place
\* that is left as it was.
no_conversion(p) ==
  /\ loc' = loc + 1
  /\ taken' = p.taken
  /\ i' = p.next
  /\ UNCHANGED buf

copy ==
  /\ Write(loc, <<at(i)>>)
  /\ loc' = loc + 1
  /\ i' = i + 1
  /\ UNCHANGED taken

\* The bound of the loop lets it go one character past the null.
vsprintf ==
  /\ i <= strlen_fmt
  /\ \/ at(i) # "%" /\ copy
     \/ /\ at(i) = "%"
        /\ \E p \in {parse} :
             \/ at(p.next) \in {"c", "s", "d", "i", "u", "o", "X", "x", "b"} /\ convert(p)
             \/ at(p.next) \notin {"c", "s", "d", "i", "u", "o", "X", "x", "b"} /\ no_conversion(p)
  /\ UNCHANGED <<request, fmt, args>>

-----------------------------------------------------------------------------
(* What a directive means.                                                 *)

\* The digits of num: the k-th is the one of base^(n - k).
InBase(num, base, digits) ==
  LET n == CHOOSE n \in 1..32 : base^n > num /\ (n = 1 \/ base^(n - 1) <= num)
  IN  [k \in 1..n |-> digits[((num \div base^(n - k)) % base) + 1]]

Atleast(n, m) == IF n > m THEN n ELSE m

\* The sign flag that counts is the one written last.
Signs(d) == SelectSeq(d.flags, LAMBDA c : c \in {"+", " "})
Signed(d) == d.spec \in {"d", "i"}
Sign(d) ==
  IF ~Signed(d) THEN <<>>
  ELSE IF int(d.arg) < 0 THEN <<"-">>
  ELSE IF Signs(d) = <<>> THEN <<>> ELSE <<Last(Signs(d))>>

Prefix(d) ==
  IF ~Contains(d.flags, "#") THEN <<>>
  ELSE CASE d.spec = "o" -> <<"0">> [] d.spec = "x" -> <<"0", "x">> [] d.spec = "X" -> <<"0", "X">>
         [] OTHER -> <<>>

\* A number with at least as many digits as the precision says, padded to the
\* width with spaces before or behind it or with zeros behind sign and prefix.
Field(d) ==
  LET magnitude == IF Signed(d) /\ int(d.arg) < 0 THEN -int(d.arg) ELSE d.arg
      digits == InBase(magnitude, base_of(d.spec), IF d.spec = "X" THEN digits_upper ELSE digits_lower)
      least == IF d.precision.form = "none" THEN 0 ELSE Atleast(d.precision.n, 0)
      front == Sign(d) \o Prefix(d)
      body == Times("0", least - Len(digits)) \o digits
      width == CASE d.width.form = "none" -> 0
                 [] d.width.form # "none" /\ d.width.n < 0 -> -d.width.n
                 [] OTHER -> d.width.n
      left == Contains(d.flags, "-") \/ (d.width.form = "star" /\ d.width.n < 0)
      missing == Atleast(width - Len(front) - Len(body), 0)
  IN  CASE left -> front \o body \o Times(" ", missing)
        [] ~left /\ Contains(d.flags, "0") -> front \o Times("0", missing) \o body
        [] OTHER -> Times(" ", missing) \o front \o body

Meant(d) ==
  IF IsChar(d) THEN <<d.char>>
  ELSE IF d.spec = "c" THEN <<d.arg>>
  ELSE IF d.spec = "s" THEN d.arg
  ELSE Field(d)

\* A string ends at its null.
Message == Leading(buf, Range(buf) \ {Null})
Done == i > strlen_fmt

\* What kprintf sends to the screen is what its format and arguments mean: every
\* conversion moves loc past what it has written and no further, the empty string
\* included, and what follows the format in memory does not matter.
MessageIsMeant == Done => Null \in Range(buf) /\ Message = Concat(Meant, request)

\* No argument is taken that was not given until the message is complete.  It can
\* be after that: the character behind the format is scanned as if it belonged
\* to it.
OwnArguments == taken > Len(args) => Null \in Range(buf) /\ Message = Concat(Meant, request)

\* A number without a prefix is read back by strtol as what it was, through sign,
\* padding and leading zeros, the one that has no negative included; a plain one
\* is printed by %u as itoa prints it for vga_print_dec.
ReadsBack ==
  \A d \in Range(request) : Done /\ Len(request) = 1 /\ "arg" \in DOMAIN d =>
    /\ d.spec \notin {"c", "s"} /\ ~Contains(d.flags, "#") =>
         strtol(Message, base_of(d.spec)) = int(d.arg)
    /\ d.spec = "u" /\ d.flags = <<>> => Message = itoa(d.arg, 10)

=============================================================================
