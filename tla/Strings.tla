------------------------------- MODULE Strings -------------------------------
(***************************************************************************)
(* string.c: blocks of memory and null-terminated strings.  The memory is  *)
(* a function from addresses to bytes; pointers are addresses.             *)
(***************************************************************************)
EXTENDS Integers, Sequences

CONSTANTS
  Size,   \* bytes of memory
  Word,   \* 4 in the kernel: bytes of a word
  Bytes   \* character values; 0 ends a string

ASSUME SizeAssumption == Size \in Nat \ {0} /\ Word \in Nat \ {0}
ASSUME BytesAssumption == Bytes \subseteq Nat /\ 0 \in Bytes

VARIABLE mem  \* the last byte stays 0, so that every string ends

Addresses == 0..Size - 1

MemInit == mem = [a \in Addresses |-> 0]

-----------------------------------------------------------------------------
(* Blocks.                                                                 *)

\* A unit, of one byte or one word, from src + at to dst + at.
CopyUnit(m, dst, src, at, unit) ==
  [a \in Addresses |-> IF a - dst - at \in 0..unit - 1 THEN m[a - dst + src] ELSE m[a]]

\* Units are copied in this order by rep movs in memcpy.
RECURSIVE forwards(_, _, _, _, _)
forwards(m, dst, src, n, unit) ==
  IF n = 0 THEN m
  ELSE forwards(CopyUnit(m, dst, src, 0, unit), dst + unit, src + unit, n - unit, unit)

\* And in this order by the loops of memmove.
RECURSIVE backwards(_, _, _, _, _)
backwards(m, dst, src, n, unit) ==
  IF n = 0 THEN m
  ELSE backwards(CopyUnit(m, dst, src, n - unit, unit), dst, src, n - unit, unit)

unit_of(dst, src, n) == IF \A v \in {dst, src, n} : v % Word = 0 THEN Word ELSE 1

memcpy(m, dst, src, n) == forwards(m, dst, src, n, unit_of(dst, src, n))

\* Fault: the copy is always forwards.
memmove_forwards(m, dst, src, n) == memcpy(m, dst, src, n)

memmove(m, dst, src, n) ==
  IF dst < src THEN memcpy(m, dst, src, n) ELSE backwards(m, dst, src, n, unit_of(dst, src, n))

memset(m, ptr, value, n) == [a \in Addresses |-> IF a - ptr \in 0..n - 1 THEN value ELSE m[a]]

-----------------------------------------------------------------------------
(* Strings.                                                                *)

\* One more than the length: the index has passed the null when the loop ends.
strlen(m, str) ==
  1 + CHOOSE i \in 0..Size - 1 - str : m[str + i] = 0 /\ \A k \in 0..i - 1 : m[str + k] # 0

\* Fault: a string that is cut is not terminated.
RECURSIVE strncpy_open(_, _, _, _)
strncpy_open(m, dst, src, n) ==
  CASE n = 0 -> m
    [] n > 0 /\ m[src] = 0 -> [m EXCEPT ![dst] = 0]
    [] OTHER -> strncpy_open([m EXCEPT ![dst] = m[src]], dst + 1, src + 1, n - 1)

\* Up to n characters and a null, which is not one of the n.
RECURSIVE strncpy(_, _, _, _)
strncpy(m, dst, src, n) ==
  IF n = 0 \/ m[src] = 0 THEN [m EXCEPT ![dst] = 0]
  ELSE strncpy([m EXCEPT ![dst] = m[src]], dst + 1, src + 1, n - 1)

strcpy(m, dst, src) == strncpy(m, dst, src, Size)

\* The copy goes behind the null of dst.
strcat(m, dst, src) == strcpy(m, dst + strlen(m, dst), src)

order(c, d) == IF c > d THEN 1 ELSE IF c = d THEN 0 ELSE -1

\* The character at n is compared, too.
RECURSIVE strncmp(_, _, _, _)
strncmp(m, s1, s2, n) ==
  IF n > 0 /\ m[s1] # 0 /\ m[s1] = m[s2] THEN strncmp(m, s1 + 1, s2 + 1, n - 1)
  ELSE order(m[s1], m[s2])

strcmp(m, s1, s2) == strncmp(m, s1, s2, Size)

-----------------------------------------------------------------------------

Inside(p, n) == p + n < Size

MemNext ==
  \E dst, src \in Addresses, n \in 0..Size - 1 :
    \/ /\ Inside(dst, n) /\ Inside(src, n)
       /\ \/ mem' = memcpy(mem, dst, src, n)
          \/ mem' = memmove(mem, dst, src, n)
          \/ \E value \in Bytes : mem' = memset(mem, dst, value, n)
          \/ mem' = strncpy(mem, dst, src, n)
    \/ /\ Inside(dst, strlen(mem, src)) /\ dst <= src
       /\ mem' = strcpy(mem, dst, src)
    \/ /\ Inside(dst + strlen(mem, dst), strlen(mem, src)) /\ dst + strlen(mem, dst) <= src
       /\ mem' = strcat(mem, dst, src)

-----------------------------------------------------------------------------

\* Where all bytes are null one copy looks like another.
NotBlank == \E a \in Addresses : mem[a] # 0

\* All bytes at once.
Moved(m, dst, src, n) ==
  [a \in Addresses |-> IF a - dst \in 0..n - 1 THEN m[a - dst + src] ELSE m[a]]

\* memmove copies a block as it was, however source and destination overlap and
\* whether words or bytes are copied, and so does memcpy whenever the destination
\* is not above the source, which is what vga_scroll relies on.
BlocksMove ==
  NotBlank => \A dst, src \in Addresses, n \in 0..Size - 1 :
    Inside(dst, n) /\ Inside(src, n) =>
      /\ memmove(mem, dst, src, n) = Moved(mem, dst, src, n)
      /\ dst <= src => memcpy(mem, dst, src, n) = Moved(mem, dst, src, n)

\* The characters of the string at p.
Text(m, p) == [i \in 1..strlen(m, p) - 1 |-> m[p + i - 1]]
Cut(text, n) == SubSeq(text, 1, IF Len(text) < n THEN Len(text) ELSE n)
\* Whether t comes before u in a dictionary.
Before(t, u) ==
  \E n \in 0..Len(t) :
    /\ n < Len(u)
    /\ Cut(t, n) = Cut(u, n)
    /\ n < Len(t) => t[n + 1] < u[n + 1]

\* strcmp is the order of a dictionary; strncpy yields a terminated string of the
\* first n characters and writes nothing behind its null, which may be one byte
\* behind the n bytes its caller made room for.
StringsAgree ==
  NotBlank => \A p, q \in Addresses :
    /\ strcmp(mem, p, q) = CASE Text(mem, p) = Text(mem, q) -> 0
                             [] Before(Text(mem, p), Text(mem, q)) -> -1
                             [] OTHER -> 1
    /\ \A n \in 0..Size - 1 : Inside(p, n) /\ (p <= q \/ q + n < p) =>
         LET copy == strncpy(mem, p, q, n)
             text == Cut(Text(mem, q), n)
         IN  /\ Text(copy, p) = text
             /\ \A a \in Addresses : a < p \/ a > p + Len(text) => copy[a] = mem[a]

=============================================================================
