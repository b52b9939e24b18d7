------------------------------ MODULE Terminal -------------------------------
(***************************************************************************)
(* What the screen promises to whoever prints a character: a page of Rows  *)
(* lines that feeds one blank line at the bottom when the cursor leaves    *)
(* the last one, with the cursor shown where the next character will go.   *)
(* A print that another one interrupts promises nothing about the page,    *)
(* and whoever has the page mapped can write on it.                        *)
(***************************************************************************)
EXTENDS Naturals, Sequences

CONSTANTS Rows, Cols, Tab, Chars, Printable, Blank

VARIABLES
  page,     \* the lines, top to bottom
  x, y,     \* where the next character goes
  shown,    \* where the cursor is seen
  garbled   \* the last print was interrupted by another

vars == <<page, x, y, shown, garbled>>

BlankLine == [i \in 0..Cols - 1 |-> Blank]

Init ==
  /\ page = [r \in 1..Rows |-> BlankLine]
  /\ x = 0 /\ y = 0 /\ shown = <<0, 0>>
  /\ garbled = FALSE

\* The cursor goes to the start of the next line.
NextLine(p) ==
  /\ x' = 0
  /\ IF y + 1 < Rows
     THEN y' = y + 1 /\ page' = p
     ELSE y' = y /\ page' = Append(Tail(p), BlankLine)

MoveTo(a, p) == IF a < Cols THEN x' = a /\ y' = y /\ page' = p ELSE NextLine(p)

Back ==
  /\ x' = IF x > 0 THEN x - 1 ELSE IF y > 0 THEN Cols - 1 ELSE 0
  /\ y' = IF x > 0 \/ y = 0 THEN y ELSE y - 1
  /\ UNCHANGED page

\* The effect of one character.
PutChar(c) ==
  /\ x < Cols /\ y < Rows
  /\ \/ c \in Printable /\ MoveTo(x + 1, [page EXCEPT ![y + 1][x] = c])
     \/ c = "tab" /\ MoveTo(Tab * (x \div Tab + 1), page)
     \/ c = "nl" /\ NextLine(page)
     \/ c = "bs" /\ Back
     \/ c = "cr" /\ x' = 0 /\ UNCHANGED <<page, y>>
     \/ c = "other" /\ UNCHANGED <<page, x, y>>
  /\ shown' = <<x', y'>>
  /\ garbled' = FALSE

\* Somebody changes a place on the page without the terminal.
Overwrite ==
  /\ UNCHANGED <<x, y, shown, garbled>>
  /\ \E r \in 1..Rows, i \in 0..Cols - 1, c \in Printable : page' = [page EXCEPT ![r][i] = c]

Garble == garbled' = TRUE

Next == Garble \/ Overwrite \/ \E c \in Chars : PutChar(c)

Spec == Init /\ [][Next]_vars

=============================================================================
