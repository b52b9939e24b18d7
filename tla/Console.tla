------------------------------- MODULE Console -------------------------------
(***************************************************************************)
(* The screen (vga.c) and its two kinds of writers.  kprintf, called by    *)
(* main with interrupts enabled, prints a message character by character   *)
(* and its lock is commented out; keyboard_handler and the printing system *)
(* calls print with interrupts disabled, so their vga_print_char is one    *)
(* step that can come between any two steps of main's.  The threads of     *)
(* func2, and main when it has started them, store characters into video   *)
(* memory without vga.c.                                                   *)
(*                                                                         *)
(* xpos and ypos are neither volatile nor protected: what main has of them *)
(* in registers may be older than the variables, and what it has computed  *)
(* may not be stored yet, up to the test in vga_scroll.                    *)
(***************************************************************************)
EXTENDS Naturals, Sequences

CONSTANTS
  ROWS, COLS,
  TabStop,     \* 8 in the kernel
  Printable,   \* the characters from ' ' on
  MainChars,   \* what main's messages are made of: printable ones and "nl"
  Blank,       \* ' '
  ByteRange    \* 256 in the kernel: the range of one cursor register

ASSUME SizeAssumption ==
  /\ ROWS \in Nat \ {0, 1} /\ COLS \in Nat \ {0} /\ TabStop \in Nat \ {0}
  /\ ByteRange \in Nat \ {0}
ASSUME CharsAssumption ==
  /\ Printable \cap {"bs", "tab", "cr", "nl", "other"} = {}
  /\ MainChars \subseteq Printable \cup {"nl"}
  /\ Blank \in Printable

VARIABLES
  xpos, ypos,
  video_mem,  \* the cells of the screen
  index,      \* the register of the adapter that CURS_CTRL selects
  cursor,     \* its two cursor registers
  at,         \* where main is in vga_print_char, "idle" outside it
  c,          \* the character main prints
  x, y,       \* xpos and ypos as main has them in registers
  unstored,   \* those of "x", "y" main has changed and not stored
  temp, pos,  \* locals of main's vga_scroll and set_cursor_pos
  before,     \* the screen when main's print began, <<>> once another print or a
              \* store came between or outside a print
  mixed       \* the last print was one of main's in which another or a store
              \* came between

shared == <<xpos, ypos, video_mem, index, cursor>>
local == <<c, x, y, unstored, temp, pos>>
vars == <<shared, at, local, before, mixed>>

Chars == Printable \cup {"bs", "tab", "cr", "nl", "other"}
Cells == 0..ROWS * COLS - 1
HIGH_BYTE == 14
LOW_BYTE == 15

\* vga_init, vga_clear
Init ==
  /\ xpos = 0 /\ ypos = 0
  /\ video_mem = [i \in Cells |-> Blank]
  /\ index = LOW_BYTE
  /\ cursor = [r \in {HIGH_BYTE, LOW_BYTE} |-> 0]
  /\ at = "idle" /\ c = Blank /\ x = 0 /\ y = 0
  /\ unstored = {} /\ temp = 0 /\ pos = 0
  /\ before = <<>>
  /\ mixed = FALSE

-----------------------------------------------------------------------------
(* The parts of vga_print_char.                                            *)

backspace(px, py) ==
  IF px > 0 THEN <<px - 1, py>> ELSE IF py > 0 THEN <<COLS - 1, py - 1>> ELSE <<px, py>>

\* Where the cursor is after ch, lines that are too long not yet broken.
advance(ch, px, py) ==
  CASE ch = "bs" -> backspace(px, py)
    [] ch = "tab" -> <<TabStop * ((px + TabStop) \div TabStop), py>>
    [] ch = "cr" -> <<0, py>>
    [] ch = "nl" -> <<0, py + 1>>
    [] ch \in Printable -> <<px + 1, py>>
    [] OTHER -> <<px, py>>

wrap(p) == IF p[1] >= COLS THEN <<0, p[2] + 1>> ELSE p

\* A character drawn below the last row is not on the screen.
draw(mem, ch, px, py) ==
  IF ch \in Printable THEN [i \in Cells |-> IF i = py * COLS + px THEN ch ELSE mem[i]] ELSE mem

\* memcpy copies forwards, so that the overlap does no harm.
move_up(mem, n) == [i \in Cells |-> IF i < (ROWS - n) * COLS THEN mem[i + n * COLS] ELSE mem[i]]

\* Fault: the row before is blanked.
blank_row_before(mem, r) == [i \in Cells |-> IF i \div COLS = r - 1 THEN Blank ELSE mem[i]]

blank_row(mem, r) == [i \in Cells |-> IF i \div COLS = r THEN Blank ELSE mem[i]]

\* Fault: the row below the screen is not noticed.
below_late(py) == py > ROWS

below(py) == py >= ROWS

\* vga_scroll: the rows to move up by.
chunk(py) == IF below(py) THEN py - ROWS + 1 ELSE 0

scrolled(mem, py) ==
  IF below(py) THEN blank_row(move_up(mem, chunk(py)), ROWS - chunk(py)) ELSE mem

-----------------------------------------------------------------------------
(* vga_print_char with interrupts disabled: keyboard_handler's echo, or a  *)
(* character of vga_print_str, vga_print_dec or vga_print_hex.             *)

vga_print_char(ch) ==
  LET p == wrap(advance(ch, xpos, ypos))
      row == IF below(p[2]) THEN ROWS - 1 ELSE p[2]
      here == row * COLS + p[1]
  IN  /\ video_mem' = scrolled(draw(video_mem, ch, xpos, ypos), p[2])
      /\ xpos' = p[1]
      /\ ypos' = row
      /\ index' = LOW_BYTE
      /\ cursor' = [r \in {HIGH_BYTE, LOW_BYTE} |->
           IF r = HIGH_BYTE THEN here \div ByteRange ELSE here % ByteRange]
      /\ mixed' = (at # "idle")
      /\ before' = <<>>
      /\ UNCHANGED <<at, local>>

-----------------------------------------------------------------------------
(* main's vga_print_char, step by step.                                    *)

\* vga_write comes to the next character; xpos and ypos are read.
print_begin(ch) ==
  /\ at = "idle"
  /\ at' = "draw"
  /\ c' = ch
  /\ x' = xpos /\ y' = ypos
  /\ before' = <<video_mem, xpos, ypos, cursor>>
  /\ UNCHANGED <<shared, unstored, temp, pos, mixed>>

\* What main may take for xpos and ypos: a register in which it has nothing of
\* its own to store may be loaded again.
SeenX == IF "x" \in unstored THEN {x} ELSE {x, xpos}
SeenY == IF "y" \in unstored THEN {y} ELSE {y, ypos}

\* Main has seen a, b and gets p; of what it has to store it stores S now.
Update(a, b, p, S) ==
  LET changed == unstored \cup (IF p[1] # a THEN {"x"} ELSE {}) \cup (IF p[2] # b THEN {"y"} ELSE {})
  IN  /\ S \subseteq changed
      /\ x' = p[1] /\ y' = p[2]
      /\ xpos' = IF "x" \in S THEN p[1] ELSE xpos
      /\ ypos' = IF "y" \in S THEN p[2] ELSE ypos
      /\ unstored' = changed \ S

print_draw ==
  /\ at = "draw"
  /\ \E a \in SeenX, b \in SeenY :
       /\ video_mem' = draw(video_mem, c, a, b)
       /\ x' = a /\ y' = b
  /\ at' = "move"
  /\ UNCHANGED <<xpos, ypos, index, cursor, c, unstored, temp, pos, before, mixed>>

print_move ==
  /\ at = "move"
  /\ \E a \in SeenX, b \in SeenY, S \in SUBSET {"x", "y"} : Update(a, b, advance(c, a, b), S)
  /\ at' = "wrap"
  /\ UNCHANGED <<video_mem, index, cursor, c, temp, pos, before, mixed>>

print_wrap ==
  /\ at = "wrap"
  /\ \E a \in SeenX, b \in SeenY, S \in SUBSET {"x", "y"} : Update(a, b, wrap(<<a, b>>), S)
  /\ at' = "store"
  /\ UNCHANGED <<video_mem, index, cursor, c, temp, pos, before, mixed>>

\* What is not stored yet is stored, one variable after the other.
print_store ==
  /\ at = "store"
  /\ \/ /\ "x" \in unstored
        /\ xpos' = x /\ unstored' = unstored \ {"x"}
        /\ UNCHANGED <<ypos, at>>
     \/ /\ "y" \in unstored
        /\ ypos' = y /\ unstored' = unstored \ {"y"}
        /\ UNCHANGED <<xpos, at>>
     \/ /\ unstored = {}
        /\ at' = "scroll"
        /\ UNCHANGED <<xpos, ypos, unstored>>
  /\ UNCHANGED <<video_mem, index, cursor, c, x, y, temp, pos, before, mixed>>

\* The test of vga_scroll.
print_scroll ==
  /\ at = "scroll"
  /\ \E b \in SeenY :
       /\ temp' = chunk(b)
       /\ at' = IF below(b) THEN "copy" ELSE "cursor"
       /\ y' = b
  /\ UNCHANGED <<shared, c, x, unstored, pos, before, mixed>>

print_copy ==
  /\ at = "copy"
  /\ video_mem' = move_up(video_mem, temp)
  /\ at' = "clear"
  /\ UNCHANGED <<xpos, ypos, index, cursor, local, before, mixed>>

print_clear ==
  /\ at = "clear"
  /\ video_mem' = blank_row(video_mem, ROWS - temp)
  /\ at' = "row"
  /\ UNCHANGED <<xpos, ypos, index, cursor, local, before, mixed>>

\* The calls before have made xpos be read again.
print_row ==
  /\ at = "row"
  /\ ypos' = ROWS - 1
  /\ y' = ROWS - 1 /\ x' = xpos
  /\ temp' = 0
  /\ at' = "cursor"
  /\ UNCHANGED <<xpos, video_mem, index, cursor, c, unstored, pos, before, mixed>>

\* set_cursor_pos gets its arguments.
print_cursor ==
  /\ at = "cursor"
  /\ \E a \in SeenX, b \in SeenY : pos' = b * COLS + a
  /\ x' = 0 /\ y' = 0
  /\ at' = "high"
  /\ UNCHANGED <<shared, c, unstored, temp, before, mixed>>

\* outb to CURS_CTRL, then to CURS_DATA, for each half of pos.
select(point, r, after) ==
  /\ at = point
  /\ index' = r
  /\ at' = after
  /\ UNCHANGED <<xpos, ypos, video_mem, cursor, local, before, mixed>>

print_data_high ==
  /\ at = "high data"
  /\ cursor' = [cursor EXCEPT ![index] = pos \div ByteRange]
  /\ at' = "low"
  /\ UNCHANGED <<xpos, ypos, video_mem, index, local, before, mixed>>

print_data_low ==
  /\ at = "low data"
  /\ cursor' = [cursor EXCEPT ![index] = pos % ByteRange]
  /\ at' = "idle"
  /\ pos' = 0 /\ c' = Blank
  /\ mixed' = (before = <<>>)
  /\ before' = <<>>
  /\ UNCHANGED <<xpos, ypos, video_mem, index, x, y, unstored, temp>>

kprintf ==
  \/ \E ch \in MainChars : print_begin(ch)
  \/ print_draw
  \/ print_move
  \/ print_wrap
  \/ print_store
  \/ print_scroll
  \/ print_copy
  \/ print_clear
  \/ print_row
  \/ print_cursor
  \/ select("high", HIGH_BYTE, "high data")
  \/ print_data_high
  \/ select("low", LOW_BYTE, "low data")
  \/ print_data_low

-----------------------------------------------------------------------------

\* A store of func2 or main; its place depends on an offset that grows with every
\* thread created.
store_video(i, ch) ==
  /\ video_mem' = [video_mem EXCEPT ![i] = ch]
  /\ mixed' = (mixed \/ at # "idle")
  /\ before' = <<>>
  /\ UNCHANGED <<xpos, ypos, index, cursor, at, local>>

Next ==
  \/ kprintf
  \/ \E ch \in Chars : vga_print_char(ch)
  \/ \E i \in Cells, ch \in Printable : store_video(i, ch)

Spec == Init /\ [][Next]_vars

-----------------------------------------------------------------------------

\* Whatever interrupted what, the cursor is on the screen whenever no print is
\* in progress, and no print moves more rows than the screen has: the unsigned
\* ROWS - temp of vga_scroll does not wrap, so its memcpy stays in the adapter's
\* memory.
ScreenBounds ==
  /\ at = "idle" => xpos < COLS /\ ypos < ROWS
  /\ at \in {"copy", "clear"} => temp <= ROWS
  /\ \A ch \in Chars : chunk(wrap(advance(ch, xpos, ypos))[2]) <= ROWS

\* The page as lines, and where main's print is not disturbed as it was when
\* that print began.
Quiet == before = <<>>
Lines(mem) == [r \in 1..ROWS |-> [i \in 0..COLS - 1 |-> mem[(r - 1) * COLS + i]]]
Shown(regs) ==
  LET p == regs[HIGH_BYTE] * ByteRange + regs[LOW_BYTE] IN <<p % COLS, p \div COLS>>

Term == INSTANCE Terminal WITH
  Rows <- ROWS, Cols <- COLS, Tab <- TabStop,
  page <- IF Quiet THEN Lines(video_mem) ELSE Lines(before[1]),
  x <- IF Quiet THEN xpos ELSE before[2],
  y <- IF Quiet THEN ypos ELSE before[3],
  shown <- IF Quiet THEN Shown(cursor) ELSE Shown(before[4]),
  garbled <- mixed

\* Every print that nothing interrupts does to the screen what a terminal does
\* with the character printed, wrapping, scrolling and cursor included, whatever
\* interrupted prints and stores of others have left before it: the screen
\* recovers by itself.
ImplementsTerminal ==
  /\ Term!Spec
  /\ [][/\ \A ch \in Chars : at = "idle" /\ vga_print_char(ch) => Term!PutChar(ch)
        /\ ~Quiet /\ print_data_low => Term!PutChar(c)]_vars

=============================================================================
