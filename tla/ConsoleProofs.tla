---------------------------- MODULE ConsoleProofs ----------------------------
(***************************************************************************)
(* The screen's bounds for every size of the screen, every tab stop and    *)
(* every set of characters.                                                *)
(*                                                                         *)
(* ScreenBounds speaks of the cursor outside a print and of the rows that  *)
(* are moved; to keep it one needs to know, at each point of main's print, *)
(* how far outside xpos, ypos and main's registers can be, and that a      *)
(* variable which is off the screen is one main knows of: it equals main's *)
(* register or has still to be stored.  An interrupting print brings both  *)
(* variables back to the screen.                                           *)
(***************************************************************************)
EXTENDS Console, TLAPS

Points == {"idle", "draw", "move", "wrap", "store", "scroll", "copy", "clear", "row", "cursor",
           "high", "high data", "low", "low data"}

OnScreen == xpos < COLS /\ ypos < ROWS

BTypeOK ==
  /\ xpos \in 0..COLS /\ ypos \in 0..ROWS
  /\ x \in 0..COLS /\ y \in 0..ROWS
  /\ unstored \subseteq {"x", "y"}
  /\ temp \in 0..1
  /\ at \in Points

\* Main's print up to the end of its line break.
BeforeStore ==
  /\ at \in {"idle", "draw", "move"} => unstored = {} /\ OnScreen
  /\ at \in {"draw", "move"} => x < COLS /\ y < ROWS /\ c \in MainChars
  /\ at = "wrap" =>
       /\ c \in MainChars
       /\ c = "nl" => x = 0 /\ xpos < COLS
       /\ c # "nl" => y < ROWS /\ ypos < ROWS
       /\ "x" \notin unstored => xpos = x \/ xpos < COLS
       /\ "y" \notin unstored => ypos = y \/ ypos < ROWS

\* From there to the end of the print.
AfterWrap ==
  /\ at = "store" =>
       /\ x < COLS
       /\ "x" \notin unstored => xpos < COLS
       /\ "y" \notin unstored => ypos = y \/ ypos < ROWS
  /\ at = "scroll" => unstored = {} /\ xpos < COLS /\ (ypos = y \/ ypos < ROWS)
  /\ at \in {"copy", "clear", "row"} => unstored = {} /\ xpos < COLS
  /\ at \in {"cursor", "high", "high data", "low", "low data"} => unstored = {} /\ OnScreen

BoundsInvariant == BTypeOK /\ BeforeStore /\ AfterWrap

\* Wherever a character moves the cursor, a line break brings it back between the
\* margins, at most one row further down.
LEMMA WrapBounds ==
  ASSUME NEW ch \in Chars, NEW px \in 0..COLS, NEW py \in 0..ROWS
  PROVE  /\ wrap(advance(ch, px, py))[1] \in 0..COLS - 1
         /\ wrap(advance(ch, px, py))[2] \in 0..py + 1
<1> USE SizeAssumption
<1> DEFINE stop == TabStop * ((px + TabStop) \div TabStop)
<1>1. stop \in Nat
  OBVIOUS
<1>2. \E m \in Nat, n \in 0..py + 1 : advance(ch, px, py) = <<m, n>> /\ (m >= COLS => n <= py)
  <2>1. CASE ch = "bs"
    <3>1. advance(ch, px, py) = backspace(px, py)
      BY <2>1, CharsAssumption DEF advance
    <3> QED BY <3>1 DEF backspace
  <2>2. CASE ch = "tab"
    <3>1. advance(ch, px, py) = <<stop, py>>
      BY <2>2, CharsAssumption DEF advance
    <3> QED BY <1>1, <3>1
  <2>3. CASE ch = "cr"
    BY <2>3, CharsAssumption DEF advance
  <2>4. CASE ch = "nl"
    BY <2>4, CharsAssumption DEF advance
  <2>5. CASE ch \notin {"bs", "tab", "cr", "nl"}
    BY <2>5 DEF advance
  <2> QED BY <2>1, <2>2, <2>3, <2>4, <2>5
<1> QED BY <1>2 DEF wrap

\* With at most two rows too many, the rows to move are on the screen.
LEMMA ChunkBounds ==
  ASSUME NEW py \in 0..ROWS + 1
  PROVE  chunk(py) \in 0..2 /\ chunk(py) <= ROWS /\ (py <= ROWS => chunk(py) \in 0..1)
BY SizeAssumption DEF chunk, below

\* A print that interrupts leaves the cursor on the screen, which no point of
\* main's print minds.
LEMMA InterruptPreserves ==
  ASSUME BoundsInvariant, NEW ch \in Chars, vga_print_char(ch)
  PROVE  BoundsInvariant'
<1> DEFINE p == wrap(advance(ch, xpos, ypos))
<1>1. p[1] \in 0..COLS - 1 /\ p[2] \in 0..ypos + 1
  BY WrapBounds, Zenon DEF BoundsInvariant, BTypeOK
<1>2. xpos' = p[1] /\ ypos' = IF below(p[2]) THEN ROWS - 1 ELSE p[2]
  BY Zenon DEF vga_print_char
<1>3. UNCHANGED <<at, c, x, y, unstored, temp>>
  BY Zenon DEF vga_print_char, local
<1> HIDE DEF p
<1>4. OnScreen' /\ xpos' \in 0..COLS /\ ypos' \in 0..ROWS
  BY <1>1, <1>2, SizeAssumption DEF OnScreen, below, BoundsInvariant, BTypeOK
<1>5. BTypeOK'
  BY <1>3, <1>4 DEF BoundsInvariant, BTypeOK
<1>6. BeforeStore'
  BY <1>3, <1>4 DEF BoundsInvariant, BeforeStore, OnScreen
<1>7. AfterWrap'
  BY <1>3, <1>4 DEF BoundsInvariant, AfterWrap, OnScreen
<1> QED BY <1>5, <1>6, <1>7 DEF BoundsInvariant

\* A store into video memory moves nothing.
LEMMA StorePreserves ==
  ASSUME BoundsInvariant, NEW i \in Cells, NEW ch \in Printable, store_video(i, ch)
  PROVE  BoundsInvariant'
BY DEF store_video, local, BoundsInvariant, BTypeOK, BeforeStore, AfterWrap, OnScreen

\* Main moves its cursor by one column or to the next row.
LEMMA MovePreserves ==
  ASSUME BoundsInvariant, print_move
  PROVE  BoundsInvariant'
<1> USE SizeAssumption
<1>1. PICK a \in SeenX, b \in SeenY, S \in SUBSET {"x", "y"} : Update(a, b, advance(c, a, b), S)
  BY DEF print_move
<1>2. at = "move" /\ at' = "wrap" /\ UNCHANGED <<c, temp>>
  BY DEF print_move
<1>3. unstored = {} /\ OnScreen /\ x < COLS /\ y < ROWS /\ c \in MainChars
  BY <1>2 DEF BoundsInvariant, BeforeStore
<1>4. a \in 0..COLS - 1 /\ b \in 0..ROWS - 1
  BY <1>3 DEF SeenX, SeenY, OnScreen, BoundsInvariant, BTypeOK
<1>5. advance(c, a, b) = IF c = "nl" THEN <<0, b + 1>> ELSE <<a + 1, b>>
  BY <1>3, CharsAssumption DEF advance
<1>6. /\ x' = (IF c = "nl" THEN 0 ELSE a + 1) /\ y' = (IF c = "nl" THEN b + 1 ELSE b)
      /\ xpos' = (IF "x" \in S THEN x' ELSE xpos) /\ ypos' = (IF "y" \in S THEN y' ELSE ypos)
      /\ unstored' \subseteq {"x", "y"}
      /\ c # "nl" => "y" \notin S
  BY <1>1, <1>3, <1>4, <1>5 DEF Update
<1>7. BTypeOK'
  BY <1>2, <1>4, <1>6 DEF BoundsInvariant, BTypeOK, Points
<1>8. BeforeStore'
  BY <1>2, <1>3, <1>4, <1>6 DEF BoundsInvariant, BTypeOK, BeforeStore, OnScreen
<1>9. AfterWrap'
  BY <1>2 DEF AfterWrap
<1> QED BY <1>7, <1>8, <1>9 DEF BoundsInvariant

\* The line break leaves main's column between the margins, and a row below the
\* screen in main's register if it is in ypos.
LEMMA WrapPreserves ==
  ASSUME BoundsInvariant, print_wrap
  PROVE  BoundsInvariant'
<1> USE SizeAssumption
<1>1. PICK a \in SeenX, b \in SeenY, S \in SUBSET {"x", "y"} : Update(a, b, wrap(<<a, b>>), S)
  BY DEF print_wrap
<1>2. at = "wrap" /\ at' = "store" /\ UNCHANGED <<c, temp>>
  BY DEF print_wrap
<1>3. a \in 0..COLS /\ b \in 0..ROWS /\ (a = COLS => b < ROWS)
  BY <1>2 DEF SeenX, SeenY, BoundsInvariant, BTypeOK, BeforeStore
<1>4. wrap(<<a, b>>) = IF a = COLS THEN <<0, b + 1>> ELSE <<a, b>>
  BY <1>3 DEF wrap
<1>5. /\ x' = (IF a = COLS THEN 0 ELSE a) /\ y' = (IF a = COLS THEN b + 1 ELSE b)
      /\ xpos' = (IF "x" \in S THEN x' ELSE xpos) /\ ypos' = (IF "y" \in S THEN y' ELSE ypos)
      /\ unstored' = (unstored \cup (IF x' # a THEN {"x"} ELSE {})
                               \cup (IF y' # b THEN {"y"} ELSE {})) \ S
  BY <1>1, <1>3, <1>4 DEF Update
<1>6. BTypeOK'
  BY <1>2, <1>3, <1>5 DEF BoundsInvariant, BTypeOK, Points
<1>7. "x" \notin unstored' => xpos' < COLS
  BY <1>2, <1>3, <1>5 DEF SeenX, BoundsInvariant, BTypeOK, BeforeStore
<1>8. "y" \notin unstored' => ypos' = y' \/ ypos' < ROWS
  BY <1>2, <1>3, <1>5 DEF SeenY, BoundsInvariant, BTypeOK, BeforeStore
<1>9. AfterWrap'
  <2>1. x' < COLS
    BY <1>3, <1>5
  <2> QED BY <1>2, <1>7, <1>8, <2>1 DEF AfterWrap
<1>10. BeforeStore'
  BY <1>2 DEF BeforeStore
<1> QED BY <1>6, <1>9, <1>10 DEF BoundsInvariant

\* Every other step of main's print.
LEMMA PrintPreserves ==
  ASSUME BoundsInvariant, kprintf
  PROVE  BoundsInvariant'
<1> USE SizeAssumption
<1> USE DEF BoundsInvariant
<1>1. ASSUME NEW ch \in MainChars, print_begin(ch) PROVE BoundsInvariant'
  BY <1>1 DEF print_begin, shared, BTypeOK, BeforeStore, AfterWrap, OnScreen, Points
<1>2. CASE print_draw
  BY <1>2 DEF print_draw, SeenX, SeenY, BTypeOK, BeforeStore, AfterWrap, OnScreen, Points
<1>3. CASE print_store
  BY <1>3 DEF print_store, BTypeOK, BeforeStore, AfterWrap, OnScreen, Points
<1>4. CASE print_scroll
  <2>1. PICK b \in SeenY : temp' = chunk(b) /\ at' = (IF below(b) THEN "copy" ELSE "cursor") /\ y' = b
    BY <1>4 DEF print_scroll
  <2>2. b \in 0..ROWS /\ (b < ROWS => ypos < ROWS)
    BY <1>4 DEF print_scroll, SeenY, BTypeOK, AfterWrap
  <2>3. temp' \in 0..1
    BY <2>1, <2>2, ChunkBounds
  <2> QED BY <1>4, <2>1, <2>2, <2>3
          DEF print_scroll, shared, below, BTypeOK, BeforeStore, AfterWrap, OnScreen, Points
<1>5. CASE print_copy \/ print_clear
  BY <1>5 DEF print_copy, print_clear, local, BTypeOK, BeforeStore, AfterWrap, OnScreen, Points
<1>6. CASE print_row
  BY <1>6 DEF print_row, BTypeOK, BeforeStore, AfterWrap, OnScreen, Points
<1>7. CASE print_cursor
  BY <1>7 DEF print_cursor, shared, BTypeOK, BeforeStore, AfterWrap, OnScreen, Points
<1>8. CASE select("high", HIGH_BYTE, "high data") \/ select("low", LOW_BYTE, "low data")
  BY <1>8 DEF select, local, BTypeOK, BeforeStore, AfterWrap, OnScreen, Points
<1>9. CASE print_data_high \/ print_data_low
  BY <1>9 DEF print_data_high, print_data_low, local, BTypeOK, BeforeStore, AfterWrap, OnScreen, Points
<1> QED BY <1>1, <1>2, <1>3, <1>4, <1>5, <1>6, <1>7, <1>8, <1>9, MovePreserves, WrapPreserves
        DEF kprintf

\* What the invariant says of the screen is ScreenBounds: a print of any character,
\* begun at any point of main's, moves no more rows than there are.
LEMMA InvariantBounds ==
  ASSUME BoundsInvariant
  PROVE  ScreenBounds
<1> USE SizeAssumption
<1>1. ASSUME NEW ch \in Chars PROVE chunk(wrap(advance(ch, xpos, ypos))[2]) <= ROWS
  <2>1. wrap(advance(ch, xpos, ypos))[2] \in 0..ypos + 1
    BY WrapBounds DEF BoundsInvariant, BTypeOK
  <2>2. wrap(advance(ch, xpos, ypos))[2] \in 0..ROWS + 1
    BY <2>1 DEF BoundsInvariant, BTypeOK
  <2> QED BY <2>2, ChunkBounds
<1> QED BY <1>1 DEF ScreenBounds, BoundsInvariant, BTypeOK, BeforeStore, OnScreen

\* Whoever interrupts whom, on a screen of any size: outside a print the cursor is
\* on the screen, and vga_scroll never moves more rows than the screen has.
THEOREM ScreenAlwaysBounded == Spec => []ScreenBounds
<1>1. Init => BoundsInvariant
  BY SizeAssumption DEF Init, BoundsInvariant, BTypeOK, BeforeStore, AfterWrap, OnScreen, Points
<1>2. BoundsInvariant /\ [Next]_vars => BoundsInvariant'
  <2> SUFFICES ASSUME BoundsInvariant, [Next]_vars PROVE BoundsInvariant'
    OBVIOUS
  <2>1. CASE kprintf
    BY <2>1, PrintPreserves
  <2>2. CASE \E ch \in Chars : vga_print_char(ch)
    BY <2>2, InterruptPreserves
  <2>3. CASE \E i \in Cells, ch \in Printable : store_video(i, ch)
    BY <2>3, StorePreserves
  <2>4. CASE UNCHANGED vars
    BY <2>4 DEF vars, shared, local, BoundsInvariant, BTypeOK, BeforeStore, AfterWrap, OnScreen
  <2> QED BY <2>1, <2>2, <2>3, <2>4 DEF Next
<1> QED BY <1>1, <1>2, InvariantBounds, PTL DEF Spec

=============================================================================
