------------------------------ MODULE Keyboard -------------------------------
(***************************************************************************)
(* The keyboard driver (keyboard.c): the interrupt handler that turns scan *)
(* codes into characters, and the two ways to read them, the ring buffer   *)
(* of keyboard_getchar and the last character of keyboard_lastchar.  The   *)
(* handler runs with interrupts disabled and is one step; it can come      *)
(* between any two steps of the readers.  One thread reads the buffer and  *)
(* one, main, polls the last character.                                    *)
(***************************************************************************)
EXTENDS Naturals, Sequences

CONSTANTS
  Keys,          \* scan codes of keys other than the shift keys
  ShiftKeys,     \* LSHIFT and RSHIFT
  Chars,
  keymap_us,     \* [shift_pressed -> [Keys -> Chars]]
  NUL,           \* '\0', also what the map holds for a key without character
  KBD_BUF_SIZE

ASSUME KeysAssumption == Keys \cap ShiftKeys = {}
ASSUME MapAssumption == NUL \in Chars /\ keymap_us \in [0..1 -> [Keys -> Chars]]
ASSUME SizeAssumption == KBD_BUF_SIZE \in Nat \ {0, 1}

VARIABLES
  shift_pressed, last_char, kbd_buffer, read_idx, write_idx,
  getchar,     \* keyboard_getchar: "wait" in the loop, "advance" after the read
  c,           \* its local variable
  result,      \* the character it returned last
  lastchar,    \* keyboard_lastchar: "read", or "clear" between its two accesses
  tmp,         \* its local variable
  polled       \* the press behind last_char has been read by keyboard_lastchar

bufferVars == <<kbd_buffer, read_idx, write_idx, getchar, c, result>>
vars == <<shift_pressed, last_char, bufferVars, lastchar, tmp, polled>>

Indices == 0..KBD_BUF_SIZE - 1

Init ==
  /\ shift_pressed = 0
  /\ last_char = NUL
  /\ kbd_buffer = [i \in Indices |-> NUL]
  /\ read_idx = 0
  /\ write_idx = 0
  /\ getchar = "wait"
  /\ c = NUL
  /\ result = NUL
  /\ lastchar = "read"
  /\ tmp = NUL
  /\ polled = TRUE

-----------------------------------------------------------------------------

after(idx) == (idx + 1) % KBD_BUF_SIZE

\* Fault: a full buffer is not noticed.
store_full(ch) ==
  /\ kbd_buffer' = [kbd_buffer EXCEPT ![write_idx] = ch]
  /\ write_idx' = after(write_idx)

store(ch) ==
  IF after(write_idx) # read_idx
  THEN /\ kbd_buffer' = [kbd_buffer EXCEPT ![write_idx] = ch]
       /\ write_idx' = after(write_idx)
  ELSE UNCHANGED <<kbd_buffer, write_idx>>

\* keyboard_handler on the scan code of a key that goes down, or up.  Its echo is
\* Console's vga_print_char.
key_pressed(key) ==
  /\ IF key \in ShiftKeys
     THEN /\ shift_pressed' = 1
          /\ UNCHANGED <<last_char, polled, kbd_buffer, write_idx>>
     ELSE /\ last_char' = keymap_us[shift_pressed][key]
          /\ polled' = FALSE
          /\ store(last_char')
          /\ UNCHANGED shift_pressed
  /\ UNCHANGED <<read_idx, getchar, c, result, lastchar, tmp>>

key_released(key) ==
  /\ shift_pressed' = IF key \in ShiftKeys THEN 0 ELSE shift_pressed
  /\ UNCHANGED <<last_char, bufferVars, lastchar, tmp, polled>>

keyboard_getchar_read ==
  /\ getchar = "wait"
  /\ read_idx # write_idx
  /\ c' = kbd_buffer[read_idx]
  /\ getchar' = "advance"
  /\ UNCHANGED <<shift_pressed, last_char, kbd_buffer, read_idx, write_idx, result,
                 lastchar, tmp, polled>>

keyboard_getchar_advance ==
  /\ getchar = "advance"
  /\ read_idx' = after(read_idx)
  /\ result' = c
  /\ getchar' = "wait"
  /\ UNCHANGED <<shift_pressed, last_char, kbd_buffer, write_idx, c, lastchar, tmp, polled>>

keyboard_lastchar_read ==
  /\ lastchar = "read"
  /\ tmp' = last_char
  /\ polled' = TRUE
  /\ lastchar' = "clear"
  /\ UNCHANGED <<shift_pressed, last_char, bufferVars>>

\* Fault: the character is cleared only if a key came meanwhile.
keyboard_lastchar_clear_kept ==
  /\ lastchar = "clear"
  /\ last_char' = IF polled THEN last_char ELSE NUL
  /\ lastchar' = "read"
  /\ UNCHANGED <<shift_pressed, bufferVars, tmp, polled>>

keyboard_lastchar_clear ==
  /\ lastchar = "clear"
  /\ last_char' = NUL
  /\ lastchar' = "read"
  /\ UNCHANGED <<shift_pressed, bufferVars, tmp, polled>>

Next ==
  \/ \E key \in Keys \cup ShiftKeys : key_pressed(key) \/ key_released(key)
  \/ keyboard_getchar_read
  \/ keyboard_getchar_advance
  \/ keyboard_lastchar_read
  \/ keyboard_lastchar_clear

Spec == Init /\ [][Next]_vars

-----------------------------------------------------------------------------

\* The characters in the ring, oldest first.
Unread ==
  [i \in 1..(write_idx + KBD_BUF_SIZE - read_idx) % KBD_BUF_SIZE |->
     kbd_buffer[(read_idx + i - 1) % KBD_BUF_SIZE]]

Queue == INSTANCE CharQueue WITH
  queue <- Unread, Capacity <- KBD_BUF_SIZE - 1

\* A press puts its character into the queue, unless that is full.
PressArrives == \A key \in Keys : key_pressed(key) => Queue!Put(keymap_us[shift_pressed][key])

\* Although the handler can interrupt keyboard_getchar between its read of the
\* buffer and its write of read_idx, with the buffer full or empty, the ring is
\* a queue: every press arrives in it but what finds it full, nothing comes out
\* twice, and the order is kept.
ImplementsCharQueue == Queue!Spec /\ [][PressArrives]_vars

\* main acts on a key press at most once: keyboard_lastchar never reads the same
\* press again (a press that comes between its read and its write is lost).
NoPressTwice ==
  [][lastchar = "read" /\ lastchar' = "clear" => (tmp' # NUL => ~polled)]_vars

=============================================================================
