--------------------------- MODULE KeyboardProofs ----------------------------
(***************************************************************************)
(* The keyboard's ring buffer is a queue, for every size of the buffer and *)
(* every keyboard, and no key press is polled twice.                       *)
(*                                                                         *)
(* The inductive invariant has one fact about each reader in mid-course:   *)
(* a getchar that has read its character and not yet moved read_idx leaves *)
(* that character in the buffer, where the handler cannot overwrite it;    *)
(* and outside keyboard_lastchar a press that was read is cleared.         *)
(***************************************************************************)
EXTENDS Keyboard, TLAPS

BufferInvariant ==
  /\ shift_pressed \in 0..1
  /\ kbd_buffer \in [Indices -> Chars]
  /\ read_idx \in Indices /\ write_idx \in Indices
  /\ result \in Chars
  /\ getchar = "advance" => read_idx # write_idx /\ c = kbd_buffer[read_idx]

-----------------------------------------------------------------------------
(* Indices that wrap.                                                      *)

\* The number of unread characters and the index of the i-th.
Count(r, w) == (w + KBD_BUF_SIZE - r) % KBD_BUF_SIZE
Place(r, i) == (r + i - 1) % KBD_BUF_SIZE

\* An index that has passed the end once comes back by the length of the buffer.
LEMMA WrapsOnce ==
  ASSUME NEW a \in 0..2 * KBD_BUF_SIZE - 1
  PROVE  a % KBD_BUF_SIZE = IF a < KBD_BUF_SIZE THEN a ELSE a - KBD_BUF_SIZE
<1> USE SizeAssumption
<1>1. CASE a < KBD_BUF_SIZE
  BY <1>1
<1>2. CASE a >= KBD_BUF_SIZE
  <2>1. (a - KBD_BUF_SIZE) \in 0..KBD_BUF_SIZE - 1
    BY <1>2
  <2> QED BY <1>2, <2>1
<1> QED BY <1>1, <1>2

\* The same without the remainder.
LEMMA IndexFacts ==
  ASSUME NEW r \in Indices, NEW w \in Indices
  PROVE  /\ Count(r, w) = IF w >= r THEN w - r ELSE w + KBD_BUF_SIZE - r
         /\ \A i \in 1..KBD_BUF_SIZE :
              Place(r, i) = IF r + i - 1 < KBD_BUF_SIZE THEN r + i - 1 ELSE r + i - 1 - KBD_BUF_SIZE
         /\ after(r) = IF r + 1 < KBD_BUF_SIZE THEN r + 1 ELSE 0
<1> USE SizeAssumption
<1>1. w + KBD_BUF_SIZE - r \in 0..2 * KBD_BUF_SIZE - 1 /\ r + 1 \in 0..2 * KBD_BUF_SIZE - 1
  BY DEF Indices
<1>2. Count(r, w) = IF w >= r THEN w - r ELSE w + KBD_BUF_SIZE - r
  BY <1>1, WrapsOnce DEF Count, Indices
<1>3. after(r) = IF r + 1 < KBD_BUF_SIZE THEN r + 1 ELSE 0
  BY <1>1, WrapsOnce DEF after, Indices
<1>4. ASSUME NEW i \in 1..KBD_BUF_SIZE
      PROVE  Place(r, i) = IF r + i - 1 < KBD_BUF_SIZE THEN r + i - 1 ELSE r + i - 1 - KBD_BUF_SIZE
  <2>1. PICK a \in 0..2 * KBD_BUF_SIZE - 1 : a = r + i - 1
    BY DEF Indices
  <2>2. a % KBD_BUF_SIZE = IF a < KBD_BUF_SIZE THEN a ELSE a - KBD_BUF_SIZE
    BY WrapsOnce
  <2>3. Place(r, i) = a % KBD_BUF_SIZE
    BY <2>1 DEF Place
  <2> QED BY <2>1, <2>2, <2>3 DEF Indices
<1> QED BY <1>2, <1>3, <1>4

\* The index arithmetic of the handler and of keyboard_lastchar stays in the buffer.
LEMMA IndicesClosed ==
  ASSUME NEW r \in Indices
  PROVE  after(r) \in Indices /\ \A i \in 1..KBD_BUF_SIZE : Place(r, i) \in Indices
<1> USE SizeAssumption
<1>1. r \in 0..KBD_BUF_SIZE - 1
  BY DEF Indices
<1>2. after(r) \in 0..KBD_BUF_SIZE - 1
  <2>1. after(r) = IF r + 1 < KBD_BUF_SIZE THEN r + 1 ELSE 0
    BY IndexFacts, Zenon
  <2> QED BY <1>1, <2>1
<1>3. ASSUME NEW i \in 1..KBD_BUF_SIZE PROVE Place(r, i) \in 0..KBD_BUF_SIZE - 1
  <2>1. Place(r, i) = IF r + i - 1 < KBD_BUF_SIZE THEN r + i - 1 ELSE r + i - 1 - KBD_BUF_SIZE
    BY IndexFacts, Zenon
  <2> QED BY <1>1, <2>1
<1> QED BY <1>2, <1>3 DEF Indices

\* The unread characters are a sequence.
LEMMA UnreadIsSequence ==
  ASSUME BufferInvariant
  PROVE  /\ Unread = [i \in 1..Count(read_idx, write_idx) |-> kbd_buffer[Place(read_idx, i)]]
         /\ Count(read_idx, write_idx) \in 0..KBD_BUF_SIZE - 1
         /\ Unread \in Seq(Chars) /\ Len(Unread) = Count(read_idx, write_idx)
<1> USE SizeAssumption
<1>1. Unread = [i \in 1..Count(read_idx, write_idx) |-> kbd_buffer[Place(read_idx, i)]]
  BY DEF Unread, Count, Place
<1>2. Count(read_idx, write_idx) \in 0..KBD_BUF_SIZE - 1
  BY IndexFacts DEF BufferInvariant, Indices
<1>3. \A i \in 1..Count(read_idx, write_idx) : kbd_buffer[Place(read_idx, i)] \in Chars
  <2> SUFFICES ASSUME NEW i \in 1..Count(read_idx, write_idx)
               PROVE  kbd_buffer[Place(read_idx, i)] \in Chars
    OBVIOUS
  <2>1. i \in 1..KBD_BUF_SIZE
    BY <1>2
  <2>2. Place(read_idx, i) \in Indices
    BY <2>1, IndicesClosed DEF BufferInvariant
  <2> QED BY <2>2 DEF BufferInvariant
<1> QED BY <1>1, <1>2, <1>3

-----------------------------------------------------------------------------
(* The invariant.                                                          *)

\* A full buffer is left alone, so the character getchar has read stays.
LEMMA StorePreserves ==
  ASSUME BufferInvariant, NEW ch \in Chars, store(ch), UNCHANGED <<read_idx, getchar, c, result>>,
         shift_pressed' \in 0..1
  PROVE  BufferInvariant'
<1>1. after(write_idx) \in Indices
  BY IndicesClosed DEF BufferInvariant
<1>2. CASE after(write_idx) # read_idx
  BY <1>1, <1>2 DEF store, BufferInvariant
<1>3. CASE after(write_idx) = read_idx
  BY <1>3 DEF store, BufferInvariant
<1> QED BY <1>2, <1>3

\* What a key does to the buffer is one store, or nothing.
LEMMA KeyStores ==
  ASSUME BufferInvariant, NEW key \in Keys \cup ShiftKeys, key_pressed(key)
  PROVE  /\ UNCHANGED <<read_idx, getchar, c, result>> /\ shift_pressed' \in 0..1
         /\ \/ UNCHANGED <<kbd_buffer, write_idx>>
            \/ \E ch \in Chars : store(ch)
BY MapAssumption DEF key_pressed, BufferInvariant

\* Each step of the handler and of the readers keeps the invariant.
LEMMA StepKeeps ==
  ASSUME BufferInvariant, [Next]_vars
  PROVE  BufferInvariant'
<1>1. ASSUME NEW key \in Keys \cup ShiftKeys, key_pressed(key) PROVE BufferInvariant'
  <2>1. CASE UNCHANGED <<kbd_buffer, write_idx>>
    BY <1>1, <2>1, KeyStores DEF BufferInvariant
  <2>2. CASE \E ch \in Chars : store(ch)
    BY <1>1, <2>2, KeyStores, StorePreserves
  <2> QED BY <1>1, <2>1, <2>2, KeyStores
<1>2. ASSUME NEW key \in Keys \cup ShiftKeys, key_released(key) PROVE BufferInvariant'
  BY <1>2 DEF key_released, bufferVars, BufferInvariant
<1>3. CASE keyboard_getchar_read
  BY <1>3 DEF keyboard_getchar_read, BufferInvariant
<1>4. CASE keyboard_getchar_advance
  <2>1. after(read_idx) \in Indices
    BY IndicesClosed DEF BufferInvariant
  <2> QED BY <1>4, <2>1 DEF keyboard_getchar_advance, BufferInvariant
<1>5. CASE keyboard_lastchar_read \/ keyboard_lastchar_clear
  BY <1>5 DEF keyboard_lastchar_read, keyboard_lastchar_clear, bufferVars, BufferInvariant
<1>6. CASE UNCHANGED vars
  BY <1>6 DEF vars, bufferVars, BufferInvariant
<1> QED BY <1>1, <1>2, <1>3, <1>4, <1>5, <1>6 DEF Next

\* Every reachable state has its indices inside the ring buffer and a character in
\* every slot (keyboard_callback, keyboard_lastchar).
THEOREM BufferAlways == Spec => []BufferInvariant
<1>1. Init => BufferInvariant
  BY MapAssumption, SizeAssumption DEF Init, BufferInvariant, Indices
<1> QED BY <1>1, StepKeeps, PTL DEF Spec

-----------------------------------------------------------------------------
(* The ring is a queue.                                                    *)

\* A character that is stored goes behind the unread ones and overwrites none; one
\* that finds the buffer full is dropped.
LEMMA StoreAppends ==
  ASSUME BufferInvariant, BufferInvariant', NEW ch \in Chars, store(ch), UNCHANGED read_idx
  PROVE  Unread' = IF Len(Unread) < KBD_BUF_SIZE - 1 THEN Append(Unread, ch) ELSE Unread
<1> USE SizeAssumption
<1> DEFINE n == Count(read_idx, write_idx)
<1>1. read_idx \in 0..KBD_BUF_SIZE - 1 /\ write_idx \in 0..KBD_BUF_SIZE - 1
  BY DEF BufferInvariant, Indices
<1>2. n = IF write_idx >= read_idx THEN write_idx - read_idx ELSE write_idx + KBD_BUF_SIZE - read_idx
  BY IndexFacts, Zenon DEF BufferInvariant
<1>3. after(write_idx) = IF write_idx + 1 < KBD_BUF_SIZE THEN write_idx + 1 ELSE 0
  BY IndexFacts, Zenon DEF BufferInvariant
<1>4. \A i \in 1..KBD_BUF_SIZE :
        Place(read_idx, i) = IF read_idx + i - 1 < KBD_BUF_SIZE
                             THEN read_idx + i - 1 ELSE read_idx + i - 1 - KBD_BUF_SIZE
  BY IndexFacts, Zenon DEF BufferInvariant
<1>5. n \in 0..KBD_BUF_SIZE - 1 /\ Len(Unread) = n
      /\ Unread = [i \in 1..n |-> kbd_buffer[Place(read_idx, i)]]
  BY UnreadIsSequence
<1>6. CASE after(write_idx) = read_idx
  <2>1. n = KBD_BUF_SIZE - 1
    BY <1>1, <1>2, <1>3, <1>6
  <2>2. Unread' = Unread
    BY <1>6 DEF store, Unread
  <2> HIDE DEF n
  <2> QED BY <1>5, <2>1, <2>2
<1>7. CASE after(write_idx) # read_idx
  <2>1. kbd_buffer' = [kbd_buffer EXCEPT ![write_idx] = ch] /\ write_idx' = after(write_idx)
    BY <1>7 DEF store
  <2>2. n < KBD_BUF_SIZE - 1
    BY <1>1, <1>2, <1>3, <1>7
  <2>3. Count(read_idx, after(write_idx)) = n + 1
    <3>1. Count(read_idx, after(write_idx)) =
            IF after(write_idx) >= read_idx THEN after(write_idx) - read_idx
            ELSE after(write_idx) + KBD_BUF_SIZE - read_idx
      BY IndexFacts, IndicesClosed, Zenon DEF BufferInvariant
    <3> QED BY <1>1, <1>2, <1>3, <1>7, <3>1
  <2>4. Place(read_idx, n + 1) = write_idx /\ \A i \in 1..n : Place(read_idx, i) # write_idx
    <3> HIDE DEF n
    <3> QED BY <1>1, <1>2, <1>4, <1>5, <2>2
  <2>5. Unread' = [i \in 1..n + 1 |-> kbd_buffer'[Place(read_idx, i)]]
    <3>1. Unread' = [i \in 1..Count(read_idx', write_idx') |-> kbd_buffer'[Place(read_idx', i)]]
      BY DEF Unread, Count, Place
    <3> QED BY <2>1, <2>3, <3>1
  <2> HIDE DEF n
  <2>6. \A i \in 1..n : kbd_buffer'[Place(read_idx, i)] = Unread[i]
    <3> SUFFICES ASSUME NEW i \in 1..n PROVE kbd_buffer'[Place(read_idx, i)] = Unread[i]
      OBVIOUS
    <3>1. Place(read_idx, i) \in Indices /\ Place(read_idx, i) # write_idx
      BY <1>5, <2>2, <2>4, IndicesClosed DEF BufferInvariant
    <3> QED BY <1>5, <2>1, <3>1 DEF BufferInvariant
  <2>7. kbd_buffer'[Place(read_idx, n + 1)] = ch
    BY <2>1, <2>4 DEF BufferInvariant
  <2>8. Append(Unread, ch) = [i \in 1..n + 1 |-> IF i = n + 1 THEN ch ELSE Unread[i]]
    BY <1>5, UnreadIsSequence
  <2>9. Unread' = Append(Unread, ch)
    BY <1>5, <2>5, <2>6, <2>7, <2>8
  <2> QED BY <1>5, <2>2, <2>9
<1> QED BY <1>6, <1>7

\* getchar returns the oldest unread character and moves read_idx past it.
LEMMA AdvanceTakesHead ==
  ASSUME BufferInvariant, BufferInvariant', keyboard_getchar_advance
  PROVE  Unread # <<>> /\ result' = Head(Unread) /\ Unread' = Tail(Unread)
<1> USE SizeAssumption
<1> DEFINE n == Count(read_idx, write_idx)
<1>1. read_idx \in 0..KBD_BUF_SIZE - 1 /\ write_idx \in 0..KBD_BUF_SIZE - 1 /\ read_idx # write_idx
  BY DEF BufferInvariant, Indices, keyboard_getchar_advance
<1>2. n = IF write_idx >= read_idx THEN write_idx - read_idx ELSE write_idx + KBD_BUF_SIZE - read_idx
  BY IndexFacts, Zenon DEF BufferInvariant
<1>3. after(read_idx) = IF read_idx + 1 < KBD_BUF_SIZE THEN read_idx + 1 ELSE 0
  BY IndexFacts, Zenon DEF BufferInvariant
<1>4. n \in 1..KBD_BUF_SIZE - 1
  BY <1>1, <1>2
<1>5. Unread \in Seq(Chars) /\ Len(Unread) = n
      /\ Unread = [i \in 1..n |-> kbd_buffer[Place(read_idx, i)]]
  BY UnreadIsSequence
<1>6. Place(read_idx, 1) = read_idx
  <2>1. Place(read_idx, 1) = IF read_idx + 1 - 1 < KBD_BUF_SIZE
                             THEN read_idx + 1 - 1 ELSE read_idx + 1 - 1 - KBD_BUF_SIZE
    BY <1>4, IndexFacts DEF BufferInvariant
  <2> QED BY <1>1, <2>1
<1>7. Count(after(read_idx), write_idx) = n - 1
  <2>1. Count(after(read_idx), write_idx) =
          IF write_idx >= after(read_idx) THEN write_idx - after(read_idx)
          ELSE write_idx + KBD_BUF_SIZE - after(read_idx)
    BY IndexFacts, IndicesClosed, Zenon DEF BufferInvariant
  <2> QED BY <1>1, <1>2, <1>3, <2>1
<1>8. \A i \in 1..n - 1 : Place(after(read_idx), i) = Place(read_idx, i + 1)
  <2> SUFFICES ASSUME NEW i \in 1..n - 1 PROVE Place(after(read_idx), i) = Place(read_idx, i + 1)
    OBVIOUS
  <2> HIDE DEF n
  <2>1. i \in 1..KBD_BUF_SIZE /\ i + 1 \in 1..KBD_BUF_SIZE
    BY <1>4
  <2> DEFINE a == after(read_idx)
             j == i + 1
  <2>2. Place(a, i) = IF a + i - 1 < KBD_BUF_SIZE THEN a + i - 1 ELSE a + i - 1 - KBD_BUF_SIZE
    BY <2>1, IndexFacts, IndicesClosed, Zenon DEF BufferInvariant
  <2>3. Place(read_idx, j) = IF read_idx + j - 1 < KBD_BUF_SIZE
                             THEN read_idx + j - 1 ELSE read_idx + j - 1 - KBD_BUF_SIZE
    BY <2>1, IndexFacts, Zenon DEF BufferInvariant
  <2> QED BY <1>1, <1>3, <1>4, <2>1, <2>2, <2>3
<1>9. Unread' = [i \in 1..n - 1 |-> kbd_buffer[Place(read_idx, i + 1)]]
  <2>1. Unread' = [i \in 1..Count(read_idx', write_idx') |-> kbd_buffer'[Place(read_idx', i)]]
    BY DEF Unread, Count, Place
  <2>2. Unread' = [i \in 1..n - 1 |-> kbd_buffer[Place(after(read_idx), i)]]
    BY <1>7, <2>1 DEF keyboard_getchar_advance
  <2> HIDE DEF n
  <2> QED BY <1>8, <2>2
<1> HIDE DEF n
<1>10. Unread # <<>> /\ result' = Head(Unread)
  <2>1. Unread[1] = kbd_buffer[read_idx] /\ result' = kbd_buffer[read_idx]
    BY <1>4, <1>5, <1>6 DEF keyboard_getchar_advance, BufferInvariant
  <2> QED BY <1>4, <1>5, <2>1
<1>11. Tail(Unread) = [i \in 1..n - 1 |-> Unread[i + 1]]
  BY <1>4, <1>5
<1>12. \A i \in 1..n - 1 : Unread[i + 1] = kbd_buffer[Place(read_idx, i + 1)]
  BY <1>4, <1>5
<1> QED BY <1>9, <1>10, <1>11, <1>12

\* Every step of the driver is a step of the queue or leaves it alone.
LEMMA StepOfQueue ==
  ASSUME BufferInvariant, BufferInvariant', [Next]_vars
  PROVE  [Queue!Next]_<<Unread, result>>
<1>1. ASSUME UNCHANGED <<kbd_buffer, read_idx, write_idx, result>>
      PROVE  UNCHANGED <<Unread, result>>
  BY <1>1 DEF Unread
<1>2. ASSUME NEW key \in Keys \cup ShiftKeys, key_pressed(key)
      PROVE  [Queue!Next]_<<Unread, result>>
  <2>1. CASE UNCHANGED <<kbd_buffer, write_idx>>
    BY <1>1, <1>2, <2>1, KeyStores
  <2>2. CASE \E ch \in Chars : store(ch)
    <3>1. PICK ch \in Chars : store(ch)
      BY <2>2
    <3>2. UNCHANGED <<read_idx, result>>
      BY <1>2, KeyStores
    <3>3. Queue!Put(ch)
      BY <3>1, <3>2, StoreAppends DEF Queue!Put
    <3> QED BY <3>3 DEF Queue!Next
  <2> QED BY <1>2, <2>1, <2>2, KeyStores
<1>3. CASE keyboard_getchar_advance
  BY <1>3, AdvanceTakesHead DEF Queue!Next, Queue!Get
<1>4. CASE keyboard_getchar_read \/ keyboard_lastchar_read \/ keyboard_lastchar_clear
           \/ (\E key \in Keys \cup ShiftKeys : key_released(key)) \/ UNCHANGED vars
  <2>1. UNCHANGED <<kbd_buffer, read_idx, write_idx, result>>
    BY <1>4 DEF keyboard_getchar_read, keyboard_lastchar_read, keyboard_lastchar_clear,
                key_released, vars, bufferVars
  <2> QED BY <1>1, <2>1
<1> QED BY <1>2, <1>3, <1>4 DEF Next

\* The handler stores the character of the key it was called for.
LEMMA PressStores ==
  ASSUME BufferInvariant, BufferInvariant', NEW key \in Keys, key_pressed(key)
  PROVE  Queue!Put(keymap_us[shift_pressed][key])
<1> DEFINE ch == keymap_us[shift_pressed][key]
<1>1. ch \in Chars
  BY MapAssumption DEF BufferInvariant
<1>2. store(ch) /\ UNCHANGED <<read_idx, result>>
  BY KeysAssumption DEF key_pressed
<1> HIDE DEF ch
<1>3. Queue!Put(ch)
  BY <1>1, <1>2, StoreAppends DEF Queue!Put
<1> QED BY <1>3 DEF ch

\* Whatever its size, the keyboard buffer is a first-in first-out queue that holds
\* one character less and takes every press while it has room: keyboard_handler
\* may interrupt keyboard_getchar anywhere.
THEOREM BufferImplementsQueue == Spec => ImplementsCharQueue
<1>1. Init => Queue!Init
  <2> SUFFICES ASSUME Init PROVE Queue!Init
    OBVIOUS
  <2>1. BufferInvariant
    BY MapAssumption, SizeAssumption DEF Init, BufferInvariant, Indices
  <2>2. Count(read_idx, write_idx) = 0
    <3>1. Count(read_idx, write_idx) =
            IF write_idx >= read_idx THEN write_idx - read_idx ELSE write_idx + KBD_BUF_SIZE - read_idx
      BY <2>1, IndexFacts DEF BufferInvariant
    <3> QED BY <3>1 DEF Init
  <2>3. Unread = <<>> /\ result \in Chars
    BY <2>1, <2>2, UnreadIsSequence DEF BufferInvariant
  <2> QED BY <2>3 DEF Queue!Init
<1>2. BufferInvariant /\ BufferInvariant' /\ [Next]_vars => [Queue!Next]_<<Unread, result>>
  BY StepOfQueue
<1>3. BufferInvariant /\ BufferInvariant' /\ [Next]_vars => [PressArrives]_vars
  BY PressStores DEF PressArrives
<1> QED BY <1>1, <1>2, <1>3, BufferAlways, PTL DEF Spec, ImplementsCharQueue, Queue!Spec

-----------------------------------------------------------------------------
(* The last character.                                                     *)

\* Outside keyboard_lastchar, a press that was polled has been cleared.
PolledCleared == lastchar = "read" /\ polled => last_char = NUL

\* main never acts twice on one press of a key: between its two accesses
\* keyboard_lastchar can lose a press, but not return one again.
THEOREM NeverPressedTwice == Spec => NoPressTwice
<1>1. Init => PolledCleared
  BY DEF Init, PolledCleared
<1>2. PolledCleared /\ [Next]_vars => PolledCleared'
  BY Zenon DEF PolledCleared, Next, vars, bufferVars, key_pressed, key_released, keyboard_getchar_read,
         keyboard_getchar_advance, keyboard_lastchar_read, keyboard_lastchar_clear
<1>3. PolledCleared /\ [Next]_vars =>
        [lastchar = "read" /\ lastchar' = "clear" => (tmp' # NUL => ~polled)]_vars
  BY Zenon DEF PolledCleared, Next, vars, bufferVars, key_pressed, key_released, keyboard_getchar_read,
         keyboard_getchar_advance, keyboard_lastchar_read, keyboard_lastchar_clear
<1> QED BY <1>1, <1>2, <1>3, PTL DEF Spec, NoPressTwice

=============================================================================
