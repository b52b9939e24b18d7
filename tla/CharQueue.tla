------------------------------ MODULE CharQueue ------------------------------
(***************************************************************************)
(* What the keyboard buffer promises: a queue of at most Capacity          *)
(* characters from which keyboard_getchar takes the oldest.  A character   *)
(* that finds the queue full is dropped.                                   *)
(***************************************************************************)
EXTENDS Naturals, Sequences

CONSTANTS Chars, Capacity
VARIABLES queue, result

Init == queue = <<>> /\ result \in Chars

Put(c) ==
  /\ queue' = IF Len(queue) < Capacity THEN Append(queue, c) ELSE queue
  /\ UNCHANGED result

Get ==
  /\ queue # <<>>
  /\ result' = Head(queue)
  /\ queue' = Tail(queue)

Next == (\E c \in Chars : Put(c)) \/ Get

Spec == Init /\ [][Next]_<<queue, result>>

=============================================================================
