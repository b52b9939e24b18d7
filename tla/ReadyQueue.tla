------------------------------ MODULE ReadyQueue ------------------------------
(***************************************************************************)
(* What the scheduler promises, without its links: a first-in first-out    *)
(* queue of threads whose head has the processor.  A new thread goes to    *)
(* the end, a tick sends the head to the end, and a thread that has        *)
(* finished leaves from the head, at the next tick and never otherwise.    *)
(***************************************************************************)
EXTENDS Naturals, Sequences

CONSTANT Threads

VARIABLES
  queue,     \* the scheduled threads, in the order they will run
  kernel,    \* the thread that never finishes, once there is one
  finished,  \* the head has asked to end
  halted     \* the kernel has stopped

vars == <<queue, kernel, finished, halted>>

Members == {queue[i] : i \in 1..Len(queue)}

Init ==
  /\ queue = <<>>
  /\ kernel = {}
  /\ finished = FALSE
  /\ halted = FALSE

Start ==
  /\ queue = <<>>
  /\ \E t \in Threads : queue' = <<t>> /\ kernel' = {t}
  /\ UNCHANGED <<finished, halted>>

\* Only the kernel thread adds threads.
Enqueue ==
  /\ queue # <<>> /\ Head(queue) \in kernel
  /\ \E t \in Threads \ Members : queue' = Append(queue, t)
  /\ UNCHANGED <<kernel, finished, halted>>

Finish ==
  /\ queue # <<>> /\ Head(queue) \notin kernel
  /\ finished' = TRUE
  /\ UNCHANGED <<queue, kernel, halted>>

Rotate ==
  /\ ~finished /\ queue # <<>>
  /\ queue' = Append(Tail(queue), Head(queue))
  /\ UNCHANGED <<kernel, finished, halted>>

Leave ==
  /\ finished
  /\ queue' = Tail(queue)
  /\ finished' = FALSE
  /\ UNCHANGED <<kernel, halted>>

Halt ==
  /\ halted' = TRUE
  /\ UNCHANGED <<queue, kernel, finished>>

Next == ~halted /\ (Start \/ Enqueue \/ Finish \/ Rotate \/ Leave \/ Halt)

Spec == Init /\ [][Next]_vars

=============================================================================
