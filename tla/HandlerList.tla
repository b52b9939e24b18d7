----------------------------- MODULE HandlerList -----------------------------
(***************************************************************************)
(* The handlers of one interrupt vector (system.c): a doubly linked list   *)
(* threaded through a fixed array of MAX_HANDLERS slots, with the index of *)
(* its first slot in handlers_heads.  A slot is free when its handler      *)
(* field is 0.                                                             *)
(*                                                                         *)
(* One caller at a time attaches and detaches, and the interrupts that     *)
(* come meanwhile only walk the list, so each call is one step.            *)
(***************************************************************************)
EXTENDS Naturals, FiniteSets, SequencesExt

CONSTANTS
  Handlers,      \* the functions that can be attached
  NoHandler,     \* a handler field that is 0
  MAX_HANDLERS

ASSUME NoHandlerAssumption == NoHandler \notin Handlers
ASSUME SlotsAssumption == MAX_HANDLERS \in Nat \ {0}

VARIABLES
  slot,      \* the array handlers[num]; index is not modelled, nothing reads it
  head,      \* handlers_heads[num]
  attached   \* what the callers asked for: the attached handlers, oldest first

hvars == <<slot, head, attached>>

None == MAX_HANDLERS  \* a next or prev pointer that is 0
Slots == 0..MAX_HANDLERS - 1

HandlersInit ==
  /\ slot = [s \in Slots |-> [handler |-> NoHandler, next |-> None, prev |-> None]]
  /\ head = 0
  /\ attached = <<>>

-----------------------------------------------------------------------------

get_interrupt_handler == IF slot[head].handler # NoHandler THEN head ELSE None

\* The slots the loop of isr_handler and irq_handler visits, from h on; fuel
\* ends a walk that would not end.
RECURSIVE WalkFrom(_, _)
WalkFrom(h, fuel) ==
  IF h = None \/ fuel = 0 THEN <<>> ELSE <<h>> \o WalkFrom(slot[h].next, fuel - 1)

Walk == WalkFrom(get_interrupt_handler, MAX_HANDLERS + 1)
Called == [i \in DOMAIN Walk |-> slot[Walk[i]].handler]

\* The first free slot, as the scan from 0 finds it.
FirstFree == {s \in Slots : /\ slot[s].handler = NoHandler
                            /\ \A r \in 0..s - 1 : slot[r].handler # NoHandler}

\* Fault: a slot that is used again keeps its old next pointer.
attach_interrupt_handler_stale(h) ==
  \E n \in FirstFree :
    LET tail == IF Walk = <<>> THEN None ELSE Last(Walk)
    IN  /\ slot' = [s \in Slots |->
             IF s = n THEN [slot[n] EXCEPT !.handler = h, !.prev = tail]
             ELSE IF s = tail THEN [slot[s] EXCEPT !.next = n]
             ELSE slot[s]]
        /\ attached' = Append(attached, h)
        /\ UNCHANGED head

attach_interrupt_handler(h) ==
  \E n \in FirstFree :
    LET tail == IF Walk = <<>> THEN None ELSE Last(Walk)
    IN  /\ slot' = [s \in Slots |->
             IF s = n THEN [handler |-> h, next |-> None, prev |-> tail]
             ELSE IF s = tail THEN [slot[s] EXCEPT !.next = n]
             ELSE slot[s]]
        /\ attached' = Append(attached, h)
        /\ UNCHANGED head

\* Fault: the search from the tail stops before it reaches the head.
LastOccurrence_tail(h) ==
  {i \in DOMAIN Walk \ {1} : /\ Called[i] = h
                             /\ \A j \in i + 1..Len(Walk) : Called[j] # h}

\* Where the search from the tail finds h.
LastOccurrence(h) ==
  {i \in DOMAIN Walk : /\ Called[i] = h
                       /\ \A j \in i + 1..Len(Walk) : Called[j] # h}

\* The caller's view of detach: the youngest h is no longer attached.
Forget(h) ==
  IF \E i \in DOMAIN attached : attached[i] = h
  THEN RemoveAt(attached, CHOOSE i \in DOMAIN attached :
                            /\ attached[i] = h
                            /\ \A j \in i + 1..Len(attached) : attached[j] # h)
  ELSE attached

\* Slot s leaves the list and becomes free; its own pointers keep their values.
unlink(s) ==
  /\ slot' = [r \in Slots |->
       IF r = s THEN [slot[s] EXCEPT !.handler = NoHandler]
       ELSE IF r = slot[s].prev THEN [slot[r] EXCEPT !.next = slot[s].next]
       ELSE IF r = slot[s].next THEN [slot[r] EXCEPT !.prev = slot[s].prev]
       ELSE slot[r]]
  /\ head' = IF slot[s].next # None /\ slot[s].prev = None THEN slot[s].next ELSE head

detach_interrupt_handler(h) ==
  /\ \/ \E i \in LastOccurrence(h) : unlink(Walk[i])
     \/ LastOccurrence(h) = {} /\ UNCHANGED <<slot, head>>
  /\ attached' = Forget(h)

HandlersNext == \E h \in Handlers : attach_interrupt_handler(h) \/ detach_interrupt_handler(h)

HandlersSpec == HandlersInit /\ [][HandlersNext]_hvars

-----------------------------------------------------------------------------

\* The loop that calls the handlers of a vector ends, visits no slot twice and
\* never calls through a free slot, whatever was attached and detached before;
\* and prev leads back the same way, which the search of detach from the tail
\* relies on to reach every handler.
WalkSound ==
  /\ IsInjective(Walk)
  /\ \A i \in DOMAIN Walk :
       /\ slot[Walk[i]].handler # NoHandler
       /\ slot[Walk[i]].prev = IF i = 1 THEN None ELSE Walk[i - 1]

\* The one way in which a handler stays attached and is not called: it comes first
\* into a list that was emptied while its head was another slot than the first.
\* No attachment to a list in use and no detachment, at the head, in the middle or
\* at the tail, loses, adds or reorders a call (attach_interrupt_handler,
\* detach_interrupt_handler).
LostOnlyBehindStaleHead ==
  [][Called = attached => Called' = attached' \/ (attached = <<>> /\ head # 0)]_hvars

(* What a comment of system.c says and a run refutes.                      *)

\* An interrupt calls the attached handlers, all of them, in the order they were
\* attached.  "if h->next is 0, the list is empty and head will be 0", says
\* detach_interrupt_handler; the slot attach_interrupt_handler finds would then
\* be the one get_interrupt_handler begins with.
AllAttachedCalled == Called = attached

=============================================================================
