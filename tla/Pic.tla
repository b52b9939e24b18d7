--------------------------------- MODULE Pic ---------------------------------
(***************************************************************************)
(* The two cascaded 8259 interrupt controllers as pic.c drives them, from  *)
(* a device raising its line to the end-of-interrupt command that          *)
(* irq_handler sends before it calls the handlers.                         *)
(*                                                                         *)
(* Line n of 0..15 is input n % 8 of chip 1 (the master, n < 8) or of chip *)
(* 2 (the slave), whose output is input 2 of the master.  An input of      *)
(* lower number has priority.  What the chips themselves do is external.   *)
(***************************************************************************)
EXTENDS Naturals, FiniteSets, FiniteSetsExt

CONSTANTS
  Devices,      \* the lines that have a device
  CounterRange  \* 2^32 in the kernel: where bad_irqs and ticks wrap

ASSUME DevicesAssumption == Devices \subseteq (0..15) \ {2}
ASSUME CounterAssumption == CounterRange \in Nat \ {0, 1}

VARIABLES
  imr, irr, isr,  \* mask, request and in-service register, by chip: sets of inputs
  cpu,            \* "run", the two bus cycles "pin" and "slave" of an
                  \* acknowledgement, or "irq": in the interrupt stub
  int_no,         \* the line the stub was entered for, 0 outside it
  soft,           \* it was entered by the int instruction of switch_next
  bad_irqs,       \* spurious interrupts counted by pic_acknowledge
  ticks           \* timer interrupts counted by pit_handler

vars == <<imr, irr, isr, cpu, int_no, soft, bad_irqs, ticks>>

Inputs == 0..7
chip(irq) == IF irq < 8 THEN 1 ELSE 2
input(irq) == irq % 8

\* pic_init: every line masked but the one to the slave.
Init ==
  /\ imr = <<Inputs \ {2}, Inputs>>
  /\ irr = <<{}, {}>>
  /\ isr = <<{}, {}>>
  /\ cpu = "run"
  /\ int_no = 0
  /\ soft = FALSE
  /\ bad_irqs = 0
  /\ ticks = 0

-----------------------------------------------------------------------------
(* The chips.                                                              *)

\* Inputs of chip c that may interrupt: requested, not masked and of higher
\* priority than any in service.
Eligible(c, requests) == {i \in requests \ imr[c] : \A s \in isr[c] : i < s}
SlaveRequests == Eligible(2, irr[2])
MasterRequests == Eligible(1, irr[1] \cup IF SlaveRequests = {} THEN {} ELSE {2})

Raise(irq) ==
  /\ irr' = [irr EXCEPT ![chip(irq)] = @ \cup {input(irq)}]
  /\ UNCHANGED <<imr, isr, cpu, int_no, soft, bad_irqs, ticks>>

\* The device withdraws its request before it was acknowledged.
Drop(irq) ==
  /\ input(irq) \in irr[chip(irq)]
  /\ irr' = [irr EXCEPT ![chip(irq)] = @ \ {input(irq)}]
  /\ UNCHANGED <<imr, isr, cpu, int_no, soft, bad_irqs, ticks>>

\* The master raises INTR and the processor, interrupts enabled, stops for it.
Signal ==
  /\ cpu = "run"
  /\ MasterRequests # {}
  /\ cpu' = "pin"
  /\ UNCHANGED <<imr, irr, isr, int_no, soft, bad_irqs, ticks>>

\* Chip c answers an acknowledge cycle: its first request goes in service; with
\* no request left it answers input 7 and nothing goes in service.
Answer(c, requests) ==
  IF requests = {}
  THEN UNCHANGED <<irr, isr>>
  ELSE /\ isr' = [isr EXCEPT ![c] = @ \cup {Min(requests)}]
       /\ irr' = [irr EXCEPT ![c] = @ \ {Min(requests)}]

AcknowledgeMaster ==
  /\ cpu = "pin"
  /\ Answer(1, MasterRequests)
  /\ IF MasterRequests # {} /\ Min(MasterRequests) = 2
     THEN cpu' = "slave" /\ UNCHANGED int_no
     ELSE cpu' = "irq" /\ int_no' = IF MasterRequests = {} THEN 7 ELSE Min(MasterRequests)
  /\ UNCHANGED <<imr, soft, bad_irqs, ticks>>

AcknowledgeSlave ==
  /\ cpu = "slave"
  /\ Answer(2, SlaveRequests)
  /\ cpu' = "irq"
  /\ int_no' = 8 + IF SlaveRequests = {} THEN 7 ELSE Min(SlaveRequests)
  /\ UNCHANGED <<imr, soft, bad_irqs, ticks>>

\* The end-of-interrupt command takes the first input of chip c out of service.
EOI(c, service) ==
  [service EXCEPT ![c] = IF @ = {} THEN @ ELSE @ \ {Min(@)}]

-----------------------------------------------------------------------------
(* pic.c                                                                   *)

pic_is_spurious_7 == 7 \notin isr[1]
pic_is_spurious_15 == 7 \notin isr[2]

is_spurious(irq) ==
  \/ irq = 7 /\ pic_is_spurious_7
  \/ irq = 15 /\ pic_is_spurious_15

\* Fault: line 7 is taken for spurious without a look at the register.
pic_acknowledge_always7(irq) ==
  IF irq = 7 \/ is_spurious(irq)
  THEN /\ bad_irqs' = (bad_irqs + 1) % CounterRange
       /\ isr' = IF irq = 15 \/ ~is_spurious(irq) THEN EOI(1, isr) ELSE isr
  ELSE /\ isr' = EOI(1, IF irq >= 8 THEN EOI(2, isr) ELSE isr)
       /\ UNCHANGED bad_irqs

\* Fault: nothing is sent for a spurious line 15.
pic_acknowledge_silent15(irq) ==
  IF is_spurious(irq)
  THEN /\ bad_irqs' = (bad_irqs + 1) % CounterRange
       /\ UNCHANGED isr
  ELSE /\ isr' = EOI(1, IF irq >= 8 THEN EOI(2, isr) ELSE isr)
       /\ UNCHANGED bad_irqs

pic_acknowledge(irq) ==
  IF is_spurious(irq)
  THEN /\ bad_irqs' = (bad_irqs + 1) % CounterRange
       /\ isr' = IF irq = 15 THEN EOI(1, isr) ELSE isr
  ELSE /\ isr' = EOI(1, IF irq >= 8 THEN EOI(2, isr) ELSE isr)
       /\ UNCHANGED bad_irqs

\* Kernel code: nothing else writes the masks, so reading a mask and writing it
\* back is one step.
pic_disable_irq(irq) ==
  /\ cpu = "run"
  /\ imr' = [imr EXCEPT ![chip(irq)] = @ \cup {input(irq)}]
  /\ UNCHANGED <<irr, isr, cpu, int_no, soft, bad_irqs, ticks>>

pic_enable_irq(irq) ==
  /\ cpu = "run"
  /\ imr' = [imr EXCEPT ![chip(irq)] = @ \ {input(irq)}]
  /\ UNCHANGED <<irr, isr, cpu, int_no, soft, bad_irqs, ticks>>

pic_disable ==
  /\ cpu = "run"
  /\ imr' = <<Inputs \ {2}, Inputs>>
  /\ UNCHANGED <<irr, isr, cpu, int_no, soft, bad_irqs, ticks>>

\* Fault: an interrupt nobody asked for stops the kernel, as in isr_handler.
irq_handler_stop ==
  /\ cpu = "irq" /\ ~is_spurious(int_no)
  /\ pic_acknowledge(int_no)
  /\ ticks' = IF int_no = 0 THEN (ticks + 1) % CounterRange ELSE ticks
  /\ cpu' = "run"
  /\ int_no' = 0
  /\ soft' = FALSE
  /\ UNCHANGED <<imr, irr>>

\* The whole of irq_handler: the gates leave interrupts disabled until iret.
\* The one handler with state here is the timer's.
irq_handler ==
  /\ cpu = "irq"
  /\ pic_acknowledge(int_no)
  /\ ticks' = IF int_no = 0 THEN (ticks + 1) % CounterRange ELSE ticks
  /\ cpu' = "run"
  /\ int_no' = 0
  /\ soft' = FALSE
  /\ UNCHANGED <<imr, irr>>

\* A thread gives up the processor through the timer's gate: no request stands
\* behind it, but irq_handler sends its end-of-interrupt command all the same.
switch_next ==
  /\ cpu = "run"
  /\ cpu' = "irq"
  /\ soft' = TRUE
  /\ UNCHANGED <<imr, irr, isr, int_no, bad_irqs, ticks>>

-----------------------------------------------------------------------------

Next ==
  \/ \E irq \in Devices : Raise(irq) \/ Drop(irq)
  \/ Signal
  \/ AcknowledgeMaster
  \/ AcknowledgeSlave
  \/ \E irq \in Devices : pic_enable_irq(irq) \/ pic_disable_irq(irq)
  \/ pic_disable
  \/ switch_next
  \/ irq_handler

Spec == Init /\ [][Next]_vars

\* The processor looks at INTR between any two instructions, so a request that
\* finds interrupts enabled again and again is accepted; the chips answer its
\* cycles, and once interrupted it runs the handler.
FairSpec ==
  /\ Spec
  /\ SF_vars(Signal)
  /\ WF_vars(AcknowledgeMaster)
  /\ WF_vars(AcknowledgeSlave)
  /\ WF_vars(irq_handler)

-----------------------------------------------------------------------------

\* When the kernel runs with interrupts enabled neither chip has an input in
\* service: every interrupt, spurious or not, from the master or through the
\* slave, was ended with exactly the commands it needs, and the command that
\* switch_next causes finds nothing to end.  An input left in
\* service would block its own line and all below it for ever.
NothingLeftInService ==
  cpu \in {"run", "pin"} => isr = <<{}, {}>>

\* pic_acknowledge counts an interrupt as spurious, and irq_handler then ignores
\* it, exactly when no device's request stands behind it.
SpuriousIffNoRequest ==
  [][cpu = "irq" /\ ~soft /\ cpu' = "run" =>
       (bad_irqs' # bad_irqs <=> input(int_no) \notin isr[chip(int_no)])]_vars

\* A request of the timer, the line of highest priority, is served unless it
\* is withdrawn or masked: whatever the other devices do and however many
\* interrupts turn out spurious, schedule_tick goes on being called.
TimerServed ==
  0 \in irr[1] \ imr[1] ~> ((cpu = "irq" /\ int_no = 0 /\ ~soft) \/ 0 \notin irr[1] \ imr[1])

=============================================================================
