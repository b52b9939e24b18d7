------------------------------ MODULE PicProofs ------------------------------
(***************************************************************************)
(* No input is left in service and only interrupts without a request are   *)
(* counted as spurious, whichever lines have devices and wherever the      *)
(* counters wrap.  The inductive invariant says what is in service at each *)
(* point of an interrupt: the line the stub was entered for and, for a     *)
(* line of the slave, the master's input 2, and nothing else.              *)
(***************************************************************************)
EXTENDS Pic, TLAPS

\* The registers the service invariant is about.
RTypeOK ==
  /\ irr \in [1..2 -> SUBSET Inputs]
  /\ isr \in [1..2 -> SUBSET Inputs]
  /\ int_no \in 0..15 /\ soft \in BOOLEAN
  /\ bad_irqs \in 0..CounterRange - 1
  /\ cpu \in {"run", "pin", "slave", "irq"}

InService ==
  /\ cpu \in {"run", "pin"} => isr[1] = {} /\ isr[2] = {} /\ int_no = 0
  /\ cpu # "irq" => soft = FALSE
  /\ cpu = "slave" => isr[1] = {2} /\ isr[2] = {}
  /\ cpu = "irq" /\ soft => int_no = 0 /\ isr[1] = {} /\ isr[2] = {}
  /\ cpu = "irq" /\ ~soft /\ int_no < 8 =>
       isr[2] = {} /\ (isr[1] = {int_no} \/ (int_no = 7 /\ isr[1] = {}))
  /\ cpu = "irq" /\ ~soft /\ int_no >= 8 =>
       isr[1] = {2} /\ (isr[2] = {int_no - 8} \/ (int_no = 15 /\ isr[2] = {}))

ServiceInvariant == RTypeOK /\ InService

\* The first input of a set.
LEMMA MinOfInputs ==
  ASSUME NEW S \in SUBSET Inputs, S # {}
  PROVE  Min(S) \in S /\ Min(S) \in Inputs
<1>1. \E i \in S : \A j \in S : i =< j
  <2>1. \E i \in S : i \in Inputs
    OBVIOUS
  <2>2. \A j \in S : j \in {0, 1, 2, 3, 4, 5, 6, 7}
    BY DEF Inputs
  <2> QED BY <2>1, <2>2 DEF Inputs
<1> QED BY <1>1 DEF Min

\* Ending the only input in service leaves none.
LEMMA EOIEnds ==
  ASSUME NEW service \in [1..2 -> SUBSET Inputs], NEW n \in 1..2, NEW i \in Inputs,
         service[n] \subseteq {i}
  PROVE  /\ EOI(n, service) \in [1..2 -> SUBSET Inputs]
         /\ EOI(n, service)[n] = {}
         /\ \A m \in 1..2 : m # n => EOI(n, service)[m] = service[m]
<1>1. CASE service[n] = {}
  BY <1>1 DEF EOI
<1>2. CASE service[n] = {i}
  <2>1. Min(service[n]) = i
    BY <1>2, MinOfInputs
  <2> QED BY <1>2, <2>1 DEF EOI
<1> QED BY <1>1, <1>2

\* A chip that answers puts its first request in service, and no other input.
LEMMA AnswerServes ==
  ASSUME RTypeOK, NEW n \in 1..2, NEW requests \in SUBSET Inputs, Answer(n, requests), isr[n] = {}
  PROVE  /\ irr' \in [1..2 -> SUBSET Inputs] /\ isr' \in [1..2 -> SUBSET Inputs]
         /\ isr'[n] = IF requests = {} THEN {} ELSE {Min(requests)}
         /\ \A m \in 1..2 : m # n => isr'[m] = isr[m]
<1>1. CASE requests = {}
  BY <1>1 DEF Answer, RTypeOK
<1>2. CASE requests # {}
  <2>1. Min(requests) \in Inputs
    BY <1>2, MinOfInputs
  <2>2. /\ isr' = [isr EXCEPT ![n] = isr[n] \cup {Min(requests)}]
        /\ irr' = [irr EXCEPT ![n] = irr[n] \ {Min(requests)}]
    BY <1>2 DEF Answer
  <2>3. isr' \in [1..2 -> SUBSET Inputs]
    BY <2>1, <2>2 DEF RTypeOK
  <2>4. irr' \in [1..2 -> SUBSET Inputs]
    BY <2>2 DEF RTypeOK
  <2> QED BY <1>2, <2>2, <2>3, <2>4 DEF RTypeOK
<1> QED BY <1>1, <1>2

\* Whatever the stub was entered for, the commands of pic_acknowledge end all that
\* is in service, and the counter moves exactly for an interrupt without request.
LEMMA AcknowledgeEnds ==
  ASSUME ServiceInvariant, cpu = "irq", pic_acknowledge(int_no)
  PROVE  /\ isr' \in [1..2 -> SUBSET Inputs] /\ isr'[1] = {} /\ isr'[2] = {}
         /\ bad_irqs' \in 0..CounterRange - 1
         /\ ~soft => (bad_irqs' # bad_irqs <=> input(int_no) \notin isr[chip(int_no)])
<1> USE CounterAssumption
<1> USE DEF ServiceInvariant
<1>1. /\ isr \in [1..2 -> SUBSET Inputs] /\ int_no \in 0..15 /\ soft \in BOOLEAN
      /\ bad_irqs \in 0..CounterRange - 1
  BY DEF RTypeOK
<1>2. (bad_irqs + 1) % CounterRange \in 0..CounterRange - 1 /\ (bad_irqs + 1) % CounterRange # bad_irqs
  <2>1. CASE bad_irqs + 1 < CounterRange
    BY <1>1, <2>1
  <2>2. CASE bad_irqs + 1 = CounterRange
    BY <1>1, <2>2
  <2> QED BY <1>1, <2>1, <2>2
<1>3. CASE int_no < 8
  <2>1. isr[2] = {} /\ isr[1] \subseteq {int_no} /\ int_no \in Inputs
    BY <1>1, <1>3 DEF InService, Inputs
  <2>2. chip(int_no) = 1 /\ input(int_no) = int_no
    BY <1>1, <1>3 DEF chip, input
  <2>3. CASE is_spurious(int_no)
    <3>1. int_no = 7 /\ isr[1] = {}
      BY <1>3, <2>1, <2>3 DEF is_spurious, pic_is_spurious_7
    <3>2. isr' = isr /\ bad_irqs' = (bad_irqs + 1) % CounterRange
      BY <2>3, <3>1 DEF pic_acknowledge
    <3> QED BY <1>1, <1>2, <2>1, <2>2, <3>1, <3>2
  <2>4. CASE ~is_spurious(int_no)
    <3>1. isr' = EOI(1, isr) /\ bad_irqs' = bad_irqs
      BY <1>1, <1>3, <2>4 DEF pic_acknowledge
    <3>2. ~soft => int_no \in isr[1]
      BY <1>3, <2>1, <2>4 DEF InService, is_spurious, pic_is_spurious_7
    <3> QED BY <1>1, <2>1, <2>2, <3>1, <3>2, EOIEnds
  <2> QED BY <2>3, <2>4
<1>4. CASE int_no >= 8
  <2>1. ~soft /\ isr[1] = {2} /\ isr[2] \subseteq {int_no - 8} /\ int_no - 8 \in Inputs /\ 2 \in Inputs
    BY <1>1, <1>4 DEF InService, Inputs
  <2>2. chip(int_no) = 2 /\ input(int_no) = int_no - 8
    BY <1>1, <1>4 DEF chip, input
  <2>3. CASE is_spurious(int_no)
    <3>1. int_no = 15 /\ isr[2] = {}
      BY <1>4, <2>1, <2>3 DEF is_spurious, pic_is_spurious_15
    <3>2. isr' = EOI(1, isr) /\ bad_irqs' = (bad_irqs + 1) % CounterRange
      BY <2>3, <3>1 DEF pic_acknowledge
    <3> QED BY <1>1, <1>2, <2>1, <2>2, <3>1, <3>2, EOIEnds
  <2>4. CASE ~is_spurious(int_no)
    <3>1. isr' = EOI(1, EOI(2, isr)) /\ bad_irqs' = bad_irqs
      BY <1>1, <1>4, <2>4 DEF pic_acknowledge
    <3>2. int_no - 8 \in isr[2]
      BY <1>4, <2>1, <2>4 DEF InService, is_spurious, pic_is_spurious_15
    <3>3. /\ EOI(2, isr) \in [1..2 -> SUBSET Inputs]
          /\ EOI(2, isr)[2] = {} /\ EOI(2, isr)[1] = {2}
      BY <1>1, <2>1, EOIEnds
    <3> QED BY <1>1, <2>1, <2>2, <3>1, <3>2, <3>3, EOIEnds
  <2> QED BY <2>3, <2>4
<1> QED BY <1>1, <1>3, <1>4

\* Each step of the devices, the chips and the kernel keeps the invariant.
LEMMA StepServes ==
  ASSUME ServiceInvariant, [Next]_vars
  PROVE  ServiceInvariant'
<1> USE DEF ServiceInvariant
<1>0. /\ irr \in [1..2 -> SUBSET Inputs] /\ isr \in [1..2 -> SUBSET Inputs] /\ soft \in BOOLEAN
      /\ int_no \in 0..15 /\ bad_irqs \in 0..CounterRange - 1
  BY DEF RTypeOK
<1>1. ASSUME NEW irq \in Devices, Raise(irq) \/ Drop(irq) PROVE ServiceInvariant'
  <2>1. UNCHANGED <<isr, cpu, int_no, soft, bad_irqs>>
    BY <1>1 DEF Raise, Drop
  <2>2. chip(irq) \in 1..2 /\ input(irq) \in Inputs
    BY DevicesAssumption DEF chip, input, Inputs
  <2>3. irr' \in [1..2 -> SUBSET Inputs]
    BY <1>0, <1>1, <2>2 DEF Raise, Drop
  <2> QED BY <2>1, <2>3 DEF RTypeOK, InService
<1>2. CASE Signal
  BY <1>2 DEF Signal, RTypeOK, InService
<1>3. CASE AcknowledgeMaster
  <2>1. cpu = "pin" /\ soft = FALSE /\ isr[1] = {} /\ isr[2] = {} /\ UNCHANGED <<soft, bad_irqs>>
    BY <1>3 DEF AcknowledgeMaster, InService
  <2> DEFINE M == MasterRequests
  <2>2. M \in SUBSET Inputs
    BY <1>0 DEF MasterRequests, Eligible, Inputs
  <2>3. /\ irr' \in [1..2 -> SUBSET Inputs] /\ isr' \in [1..2 -> SUBSET Inputs]
        /\ isr'[1] = (IF M = {} THEN {} ELSE {Min(M)}) /\ isr'[2] = {}
    <3>1. RTypeOK /\ Answer(1, M) /\ 1 \in 1..2 /\ 2 \in 1..2 /\ 2 # 1
      BY <1>3 DEF AcknowledgeMaster
    <3> HIDE DEF M
    <3> QED BY <2>1, <2>2, <3>1, AnswerServes
  <2>4. M # {} => Min(M) \in 0..7
    BY <2>2, MinOfInputs DEF Inputs
  <2>5. CASE M # {} /\ Min(M) = 2
    <3>1. cpu' = "slave" /\ UNCHANGED int_no
      BY <1>3, <2>5 DEF AcknowledgeMaster
    <3> QED BY <1>0, <2>1, <2>3, <2>5, <3>1 DEF RTypeOK, InService
  <2>6. CASE ~(M # {} /\ Min(M) = 2)
    <3>1. cpu' = "irq" /\ int_no' = IF M = {} THEN 7 ELSE Min(M)
      BY <1>3, <2>6 DEF AcknowledgeMaster
    <3> HIDE DEF M
    <3> QED BY <1>0, <2>1, <2>3, <2>4, <3>1 DEF RTypeOK, InService
  <2> QED BY <2>5, <2>6
<1>4. CASE AcknowledgeSlave
  <2>1. cpu = "slave" /\ soft = FALSE /\ isr[1] = {2} /\ isr[2] = {} /\ UNCHANGED <<soft, bad_irqs>>
    BY <1>4 DEF AcknowledgeSlave, InService
  <2> DEFINE M == SlaveRequests
  <2>2. M \in SUBSET Inputs
    BY <1>0 DEF SlaveRequests, Eligible
  <2>3. /\ irr' \in [1..2 -> SUBSET Inputs] /\ isr' \in [1..2 -> SUBSET Inputs]
        /\ isr'[2] = (IF M = {} THEN {} ELSE {Min(M)}) /\ isr'[1] = {2}
    <3>1. RTypeOK /\ Answer(2, M) /\ 1 \in 1..2 /\ 2 \in 1..2 /\ 2 # 1
      BY <1>4 DEF AcknowledgeSlave
    <3> HIDE DEF M
    <3> QED BY <2>1, <2>2, <3>1, AnswerServes
  <2>4. M # {} => Min(M) \in 0..7
    BY <2>2, MinOfInputs DEF Inputs
  <2>5. cpu' = "irq" /\ int_no' = 8 + IF M = {} THEN 7 ELSE Min(M)
    BY <1>4 DEF AcknowledgeSlave
  <2> HIDE DEF M
  <2> QED BY <1>0, <2>1, <2>3, <2>4, <2>5 DEF RTypeOK, InService
<1>5. ASSUME NEW irq \in Devices, pic_enable_irq(irq) \/ pic_disable_irq(irq) PROVE ServiceInvariant'
  BY <1>5 DEF pic_enable_irq, pic_disable_irq, RTypeOK, InService
<1>6. CASE pic_disable
  BY <1>6 DEF pic_disable, RTypeOK, InService
<1>7. CASE switch_next
  BY <1>7 DEF switch_next, RTypeOK, InService
<1>8. CASE irq_handler
  <2>1. /\ isr' \in [1..2 -> SUBSET Inputs] /\ isr'[1] = {} /\ isr'[2] = {}
        /\ bad_irqs' \in 0..CounterRange - 1
    BY <1>8, AcknowledgeEnds DEF irq_handler
  <2>2. cpu' = "run" /\ int_no' = 0 /\ soft' = FALSE /\ irr' = irr
    BY <1>8 DEF irq_handler
  <2>3. RTypeOK'
    <3>1. 0 \in 0..15 /\ FALSE \in BOOLEAN
      OBVIOUS
    <3> QED BY <1>0, <2>1, <2>2, <3>1, Zenon DEF RTypeOK
  <2>4. InService'
    BY <2>1, <2>2 DEF InService
  <2> QED BY <2>3, <2>4
<1>9. CASE UNCHANGED vars
  BY <1>9 DEF vars, RTypeOK, InService
<1> QED BY <1>1, <1>2, <1>3, <1>4, <1>5, <1>6, <1>7, <1>8, <1>9 DEF Next

\* The invariant holds from pic_init on.
THEOREM ServiceAlways == Spec => []ServiceInvariant
<1>1. Init => ServiceInvariant
  <2> SUFFICES ASSUME Init PROVE ServiceInvariant
    OBVIOUS
  <2>1. irr \in [1..2 -> SUBSET Inputs] /\ isr \in [1..2 -> SUBSET Inputs]
    BY DEF Init
  <2>2. isr[1] = {} /\ isr[2] = {} /\ int_no = 0 /\ cpu = "run" /\ soft = FALSE /\ bad_irqs = 0
    BY DEF Init
  <2>3. RTypeOK
    <3>1. 0 \in 0..15 /\ FALSE \in BOOLEAN /\ 0 \in 0..CounterRange - 1
      BY CounterAssumption
    <3> QED BY <2>1, <2>2, <3>1, Zenon DEF RTypeOK
  <2>4. InService
    BY <2>2 DEF InService
  <2> QED BY <2>3, <2>4 DEF ServiceInvariant
<1> QED BY <1>1, StepServes, PTL DEF Spec

\* With interrupts enabled nothing is in service, whichever lines have devices:
\* pic_acknowledge has ended every interrupt, real or spurious, and switch_next's.
THEOREM NothingEverLeftInService == Spec => []NothingLeftInService
<1>1. ServiceInvariant => NothingLeftInService
  BY DEF ServiceInvariant, RTypeOK, InService, NothingLeftInService
<1> QED BY <1>1, ServiceAlways, PTL

\* pic_acknowledge counts as spurious exactly the interrupts no request is behind.
THEOREM SpuriousAlwaysMeansNoRequest == Spec => SpuriousIffNoRequest
<1>1. ASSUME ServiceInvariant, [Next]_vars
      PROVE  [cpu = "irq" /\ ~soft /\ cpu' = "run" =>
                (bad_irqs' # bad_irqs <=> input(int_no) \notin isr[chip(int_no)])]_vars
  <2> SUFFICES ASSUME Next, cpu = "irq", ~soft, cpu' = "run"
               PROVE  bad_irqs' # bad_irqs <=> input(int_no) \notin isr[chip(int_no)]
    BY <1>1
  <2>1. irq_handler
    BY DEF Next, Raise, Drop, Signal, AcknowledgeMaster, AcknowledgeSlave, pic_enable_irq,
           pic_disable_irq, pic_disable, switch_next
  <2> QED BY <1>1, <2>1, AcknowledgeEnds DEF irq_handler
<1> QED BY <1>1, ServiceAlways, PTL DEF Spec, SpuriousIffNoRequest

=============================================================================
