------------------------------ MODULE Scheduler ------------------------------
(***************************************************************************)
(* The round-robin scheduler (scheduler.c) and the life of a thread        *)
(* (thread.c): a circular doubly linked list of thread_t structures, the   *)
(* thread that runs, and the timer interrupt that moves from one to the    *)
(* next and frees the finished ones.                                       *)
(*                                                                         *)
(* One processor.  Code between irq_save/irq_disable and irq_restore/      *)
(* irq_enable, and every interrupt and system call (all gates clear IF),   *)
(* is one atomic step; anything else may be interrupted between steps.     *)
(***************************************************************************)
EXTENDS Integers, FiniteSets

CONSTANTS
  Threads,           \* the addresses kmalloc can give to a thread_t
  Processes,         \* the processes main created, each with its page directory
  Null,              \* the null pointer
  kernel_directory,  \* the page directory of the kernel
  StackFrames,       \* trap frames that fit in STACK_SIZE bytes
  MaxId              \* bound on the thread ids handed out

ASSUME NullAssumption == Null \notin Threads
ASSUME FiniteAssumption == IsFiniteSet(Threads)
ASSUME StackAssumption == StackFrames \in Nat \ {0}
ASSUME MaxIdAssumption == MaxId \in Nat

VARIABLES
  heap,              \* the heap blocks in use: <<t, "thread">>, <<t, "kstack">>, ...
  state, next, prev, \* fields of thread_t, by address
  id, ustack, page_dir,
  esp,               \* thread_t.esp: trap frames on the kernel stack of the thread
  kernel_thread, current_thread, scheduling, num_threads,
  last_id,           \* the static id of request_thread_id
  tss_esp0,          \* tss_entry.esp0: a kernel stack and the frames below it
  current_directory,
  call,              \* the call of create_thread that main has in progress
  smashed,           \* threads whose kernel stack has overwritten its block header
  status             \* "ok" until the kernel stops

threadVars == <<state, next, prev, id, ustack, page_dir, esp>>
schedVars == <<kernel_thread, current_thread, scheduling, num_threads>>
cpuVars == <<tss_esp0, current_directory>>
vars == <<heap, threadVars, schedVars, last_id, cpuVars, call, smashed, status>>

TASK_SLEEP == 0
TASK_READY == 1
TASK_RUNNING == 2
TASK_FINISHED == 3

Directories == Processes \cup {kernel_directory}
Blocks == Threads \X {"thread", "kstack", "ustack"}
Pointers == Threads \cup {Null}

\* thread_t structures allocated and not yet freed.
Live == {t \in Threads : <<t, "thread">> \in heap}

\* Structures schedule_thread has linked: memset leaves TASK_SLEEP (0) and
\* only schedule_thread leaves that state.
Scheduled == {t \in Live : state[t] # TASK_SLEEP}

NoCall == [at |-> "none", thread |-> Null, user |-> FALSE]
CallPoints == {"none", "kstack", "ustack", "fill", "register", "return"}

TypeOK ==
  /\ heap \subseteq Blocks
  /\ state \in [Threads -> TASK_SLEEP..TASK_FINISHED]
  /\ next \in [Threads -> Pointers]
  /\ prev \in [Threads -> Pointers]
  /\ id \in [Threads -> 0..MaxId]
  /\ ustack \in [Threads -> BOOLEAN]
  /\ page_dir \in [Threads -> Directories]
  /\ esp \in [Threads -> 0..StackFrames + 1]
  /\ kernel_thread \in Pointers
  /\ current_thread \in Pointers
  /\ scheduling \in BOOLEAN
  /\ num_threads \in Int
  /\ last_id \in 0..MaxId
  /\ tss_esp0 \in [stack : Pointers, frames : 0..StackFrames + 1]
  /\ current_directory \in Directories
  /\ call \in [at : CallPoints, thread : Pointers, user : BOOLEAN]
  /\ smashed \subseteq Threads
  /\ status \in {"ok", "stopped", "assertion", "undefined"}

Init ==
  /\ heap = {}
  /\ state = [t \in Threads |-> TASK_SLEEP]
  /\ next = [t \in Threads |-> Null]
  /\ prev = [t \in Threads |-> Null]
  /\ id = [t \in Threads |-> 0]
  /\ ustack = [t \in Threads |-> FALSE]
  /\ page_dir = [t \in Threads |-> kernel_directory]
  /\ esp = [t \in Threads |-> 0]
  /\ kernel_thread = Null
  /\ current_thread = Null
  /\ scheduling = FALSE
  /\ num_threads = 0
  /\ last_id = 0
  /\ tss_esp0 = [stack |-> Null, frames |-> 0]
  /\ current_directory = kernel_directory
  /\ call = NoCall
  /\ smashed = {}
  /\ status = "ok"

-----------------------------------------------------------------------------
(* The list of threads.                                                    *)

(* A definition whose comment starts with "Fault" is a variant of the one  *)
(* after it with one slip in it.  No specification uses it: it takes the   *)
(* place of that definition to see that a property notices the slip.       *)

\* Fault: the new thread is linked after the current one and runs first.
schedule_thread_first(t) ==
  /\ state' = [state EXCEPT ![t] = TASK_READY]
  /\ kernel_thread' = IF kernel_thread = Null THEN t ELSE kernel_thread
  /\ current_thread' = IF kernel_thread = Null THEN t ELSE current_thread
  /\ LET c == IF kernel_thread = Null THEN t ELSE current_thread
         n == IF kernel_thread = Null THEN t ELSE next[current_thread]
     IN  /\ next' = [next EXCEPT ![t] = n, ![c] = t]
         /\ prev' = [prev EXCEPT ![t] = c, ![n] = t]

\* The first thread becomes the kernel thread and a ring of one; any other
\* is linked just before the current thread, so it runs last of the round.
schedule_thread(t) ==
  /\ state' = [state EXCEPT ![t] = TASK_READY]
  /\ IF kernel_thread = Null
     THEN /\ kernel_thread' = t
          /\ current_thread' = t
          /\ next' = [next EXCEPT ![t] = t]
          /\ prev' = [prev EXCEPT ![t] = t]
     ELSE /\ next' = [next EXCEPT ![t] = current_thread,
                                  ![prev[current_thread]] = t]
          /\ prev' = [prev EXCEPT ![t] = prev[current_thread],
                                  ![current_thread] = t]
          /\ UNCHANGED <<kernel_thread, current_thread>>

\* Neighbours are linked to each other; t's own links are left as they are.
unschedule_thread(t) ==
  IF t = kernel_thread
  THEN UNCHANGED <<next, prev>>
  ELSE /\ next' = IF prev[t] = Null THEN next ELSE [next EXCEPT ![prev[t]] = next[t]]
       /\ prev' = IF next[t] = Null THEN prev ELSE [prev EXCEPT ![next[t]] = prev[t]]

Sleeping == {t \in Threads : state[t] = TASK_SLEEP}

\* From the current thread, next leads over p[1], ..., p[k] to n.
WalkReaches(n, p, k) ==
  LET before(i) == IF i = 1 THEN current_thread ELSE p[i - 1]
  IN  /\ \A i \in 1..k : p[i] = next[before(i)]
      /\ n = next[before(k + 1)]

\* Fault: the kernel thread is passed over, as if it were an idle thread.
next_ready_thread_idle(n) ==
  n = IF next[current_thread] = kernel_thread THEN next[kernel_thread] ELSE next[current_thread]

\* n is the first thread after the current one that is not asleep.
next_ready_thread(n) ==
  /\ n \in Threads \ Sleeping
  /\ \E k \in 0..Cardinality(Sleeping) : \E p \in [1..k -> Sleeping] : WalkReaches(n, p, k)

-----------------------------------------------------------------------------
(* Kernel stacks.  A trap from user mode starts at tss_esp0, a trap from   *)
(* kernel mode continues on the stack in use.  Depths count whole frames   *)
(* of registers_t; StackFrames + 1 stands for every depth past the end.    *)

InUserMode(t) == ustack[t] /\ state[t] # TASK_FINISHED

\* Frames on the current kernel stack once the trap has pushed its own.  A
\* user thread in thread_exit holds the frame of its system call below it.
TrapFrames ==
  LET depth == tss_esp0.frames + (IF InUserMode(current_thread) THEN 1 ELSE 2)
  IN  CASE ~ustack[current_thread] -> 1
        [] depth <= StackFrames -> depth
        [] OTHER -> StackFrames + 1

Overflow == TrapFrames > StackFrames

\* The frame that does not fit overwrites the magic of the stack's heap block.
PushFrame == IF Overflow THEN smashed \cup {current_thread} ELSE smashed

-----------------------------------------------------------------------------
(* Operations.                                                             *)

Running == status = "ok" /\ scheduling

request_thread_id(t) ==
  /\ last_id < MaxId
  /\ last_id' = last_id + 1
  /\ id' = [id EXCEPT ![t] = last_id + 1]

create_kernel_thread(t) ==
  /\ heap' = heap \cup {<<t, "thread">>}
  /\ request_thread_id(t)
  /\ page_dir' = [page_dir EXCEPT ![t] = current_directory]
  /\ num_threads' = num_threads + 1
  /\ schedule_thread(t)

scheduling_init ==
  /\ status = "ok" /\ ~scheduling
  /\ current_thread = Null
  /\ \E t \in Threads : create_kernel_thread(t)
  /\ scheduling' = TRUE
  /\ UNCHANGED <<ustack, esp, cpuVars, call, smashed, status>>

\* create_thread is called by main only, that is by the kernel thread, with
\* interrupts enabled: each kmalloc, the filling of the structure, its
\* registration and the read of its id are steps that a tick can separate.
MainAt(point) ==
  /\ Running
  /\ current_thread = kernel_thread
  /\ call.at = point

create_thread_alloc(u) ==
  /\ MainAt("none")
  /\ last_id < MaxId
  /\ \E t \in Threads \ Live :
       /\ heap' = heap \cup {<<t, "thread">>}
       /\ state' = [state EXCEPT ![t] = TASK_SLEEP]
       /\ next' = [next EXCEPT ![t] = Null]
       /\ prev' = [prev EXCEPT ![t] = Null]
       /\ id' = [id EXCEPT ![t] = 0]
       /\ ustack' = [ustack EXCEPT ![t] = FALSE]
       /\ call' = [at |-> "kstack", thread |-> t, user |-> u]
  /\ UNCHANGED <<page_dir, esp, schedVars, last_id, cpuVars, smashed, status>>

create_thread_kstack ==
  /\ MainAt("kstack")
  /\ heap' = heap \cup {<<call.thread, "kstack">>}
  /\ call' = [call EXCEPT !.at = IF call.user THEN "ustack" ELSE "fill"]
  /\ UNCHANGED <<threadVars, schedVars, last_id, cpuVars, smashed, status>>

create_thread_ustack ==
  /\ MainAt("ustack")
  /\ heap' = heap \cup {<<call.thread, "ustack">>}
  /\ ustack' = [ustack EXCEPT ![call.thread] = TRUE]
  /\ call' = [call EXCEPT !.at = "fill"]
  /\ UNCHANGED <<state, next, prev, id, page_dir, esp, schedVars, last_id,
                 cpuVars, smashed, status>>

\* A kmalloc returned 0: create_thread returns 0 and frees nothing; main stops
\* the kernel or, for a thread asked for from the keyboard, goes on.
create_thread_fail ==
  /\ \E point \in {"none", "kstack", "ustack"} : MainAt(point)
  /\ call' = NoCall
  /\ status' \in {"ok", "stopped"}
  /\ UNCHANGED <<heap, threadVars, schedVars, last_id, cpuVars, smashed>>

\* The first trap frame, the id and the address space of the parent process.
create_thread_fill(p) ==
  /\ MainAt("fill")
  /\ esp' = [esp EXCEPT ![call.thread] = 1]
  /\ request_thread_id(call.thread)
  /\ page_dir' = [page_dir EXCEPT ![call.thread] = p]
  /\ call' = [call EXCEPT !.at = "register"]
  /\ UNCHANGED <<heap, state, next, prev, ustack, schedVars, cpuVars, smashed, status>>

create_thread_register ==
  /\ MainAt("register")
  /\ num_threads' = num_threads + 1
  /\ schedule_thread(call.thread)
  /\ call' = [call EXCEPT !.at = "return"]
  /\ UNCHANGED <<heap, id, ustack, page_dir, esp, scheduling, last_id, cpuVars,
                 smashed, status>>

\* thread->id is read after irq_restore.  When the thread is already freed the
\* field still holds its value, unless the heap has given the page back.
create_thread_return ==
  /\ MainAt("return")
  /\ call' = NoCall
  /\ \/ status' = "ok"
     \/ call.thread \notin Live /\ status' = "stopped"
  /\ UNCHANGED <<heap, threadVars, schedVars, last_id, cpuVars, smashed>>

\* Called by any thread but the kernel's: on return from a kernel thread's
\* entry, or by the system call of a user thread, which pushes a frame.
thread_exit ==
  /\ Running
  /\ current_thread # kernel_thread
  /\ state[current_thread] # TASK_FINISHED
  /\ smashed' = PushFrame
  /\ state' = [state EXCEPT ![current_thread] = TASK_FINISHED]
  /\ UNCHANGED <<heap, next, prev, id, ustack, page_dir, esp, schedVars, last_id,
                 cpuVars, call, status>>

\* Fault: num_threads is not decremented.
destroy_thread_uncounted(t) ==
  /\ status' = status
  /\ heap' = heap \ {<<t, b>> : b \in {"kstack", "ustack", "thread"}}
  /\ UNCHANGED num_threads

\* Fault: the user stack is not freed.
destroy_thread_leaks(t) ==
  /\ num_threads' = num_threads - 1
  /\ status' = status
  /\ heap' = heap \ {<<t, "kstack">>, <<t, "thread">>}

\* kfree of the kernel stack asserts the magic of its block: the assertion
\* stops the kernel with the thread unlinked but nothing freed.
destroy_thread(t) ==
  /\ num_threads' = num_threads - 1
  /\ IF t \in PushFrame
     THEN /\ status' = "assertion"
          /\ UNCHANGED heap
     ELSE /\ status' = status
          /\ heap' = heap \ ({<<t, "kstack">>, <<t, "thread">>}
                             \cup (IF ustack[t] THEN {<<t, "ustack">>} ELSE {}))

\* Fault: set_kernel_stack is missing.
switch_to_stack(n, st) ==
  /\ state' = [st EXCEPT ![n] = TASK_RUNNING]
  /\ current_thread' = n
  /\ current_directory' = page_dir[n]
  /\ UNCHANGED tss_esp0

\* The second half of schedule_tick: load the stack, the state and the
\* address space of the next thread.
switch_to(n, st) ==
  /\ tss_esp0' = [stack |-> n, frames |-> esp[n]]
  /\ state' = [st EXCEPT ![n] = TASK_RUNNING]
  /\ current_thread' = n
  /\ current_directory' = page_dir[n]

\* Fault: freed memory is cleared.
schedule_tick_reap_clears ==
  /\ state[current_thread] = TASK_FINISHED
  /\ \E n \in Threads :
       /\ next_ready_thread(n) /\ n # current_thread
       /\ unschedule_thread(current_thread)
       /\ destroy_thread(current_thread)
       /\ switch_to(n, state)
  /\ id' = [id EXCEPT ![current_thread] = 0]
  /\ UNCHANGED <<ustack, page_dir, esp, kernel_thread, scheduling, last_id, call, smashed>>

\* Fault: a finished thread keeps the processor.
schedule_tick_reap_kept == state[current_thread] = TASK_FINISHED /\ UNCHANGED vars

\* The current thread has finished: unlink it, free it, switch.
schedule_tick_reap ==
  /\ state[current_thread] = TASK_FINISHED
  /\ \E n \in Threads :
       /\ next_ready_thread(n) /\ n # current_thread
       /\ unschedule_thread(current_thread)
       /\ destroy_thread(current_thread)
       /\ IF status' = "ok"
          THEN switch_to(n, state)
          ELSE UNCHANGED <<state, current_thread, cpuVars>>
  /\ smashed' = IF status' = "ok" THEN smashed \ {current_thread} ELSE PushFrame
  /\ UNCHANGED <<id, ustack, page_dir, esp, kernel_thread, scheduling, last_id, call>>

\* Fault: TASK_FINISHED is not tested.
schedule_tick_switch_finished ==
  /\ \E n \in Threads :
       /\ next_ready_thread(n) /\ n # current_thread
       /\ esp' = [esp EXCEPT ![current_thread] = TrapFrames]
       /\ switch_to(n, [state EXCEPT ![current_thread] = TASK_READY])
  /\ UNCHANGED <<heap, next, prev, id, ustack, page_dir, kernel_thread, scheduling,
                 num_threads, last_id, call, smashed, status>>

\* Fault: a thread in user mode is not preempted.
schedule_tick_switch_kernel ==
  /\ state[current_thread] # TASK_FINISHED /\ ~InUserMode(current_thread)
  /\ \E n \in Threads :
       /\ next_ready_thread(n) /\ n # current_thread
       /\ esp' = [esp EXCEPT ![current_thread] = TrapFrames]
       /\ switch_to(n, [state EXCEPT ![current_thread] = TASK_READY])
  /\ smashed' = PushFrame
  /\ UNCHANGED <<heap, next, prev, id, ustack, page_dir, kernel_thread, scheduling,
                 num_threads, last_id, call, status>>

\* The current thread goes on later: save its stack pointer, switch.
schedule_tick_switch ==
  /\ state[current_thread] # TASK_FINISHED
  /\ \E n \in Threads :
       /\ next_ready_thread(n) /\ n # current_thread
       /\ esp' = [esp EXCEPT ![current_thread] = TrapFrames]
       /\ switch_to(n, [state EXCEPT ![current_thread] = TASK_READY])
  /\ smashed' = PushFrame
  /\ UNCHANGED <<heap, next, prev, id, ustack, page_dir, kernel_thread, scheduling,
                 num_threads, last_id, call, status>>

\* No other thread is ready: keep executing the same one.
schedule_tick_keep ==
  /\ ~ \E n \in Threads : next_ready_thread(n) /\ n # current_thread
  /\ smashed' = PushFrame
  /\ UNCHANGED <<heap, threadVars, schedVars, last_id, cpuVars, call, status>>

schedule_tick == schedule_tick_reap \/ schedule_tick_switch \/ schedule_tick_keep

\* The timer interrupt: irq_handler calls schedule_tick when scheduling is on.
irq_timer == Running /\ schedule_tick

\* thread_exit ends in a software interrupt on the timer's vector.
switch_next ==
  /\ Running
  /\ state[current_thread] = TASK_FINISHED
  /\ schedule_tick

\* Any other trap of a user thread, a system call or a device interrupt: its
\* frame is pushed at tss_esp0 and popped before the thread goes on.
user_trap ==
  /\ Running
  /\ InUserMode(current_thread)
  /\ smashed' = PushFrame
  /\ UNCHANGED <<heap, threadVars, schedVars, last_id, cpuVars, call, status>>

\* Past its block a stack runs into whatever lies below: another thread_t, a
\* stack, a hole.  What the kernel does from then on is not defined.
stack_overrun ==
  /\ Running
  /\ current_thread \in smashed
  /\ status' = "undefined"
  /\ UNCHANGED <<heap, threadVars, schedVars, last_id, cpuVars, call, smashed>>

create_thread ==
  \/ \E u \in BOOLEAN : create_thread_alloc(u)
  \/ create_thread_kstack
  \/ create_thread_ustack
  \/ create_thread_fail
  \/ \E p \in Processes : create_thread_fill(p)
  \/ create_thread_register
  \/ create_thread_return

Next ==
  \/ scheduling_init
  \/ create_thread
  \/ thread_exit
  \/ irq_timer
  \/ switch_next
  \/ user_trap
  \/ stack_overrun

Spec == Init /\ [][Next]_vars

\* The PIT raises IRQ 0 a thousand times a second and every atomic section is
\* finite, so a tick that stays possible is taken; a thread in thread_exit
\* reaches its software interrupt.
FairSpec == Spec /\ WF_vars(scheduling_init) /\ WF_vars(irq_timer)

-----------------------------------------------------------------------------
(* Properties.  They speak of a kernel that is still running: an assertion *)
(* or an overrun stops it in the middle of an operation.                   *)

\* Every scheduled thread has a scheduled neighbour on each side and next and
\* prev are inverse of each other, whatever interleaving of create_thread,
\* thread_exit and ticks: no link leads to a freed or unregistered thread_t
\* (schedule_thread, unschedule_thread).
Linked(S, nx, pv) ==
  \A t \in S :
    /\ nx[t] \in S /\ pv[nx[t]] = t
    /\ pv[t] \in S /\ nx[pv[t]] = t

RingLinked ==
  Running =>
    /\ current_thread \in Scheduled
    /\ kernel_thread \in Scheduled
    /\ Linked(Scheduled, next, prev)

\* The list is a single ring: a set of scheduled threads that next does not
\* leave is all of them, so the walk of next_ready_thread reaches every thread
\* (schedule_thread, unschedule_thread).
Connected(S, nx) ==
  \A T \in SUBSET S : T # {} /\ (\A t \in T : nx[t] \in T) => T = S

RingConnected == Running => Connected(Scheduled, next)

\* A finished thread is the one that runs, is never the kernel thread, and the
\* tick that follows has another thread to leave it for: thread_exit never
\* returns to the stale return address below it (thread.c, thread_exit).
FinishedLeaves ==
  Running =>
    \A t \in Scheduled : state[t] = TASK_FINISHED =>
      /\ t = current_thread
      /\ t # kernel_thread
      /\ \E n \in Scheduled : next_ready_thread(n) /\ n # t

\* At most the current thread is marked running (schedule_tick sets the old
\* thread ready or frees it before it marks the new one).
OneRunning ==
  Running => \A t \in Scheduled : state[t] = TASK_RUNNING => t = current_thread

\* get_num_threads counts the threads in the ring: its increments (main, with
\* interrupts off) and decrements (schedule_tick) are never lost.
ThreadCount ==
  Running => num_threads = Cardinality(Scheduled)

\* When a thread runs in user mode, the stack the processor will switch to on
\* the next trap is that thread's own, allocated, and holds nothing it still
\* needs beyond the saved esp (set_kernel_stack in schedule_tick).
TrapStackIsOwn ==
  Running /\ InUserMode(current_thread) =>
    /\ tss_esp0.stack = current_thread
    /\ tss_esp0.frames = esp[current_thread]
    /\ <<current_thread, "kstack">> \in heap

\* The address space in use is that of the current thread (the conditional
\* switch_page_directory of schedule_tick).
AddressSpaceIsOwn ==
  Running => current_directory = page_dir[current_thread]

\* A scheduled thread owns the stacks it needs, and no stack block outlives the
\* thread_t that points to it, except through the error returns of create_thread
\* (destroy_thread frees all three blocks).
StacksFollowThread ==
  /\ \A b \in heap : b[1] \in Live
  /\ Running => \A t \in Scheduled \ {kernel_thread} :
       /\ <<t, "kstack">> \in heap
       /\ ustack[t] <=> <<t, "ustack">> \in heap

\* create_thread returns the id it gave to its thread although it reads the
\* field with interrupts enabled, when the thread may have run, exited and been
\* freed (thread.c, return thread->id).
CreateReturnsOwnId ==
  call.at = "return" => id[call.thread] = last_id

\* A thread in thread_exit is freed and not resumed: no step takes a finished
\* structure back to another state while it stays allocated.
NeverResumed ==
  [][\A t \in Threads :
       t \in Live /\ state[t] = TASK_FINISHED =>
         state'[t] = TASK_FINISHED \/ t \notin Live']_vars

\* Every scheduled thread gets the processor again and again as long as it is
\* scheduled, unless the kernel stops (round robin under a live timer).
EveryThreadRuns ==
  \A t \in Threads :
    Running /\ t \in Scheduled ~> current_thread = t \/ status # "ok"

\* A thread that has called thread_exit is eventually freed, unless the kernel
\* stops.
FinishedIsFreed ==
  \A t \in Threads :
    Running /\ t \in Live /\ state[t] = TASK_FINISHED
      ~> t \notin Live \/ status # "ok"

\* mem_alloc.c asserts of every block passed to kfree that its magic is intact
\* ("Wrong header magic"): freeing a thread never trips that assertion.
HeaderMagicHolds == status # "assertion"

-----------------------------------------------------------------------------
(* The ready queue the ring implements.                                    *)

\* The ring S read from c along nx, each thread once.
RingWalk(S, c, nx) ==
  LET walk[i \in 1..Cardinality(S)] == IF i = 1 THEN c ELSE nx[walk[i - 1]]
  IN  walk

RingOrder ==
  IF current_thread = Null THEN <<>> ELSE RingWalk(Scheduled, current_thread, next)

Finishing == current_thread # Null /\ state[current_thread] = TASK_FINISHED

Queue == INSTANCE ReadyQueue WITH
  queue <- RingOrder,
  kernel <- {kernel_thread} \ {Null},
  finished <- Finishing,
  halted <- status # "ok"

\* The linked list and its ticks implement a first-in first-out queue of
\* threads: schedule_thread appends, schedule_tick rotates or removes the head,
\* nothing else reorders, drops or duplicates a thread.
ImplementsReadyQueue == Queue!Spec

-----------------------------------------------------------------------------
(* The inductive invariant behind the proofs.                              *)

\* Before scheduling_init nothing is allocated and no call is in progress.
BootState ==
  ~scheduling =>
    /\ heap = {} /\ num_threads = 0 /\ call = NoCall
    /\ current_thread = Null /\ kernel_thread = Null

\* The structure create_thread works on is allocated and not in the ring until
\* schedule_thread links it.
CallState ==
  /\ call.at \in {"kstack", "ustack", "fill", "register"} =>
       call.thread \in Live /\ state[call.thread] = TASK_SLEEP
  /\ call.at = "return" => call.thread \in Threads

FinishedIsCurrent ==
  Running => \A t \in Scheduled :
    state[t] = TASK_FINISHED => t = current_thread /\ t # kernel_thread

\* Inductive: with what create_thread holds privately, the ring stays linked and
\* connected through every step of main, of the threads and of the timer.
RingInvariant ==
  /\ TypeOK
  /\ BootState
  /\ CallState
  /\ FinishedIsCurrent
  /\ RingLinked
  /\ RingConnected
  /\ OneRunning
  /\ AddressSpaceIsOwn
  /\ ThreadCount

=============================================================================
