--------------------------- MODULE SchedulerProofs ---------------------------
(***************************************************************************)
(* Proofs about Scheduler, for any number of threads, processes and frames *)
(* per stack.                                                              *)
(***************************************************************************)
EXTENDS Scheduler, FiniteSetTheorems, TLAPS

-----------------------------------------------------------------------------
(* Facts about doubly linked rings.                                        *)

\* Linking t just before c, as schedule_thread does, keeps the links inverse.
LEMMA InsertLinked ==
  ASSUME NEW S \in SUBSET Threads, NEW c \in S, NEW t \in Threads \ S,
         NEW nx \in [Threads -> Pointers], NEW pv \in [Threads -> Pointers],
         Linked(S, nx, pv)
  PROVE  Linked(S \cup {t}, [nx EXCEPT ![t] = c, ![pv[c]] = t],
                            [pv EXCEPT ![t] = pv[c], ![c] = t])
<1> DEFINE nx2 == [nx EXCEPT ![t] = c, ![pv[c]] = t]
           pv2 == [pv EXCEPT ![t] = pv[c], ![c] = t]
<1>1. pv[c] \in S /\ pv[c] # t /\ c # t /\ nx[pv[c]] = c
  BY DEF Linked
<1>2. /\ nx2[t] = c /\ pv2[t] = pv[c]
      /\ nx2[pv[c]] = t /\ pv2[c] = t
  BY <1>1
<1>3. ASSUME NEW u \in S, u # pv[c] PROVE nx2[u] = nx[u] /\ nx[u] # c
  BY <1>3, <1>1 DEF Linked
<1>4. ASSUME NEW u \in S, u # c PROVE pv2[u] = pv[u] /\ pv[u] # pv[c]
  BY <1>4, <1>1 DEF Linked
<1> HIDE DEF nx2, pv2
<1>5. ASSUME NEW u \in S \cup {t} PROVE nx2[u] \in S \cup {t} /\ pv2[nx2[u]] = u
  BY <1>1, <1>2, <1>3, <1>4 DEF Linked
<1>6. ASSUME NEW u \in S \cup {t} PROVE pv2[u] \in S \cup {t} /\ nx2[pv2[u]] = u
  BY <1>1, <1>2, <1>3, <1>4 DEF Linked
<1>7. Linked(S \cup {t}, nx2, pv2)
  BY <1>5, <1>6 DEF Linked
<1> QED
  BY <1>7 DEF nx2, pv2

\* The ring stays one ring when t is linked before c.
LEMMA InsertConnected ==
  ASSUME NEW S \in SUBSET Threads, NEW c \in S, NEW t \in Threads \ S,
         NEW nx \in [Threads -> Pointers], NEW pv \in [Threads -> Pointers],
         Linked(S, nx, pv), Connected(S, nx)
  PROVE  Connected(S \cup {t}, [nx EXCEPT ![t] = c, ![pv[c]] = t])
<1> DEFINE nx2 == [nx EXCEPT ![t] = c, ![pv[c]] = t]
<1>1. pv[c] \in S /\ pv[c] # t /\ c # t /\ nx[pv[c]] = c
  BY DEF Linked
<1>2. nx2[t] = c /\ nx2[pv[c]] = t /\ \A u \in S \ {pv[c]} : nx2[u] = nx[u]
  BY <1>1
<1> HIDE DEF nx2
<1>3. SUFFICES ASSUME NEW T \in SUBSET (S \cup {t}), T # {},
                      \A u \in T : nx2[u] \in T
               PROVE  T = S \cup {t}
  BY DEF Connected, nx2
<1>4. T \ {t} \in SUBSET S /\ T \ {t} # {}
  BY <1>1, <1>2, <1>3
<1>5. \A u \in T \ {t} : nx[u] \in T \ {t}
  BY <1>1, <1>2, <1>3 DEF Linked
<1>6. T \ {t} = S
  BY <1>4, <1>5, Zenon DEF Connected
<1>7. t \in T
  BY <1>1, <1>2, <1>3, <1>6
<1> QED
  BY <1>6, <1>7

\* Unlinking c from a ring of two or more keeps the links inverse.
LEMMA RemoveLinked ==
  ASSUME NEW S \in SUBSET Threads, NEW c \in S,
         NEW nx \in [Threads -> Pointers], NEW pv \in [Threads -> Pointers],
         Linked(S, nx, pv), nx[c] # c
  PROVE  Linked(S \ {c}, [nx EXCEPT ![pv[c]] = nx[c]], [pv EXCEPT ![nx[c]] = pv[c]])
<1> DEFINE nx2 == [nx EXCEPT ![pv[c]] = nx[c]]
           pv2 == [pv EXCEPT ![nx[c]] = pv[c]]
<1>1. /\ nx[c] \in S /\ pv[c] \in S /\ nx[pv[c]] = c /\ pv[nx[c]] = c
      /\ nx[c] # c /\ pv[c] # c
  BY DEF Linked
<1>2. nx2[pv[c]] = nx[c] /\ \A u \in S \ {pv[c]} : nx2[u] = nx[u]
  BY <1>1
<1>3. pv2[nx[c]] = pv[c] /\ \A u \in S \ {nx[c]} : pv2[u] = pv[u]
  BY <1>1
<1> HIDE DEF nx2, pv2
<1>4. ASSUME NEW u \in S \ {c} PROVE nx2[u] \in S \ {c} /\ pv2[nx2[u]] = u
  BY <1>1, <1>2, <1>3 DEF Linked
<1>5. ASSUME NEW u \in S \ {c} PROVE pv2[u] \in S \ {c} /\ nx2[pv2[u]] = u
  BY <1>1, <1>2, <1>3 DEF Linked
<1>6. Linked(S \ {c}, nx2, pv2)
  BY <1>4, <1>5 DEF Linked
<1> QED
  BY <1>6 DEF nx2, pv2

\* The ring stays one ring when c is unlinked.
LEMMA RemoveConnected ==
  ASSUME NEW S \in SUBSET Threads, NEW c \in S,
         NEW nx \in [Threads -> Pointers], NEW pv \in [Threads -> Pointers],
         Linked(S, nx, pv), Connected(S, nx), nx[c] # c
  PROVE  Connected(S \ {c}, [nx EXCEPT ![pv[c]] = nx[c]])
<1> DEFINE nx2 == [nx EXCEPT ![pv[c]] = nx[c]]
<1>1. /\ nx[c] \in S /\ pv[c] \in S /\ nx[pv[c]] = c
      /\ nx[c] # c /\ pv[c] # c
  BY DEF Linked
<1>2. nx2[pv[c]] = nx[c] /\ \A u \in S \ {pv[c]} : nx2[u] = nx[u]
  BY <1>1
<1> HIDE DEF nx2
<1>3. SUFFICES ASSUME NEW T \in SUBSET (S \ {c}), T # {},
                      \A u \in T : nx2[u] \in T
               PROVE  T = S \ {c}
  BY DEF Connected, nx2
<1>4. CASE pv[c] \in T
  <2>1. T \cup {c} \in SUBSET S /\ \A u \in T \cup {c} : nx[u] \in T \cup {c}
    BY <1>1, <1>2, <1>3, <1>4
  <2>2. T \cup {c} = S
    BY <2>1, Zenon DEF Connected
  <2> QED
    BY <2>2
<1>5. CASE pv[c] \notin T
  <2>1. T \in SUBSET S /\ \A u \in T : nx[u] \in T
    BY <1>2, <1>3, <1>5
  <2>2. T = S
    BY <1>3, <2>1 DEF Connected
  <2> QED
    BY <2>2
<1> QED
  BY <1>4, <1>5

-----------------------------------------------------------------------------
(* The invariant.                                                          *)

\* With no sleeping thread in the ring, next_ready_thread is the thread next to
\* the current one.
LEMMA NextReady ==
  ASSUME RingInvariant, Running, NEW n \in Threads
  PROVE  next_ready_thread(n) <=> n = next[current_thread]
<1>1. next[current_thread] \in Threads \ Sleeping
  BY Zenon DEF RingInvariant, RingLinked, Linked, Scheduled, Live, Sleeping
<1>2. ASSUME next_ready_thread(n) PROVE n = next[current_thread]
  <2>0. PICK k \in 0..Cardinality(Sleeping) :
               \E p \in [1..k -> Sleeping] : WalkReaches(n, p, k)
    BY <1>2 DEF next_ready_thread
  <2>1. PICK p \in [1..k -> Sleeping] : WalkReaches(n, p, k)
    BY <2>0
  <2>2. CASE k = 0
    BY <2>1, <2>2 DEF WalkReaches
  <2>3. CASE k # 0
    <3>1. 1 \in 1..k
      BY <2>1, <2>3
    <3>2. p[1] = next[current_thread] /\ p[1] \in Sleeping
      BY <2>1, <3>1 DEF WalkReaches
    <3> QED
      BY <3>2, <1>1
  <2> QED
    BY <2>2, <2>3
<1>3. ASSUME n = next[current_thread] PROVE next_ready_thread(n)
  <2>1. IsFiniteSet(Sleeping)
    BY FiniteAssumption, FS_Subset DEF Sleeping
  <2>2. 0 \in 0..Cardinality(Sleeping)
    BY <2>1, FS_CardinalityType
  <2>3. \E p : p \in [1..0 -> Sleeping]
    <3>1. [i \in 1..0 |-> Null] \in [1..0 -> Sleeping]
      OBVIOUS
    <3> QED
      BY <3>1, Zenon
  <2>4. PICK p : p \in [1..0 -> Sleeping]
    BY <2>3, Zenon
  <2>5. WalkReaches(n, p, 0)
    BY <1>3 DEF WalkReaches
  <2> QED
    BY <1>1, <1>3, <2>2, <2>4, <2>5, Zenon DEF next_ready_thread
<1> QED
  BY <1>2, <1>3

\* Before scheduling_init the invariant holds.
LEMMA InitInvariant == Init => RingInvariant
<1> SUFFICES ASSUME Init PROVE RingInvariant
  OBVIOUS
<1> USE DEF Init
<1>1. TypeOK
  <2>1. call \in [at : CallPoints, thread : Pointers, user : BOOLEAN]
    BY DEF NoCall, CallPoints, Pointers
  <2>2. ustack \in [Threads -> BOOLEAN] /\ scheduling \in BOOLEAN
    BY Zenon
  <2>3. tss_esp0 \in [stack : Pointers, frames : 0..StackFrames + 1]
    BY StackAssumption DEF Pointers
  <2>4. /\ state \in [Threads -> TASK_SLEEP..TASK_FINISHED]
        /\ esp \in [Threads -> 0..StackFrames + 1]
        /\ id \in [Threads -> 0..MaxId] /\ last_id \in 0..MaxId /\ num_threads \in Int
    BY StackAssumption, MaxIdAssumption DEF TASK_SLEEP, TASK_FINISHED
  <2> QED
    BY <2>1, <2>2, <2>3, <2>4 DEF TypeOK, Blocks, Pointers, Directories
<1>2. BootState /\ CallState
  BY DEF BootState, CallState, NoCall
<1>3. ~Running
  BY DEF Running
<1> QED
  BY <1>1, <1>2, <1>3
  DEF RingInvariant, FinishedIsCurrent, RingLinked, RingConnected, OneRunning,
      AddressSpaceIsOwn, ThreadCount

\* A set of threads is finite and its size is a natural number.
LEMMA ThreadSets ==
  ASSUME NEW S \in SUBSET Threads
  PROVE  IsFiniteSet(S) /\ Cardinality(S) \in Nat
BY FiniteAssumption, FS_Subset, FS_CardinalityType

\* scheduling_init makes the kernel thread a ring of one.
LEMMA BootStep == RingInvariant /\ scheduling_init => RingInvariant'
<1> SUFFICES ASSUME RingInvariant, scheduling_init PROVE RingInvariant'
  OBVIOUS
<1> USE NullAssumption DEF TASK_SLEEP, TASK_READY, TASK_RUNNING, TASK_FINISHED
<1>1. PICK t \in Threads : create_kernel_thread(t)
  BY DEF scheduling_init
<1>2. heap = {} /\ kernel_thread = Null /\ call = NoCall /\ call' = NoCall
  BY DEF RingInvariant, BootState, scheduling_init
<1>3. /\ heap' = {<<t, "thread">>}
      /\ state' = [state EXCEPT ![t] = TASK_READY]
      /\ kernel_thread' = t /\ current_thread' = t /\ scheduling' = TRUE
      /\ next' = [next EXCEPT ![t] = t] /\ prev' = [prev EXCEPT ![t] = t]
      /\ page_dir' = [page_dir EXCEPT ![t] = current_directory]
      /\ UNCHANGED <<current_directory, ustack, esp, tss_esp0, smashed, status>>
  BY <1>1, <1>2 DEF create_kernel_thread, schedule_thread, scheduling_init, cpuVars
<1>4. TypeOK'
  <2>1. id' \in [Threads -> 0..MaxId] /\ last_id' \in 0..MaxId /\ num_threads' \in Int
    BY <1>1, MaxIdAssumption
    DEF create_kernel_thread, request_thread_id, RingInvariant, TypeOK
  <2>2. call' \in [at : CallPoints, thread : Pointers, user : BOOLEAN]
    BY <1>2 DEF RingInvariant, TypeOK
  <2>3. heap' \subseteq Blocks
    BY <1>3 DEF Blocks
  <2>4. state' \in [Threads -> TASK_SLEEP..TASK_FINISHED]
    BY <1>3 DEF RingInvariant, TypeOK
  <2> QED
    BY <1>3, <2>1, <2>2, <2>3, <2>4 DEF RingInvariant, TypeOK, Pointers
<1>5. Live' = {t} /\ Scheduled' = {t}
  BY <1>3 DEF RingInvariant, TypeOK, Live, Scheduled
<1>6. next'[t] = t /\ prev'[t] = t /\ state'[t] = TASK_READY /\ page_dir'[t] = current_directory
  BY <1>3 DEF RingInvariant, TypeOK
<1>7. BootState' /\ CallState'
  BY <1>2, <1>3 DEF BootState, CallState, NoCall
<1>8. (FinishedIsCurrent /\ OneRunning /\ AddressSpaceIsOwn)'
  BY <1>3, <1>5, <1>6 DEF FinishedIsCurrent, OneRunning, AddressSpaceIsOwn
<1>9. RingLinked'
  BY <1>3, <1>5, <1>6 DEF RingLinked, Linked
<1>10. RingConnected'
  BY <1>3, <1>5, <1>6 DEF RingConnected, Connected
<1>11. ThreadCount'
  <2>1. num_threads' = 1
    BY <1>1 DEF create_kernel_thread, RingInvariant, BootState, scheduling_init
  <2> QED
    BY <1>5, <2>1, FS_Singleton DEF ThreadCount
<1> QED
  BY <1>4, <1>7, <1>8, <1>9, <1>10, <1>11 DEF RingInvariant

\* A step that leaves the ring, the states and the current thread alone.
LEMMA QuietStep ==
  ASSUME RingInvariant, TypeOK', BootState', CallState',
         Scheduled' = Scheduled,
         \A t \in Scheduled : /\ state'[t] = state[t]
                              /\ next'[t] = next[t] /\ prev'[t] = prev[t]
                              /\ page_dir'[t] = page_dir[t],
         UNCHANGED <<kernel_thread, current_thread, current_directory, num_threads>>,
         Running' => Running
  PROVE  RingInvariant'
<1>1. CASE ~Running'
  BY <1>1 DEF RingInvariant, FinishedIsCurrent, RingLinked, RingConnected, OneRunning,
              AddressSpaceIsOwn, ThreadCount
<1>2. CASE Running'
  <2>1. Running
    BY <1>2
  <2>2. current_thread \in Scheduled /\ kernel_thread \in Scheduled
        /\ Linked(Scheduled, next, prev) /\ Connected(Scheduled, next)
    BY <2>1 DEF RingInvariant, RingLinked, RingConnected
  <2>3. Linked(Scheduled', next', prev')
    BY <2>2 DEF Linked
  <2>4. Connected(Scheduled', next')
    BY <2>2 DEF Connected
  <2>5. (FinishedIsCurrent /\ OneRunning /\ AddressSpaceIsOwn /\ ThreadCount)'
    BY <2>1, <2>2 DEF RingInvariant, FinishedIsCurrent, OneRunning, AddressSpaceIsOwn,
                      ThreadCount
  <2> QED
    BY <2>2, <2>3, <2>4, <2>5 DEF RingInvariant, RingLinked, RingConnected
<1> QED
  BY <1>1, <1>2

\* The steps of create_thread before it registers its thread, and its return,
\* work on a structure outside the ring.
LEMMA CreateStep ==
  ASSUME RingInvariant,
         \/ \E u \in BOOLEAN : create_thread_alloc(u)
         \/ create_thread_kstack
         \/ create_thread_ustack
         \/ create_thread_fail
         \/ \E p \in Processes : create_thread_fill(p)
         \/ create_thread_return
  PROVE  RingInvariant'
<1> USE NullAssumption DEF TASK_SLEEP, TASK_READY, TASK_RUNNING, TASK_FINISHED, MainAt,
                           threadVars, schedVars, cpuVars
<1>0. TypeOK /\ BootState /\ CallState
  BY DEF RingInvariant
<1>1. ASSUME NEW u \in BOOLEAN, create_thread_alloc(u) PROVE RingInvariant'
  <2>1. PICK t \in Threads \ Live :
          /\ heap' = heap \cup {<<t, "thread">>}
          /\ state' = [state EXCEPT ![t] = TASK_SLEEP]
          /\ next' = [next EXCEPT ![t] = Null]
          /\ prev' = [prev EXCEPT ![t] = Null]
          /\ id' = [id EXCEPT ![t] = 0]
          /\ ustack' = [ustack EXCEPT ![t] = FALSE]
          /\ call' = [at |-> "kstack", thread |-> t, user |-> u]
    BY <1>1, Zenon DEF create_thread_alloc
  <2>2. UNCHANGED <<page_dir, esp, schedVars, last_id, cpuVars, smashed, status>>
    BY <1>1 DEF create_thread_alloc
  <2>3. TypeOK'
    <3>1. call' \in [at : CallPoints, thread : Pointers, user : BOOLEAN]
      BY <2>1 DEF CallPoints, Pointers
    <3>2. ustack' \in [Threads -> BOOLEAN]
      BY <1>0, <2>1 DEF TypeOK
    <3>3. heap' \subseteq Blocks
      BY <1>0, <2>1 DEF TypeOK, Blocks
    <3>4. /\ state' \in [Threads -> TASK_SLEEP..TASK_FINISHED]
          /\ id' \in [Threads -> 0..MaxId]
      BY <1>0, <2>1, MaxIdAssumption DEF TypeOK
    <3>5. next' \in [Threads -> Pointers] /\ prev' \in [Threads -> Pointers]
      BY <1>0, <2>1 DEF TypeOK, Pointers
    <3> QED
      BY <1>0, <2>2, <3>1, <3>2, <3>3, <3>4, <3>5 DEF TypeOK
  <2>4. Live' = Live \cup {t}
    BY <2>1 DEF Live
  <2>5. \A x \in Threads \ {t} : state'[x] = state[x] /\ next'[x] = next[x] /\ prev'[x] = prev[x]
    BY <1>0, <2>1 DEF TypeOK
  <2>6. state'[t] = TASK_SLEEP
    BY <1>0, <2>1 DEF TypeOK
  <2>7. Scheduled' = Scheduled /\ t \notin Scheduled
    BY <2>1, <2>4, <2>5, <2>6 DEF Scheduled, Live
  <2>8. BootState'
    BY <1>1, <2>2 DEF BootState, create_thread_alloc, Running
  <2>9. CallState'
    BY <2>1, <2>4, <2>6 DEF CallState
  <2>10. Running' => Running
    BY <2>2 DEF Running
  <2>11. \A x \in Scheduled : x \in Threads \ {t}
    BY <2>7 DEF Scheduled, Live
  <2> QED
    BY <2>2, <2>3, <2>5, <2>7, <2>8, <2>9, <2>10, <2>11, QuietStep
<1>2. CASE create_thread_kstack
  <2> USE <1>2 DEF create_thread_kstack
  <2>1. call.thread \in Threads /\ call.thread \in Live /\ state[call.thread] = TASK_SLEEP
    BY <1>0 DEF CallState, Live
  <2>2. call' \in [at : CallPoints, thread : Pointers, user : BOOLEAN]
        /\ call'.thread = call.thread /\ call'.at \in {"ustack", "fill"}
    BY <1>0 DEF TypeOK, CallPoints
  <2>3. TypeOK'
    BY <1>0, <2>1, <2>2 DEF TypeOK, Blocks
  <2>4. Live' = Live /\ Scheduled' = Scheduled
    BY DEF Live, Scheduled
  <2>5. BootState' /\ CallState'
    BY <2>1, <2>2, <2>4 DEF BootState, CallState, Running
  <2> QED
    BY <2>3, <2>4, <2>5, QuietStep DEF Running
<1>3. CASE create_thread_ustack
  <2> USE <1>3 DEF create_thread_ustack
  <2>1. call.thread \in Threads /\ call.thread \in Live /\ state[call.thread] = TASK_SLEEP
    BY <1>0 DEF CallState, Live
  <2>2. call' \in [at : CallPoints, thread : Pointers, user : BOOLEAN]
        /\ call'.thread = call.thread /\ call'.at = "fill"
    BY <1>0 DEF TypeOK, CallPoints
  <2>3. ustack' \in [Threads -> BOOLEAN]
    BY <1>0, Zenon DEF TypeOK
  <2>4. TypeOK'
    BY <1>0, <2>1, <2>2, <2>3 DEF TypeOK, Blocks
  <2>5. Live' = Live /\ Scheduled' = Scheduled
    BY DEF Live, Scheduled
  <2>6. BootState' /\ CallState'
    BY <2>1, <2>2, <2>5 DEF BootState, CallState, Running
  <2> QED
    BY <2>4, <2>5, <2>6, QuietStep DEF Running
<1>4. CASE create_thread_fail \/ create_thread_return
  <2>1. /\ call' = NoCall
        /\ UNCHANGED <<heap, threadVars, schedVars, last_id, cpuVars, smashed>>
        /\ Running /\ status' \in {"ok", "stopped"}
    BY <1>4 DEF create_thread_fail, create_thread_return
  <2>2. call' \in [at : CallPoints, thread : Pointers, user : BOOLEAN]
    BY <2>1 DEF NoCall, CallPoints, Pointers
  <2>3. TypeOK'
    BY <1>0, <2>1, <2>2 DEF TypeOK
  <2>4. Live' = Live /\ Scheduled' = Scheduled
    BY <2>1 DEF Live, Scheduled
  <2>5. BootState' /\ CallState'
    BY <2>1 DEF BootState, CallState, NoCall, Running
  <2> QED
    BY <2>1, <2>3, <2>4, <2>5, QuietStep DEF Running
<1>5. ASSUME NEW p \in Processes, create_thread_fill(p) PROVE RingInvariant'
  <2> USE <1>5 DEF create_thread_fill, request_thread_id
  <2>1. call.thread \in Live /\ state[call.thread] = TASK_SLEEP
    BY <1>0 DEF CallState
  <2>2. call' \in [at : CallPoints, thread : Pointers, user : BOOLEAN]
        /\ call'.thread = call.thread /\ call'.at = "register"
    BY <1>0 DEF TypeOK, CallPoints
  <2>3. page_dir' \in [Threads -> Directories] /\ esp' \in [Threads -> 0..StackFrames + 1]
    <3>1. 1 \in 0..StackFrames + 1 /\ p \in Directories
      BY StackAssumption DEF Directories
    <3> QED
      BY <1>0, <3>1, Zenon DEF TypeOK
  <2>4. id' \in [Threads -> 0..MaxId] /\ last_id' \in 0..MaxId
    <3>1. last_id + 1 \in 0..MaxId
      BY <1>0, MaxIdAssumption DEF TypeOK
    <3> QED
      BY <1>0, <3>1, Zenon DEF TypeOK
  <2>5. TypeOK'
    BY <1>0, <2>2, <2>3, <2>4 DEF TypeOK
  <2>6. Live' = Live /\ Scheduled' = Scheduled
    BY DEF Live, Scheduled
  <2>7. BootState' /\ CallState'
    BY <2>1, <2>2, <2>6 DEF BootState, CallState, Running
  <2>8. \A t \in Scheduled : page_dir'[t] = page_dir[t]
    BY <1>0, <2>1 DEF Scheduled, Live, TypeOK
  <2> QED
    BY <2>5, <2>6, <2>7, <2>8, QuietStep DEF Running
<1> QED
  BY <1>1, <1>2, <1>3, <1>4, <1>5

\* create_thread links its thread into the ring, before the current one.
LEMMA RegisterStep == RingInvariant /\ create_thread_register => RingInvariant'
<1> SUFFICES ASSUME RingInvariant, create_thread_register PROVE RingInvariant'
  OBVIOUS
<1> USE NullAssumption DEF TASK_SLEEP, TASK_READY, TASK_RUNNING, TASK_FINISHED, cpuVars
<1> DEFINE t == call.thread
<1>0. TypeOK /\ Running /\ call.at = "register"
  BY DEF RingInvariant, create_thread_register, MainAt
<1>1. t \in Threads /\ t \in Live /\ t \notin Scheduled
  BY <1>0 DEF RingInvariant, CallState, Live, Scheduled
<1>2. /\ current_thread \in Scheduled /\ kernel_thread \in Scheduled
      /\ Linked(Scheduled, next, prev) /\ Connected(Scheduled, next)
      /\ Scheduled \in SUBSET Threads /\ kernel_thread # Null
  BY <1>0 DEF RingInvariant, RingLinked, RingConnected, Scheduled, Live
<1>3. /\ state' = [state EXCEPT ![t] = TASK_READY]
      /\ next' = [next EXCEPT ![t] = current_thread, ![prev[current_thread]] = t]
      /\ prev' = [prev EXCEPT ![t] = prev[current_thread], ![current_thread] = t]
      /\ call' = [call EXCEPT !.at = "return"]
      /\ UNCHANGED <<heap, id, ustack, page_dir, esp, scheduling, last_id, cpuVars,
                     smashed, status, kernel_thread, current_thread>>
  BY <1>2 DEF create_thread_register, schedule_thread
<1>4. num_threads' \in Int
  BY <1>0 DEF create_thread_register, TypeOK
<1>5. call' \in [at : CallPoints, thread : Pointers, user : BOOLEAN]
      /\ call'.thread = t /\ call'.at = "return"
  BY <1>0, <1>3 DEF TypeOK, CallPoints
<1>6. TypeOK'
  <2>1. state' \in [Threads -> TASK_SLEEP..TASK_FINISHED]
    <3>1. state \in [Threads -> TASK_SLEEP..TASK_FINISHED]
      BY <1>0 DEF TypeOK
    <3>2. state' = [state EXCEPT ![t] = TASK_READY]
      BY <1>3
    <3> QED
      BY <1>1, <3>1, <3>2
  <2>2. prev[current_thread] \in Threads /\ current_thread \in Threads
    BY <1>2 DEF Linked
  <2>3. next' \in [Threads -> Pointers] /\ prev' \in [Threads -> Pointers]
    BY <1>0, <1>1, <1>3, <2>2 DEF TypeOK, Pointers
  <2> QED
    BY <1>0, <1>3, <1>4, <1>5, <2>1, <2>3 DEF TypeOK
<1>7. Live' = Live /\ Running'
  BY <1>0, <1>3 DEF Live, Running
<1>8. state'[t] = TASK_READY /\ \A x \in Threads \ {t} : state'[x] = state[x]
  BY <1>0, <1>1, <1>3 DEF TypeOK
<1>9. Scheduled' = Scheduled \cup {t}
  BY <1>1, <1>7, <1>8 DEF Scheduled, Live
<1>10. next \in [Threads -> Pointers] /\ prev \in [Threads -> Pointers]
  BY <1>0 DEF TypeOK
<1>11. RingLinked'
  <2>1. Linked(Scheduled', next', prev')
    BY <1>1, <1>2, <1>3, <1>9, <1>10, InsertLinked, Zenon
  <2> QED
    BY <1>2, <1>3, <1>9, <2>1 DEF RingLinked
<1>12. RingConnected'
  <2>1. Connected(Scheduled', next')
    BY <1>1, <1>2, <1>3, <1>9, <1>10, InsertConnected, Zenon
  <2> QED
    BY <2>1 DEF RingConnected
<1>13. BootState' /\ CallState'
  BY <1>1, <1>5, <1>7 DEF BootState, CallState, Running
<1>14. (FinishedIsCurrent /\ OneRunning /\ AddressSpaceIsOwn)'
  BY <1>0, <1>1, <1>3, <1>8, <1>9
  DEF RingInvariant, FinishedIsCurrent, OneRunning, AddressSpaceIsOwn, Scheduled, Live
<1>15. ThreadCount'
  <2>1. Cardinality(Scheduled \cup {t}) = Cardinality(Scheduled) + 1
    BY <1>1, <1>2, ThreadSets, FS_AddElement
  <2>2. num_threads' = Cardinality(Scheduled) + 1
    BY <1>0 DEF RingInvariant, ThreadCount, create_thread_register
  <2> QED
    BY <1>9, <2>1, <2>2 DEF ThreadCount
<1> QED
  BY <1>6, <1>11, <1>12, <1>13, <1>14, <1>15 DEF RingInvariant

\* thread_exit marks the current thread, which is not the kernel's.
LEMMA ExitStep == RingInvariant /\ thread_exit => RingInvariant'
<1> SUFFICES ASSUME RingInvariant, thread_exit PROVE RingInvariant'
  OBVIOUS
<1> USE DEF TASK_SLEEP, TASK_READY, TASK_RUNNING, TASK_FINISHED, cpuVars, schedVars
<1>0. TypeOK /\ Running /\ Running' /\ current_thread # kernel_thread
  BY DEF RingInvariant, thread_exit, Running
<1>1. /\ current_thread \in Scheduled /\ Linked(Scheduled, next, prev)
      /\ kernel_thread \in Scheduled
      /\ Connected(Scheduled, next) /\ Scheduled \in SUBSET Threads
  BY <1>0 DEF RingInvariant, RingLinked, RingConnected, Scheduled, Live
<1>2. /\ state' = [state EXCEPT ![current_thread] = TASK_FINISHED]
      /\ UNCHANGED <<heap, next, prev, id, ustack, page_dir, esp, schedVars, last_id,
                     cpuVars, call, status>>
      /\ smashed' = PushFrame
  BY DEF thread_exit
<1>3. smashed' \subseteq Threads
  BY <1>0, <1>1, <1>2 DEF PushFrame, TypeOK
<1>4. state' \in [Threads -> TASK_SLEEP..TASK_FINISHED]
  <2>1. state \in [Threads -> TASK_SLEEP..TASK_FINISHED]
    BY <1>0 DEF TypeOK
  <2>2. state' = [state EXCEPT ![current_thread] = TASK_FINISHED]
    BY <1>2
  <2> QED
    BY <1>1, <2>1, <2>2
<1>5. TypeOK'
  BY <1>0, <1>2, <1>3, <1>4 DEF TypeOK
<1>6. /\ state'[current_thread] = TASK_FINISHED
      /\ \A x \in Threads \ {current_thread} : state'[x] = state[x]
  BY <1>0, <1>1, <1>2 DEF TypeOK
<1>7. Live' = Live
  BY <1>2 DEF Live
<1>8. Scheduled' = Scheduled
  BY <1>1, <1>6, <1>7 DEF Scheduled, Live
<1>9. BootState' /\ CallState'
  BY <1>1, <1>2, <1>6, <1>7 DEF RingInvariant, BootState, CallState, Scheduled, Live
<1>10. (FinishedIsCurrent /\ OneRunning /\ AddressSpaceIsOwn /\ ThreadCount)'
  BY <1>0, <1>1, <1>2, <1>6, <1>8, Zenon
  DEF RingInvariant, FinishedIsCurrent, OneRunning, AddressSpaceIsOwn, ThreadCount
<1>11. RingLinked' /\ RingConnected'
  BY <1>1, <1>2, <1>8 DEF RingLinked, RingConnected
<1> QED
  BY <1>5, <1>9, <1>10, <1>11 DEF RingInvariant

\* A tick, or a trap, that leaves the current thread running.
LEMMA KeepStep ==
  ASSUME RingInvariant, Running,
         schedule_tick_keep \/ user_trap \/ stack_overrun
  PROVE  RingInvariant'
<1> USE DEF cpuVars, schedVars, threadVars
<1>1. /\ UNCHANGED <<heap, threadVars, schedVars, last_id, cpuVars, call>>
      /\ smashed' \in {smashed, PushFrame} /\ status' \in {status, "undefined"}
  BY DEF schedule_tick_keep, user_trap, stack_overrun
<1>2. current_thread \in Threads
  BY DEF RingInvariant, RingLinked, Scheduled, Live
<1>3. smashed' \subseteq Threads
  BY <1>1, <1>2 DEF PushFrame, RingInvariant, TypeOK
<1>4. TypeOK'
  BY <1>1, <1>3 DEF RingInvariant, TypeOK
<1>5. Live' = Live /\ Scheduled' = Scheduled
  BY <1>1 DEF Live, Scheduled
<1>6. BootState' /\ CallState'
  BY <1>1, <1>5 DEF RingInvariant, BootState, CallState
<1> QED
  BY <1>1, <1>4, <1>5, <1>6, QuietStep, Zenon DEF Running

\* A frame depth is never past the cap.
LEMMA TrapFramesType == TypeOK => TrapFrames \in 0..StackFrames + 1
<1> SUFFICES ASSUME TypeOK PROVE TrapFrames \in 0..StackFrames + 1
  OBVIOUS
<1>1. tss_esp0.frames \in 0..StackFrames + 1
  BY DEF TypeOK
<1> QED
  BY <1>1, StackAssumption DEF TrapFrames

\* A tick that moves on to the next thread.
LEMMA SwitchStep == RingInvariant /\ Running /\ schedule_tick_switch => RingInvariant'
<1> SUFFICES ASSUME RingInvariant, Running, schedule_tick_switch PROVE RingInvariant'
  OBVIOUS
<1> USE DEF TASK_SLEEP, TASK_READY, TASK_RUNNING, TASK_FINISHED
<1>0. TypeOK
  BY DEF RingInvariant
<1>1. /\ current_thread \in Scheduled /\ kernel_thread \in Scheduled
      /\ Linked(Scheduled, next, prev)
      /\ Connected(Scheduled, next) /\ Scheduled \in SUBSET Threads
  BY DEF RingInvariant, RingLinked, RingConnected, Scheduled, Live
<1>2. PICK n \in Threads :
        /\ next_ready_thread(n) /\ n # current_thread
        /\ esp' = [esp EXCEPT ![current_thread] = TrapFrames]
        /\ switch_to(n, [state EXCEPT ![current_thread] = TASK_READY])
  BY DEF schedule_tick_switch
<1>3. n = next[current_thread] /\ n \in Scheduled
  BY <1>1, <1>2, NextReady DEF Linked
<1>4. /\ tss_esp0' = [stack |-> n, frames |-> esp[n]]
      /\ state' = [[state EXCEPT ![current_thread] = TASK_READY] EXCEPT ![n] = TASK_RUNNING]
      /\ current_thread' = n
      /\ current_directory' = page_dir[n]
  BY <1>2 DEF switch_to
<1>5. /\ smashed' = PushFrame /\ state[current_thread] # TASK_FINISHED
      /\ UNCHANGED <<heap, next, prev, id, ustack, page_dir, kernel_thread, scheduling,
                     num_threads, last_id, call, status>>
  BY DEF schedule_tick_switch
<1>6. TypeOK'
  <2>1. state \in [Threads -> TASK_SLEEP..TASK_FINISHED]
    BY <1>0 DEF TypeOK
  <2>2. [state EXCEPT ![current_thread] = TASK_READY] \in [Threads -> TASK_SLEEP..TASK_FINISHED]
    BY <1>1, <2>1
  <2>3. state' \in [Threads -> TASK_SLEEP..TASK_FINISHED]
    BY <1>2, <1>4, <2>2, SMTT(20)
  <2>4. esp \in [Threads -> 0..StackFrames + 1] /\ TrapFrames \in 0..StackFrames + 1
    BY <1>0, TrapFramesType DEF TypeOK
  <2>5. esp' \in [Threads -> 0..StackFrames + 1]
    BY <1>1, <1>2, <2>4
  <2>6. tss_esp0' \in [stack : Pointers, frames : 0..StackFrames + 1]
    BY <1>2, <1>4, <2>4 DEF Pointers
  <2>7. smashed' \subseteq Threads
    BY <1>0, <1>1, <1>5 DEF PushFrame, TypeOK
  <2>8. current_thread' \in Pointers /\ current_directory' \in Directories
    BY <1>0, <1>2, <1>4 DEF TypeOK, Pointers
  <2> QED
    BY <1>0, <1>5, <2>3, <2>5, <2>6, <2>7, <2>8 DEF TypeOK
<1>7. /\ state'[n] = TASK_RUNNING /\ state'[current_thread] = TASK_READY
      /\ \A x \in Threads \ {n, current_thread} : state'[x] = state[x]
  BY <1>0, <1>1, <1>2, <1>4 DEF TypeOK
<1>8. Live' = Live /\ Running'
  BY <1>5 DEF Live, Running
<1>9. Scheduled' = Scheduled
  BY <1>1, <1>3, <1>7, <1>8 DEF Scheduled, Live
<1>10. RingLinked' /\ RingConnected'
  <2>1. next' = next /\ prev' = prev /\ kernel_thread' = kernel_thread
    BY <1>5
  <2>2. Linked(Scheduled', next', prev') /\ Connected(Scheduled', next')
    BY <1>1, <1>9, <2>1, Zenon
  <2> QED
    BY <1>1, <1>3, <1>4, <1>9, <2>1, <2>2, Zenon DEF RingLinked, RingConnected
<1>11. BootState' /\ CallState'
  <2>1. BootState' /\ call' = call /\ Running
    BY <1>5, <1>8 DEF BootState, Running
  <2>2. CallState /\ \A x \in Threads : x \notin Scheduled => state'[x] = state[x]
    BY <1>1, <1>3, <1>7 DEF RingInvariant
  <2> QED
    BY <1>1, <1>3, <1>5, <1>8, <1>9, <2>1, <2>2 DEF CallState, Scheduled, Live
<1>12. (FinishedIsCurrent /\ OneRunning /\ AddressSpaceIsOwn)'
  <2>1. FinishedIsCurrent /\ OneRunning
    BY DEF RingInvariant
  <2>2. \A x \in Scheduled : state'[x] # TASK_FINISHED
    BY <1>1, <1>3, <1>7, <2>1 DEF FinishedIsCurrent
  <2>3. \A x \in Scheduled : state'[x] = TASK_RUNNING => x = n
    BY <1>1, <1>3, <1>7, <2>1 DEF OneRunning
  <2> QED
    BY <1>4, <1>5, <1>9, <2>2, <2>3, Zenon DEF FinishedIsCurrent, OneRunning, AddressSpaceIsOwn
<1>13. ThreadCount'
  BY <1>5, <1>9 DEF RingInvariant, ThreadCount
<1> QED
  BY <1>6, <1>10, <1>11, <1>12, <1>13 DEF RingInvariant

\* A tick that unlinks and frees the finished thread.
LEMMA ReapStep == RingInvariant /\ Running /\ schedule_tick_reap => RingInvariant'
<1> SUFFICES ASSUME RingInvariant, Running, schedule_tick_reap PROVE RingInvariant'
  OBVIOUS
<1> USE NullAssumption DEF TASK_SLEEP, TASK_READY, TASK_RUNNING, TASK_FINISHED, cpuVars
<1> DEFINE c == current_thread
<1>0. TypeOK
  BY DEF RingInvariant
<1>1. /\ c \in Scheduled /\ kernel_thread \in Scheduled
      /\ Linked(Scheduled, next, prev)
      /\ Connected(Scheduled, next) /\ Scheduled \in SUBSET Threads
  BY DEF RingInvariant, RingLinked, RingConnected, Scheduled, Live
<1>2. PICK n \in Threads :
        /\ next_ready_thread(n) /\ n # c
        /\ unschedule_thread(c)
        /\ destroy_thread(c)
        /\ IF status' = "ok"
           THEN switch_to(n, state)
           ELSE UNCHANGED <<state, current_thread, cpuVars>>
  BY DEF schedule_tick_reap
<1>3. /\ state[c] = TASK_FINISHED /\ c # kernel_thread
      /\ UNCHANGED <<id, ustack, page_dir, esp, kernel_thread, scheduling, last_id, call>>
      /\ smashed' = IF status' = "ok" THEN smashed \ {c} ELSE PushFrame
  <2>1. FinishedIsCurrent
    BY DEF RingInvariant
  <2> QED
    BY <1>1, <2>1 DEF schedule_tick_reap, FinishedIsCurrent
<1>4. n = next[c] /\ n \in Scheduled /\ prev[c] \in Scheduled
  <2>1. next_ready_thread(n) <=> n = next[c]
    BY <1>2, NextReady
  <2> QED
    BY <1>1, <1>2, <2>1, SMTT(20) DEF Linked
<1>5. /\ next' = [next EXCEPT ![prev[c]] = next[c]]
      /\ prev' = [prev EXCEPT ![next[c]] = prev[c]]
  BY <1>1, <1>2, <1>3, <1>4 DEF unschedule_thread
<1>6. next' \in [Threads -> Pointers] /\ prev' \in [Threads -> Pointers]
  <2>1. next \in [Threads -> Pointers] /\ prev \in [Threads -> Pointers]
    BY <1>0 DEF TypeOK
  <2>2. prev[c] \in Threads /\ next[c] \in Threads
    BY <1>1, <1>4
  <2> QED
    BY <1>5, <2>1, <2>2 DEF Pointers
<1>7. num_threads' \in Int /\ heap' \subseteq heap /\ status' \in {"ok", "assertion"}
  BY <1>0, <1>2 DEF destroy_thread, TypeOK, Running
<1>8. smashed' \subseteq Threads
  BY <1>0, <1>1, <1>3 DEF PushFrame, TypeOK
<1>9. CASE status' = "ok"
  <2>1. /\ heap' = heap \ ({<<c, "kstack">>, <<c, "thread">>}
                           \cup (IF ustack[c] THEN {<<c, "ustack">>} ELSE {}))
        /\ tss_esp0' = [stack |-> n, frames |-> esp[n]]
        /\ state' = [state EXCEPT ![n] = TASK_RUNNING]
        /\ current_thread' = n
        /\ current_directory' = page_dir[n]
    <3>1. switch_to(n, state)
      BY <1>2, <1>9
    <3>2. heap' = heap \ ({<<c, "kstack">>, <<c, "thread">>}
                          \cup (IF ustack[c] THEN {<<c, "ustack">>} ELSE {}))
      BY <1>2, <1>9, Zenon DEF destroy_thread
    <3> QED
      BY <3>1, <3>2, Zenon DEF switch_to
  <2>2. TypeOK'
    <3>1. state \in [Threads -> TASK_SLEEP..TASK_FINISHED] /\ esp \in [Threads -> 0..StackFrames + 1]
      BY <1>0 DEF TypeOK
    <3>2. state' \in [Threads -> TASK_SLEEP..TASK_FINISHED]
      <4>1. state' = [state EXCEPT ![n] = TASK_RUNNING]
        BY <2>1
      <4> QED
        BY <3>1, <4>1
    <3>3. tss_esp0' \in [stack : Pointers, frames : 0..StackFrames + 1]
      <4>1. tss_esp0' = [stack |-> n, frames |-> esp[n]] /\ n \in Pointers
        BY <1>2, <2>1 DEF Pointers
      <4>2. esp[n] \in 0..StackFrames + 1
        BY <1>2, <3>1, Zenon
      <4> QED
        BY <4>1, <4>2
    <3>4. current_thread' \in Pointers /\ current_directory' \in Directories
      BY <1>0, <1>2, <2>1, SMTT(20) DEF TypeOK, Pointers
    <3> QED
      BY <1>0, <1>3, <1>6, <1>7, <1>8, <1>9, <3>2, <3>3, <3>4 DEF TypeOK
  <2>3. Live' = Live \ {c}
    <3>1. \A t \in Threads : <<t, "thread">> \in heap' <=> <<t, "thread">> \in heap /\ t # c
      <4>1. heap' = heap \ ({<<c, "kstack">>, <<c, "thread">>}
                            \cup (IF ustack[c] THEN {<<c, "ustack">>} ELSE {}))
        BY <2>1
      <4> QED
        BY <4>1
    <3> QED
      BY <3>1 DEF Live
  <2>4. state'[n] = TASK_RUNNING /\ \A x \in Threads \ {n} : state'[x] = state[x]
    BY <1>0, <1>2, <2>1 DEF TypeOK
  <2>5. Scheduled' = Scheduled \ {c}
    <3>1. Live \subseteq Threads /\ n \in Live /\ state[n] # TASK_SLEEP
      BY <1>4 DEF Scheduled, Live
    <3>2. \A t \in Live : state'[t] # TASK_SLEEP <=> state[t] # TASK_SLEEP
      BY <2>4, <3>1
    <3> QED
      BY <2>3, <3>2 DEF Scheduled
  <2>6. next \in [Threads -> Pointers] /\ prev \in [Threads -> Pointers] /\ next[c] # c
    BY <1>0, <1>2, <1>4 DEF TypeOK
  <2>7. RingLinked'
    <3>1. Linked(Scheduled', next', prev')
      BY <1>1, <1>5, <2>5, <2>6, RemoveLinked, Zenon
    <3> QED
      BY <1>1, <1>2, <1>3, <1>4, <2>1, <2>5, <3>1, Zenon DEF RingLinked
  <2>8. RingConnected'
    <3>1. Connected(Scheduled', next')
      BY <1>1, <1>5, <2>5, <2>6, RemoveConnected, Zenon
    <3> QED
      BY <3>1 DEF RingConnected
  <2>9. BootState' /\ CallState'
    <3>1. CallState /\ scheduling'
      BY <1>3 DEF RingInvariant, Running
    <3>2. c \in Live /\ n \in Live /\ state[c] # TASK_SLEEP /\ state[n] # TASK_SLEEP
      BY <1>1, <1>4, SMTT(20) DEF Scheduled
    <3>3. CallState'
      BY <1>3, <2>3, <2>4, <3>1, <3>2, SMTT(20) DEF CallState, Live
    <3> QED
      BY <3>1, <3>3 DEF BootState
  <2>10. (FinishedIsCurrent /\ OneRunning /\ AddressSpaceIsOwn)'
    <3>1. /\ \A t \in Scheduled : state[t] = TASK_FINISHED => t = c
          /\ \A t \in Scheduled : state[t] = TASK_RUNNING => t = c
      BY DEF RingInvariant, FinishedIsCurrent, OneRunning
    <3>2. \A t \in Scheduled' : state'[t] # TASK_FINISHED
      BY <1>1, <2>4, <2>5, <3>1, SMTT(20)
    <3>3. \A t \in Scheduled' : state'[t] = TASK_RUNNING => t = n
      BY <1>1, <2>4, <2>5, <3>1
    <3>4. current_thread' = n /\ current_directory' = page_dir'[current_thread']
      BY <1>3, <2>1
    <3> QED
      BY <3>2, <3>3, <3>4 DEF FinishedIsCurrent, OneRunning, AddressSpaceIsOwn
  <2>11. ThreadCount'
    <3>1. Cardinality(Scheduled \ {c}) = Cardinality(Scheduled) - 1
      BY <1>1, ThreadSets, FS_RemoveElement
    <3>2. num_threads' = Cardinality(Scheduled) - 1
      BY <1>2 DEF RingInvariant, ThreadCount, destroy_thread
    <3> QED
      BY <2>5, <3>1, <3>2 DEF ThreadCount
  <2> QED
    BY <2>2, <2>7, <2>8, <2>9, <2>10, <2>11 DEF RingInvariant
<1>10. CASE status' = "assertion"
  <2>1. UNCHANGED <<state, current_thread, cpuVars, heap>> /\ ~Running'
    BY <1>2, <1>10 DEF destroy_thread, Running
  <2>2. TypeOK'
    BY <1>0, <1>3, <1>6, <1>7, <1>8, <1>10, <2>1, SMTT(20) DEF TypeOK
  <2>3. Live' = Live
    BY <2>1 DEF Live
  <2>4. BootState' /\ CallState'
    BY <1>3, <2>1, <2>3 DEF RingInvariant, BootState, CallState, Running
  <2> QED
    BY <2>1, <2>2, <2>4, Zenon
    DEF RingInvariant, FinishedIsCurrent, RingLinked, RingConnected, OneRunning,
        AddressSpaceIsOwn, ThreadCount
<1> QED
  BY <1>7, <1>9, <1>10

\* Every reachable state satisfies the inductive invariant.
THEOREM RingAlways == Spec => []RingInvariant
<1>1. RingInvariant /\ [Next]_vars => RingInvariant'
  <2> SUFFICES ASSUME RingInvariant, [Next]_vars PROVE RingInvariant'
    OBVIOUS
  <2>1. CASE scheduling_init
    BY <2>1, BootStep
  <2>2. CASE create_thread
    BY <2>2, CreateStep, RegisterStep DEF create_thread
  <2>3. CASE thread_exit
    BY <2>3, ExitStep
  <2>4. CASE irq_timer \/ switch_next
    BY <2>4, ReapStep, SwitchStep, KeepStep DEF irq_timer, switch_next, schedule_tick
  <2>5. CASE user_trap \/ stack_overrun
    BY <2>5, KeepStep DEF user_trap, stack_overrun
  <2>6. CASE UNCHANGED vars
    <3>1. /\ UNCHANGED <<heap, state, next, prev, id, ustack, page_dir, esp>>
          /\ UNCHANGED <<kernel_thread, current_thread, scheduling, num_threads, last_id>>
          /\ UNCHANGED <<tss_esp0, current_directory, call, smashed, status>>
      BY <2>6 DEF vars, threadVars, schedVars, cpuVars
    <3>2. TypeOK'
      BY <3>1 DEF RingInvariant, TypeOK
    <3>3. Live' = Live /\ Scheduled' = Scheduled
      BY <3>1 DEF Live, Scheduled
    <3>4. BootState' /\ CallState'
      <4>1. BootState'
        BY <3>1 DEF RingInvariant, BootState
      <4>2. CallState'
        BY <3>1, <3>3 DEF RingInvariant, CallState
      <4> QED
        BY <4>1, <4>2
    <3> QED
      BY <3>1, <3>2, <3>3, <3>4, QuietStep, Zenon DEF Running
  <2> QED
    BY <2>1, <2>2, <2>3, <2>4, <2>5, <2>6 DEF Next
<1> QED
  BY <1>1, InitInvariant, PTL DEF Spec

\* The kernel's list of threads is, always and for any number of threads, one
\* ring of exactly the live registered threads, with the current thread and the
\* kernel thread in it, counted by get_num_threads; the current address space is
\* that of the current thread.
THEOREM RingSafe ==
  Spec => [](TypeOK /\ RingLinked /\ RingConnected /\ OneRunning /\ AddressSpaceIsOwn /\ ThreadCount)
BY RingAlways, PTL DEF RingInvariant

\* A thread that has called thread_exit always has another thread to be left for.
THEOREM FinishedAlwaysLeaves == Spec => []FinishedLeaves
<1>1. RingInvariant => FinishedLeaves
  <2> SUFFICES ASSUME RingInvariant, Running, NEW t \in Scheduled, state[t] = TASK_FINISHED
               PROVE  /\ t = current_thread
                      /\ t # kernel_thread
                      /\ \E n \in Scheduled : next_ready_thread(n) /\ n # t
    BY DEF FinishedLeaves
  <2>1. t = current_thread /\ t # kernel_thread /\ kernel_thread \in Scheduled
    BY DEF RingInvariant, FinishedIsCurrent, RingLinked
  <2>2. next[t] \in Scheduled /\ next[t] \in Threads
    BY <2>1, Zenon DEF RingInvariant, RingLinked, Linked, Scheduled, Live
  <2>3. next_ready_thread(next[t])
    BY <2>1, <2>2, NextReady
  <2>4. next[t] # t
    <3>1. SUFFICES ASSUME next[t] = t PROVE FALSE
      OBVIOUS
    <3>2. {t} \in SUBSET Scheduled /\ {t} # {} /\ \A u \in {t} : next[u] \in {t}
      BY <3>1
    <3>3. {t} = Scheduled
      BY <3>2, Zenon DEF RingInvariant, RingConnected, Connected
    <3> QED
      BY <2>1, <3>3
  <2> QED
    BY <2>1, <2>2, <2>3, <2>4
<1> QED
  BY <1>1, RingAlways, PTL

\* No step takes a finished thread back to another state while it is allocated.
THEOREM FinishedNeverResumed == Spec => NeverResumed
<1> DEFINE Stays(t) == t \in Live /\ state[t] = TASK_FINISHED =>
                         state'[t] = TASK_FINISHED \/ t \notin Live'
<1>1. ASSUME RingInvariant, Next, NEW t \in Threads, t \in Live, state[t] = TASK_FINISHED
      PROVE  state'[t] = TASK_FINISHED \/ t \notin Live'
  <2> USE <1>1 DEF TASK_SLEEP, TASK_READY, TASK_RUNNING, TASK_FINISHED
  <2>1. state \in [Threads -> TASK_SLEEP..TASK_FINISHED] /\ scheduling /\ t \in Scheduled
    BY DEF RingInvariant, TypeOK, BootState, Live, Scheduled
  <2>2. Running => t = current_thread
    BY <2>1 DEF RingInvariant, FinishedIsCurrent
  <2>3. CASE \E u \in BOOLEAN : create_thread_alloc(u)
    BY <2>1, <2>3 DEF create_thread_alloc
  <2>4. CASE create_thread_register
    <3>1. state' = [state EXCEPT ![call.thread] = TASK_READY] /\ state[call.thread] = TASK_SLEEP
      BY <2>4 DEF create_thread_register, schedule_thread, MainAt, RingInvariant, CallState
    <3> QED
      BY <2>1, <3>1
  <2>5. CASE thread_exit
    BY <2>1, <2>5 DEF thread_exit
  <2>6. CASE Running /\ schedule_tick_reap
    <3>1. PICK n \in Threads : n # current_thread
                              /\ IF status' = "ok" THEN switch_to(n, state)
                                 ELSE UNCHANGED <<state, current_thread, cpuVars>>
      BY <2>6 DEF schedule_tick_reap
    <3> QED
      BY <2>1, <2>2, <2>6, <3>1, SMTT(20) DEF switch_to
  <2>7. CASE Running /\ schedule_tick_switch
    <3>1. state[current_thread] # TASK_FINISHED
      BY <2>7, Zenon DEF schedule_tick_switch
    <3> QED
      BY <2>2, <2>7, <3>1, Zenon
  <2>8. CASE UNCHANGED state
    BY <2>8
  <2> QED
    BY <2>1, <2>3, <2>4, <2>5, <2>6, <2>7, <2>8
    DEF Next, scheduling_init, create_thread, create_thread_kstack, create_thread_ustack,
        create_thread_fail, create_thread_fill, create_thread_return, irq_timer, switch_next,
        schedule_tick, schedule_tick_keep, user_trap, stack_overrun, threadVars
<1>2. RingInvariant /\ [Next]_vars => [\A t \in Threads : Stays(t)]_vars
  BY <1>1
<1> QED
  BY <1>2, RingAlways, PTL DEF Spec, NeverResumed

-----------------------------------------------------------------------------
(* The id create_thread returns, and the stacks.                           *)

\* From the filling of the structure to the return, the last id handed out is
\* the one of the thread being created.
IdInvariant ==
  call.at \in {"register", "return"} => id[call.thread] = last_id

\* The id read with interrupts enabled at the end of create_thread is the one
\* it gave, for any number of threads that run, exit and are freed meanwhile.
THEOREM CreateAlwaysReturnsOwnId == Spec => []CreateReturnsOwnId
<1>1. Init => IdInvariant
  BY DEF Init, NoCall, IdInvariant
<1>2. RingInvariant /\ IdInvariant /\ [Next]_vars => IdInvariant'
  <2> SUFFICES ASSUME RingInvariant, IdInvariant, [Next]_vars PROVE IdInvariant'
    OBVIOUS
  <2>1. CASE scheduling_init
    <3>1. ~scheduling /\ call' = call
      BY <2>1, Zenon DEF scheduling_init
    <3>2. call = NoCall
      BY <3>1, Zenon DEF RingInvariant, BootState
    <3> QED
      BY <3>1, <3>2 DEF NoCall, IdInvariant
  <2>2. CASE \E u \in BOOLEAN : create_thread_alloc(u)
    BY <2>2 DEF create_thread_alloc, IdInvariant
  <2>3. CASE create_thread_kstack \/ create_thread_ustack \/ create_thread_fail \/ create_thread_return
    BY <2>3 DEF create_thread_kstack, create_thread_ustack, create_thread_fail,
                create_thread_return, NoCall, RingInvariant, TypeOK, IdInvariant
  <2>4. CASE \E p \in Processes : create_thread_fill(p)
    BY <2>4 DEF create_thread_fill, MainAt, request_thread_id, RingInvariant, TypeOK,
                CallState, Live, IdInvariant
  <2>5. CASE create_thread_register
    BY <2>5 DEF create_thread_register, MainAt, RingInvariant, TypeOK, IdInvariant
  <2>6. CASE UNCHANGED <<id, last_id, call>>
    BY <2>6 DEF IdInvariant
  <2> QED
    BY <2>1, <2>2, <2>3, <2>4, <2>5, <2>6
    DEF Next, create_thread, thread_exit, irq_timer, switch_next, schedule_tick, schedule_tick_reap,
        schedule_tick_switch, schedule_tick_keep, user_trap, stack_overrun, vars, threadVars
<1>3. IdInvariant => CreateReturnsOwnId
  BY DEF IdInvariant, CreateReturnsOwnId
<1> QED
  BY <1>1, <1>2, <1>3, RingAlways, PTL DEF Spec

\* Every block belongs to a live structure; a structure knows its user stack;
\* the kernel stack is there before the thread is registered; and the stack of
\* the next trap is the one schedule_tick loaded last.
StackInvariant ==
  /\ \A b \in heap : b[1] \in Live
  /\ \A t \in Live : ustack[t] <=> <<t, "ustack">> \in heap
  /\ call.at \in {"ustack", "fill", "register"} => <<call.thread, "kstack">> \in heap
  /\ Running =>
       /\ \A t \in Scheduled \ {kernel_thread} : <<t, "kstack">> \in heap
       /\ ~ ustack[kernel_thread]
       /\ current_thread # kernel_thread =>
            tss_esp0.stack = current_thread /\ tss_esp0.frames = esp[current_thread]

\* What the stack invariant says of blocks depends on no other variable.
LEMMA BlocksQuiet ==
  ASSUME StackInvariant, heap' = heap, ustack' = ustack, Live' = Live
  PROVE  /\ \A b \in heap' : b[1] \in Live'
         /\ \A t \in Live' : ustack'[t] <=> <<t, "ustack">> \in heap'
<1>1. \A b \in heap' : b[1] \in Live'
  BY Zenon DEF StackInvariant
<1>2. \A t \in Live' : ustack'[t] <=> <<t, "ustack">> \in heap'
  BY Zenon DEF StackInvariant
<1> QED
  BY <1>1, <1>2

\* A step that changes neither the blocks nor the stacks, and unregisters or
\* switches nothing, keeps the stack invariant (thread_exit among them).
LEMMA StackQuiet ==
  ASSUME StackInvariant, Scheduled' = Scheduled, Running' => Running,
         UNCHANGED <<heap, ustack, esp, kernel_thread, current_thread, tss_esp0, call>>
  PROVE  StackInvariant'
<1>1. Live' = Live
  BY DEF Live
<1>2. heap' = heap /\ ustack' = ustack /\ esp' = esp /\ call' = call
  OBVIOUS
<1>3. kernel_thread' = kernel_thread /\ current_thread' = current_thread /\ tss_esp0' = tss_esp0
  OBVIOUS
<1>4. call'.at \in {"ustack", "fill", "register"} => <<call'.thread, "kstack">> \in heap'
  BY <1>2, Zenon DEF StackInvariant
<1>5. Running' =>
        /\ \A t \in Scheduled' \ {kernel_thread'} : <<t, "kstack">> \in heap'
        /\ ~ ustack'[kernel_thread']
        /\ current_thread' # kernel_thread' =>
             tss_esp0'.stack = current_thread' /\ tss_esp0'.frames = esp'[current_thread']
  BY <1>2, <1>3, Zenon DEF StackInvariant
<1> QED
  BY <1>1, <1>2, <1>4, <1>5, BlocksQuiet, Zenon DEF StackInvariant

\* The steps of create_thread keep the stack invariant.
LEMMA StackCreate == RingInvariant /\ StackInvariant /\ create_thread => StackInvariant'
<1> SUFFICES ASSUME RingInvariant, StackInvariant, create_thread PROVE StackInvariant'
  OBVIOUS
<1>1. TypeOK /\ Running /\ current_thread = kernel_thread /\ kernel_thread \in Scheduled
  BY DEF create_thread, create_thread_alloc, create_thread_kstack, create_thread_ustack,
         create_thread_fail, create_thread_fill, create_thread_register, create_thread_return,
         MainAt, RingInvariant, RingLinked
<1>2. current_thread' = kernel_thread' /\ kernel_thread' = kernel_thread
  BY <1>1, NullAssumption
  DEF create_thread, create_thread_alloc, create_thread_kstack, create_thread_ustack,
      create_thread_fail, create_thread_fill, create_thread_register, create_thread_return,
      schedule_thread, schedVars, Scheduled, Live
<1>3. ASSUME NEW u \in BOOLEAN, create_thread_alloc(u) PROVE StackInvariant'
  <2>1. PICK t \in Threads \ Live :
          /\ heap' = heap \cup {<<t, "thread">>}
          /\ state' = [state EXCEPT ![t] = TASK_SLEEP]
          /\ ustack' = [ustack EXCEPT ![t] = FALSE]
          /\ call' = [at |-> "kstack", thread |-> t, user |-> u]
    BY <1>3, Zenon DEF create_thread_alloc
  <2>2. Live' = Live \cup {t} /\ Scheduled' = Scheduled /\ t # kernel_thread
    <3>1. Live' = Live \cup {t}
      BY <2>1 DEF Live
    <3>2. state'[t] = TASK_SLEEP /\ \A v \in Threads \ {t} : state'[v] = state[v]
      BY <1>1, <2>1 DEF TypeOK
    <3> QED
      BY <1>1, <2>1, <3>1, <3>2 DEF Scheduled, Live
  <2>3. \A b \in heap' : b[1] \in Live'
    <3>1. <<t, "thread">>[1] = t /\ \A b \in heap : b[1] \in Live
      BY DEF StackInvariant
    <3> QED
      BY <2>1, <2>2, <3>1, Zenon
  <2>4. <<t, "ustack">> \notin heap'
    <3>1. <<t, "ustack">> \in heap => <<t, "ustack">>[1] \in Live
      BY Zenon DEF StackInvariant
    <3>2. <<t, "ustack">>[1] = t /\ <<t, "ustack">> # <<t, "thread">>
      OBVIOUS
    <3> QED
      BY <2>1, <3>1, <3>2, Zenon
  <2>5. ASSUME NEW v \in Live' PROVE ustack'[v] <=> <<v, "ustack">> \in heap'
    <3>1. CASE v = t
      BY <1>1, <2>1, <2>4, <3>1 DEF TypeOK
    <3>2. CASE v # t
      <4>1. v \in Live /\ ustack'[v] = ustack[v]
        BY <1>1, <2>1, <2>2, <2>5, <3>2 DEF TypeOK, Live
      <4> QED
        BY <2>1, <4>1 DEF StackInvariant
    <3> QED
      BY <3>1, <3>2
  <2>6. ~ ustack'[kernel_thread']
    BY <1>1, <1>2, <2>1, <2>2 DEF StackInvariant, TypeOK, Scheduled, Live
  <2>7. \A v \in Scheduled' \ {kernel_thread'} : <<v, "kstack">> \in heap'
    BY <1>1, <1>2, <2>1, <2>2, Zenon DEF StackInvariant
  <2> QED
    BY <1>2, <2>1, <2>3, <2>5, <2>6, <2>7 DEF StackInvariant
<1>4. CASE create_thread_kstack
  <2>1. /\ heap' = heap \cup {<<call.thread, "kstack">>} /\ call.thread \in Live
        /\ ustack' = ustack /\ call'.thread = call.thread
    BY <1>1, <1>4 DEF create_thread_kstack, MainAt, RingInvariant, CallState, TypeOK, threadVars
  <2>2. Live' = Live /\ Scheduled' = Scheduled
    BY <1>4, <2>1 DEF create_thread_kstack, threadVars, Live, Scheduled
  <2>3. \A b \in heap' : b[1] \in Live'
    BY <2>1, <2>2 DEF StackInvariant
  <2>4. \A v \in Live' : ustack'[v] <=> <<v, "ustack">> \in heap'
    <3>1. \A v \in Live : <<v, "ustack">> \in heap' <=> <<v, "ustack">> \in heap
      BY <2>1
    <3> QED
      BY <2>1, <2>2, <3>1, Zenon DEF StackInvariant
  <2>5. \A v \in Scheduled' \ {kernel_thread'} : <<v, "kstack">> \in heap'
    BY <1>1, <1>2, <2>1, <2>2, Zenon DEF StackInvariant
  <2> QED
    BY <1>1, <1>2, <2>1, <2>3, <2>4, <2>5 DEF StackInvariant
<1>5. CASE create_thread_ustack
  <2>1. /\ heap' = heap \cup {<<call.thread, "ustack">>} /\ call.thread \in Live
        /\ ustack' = [ustack EXCEPT ![call.thread] = TRUE] /\ call'.thread = call.thread
        /\ call.at = "ustack" /\ state[call.thread] = TASK_SLEEP
    BY <1>1, <1>5 DEF create_thread_ustack, MainAt, RingInvariant, CallState, TypeOK
  <2>2. Live' = Live /\ Scheduled' = Scheduled /\ call.thread # kernel_thread
    BY <1>1, <1>5, <2>1 DEF create_thread_ustack, Live, Scheduled
  <2>3. \A b \in heap' : b[1] \in Live'
    BY <2>1, <2>2 DEF StackInvariant
  <2>4. ASSUME NEW v \in Live' PROVE ustack'[v] <=> <<v, "ustack">> \in heap'
    <3>1. v \in Live /\ v \in Threads /\ ustack \in [Threads -> BOOLEAN]
      BY <1>1, <2>2, <2>4 DEF Live, TypeOK
    <3>2. CASE v = call.thread
      BY <2>1, <3>1, <3>2
    <3>3. CASE v # call.thread
      <4>1. ustack'[v] = ustack[v]
        BY <2>1, <3>1, <3>3, Zenon
      <4>2. <<v, "ustack">> \in heap' <=> <<v, "ustack">> \in heap
        BY <2>1, <3>3
      <4> QED
        BY <3>1, <4>1, <4>2, Zenon DEF StackInvariant
    <3> QED
      BY <3>2, <3>3
  <2>5. \A v \in Scheduled' \ {kernel_thread'} : <<v, "kstack">> \in heap'
    BY <1>1, <1>2, <2>1, <2>2, Zenon DEF StackInvariant
  <2>6. ~ ustack'[kernel_thread'] /\ <<call.thread, "kstack">> \in heap'
    BY <1>1, <1>2, <2>1, <2>2 DEF StackInvariant, TypeOK, Scheduled, Live
  <2> QED
    BY <1>2, <2>1, <2>3, <2>4, <2>5, <2>6, Zenon DEF StackInvariant
<1>6. CASE create_thread_fail \/ create_thread_return
  <2>1. heap' = heap /\ ustack' = ustack /\ state' = state /\ call' = NoCall
    BY <1>6 DEF create_thread_fail, create_thread_return, threadVars
  <2>2. Live' = Live
    BY <2>1 DEF Live
  <2>3. Scheduled' = Scheduled
    BY <2>1, <2>2 DEF Scheduled
  <2>4. call'.at \notin {"ustack", "fill", "register"}
    BY <2>1 DEF NoCall
  <2>5. /\ \A v \in Scheduled' \ {kernel_thread'} : <<v, "kstack">> \in heap'
        /\ ~ ustack'[kernel_thread']
    BY <1>1, <1>2, <2>1, <2>3, Zenon DEF StackInvariant
  <2> QED
    BY <1>2, <2>1, <2>2, <2>4, <2>5, BlocksQuiet, Zenon DEF StackInvariant
<1>7. CASE \E p \in Processes : create_thread_fill(p)
  <2>1. /\ heap' = heap /\ ustack' = ustack /\ state' = state
        /\ call'.thread = call.thread /\ call.at = "fill"
    BY <1>1, <1>7 DEF create_thread_fill, MainAt, TypeOK
  <2>2. Live' = Live
    BY <2>1 DEF Live
  <2>3. Scheduled' = Scheduled
    BY <2>1, <2>2 DEF Scheduled
  <2>4. <<call'.thread, "kstack">> \in heap'
    BY <2>1, Zenon DEF StackInvariant
  <2>5. /\ \A v \in Scheduled' \ {kernel_thread'} : <<v, "kstack">> \in heap'
        /\ ~ ustack'[kernel_thread']
    BY <1>1, <1>2, <2>1, <2>3, Zenon DEF StackInvariant
  <2> QED
    BY <1>2, <2>1, <2>2, <2>4, <2>5, BlocksQuiet, Zenon DEF StackInvariant
<1>8. CASE create_thread_register
  <2>1. /\ UNCHANGED <<heap, ustack, esp, tss_esp0>> /\ Live' = Live
        /\ call'.at = "return" /\ <<call.thread, "kstack">> \in heap
    BY <1>1, <1>8 DEF create_thread_register, MainAt, cpuVars, TypeOK, Live, StackInvariant
  <2>2. Scheduled' \subseteq Scheduled \cup {call.thread}
    BY <1>1, <1>8, <2>1 DEF create_thread_register, schedule_thread, Scheduled, Live, TypeOK
  <2>3. /\ \A v \in Scheduled' \ {kernel_thread'} : <<v, "kstack">> \in heap'
        /\ ~ ustack'[kernel_thread']
    BY <1>1, <1>2, <2>1, <2>2, Zenon DEF StackInvariant
  <2>4. call'.at \notin {"ustack", "fill", "register"}
    BY <2>1
  <2> QED
    BY <1>2, <2>1, <2>3, <2>4, BlocksQuiet, Zenon DEF StackInvariant
<1> QED
  BY <1>3, <1>4, <1>5, <1>6, <1>7, <1>8 DEF create_thread

\* Switching to a thread that was ready loads that thread's own stack.
LEMMA StackSwitch ==
  RingInvariant /\ StackInvariant /\ Running /\ schedule_tick_switch => StackInvariant'
<1> SUFFICES ASSUME RingInvariant, StackInvariant, Running, schedule_tick_switch
             PROVE  StackInvariant'
  OBVIOUS
<1>1. PICK n \in Threads :
        /\ n # current_thread
        /\ esp' = [esp EXCEPT ![current_thread] = TrapFrames]
        /\ tss_esp0' = [stack |-> n, frames |-> esp[n]]
        /\ state' = [[state EXCEPT ![current_thread] = TASK_READY] EXCEPT ![n] = TASK_RUNNING]
        /\ current_thread' = n
        /\ next_ready_thread(n)
  BY Zenon DEF schedule_tick_switch, switch_to
<1>2. UNCHANGED <<heap, ustack, kernel_thread, call>> /\ TypeOK
  BY DEF schedule_tick_switch, RingInvariant
<1>3. n \in Scheduled /\ current_thread \in Scheduled
  BY NextReady, <1>1, Zenon DEF RingInvariant, RingLinked, Linked
<1>4. Live' = Live /\ Scheduled' = Scheduled
  <2>1. Live' = Live
    BY <1>2 DEF Live
  <2>2. state \in [Threads -> 0..3] /\ current_thread \in Threads
    BY <1>2, <1>3 DEF TypeOK, Scheduled, Live, TASK_SLEEP, TASK_FINISHED
  <2>3. \A t \in Threads : state'[t] = IF t = n THEN 2 ELSE IF t = current_thread THEN 1 ELSE state[t]
    BY <1>1, <2>2 DEF TASK_READY, TASK_RUNNING
  <2> QED
    BY <1>3, <2>1, <2>2, <2>3 DEF Live, Scheduled, TASK_SLEEP
<1>5. tss_esp0'.stack = current_thread' /\ tss_esp0'.frames = esp'[current_thread']
  BY <1>1, <1>2 DEF TypeOK
<1>6. heap' = heap /\ ustack' = ustack /\ kernel_thread' = kernel_thread /\ call' = call
  BY <1>2
<1>7. /\ \A v \in Scheduled' \ {kernel_thread'} : <<v, "kstack">> \in heap'
      /\ ~ ustack'[kernel_thread']
  BY <1>4, <1>6, Zenon DEF StackInvariant
<1>8. call'.at \in {"ustack", "fill", "register"} => <<call'.thread, "kstack">> \in heap'
  BY <1>6, Zenon DEF StackInvariant
<1> QED
  BY <1>4, <1>5, <1>6, <1>7, <1>8, BlocksQuiet, Zenon DEF StackInvariant

\* Freeing a finished thread takes all its blocks and no other's.
LEMMA StackReap ==
  RingInvariant /\ StackInvariant /\ Running /\ schedule_tick_reap => StackInvariant'
<1> SUFFICES ASSUME RingInvariant, StackInvariant, Running, schedule_tick_reap
             PROVE  StackInvariant'
  OBVIOUS
<1> DEFINE c == current_thread
           Own == {<<c, "kstack">>, <<c, "thread">>} \cup (IF ustack[c] THEN {<<c, "ustack">>} ELSE {})
<1>1. PICK n \in Threads :
        /\ n # c
        /\ destroy_thread(c)
        /\ IF status' = "ok" THEN switch_to(n, state)
                             ELSE UNCHANGED <<state, current_thread, cpuVars>>
  BY Zenon DEF schedule_tick_reap
<1>2. UNCHANGED <<ustack, esp, kernel_thread, scheduling, call>> /\ TypeOK
  BY DEF schedule_tick_reap, RingInvariant
<1>3. c \in Scheduled /\ c \in Threads /\ c # kernel_thread /\ kernel_thread \in Scheduled
  BY DEF schedule_tick_reap, RingInvariant, RingLinked, FinishedIsCurrent, Scheduled, Live
<1>4. CASE status' # "ok"
  <2>1. UNCHANGED <<heap, state>> /\ ~Running'
    BY <1>1, <1>4 DEF destroy_thread, Running
  <2>2. Live' = Live
    BY <2>1 DEF Live
  <2>3. heap' = heap /\ ustack' = ustack /\ call' = call
    BY <1>2, <2>1
  <2>4. call'.at \in {"ustack", "fill", "register"} => <<call'.thread, "kstack">> \in heap'
    BY <2>3, Zenon DEF StackInvariant
  <2> QED
    BY <2>1, <2>2, <2>3, <2>4, BlocksQuiet, Zenon DEF StackInvariant
<1>5. CASE status' = "ok"
  <2>1. heap' = heap \ Own
    BY <1>1, <1>5 DEF destroy_thread
  <2>2. /\ tss_esp0' = [stack |-> n, frames |-> esp[n]] /\ current_thread' = n
        /\ state' = [state EXCEPT ![n] = TASK_RUNNING]
    BY <1>1, <1>5 DEF switch_to
  <2>3. ASSUME NEW v \in Threads, v # c
        PROVE  /\ <<v, "thread">> \in heap' <=> <<v, "thread">> \in heap
               /\ <<v, "kstack">> \in heap' <=> <<v, "kstack">> \in heap
               /\ <<v, "ustack">> \in heap' <=> <<v, "ustack">> \in heap
    BY <2>1, <2>3
  <2>4. \A b \in heap' : b \in heap /\ b[1] # c
    <3> SUFFICES ASSUME NEW b \in heap', b[1] = c PROVE FALSE
      BY <2>1
    <3>1. b \in heap /\ b \in Blocks /\ b \notin Own
      BY <1>2, <2>1 DEF TypeOK
    <3>2. b = <<c, "thread">> \/ b = <<c, "kstack">> \/ b = <<c, "ustack">>
      BY <3>1 DEF Blocks
    <3>3. c \in Live /\ (ustack[c] <=> <<c, "ustack">> \in heap)
      BY <1>3 DEF Scheduled, StackInvariant
    <3> QED
      BY <3>1, <3>2, <3>3, Zenon
  <2>5. Live' = Live \ {c}
    BY <1>3, <2>1, <2>3 DEF Live
  <2> HIDE DEF Own
  <2>6. Scheduled' \subseteq Scheduled \ {c}
    <3>1. n \in Scheduled
      <4>1. PICK m \in Threads : next_ready_thread(m) /\ m # c /\
                (IF status' = "ok" THEN switch_to(m, state)
                                   ELSE UNCHANGED <<state, current_thread, cpuVars>>)
        BY Zenon DEF schedule_tick_reap
      <4>2. m = n
        BY <1>5, <2>2, <4>1 DEF switch_to
      <4> QED
        BY <1>3, <4>1, <4>2, NextReady, Zenon DEF RingInvariant, RingLinked, Linked
    <3>2. \A v \in Threads \ {n} : state'[v] = state[v]
      BY <1>2, <2>2 DEF TypeOK
    <3> QED
      BY <1>1, <2>5, <3>1, <3>2, Zenon DEF Scheduled, Live
  <2>7. \A b \in heap' : b[1] \in Live'
    BY <2>4, <2>5 DEF StackInvariant
  <2>8. \A v \in Live' : ustack'[v] <=> <<v, "ustack">> \in heap'
    <3>1. \A v \in Live' : v \in Live /\ (<<v, "ustack">> \in heap' <=> <<v, "ustack">> \in heap)
      BY <2>3, <2>5, Zenon DEF Live
    <3> QED
      BY <1>2, <3>1, Zenon DEF StackInvariant
  <2>9. call'.at \in {"ustack", "fill", "register"} => <<call'.thread, "kstack">> \in heap'
    <3>1. call.at \in {"ustack", "fill", "register"} => call.thread \in Threads \ {c}
      BY <1>3 DEF RingInvariant, CallState, Scheduled, Live
    <3>2. call' = call
      BY <1>2
    <3> QED
      BY <2>3, <3>1, <3>2, Zenon DEF StackInvariant
  <2>10. \A v \in Scheduled' \ {kernel_thread'} : <<v, "kstack">> \in heap'
    <3>1. Scheduled \subseteq Threads
      BY DEF Scheduled, Live
    <3> QED
      BY <1>2, <2>3, <2>6, <3>1, Zenon DEF StackInvariant
  <2>11. ~ ustack'[kernel_thread']
    BY <1>2, Zenon DEF StackInvariant
  <2>12. tss_esp0'.stack = current_thread' /\ tss_esp0'.frames = esp'[current_thread']
    BY <1>2, <2>2
  <2> QED
    BY <2>7, <2>8, <2>9, <2>10, <2>11, <2>12, Zenon DEF StackInvariant
<1> QED
  BY <1>4, <1>5

\* No structure has a user stack before scheduling_init.
NoStackAtBoot == ~scheduling => \A t \in Threads : ~ ustack[t]

\* Every reachable state satisfies the stack invariant.
THEOREM StacksAlways == Spec => []StackInvariant
<1>1. Init => StackInvariant
  <2> SUFFICES ASSUME Init PROVE StackInvariant
    OBVIOUS
  <2>1. heap = {} /\ ~Running /\ call.at = "none"
    BY DEF Init, NoCall, Running
  <2>2. Live = {}
    BY <2>1 DEF Live
  <2> QED
    BY <2>1, <2>2 DEF StackInvariant
<1>2. Init => NoStackAtBoot
  BY DEF Init, NoStackAtBoot
<1>3. NoStackAtBoot /\ [Next]_vars => NoStackAtBoot'
  <2>1. ASSUME Next PROVE scheduling'
    <3>1. CASE scheduling_init
      BY <3>1 DEF scheduling_init
    <3>2. CASE create_thread
      BY <3>2 DEF create_thread, create_thread_alloc, create_thread_kstack, create_thread_ustack,
          create_thread_fail, create_thread_fill, create_thread_register, create_thread_return,
          MainAt, Running, schedVars
    <3>3. CASE irq_timer \/ switch_next
      BY <3>3 DEF irq_timer, switch_next, schedule_tick, schedule_tick_reap, schedule_tick_switch,
          schedule_tick_keep, Running, schedVars
    <3>4. CASE thread_exit \/ user_trap \/ stack_overrun
      BY <3>4 DEF thread_exit, user_trap, stack_overrun, Running, schedVars
    <3> QED
      BY <2>1, <3>1, <3>2, <3>3, <3>4 DEF Next
  <2>2. ASSUME UNCHANGED vars PROVE UNCHANGED <<scheduling, ustack>>
    BY <2>2 DEF vars, threadVars, schedVars
  <2> QED
    BY <2>1, <2>2, Zenon DEF NoStackAtBoot
<1>4. RingInvariant /\ NoStackAtBoot /\ StackInvariant /\ [Next]_vars => StackInvariant'
  <2> SUFFICES ASSUME RingInvariant, NoStackAtBoot, StackInvariant, [Next]_vars
               PROVE  StackInvariant'
    OBVIOUS
  <2>1. CASE scheduling_init
    <3>1. PICK t \in Threads : create_kernel_thread(t)
      BY <2>1 DEF scheduling_init
    <3>2. /\ heap' = {<<t, "thread">>} /\ call' = NoCall /\ ustack' = ustack
          /\ kernel_thread' = t /\ current_thread' = t
      BY <2>1, <3>1 DEF scheduling_init, create_kernel_thread, schedule_thread, RingInvariant, BootState
    <3>3. Live' = {t} /\ Scheduled' \subseteq {t}
      BY <3>2 DEF Live, Scheduled
    <3>4. ~ ustack[t]
      BY <2>1 DEF scheduling_init, NoStackAtBoot
    <3>5. call'.at = "none" /\ <<t, "ustack">> \notin heap' /\ <<t, "thread">>[1] = t
      BY <3>2 DEF NoCall
    <3>6. \A b \in heap' : b[1] \in Live'
      BY <3>2, <3>3, <3>5
    <3> QED
      BY <3>2, <3>3, <3>4, <3>5, <3>6 DEF StackInvariant
  <2>2. CASE create_thread
    BY <2>2, StackCreate
  <2>3. CASE thread_exit
    <3>1. state' = [state EXCEPT ![current_thread] = TASK_FINISHED] /\ current_thread \in Scheduled
      BY <2>3 DEF thread_exit, RingInvariant, RingLinked
    <3>2. Live' = Live /\ TypeOK
      BY <2>3 DEF thread_exit, Live, RingInvariant
    <3>3. Scheduled' = Scheduled
      BY <3>1, <3>2 DEF Scheduled, Live, TypeOK, TASK_SLEEP, TASK_FINISHED
    <3> QED
      BY <2>3, <3>3, StackQuiet DEF thread_exit, schedVars, cpuVars, Running
  <2>4. CASE (irq_timer \/ switch_next) /\ ~schedule_tick_keep
    BY <2>4, StackSwitch, StackReap DEF irq_timer, switch_next, schedule_tick
  <2>5. CASE ((irq_timer \/ switch_next) /\ schedule_tick_keep) \/ user_trap \/ stack_overrun
             \/ UNCHANGED vars
    <3>1. UNCHANGED <<heap, threadVars, schedVars, tss_esp0, call>> /\ (status' = "ok" => status = "ok")
      BY <2>5 DEF schedule_tick_keep, user_trap, stack_overrun, vars, cpuVars
    <3>2. Scheduled' = Scheduled
      BY <3>1 DEF Scheduled, Live, threadVars
    <3> QED
      BY <3>1, <3>2, StackQuiet DEF threadVars, schedVars, Running
  <2> QED
    BY <2>1, <2>2, <2>3, <2>4, <2>5 DEF Next
<1> QED
  BY <1>1, <1>2, <1>3, <1>4, RingAlways, PTL DEF Spec

\* No stack outlives its thread and no scheduled thread is without its stacks,
\* for any number of threads created, failed half-way, run and freed.
THEOREM StacksAlwaysFollow == Spec => []StacksFollowThread
<1>1. StackInvariant => StacksFollowThread
  BY Zenon DEF StackInvariant, StacksFollowThread, Scheduled
<1> QED
  BY <1>1, StacksAlways, PTL

\* A trap from user mode always lands on the kernel stack of the thread that
\* was interrupted, at the depth schedule_tick saved.
THEOREM TrapStackAlwaysOwn == Spec => []TrapStackIsOwn
<1>1. RingInvariant /\ StackInvariant => TrapStackIsOwn
  <2> SUFFICES ASSUME RingInvariant, StackInvariant, Running, InUserMode(current_thread)
               PROVE  /\ tss_esp0.stack = current_thread
                      /\ tss_esp0.frames = esp[current_thread]
                      /\ <<current_thread, "kstack">> \in heap
    BY DEF TrapStackIsOwn
  <2>1. current_thread \in Scheduled /\ current_thread # kernel_thread
    BY Zenon DEF RingInvariant, RingLinked, InUserMode, StackInvariant
  <2> QED
    BY <2>1, Zenon DEF StackInvariant
<1> QED
  BY <1>1, StacksAlways, RingAlways, PTL

=============================================================================
