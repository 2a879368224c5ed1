----------------------------- MODULE KernelProofs -----------------------------
(***************************************************************************)
(* Proofs about the kernel's scheduler for any number of slots, tick       *)
(* width, set of priorities, sleeping times and calls.  IInv of Scheduler  *)
(* is inductive; the type invariant, the single running task and the       *)
(* absence of lost wake-ups follow, and with them that dead slots only     *)
(* come back through spawn.                                                *)
(*                                                                         *)
(* Controller follows: the ring loses none of the messages it accepts,     *)
(* reports of a task are spaced also where the count of windows wraps, and *)
(* the fallback takes over only after a real silence.                      *)
(***************************************************************************)
EXTENDS Scheduler, Controller, Induction, SequenceTheorems

(* Arithmetic *)

\* The remainders the code computes are in range.
LEMMA ModRange ==
  ASSUME NEW a \in Int, NEW m \in Nat \ {0}
  PROVE  a % m \in 0 .. m - 1
OBVIOUS

\* A time slice is between one tick and eight.
LEMMA SliceRange == \A n \in -20..19 : slice_ticks(n) \in 1..8
BY DEF slice_ticks

\* An instant less than half the tick range ahead has not been reached yet.
LEMMA NotYetReached ==
  ASSUME NEW t \in 0 .. TickMod - 1, NEW n \in SleepTimes
  PROVE  ~Reached(t, (t + n) % TickMod)
<1> USE TickModAssumption, SleepTimesAssumption
<1>1. n \in Nat /\ 0 < n /\ 2 * n <= TickMod
  OBVIOUS
<1>2. CASE t + n < TickMod
  <2>1. (t + n) % TickMod = t + n
    BY <1>1, <1>2
  <2>2. (t - (t + n) + TickMod) % TickMod = TickMod - n
    BY <1>1, <1>2
  <2>3. QED
    BY <1>1, <2>1, <2>2 DEF Reached
<1>3. CASE t + n >= TickMod
  <2>1. (t + n) % TickMod = t + n - TickMod
    BY <1>1, <1>3
  <2>2. (t - (t + n - TickMod) + TickMod) % TickMod = TickMod - n
    BY <1>1, <1>3
  <2>3. QED
    BY <1>1, <2>1, <2>2 DEF Reached
<1>4. QED
  BY <1>1, <1>2, <1>3

(* The searches of the code *)

\* FirstFree is the lowest free slot, if there is one.
LEMMA FirstFreeIsLowest ==
  ASSUME FreeSlots # {}
  PROVE  FirstFree \in FreeSlots /\ \A j \in FreeSlots : FirstFree <= j
<1>1. FreeSlots \in SUBSET Nat
  BY MaxTasksAssumption DEF FreeSlots, Slots
<1>2. \E i \in FreeSlots : \A j \in FreeSlots : i <= j
  BY <1>1, LeastNatural
<1>3. QED
  BY <1>2, Zenon DEF FirstFree

\* LowestOf returns a member of a non-empty set of slots.
LEMMA LowestOfMember ==
  ASSUME NEW S \in SUBSET Slots, S # {}
  PROVE  LowestOf(S) \in S
<1>1. S \in SUBSET Nat
  BY MaxTasksAssumption DEF Slots
<1>2. \E i \in S : \A j \in S : i <= j
  BY <1>1, LeastNatural
<1>3. QED
  BY <1>2, Zenon DEF LowestOf

\* The scan of pick_next returns one of the slots it looks for.
LEMMA FirstOfMember ==
  ASSUME TypeOK, NEW S \in SUBSET Table, S # {}
  PROVE  FirstOf(S) \in S
<1> DEFINE D == {Distance(i) : i \in S}
<1>1. \A i \in S : Distance(i) \in Nat
  <2>1. task_count \in Nat \ {0} /\ current \in Int
    BY MaxTasksAssumption DEF TypeOK, Slots
  <2>2. \A i \in S : i \in Int
    BY <2>1 DEF Table
  <2>3. QED
    BY <2>1, <2>2 DEF Distance
<1>2. D \in SUBSET Nat /\ D # {}
  BY <1>1
<1>3. PICK m \in D : \A k \in D : m <= k
  BY <1>2, LeastNatural
<1>4. \E i \in S : \A j \in S : Distance(i) <= Distance(j)
  BY <1>3
<1>5. QED
  BY <1>4, Zenon DEF FirstOf

(* What yield_now leaves behind *)

\* A table yield_now may be called with.
SoundTable(st, wf, cr) ==
  /\ st \in [Slots -> TaskState] /\ wf \in [Slots -> 0..MaxTasks] /\ cr \in [Slots -> 0..8]
  /\ st[IDLE_TASK] \in {"Ready", "Running"}
  /\ \A i \in Slots : st[i] # "Unused" => i \in Table
  /\ \A i \in Slots : st[i] = "Running" => i = current

\* The slots form a set of naturals with the idle task in it.
LEMMA SlotsFacts ==
  ASSUME TypeOK
  PROVE  /\ Table \subseteq Slots /\ IDLE_TASK \in Table /\ IDLE_TASK \in Slots
         /\ Slots \subseteq Nat
         /\ current \in Slots
BY MaxTasksAssumption DEF TypeOK, Slots, Table, IDLE_TASK

\* A refill keeps the credits in range.
LEMMA RefillRange ==
  ASSUME TypeOK, NEW cr \in [Slots -> 0..8]
  PROVE  refill_credits(cr) \in [Slots -> 0..8]
<1>1. \A i \in Slots : slice_ticks(nice[i]) \in 0..8
  BY SliceRange DEF TypeOK
<1>2. QED
  BY <1>1 DEF refill_credits

\* pick_next returns a Ready task, the current one if it still runs, or idle.
LEMMA PickNextResult ==
  ASSUME TypeOK, NEW st, NEW cr,
         st[IDLE_TASK] \in {"Ready", "Running"}
  PROVE  LET n == pick_next(st, cr)
         IN  /\ n \in Table \/ n = current
             /\ \/ st[n] = "Ready"
                \/ n = current /\ st[n] = "Running"
                \/ n = IDLE_TASK
<1>1. CASE Candidates(st, cr) # {}
  <2>1. Candidates(st, cr) \subseteq Table
    BY DEF Candidates
  <2>2. FirstOf(Candidates(st, cr)) \in Candidates(st, cr)
    BY <1>1, <2>1, FirstOfMember
  <2>3. QED
    BY <1>1, <2>2 DEF pick_next, Candidates
<1>2. CASE Candidates(st, cr) = {}
  BY <1>2, SlotsFacts DEF pick_next, NoneReady
<1>3. QED
  BY <1>1, <1>2

\* What every caller of yield_now may rely on: the table stays sound, dead
\* slots stay dead and living ones alive, nobody starts a disk wait, and the
\* new current task is Running unless the caller was itself Ready or woken.
LEMMA YieldOutcome ==
  ASSUME TypeOK, NEW st, NEW wf, NEW wt, NEW cr, NEW now,
         SoundTable(st, wf, cr), yield_now(st, wf, wt, cr, now)
  PROVE  /\ state' \in [Slots -> TaskState] /\ wait_for' \in [Slots -> 0..MaxTasks]
         /\ credits' \in [Slots -> 0..8] /\ need_resched' \in BOOLEAN
         /\ current' \in Slots
         /\ state'[IDLE_TASK] \in {"Ready", "Running"}
         /\ \A i \in Slots : state'[i] # "Unused" => i \in Table
         /\ \A i \in Slots : state'[i] = "Running" => i = current'
         /\ \A i \in Slots : st[i] \in Dead <=> state'[i] \in Dead
         /\ \A i \in Slots : state'[i] = "IoWait" => st[i] = "IoWait"
         /\ \A i \in Slots : state'[i] = "Terminated" => st[i] = "Terminated"
         /\ \/ state'[current'] = "Running"
            \/ /\ current' = current /\ state'[current] = "Ready"
               /\ st[current] = "Ready" \/ current \in Woken(st, wf, wt, now)
<1> DEFINE woken == Woken(st, wf, wt, now)
           st1   == [i \in Slots |-> IF i \in woken THEN "Ready" ELSE st[i]]
           cr1   == PeriodCredits(st1, cr)
           next  == pick_next(st1, cr1)
           st2   == [st1 EXCEPT ![current] = IF @ = "Running" THEN "Ready" ELSE @]
           cr2   == IF current = IDLE_TASK \/ cr1[current] = 0 THEN cr1
                    ELSE [cr1 EXCEPT ![current] = @ - 1]
<1>1. /\ need_resched' = FALSE
      /\ wait_for' = [i \in Slots |-> IF i \in woken /\ st[i] = "Waiting" THEN 0 ELSE wf[i]]
      /\ current' = next
      /\ \/ /\ next = current
            /\ state' = st1
            /\ credits' = cr1
         \/ /\ next # current
            /\ state' = [st2 EXCEPT ![next] = "Running"]
            /\ credits' = IF next = IDLE_TASK THEN refill_credits(cr2) ELSE cr2
  BY DEF yield_now
<1>2. /\ Table \subseteq Slots /\ IDLE_TASK \in Table /\ IDLE_TASK \in Slots
      /\ current \in Slots /\ MaxTasks \in Nat
  BY SlotsFacts, MaxTasksAssumption
<1>3. \A i \in woken : i \in Table /\ st[i] \in {"Blocked", "Waiting"}
  BY DEF Woken
<1>4. /\ st1 \in [Slots -> TaskState]
      /\ st1[IDLE_TASK] \in {"Ready", "Running"}
      /\ \A i \in Slots : st1[i] # "Unused" => i \in Table
      /\ \A i \in Slots : st1[i] = "Running" => i = current
      /\ \A i \in Slots : st[i] \in Dead <=> st1[i] \in Dead
      /\ \A i \in Slots : st1[i] = "IoWait" => st[i] = "IoWait"
      /\ \A i \in Slots : st1[i] = "Terminated" => st[i] = "Terminated"
      /\ \A i \in Slots : st1[i] = "Ready" => st[i] = "Ready" \/ i \in woken
  BY <1>2, <1>3 DEF SoundTable, TaskState, Dead
<1>5. cr1 \in [Slots -> 0..8] /\ cr2 \in [Slots -> 0..8]
  <2>1. cr1 \in [Slots -> 0..8]
    BY RefillRange DEF SoundTable, PeriodCredits
  <2>2. QED
    BY <2>1, <1>2
<1>6. /\ next \in Slots
      /\ \/ st1[next] = "Ready"
         \/ next = current /\ st1[next] = "Running"
         \/ next = IDLE_TASK
  <2> HIDE DEF st1, cr1
  <2>1. QED
    BY <1>2, <1>4, PickNextResult
<1> HIDE DEF woken, st1, cr1, next
<1>7. credits' \in [Slots -> 0..8] /\ wait_for' \in [Slots -> 0..MaxTasks]
  <2>1. refill_credits(cr2) \in [Slots -> 0..8]
    BY <1>5, RefillRange
  <2>2. credits' \in [Slots -> 0..8]
    BY <1>1, <1>5, <2>1
  <2>3. wait_for' \in [Slots -> 0..MaxTasks]
    BY <1>1, <1>2 DEF SoundTable
  <2>4. QED
    BY <2>2, <2>3
<1>8. CASE next = current
  <2>1. state' = st1 /\ current' = current
    BY <1>1, <1>8
  <2>2. st1[current] = "Running" \/ st1[current] = "Ready"
    BY <1>4, <1>6, <1>8
  <2>3. QED
    BY <1>1, <1>2, <1>4, <1>7, <2>1, <2>2 DEF woken
<1>9. CASE next # current
  <2>1. /\ state' = [st2 EXCEPT ![next] = "Running"]
        /\ current' = next
    BY <1>1, <1>9
  <2>2. /\ st2 \in [Slots -> TaskState]
        /\ st2[IDLE_TASK] \in {"Ready", "Running"}
        /\ \A i \in Slots : st2[i] # "Unused" => i \in Table
        /\ \A i \in Slots : st2[i] # "Running"
        /\ \A i \in Slots : st[i] \in Dead <=> st2[i] \in Dead
        /\ \A i \in Slots : st2[i] = "IoWait" => st[i] = "IoWait"
        /\ \A i \in Slots : st2[i] = "Terminated" => st[i] = "Terminated"
        /\ st2[next] \in {"Ready", "Running"}
    BY <1>2, <1>4, <1>6, <1>9 DEF TaskState, Dead
  <2> HIDE DEF st2
  <2>3. QED
    BY <1>1, <1>2, <1>6, <1>7, <2>1, <2>2 DEF TaskState, Dead
<1>10. QED
  BY <1>8, <1>9

(* The inductive invariant *)

\* The boot state satisfies it.
LEMMA InitIInv == Init => IInv
<1> SUFFICES ASSUME Init PROVE IInv
  OBVIOUS
<1> USE MaxTasksAssumption, TickModAssumption, MaxLivesAssumption DEF Init, Slots, IDLE_TASK
<1>1. TypeOK
  <2>1. /\ state \in [Slots -> TaskState] /\ pc \in [Slots -> PcValues]
        /\ nice \in [Slots -> -20..19] /\ credits \in [Slots -> 0..8]
    BY DEF TaskState, PcValues
  <2>2. /\ parent \in [Slots -> Slots] /\ wait_for \in [Slots -> 0..MaxTasks]
        /\ wake_tick \in [Slots -> 0..TickMod-1] /\ arg \in [Slots -> Nat]
    OBVIOUS
  <2>3. /\ born \in [Slots -> 0..MaxLives]
        /\ awaited \in [Slots -> 0..MaxLives] /\ waitable \in [Slots -> BOOLEAN]
    OBVIOUS
  <2>4. current \in Slots /\ task_count \in 1..MaxTasks /\ ticks \in 0..TickMod-1
    OBVIOUS
  <2>5. need_resched \in BOOLEAN /\ irq_seen \in BOOLEAN /\ locked \in BOOLEAN
    OBVIOUS
  <2>6. disk \in {"idle", "busy"}
    OBVIOUS
  <2>7. QED
    BY <2>1, <2>2, <2>3, <2>4, <2>5, <2>6 DEF TypeOK
<1>2. IdleIsSpare
  BY DEF IdleIsSpare, Table
<1>3. SingleRunner /\ NoLostWakeup /\ DiskStates
  BY DEF SingleRunner, NoLostWakeup, DiskStates
<1>4. QED
  BY <1>1, <1>2, <1>3 DEF IInv

\* The table the tasks see is one yield_now may be called with.
LEMMA OwnTableSound ==
  ASSUME IInv
  PROVE  SoundTable(state, wait_for, credits)
BY DEF IInv, TypeOK, SoundTable, IdleIsSpare, SingleRunner

\* A Running task, or a Ready one whose interrupt has come, is not one of those
\* wake_expired looks at: a plain call of yield_now keeps what concerns state.
LEMMA YieldHereKeeps ==
  ASSUME IInv, state[current] \in {"Ready", "Running", "IoWait"}, YieldHere,
         UNCHANGED <<task_count, irq_seen>>
  PROVE  /\ state' \in [Slots -> TaskState] /\ wait_for' \in [Slots -> 0..MaxTasks]
         /\ credits' \in [Slots -> 0..8] /\ need_resched' \in BOOLEAN
         /\ current' \in Slots
         /\ IdleIsSpare' /\ NoLostWakeup'
         /\ \A i \in Slots : state'[i] = "Running" => i = current'
         /\ \/ state'[current'] = "Running"
            \/ current' = current /\ state'[current] = "Ready" /\ state[current] = "Ready"
         /\ state'[current'] = "Ready" => irq_seen'
<1>1. SoundTable(state, wait_for, credits)
  BY OwnTableSound
<1>2. yield_now(state, wait_for, wake_tick, credits, ticks) /\ TypeOK
  BY DEF YieldHere, IInv
<1>3. current \notin Woken(state, wait_for, wake_tick, ticks)
  BY DEF Woken
<1>4. Table' = Table
  BY DEF Table
<1>5. /\ state' \in [Slots -> TaskState] /\ wait_for' \in [Slots -> 0..MaxTasks]
      /\ credits' \in [Slots -> 0..8] /\ need_resched' \in BOOLEAN
      /\ current' \in Slots
      /\ state'[IDLE_TASK] \in {"Ready", "Running"}
      /\ \A i \in Slots : state'[i] # "Unused" => i \in Table
      /\ \A i \in Slots : state'[i] = "Running" => i = current'
      /\ \A i \in Slots : state'[i] = "IoWait" => state[i] = "IoWait"
      /\ \/ state'[current'] = "Running"
         \/ current' = current /\ state'[current] = "Ready" /\ state[current] = "Ready"
  BY <1>1, <1>2, <1>3, YieldOutcome
<1>6. QED
  BY <1>4, <1>5 DEF IInv, IdleIsSpare, NoLostWakeup, DiskStates

\* After a switch to a Running task every demand on the current task holds.
LEMMA RunningIsEnough ==
  ASSUME state'[current'] = "Running", pc'[IDLE_TASK] = "run",
         \A i \in Slots : state'[i] = "Running" => i = current'
  PROVE  SingleRunner' /\ DiskStates'
BY DEF SingleRunner, DiskStates

\* Creating a task.
LEMMA SpawnStep ==
  ASSUME IInv, NEW w \in BOOLEAN, pc[current] = "run", spawn_inner(w)
  PROVE  IInv'
<1> DEFINE s == FirstFree
<1>1. s \in Slots /\ state[s] = "Unused" /\ \A j \in FreeSlots : s <= j
  BY FirstFreeIsLowest DEF spawn_inner, FreeSlots
<1>2. TypeOK /\ IdleIsSpare /\ SingleRunner /\ NoLostWakeup /\ DiskStates
  BY DEF IInv
<1>3. /\ task_count' = IF s = task_count THEN task_count + 1 ELSE task_count
      /\ state' = [state EXCEPT ![s] = "Ready"]
      /\ pc' = [pc EXCEPT ![s] = "run"]
      /\ UNCHANGED <<current, irq_seen>>
  BY DEF spawn_inner, ioVars
<1>4. s # current /\ s # IDLE_TASK
  BY <1>1, <1>2 DEF SingleRunner, IdleIsSpare
<1>5. s <= task_count
  <2>1. CASE task_count < MaxTasks
    <3>1. task_count \in Slots /\ task_count \notin Table
      BY <2>1, <1>2, MaxTasksAssumption DEF TypeOK, Slots, Table
    <3>2. task_count \in FreeSlots
      BY <3>1, <1>2 DEF IdleIsSpare, FreeSlots
    <3>3. QED
      BY <3>2, <1>1
  <2>2. CASE task_count = MaxTasks
    BY <2>2, <1>1, MaxTasksAssumption DEF Slots
  <2>3. QED
    BY <2>1, <2>2, <1>2, MaxTasksAssumption DEF TypeOK
<1> HIDE DEF s
<1>6. TypeOK'
  <2>1. slice_ticks(0) \in 0..8
    BY SliceRange
  <2>2. task_count' \in 1..MaxTasks
    BY <1>1, <1>2, <1>3, MaxTasksAssumption DEF TypeOK, Slots
  <2>3. born[s] + 1 \in 0..MaxLives
    BY <1>1, <1>2, MaxLivesAssumption DEF TypeOK, spawn_inner, HasLivesLeft, s
  <2>4. QED
    BY <2>1, <2>2, <2>3, <1>1, <1>2, TickModAssumption, MaxTasksAssumption, MaxLivesAssumption
    DEF TypeOK, spawn_inner, s, TaskState, PcValues, ioVars
<1>7. IdleIsSpare'
  <2>1. Table \subseteq Table' /\ s \in Table'
    <3>1. task_count \in Nat /\ s \in Nat /\ s <= task_count
      BY <1>1, <1>2, <1>5, MaxTasksAssumption DEF TypeOK, Slots
    <3>2. \/ s = task_count /\ task_count' = task_count + 1
          \/ s < task_count /\ task_count' = task_count
      BY <3>1, <1>3
    <3>3. QED
      BY <3>1, <3>2 DEF Table
  <2>2. QED
    BY <2>1, <1>1, <1>2, <1>3, <1>4 DEF IdleIsSpare, TypeOK
<1>8. SingleRunner' /\ NoLostWakeup' /\ DiskStates'
  BY <1>1, <1>2, <1>3, <1>4 DEF SingleRunner, NoLostWakeup, DiskStates, TypeOK
<1>9. QED
  BY <1>6, <1>7, <1>8 DEF IInv

\* A task that gives up the CPU, and the rounds of a waiting loop that only do that.
LEMMA YieldStep ==
  ASSUME IInv, pc[current] \in {"run", "sleep", "wait"}, YieldHere,
         UNCHANGED <<taskVars, task_count, ticks, pc, arg, ioVars, ghostVars>>
  PROVE  IInv'
<1> USE DEF taskVars, ioVars, ghostVars
<1>1. state[current] = "Running"
  BY DEF IInv, SingleRunner
<1>2. /\ state' \in [Slots -> TaskState] /\ wait_for' \in [Slots -> 0..MaxTasks]
      /\ credits' \in [Slots -> 0..8] /\ need_resched' \in BOOLEAN
      /\ current' \in Slots
      /\ IdleIsSpare' /\ NoLostWakeup'
      /\ \A i \in Slots : state'[i] = "Running" => i = current'
      /\ state'[current'] = "Running"
  BY <1>1, YieldHereKeeps
<1>3. TypeOK'
  BY <1>2 DEF IInv, TypeOK
<1>4. SingleRunner' /\ DiskStates'
  BY <1>2, RunningIsEnough DEF IInv, DiskStates
<1>5. QED
  BY <1>2, <1>3, <1>4 DEF IInv

\* The timer interrupt, with or without a preemption.
LEMMA TimerTickStep ==
  ASSUME IInv, TimerTick
  PROVE  IInv'
<1> USE DEF taskVars, ioVars, ghostVars
<1> DEFINE now == (ticks + 1) % TickMod
           cr  == [credits EXCEPT ![current] = IF @ > 1 THEN @ - 1 ELSE 0]
           due == need_resched \/ credits[current] <= 1
<1>1. TypeOK /\ IdleIsSpare /\ SingleRunner /\ NoLostWakeup /\ DiskStates
  BY DEF IInv
<1>2. /\ Interruptible
      /\ ticks' = now
      /\ \/ yield_now(state, wait_for, wake_tick, cr, now)
         \/ /\ credits' = cr
            /\ need_resched' = due
            /\ UNCHANGED <<state, wait_for, current>>
      /\ UNCHANGED <<taskVars, task_count, pc, arg, ioVars, ghostVars>>
  BY DEF TimerTick
<1>3. now \in 0..TickMod-1 /\ cr \in [Slots -> 0..8] /\ due \in BOOLEAN
  <2>1. ticks + 1 \in Int
    BY <1>1, TickModAssumption DEF TypeOK
  <2>2. now \in 0..TickMod-1
    BY <2>1, TickModAssumption, ModRange
  <2>3. cr \in [Slots -> 0..8]
    BY <1>1 DEF TypeOK
  <2>4. due \in BOOLEAN
    BY <1>1 DEF TypeOK
  <2>5. QED
    BY <2>2, <2>3, <2>4
<1>4. state[current] \in {"Running", "Ready", "IoWait"}
  <2>1. pc[current] \in PcValues
    BY <1>1 DEF TypeOK
  <2>2. QED
    BY <1>1, <2>1 DEF SingleRunner, DiskStates, PcValues
<1> HIDE DEF now, cr, due
<1>5. CASE yield_now(state, wait_for, wake_tick, cr, now)
  <2>1. SoundTable(state, wait_for, cr)
    BY <1>3, OwnTableSound DEF SoundTable
  <2>2. current \notin Woken(state, wait_for, wake_tick, now)
    BY <1>4 DEF Woken
  <2>3. /\ state' \in [Slots -> TaskState] /\ wait_for' \in [Slots -> 0..MaxTasks]
        /\ credits' \in [Slots -> 0..8] /\ need_resched' \in BOOLEAN
        /\ current' \in Slots
        /\ state'[IDLE_TASK] \in {"Ready", "Running"}
        /\ \A i \in Slots : state'[i] # "Unused" => i \in Table
        /\ \A i \in Slots : state'[i] = "Running" => i = current'
        /\ \A i \in Slots : state'[i] = "IoWait" => state[i] = "IoWait"
        /\ \/ state'[current'] = "Running"
           \/ current' = current /\ state'[current] = "Ready" /\ state[current] = "Ready"
    BY <1>1, <1>5, <2>1, <2>2, YieldOutcome
  <2>4. TypeOK'
    BY <1>1, <1>2, <1>3, <2>3 DEF TypeOK
  <2>5. IdleIsSpare' /\ NoLostWakeup'
    BY <1>1, <1>2, <2>3 DEF IdleIsSpare, NoLostWakeup, Table
  <2>6. CASE state'[current'] = "Running"
    BY <1>1, <1>2, <2>3, <2>4, <2>5, <2>6, RunningIsEnough DEF IInv, DiskStates
  <2>7. CASE current' = current /\ state'[current] = "Ready" /\ state[current] = "Ready"
    <3>1. pc[current] \in {"io_armed", "io_woken"} /\ irq_seen
      BY <2>7, <1>1 DEF SingleRunner, DiskStates
    <3>2. SingleRunner' /\ DiskStates'
      BY <1>1, <1>2, <2>3, <2>7, <3>1 DEF SingleRunner, DiskStates
    <3>3. QED
      BY <2>4, <2>5, <3>2 DEF IInv
  <2>8. QED
    BY <2>3, <2>6, <2>7
<1>6. CASE credits' = cr /\ need_resched' = due /\ UNCHANGED <<state, wait_for, current>>
  <2>1. TypeOK'
    BY <1>1, <1>2, <1>3, <1>6 DEF TypeOK
  <2>2. IdleIsSpare' /\ SingleRunner' /\ NoLostWakeup' /\ DiskStates'
    BY <1>1, <1>2, <1>6 DEF IdleIsSpare, SingleRunner, NoLostWakeup, DiskStates, Table
  <2>3. QED
    BY <2>1, <2>2 DEF IInv
<1>7. QED
  BY <1>2, <1>5, <1>6

\* The disk interrupt.
LEMMA DiskIrqStep ==
  ASSUME IInv, DiskIrq
  PROVE  IInv'
<1> USE DEF taskVars, ioVars, ghostVars
<1>1. TypeOK /\ IdleIsSpare /\ SingleRunner /\ NoLostWakeup /\ DiskStates
  BY DEF IInv
<1>2. /\ disk' = "idle" /\ irq_seen' = TRUE
      /\ state' = [i \in Slots |-> IF i \in Table /\ state[i] = "IoWait" THEN "Ready" ELSE state[i]]
      /\ UNCHANGED <<taskVars, credits, wait_for, current, need_resched, task_count, ticks,
                     pc, arg, locked, ghostVars>>
  BY DEF DiskIrq
<1>3. TypeOK'
  <2>1. state' \in [Slots -> TaskState]
    BY <1>1, <1>2 DEF TypeOK, TaskState
  <2>2. QED
    BY <1>1, <1>2, <2>1 DEF TypeOK
<1>4. IdleIsSpare'
  BY <1>1, <1>2, SlotsFacts DEF IdleIsSpare, Table
<1>5. SingleRunner' /\ NoLostWakeup' /\ DiskStates'
  BY <1>1, <1>2, SlotsFacts DEF IdleIsSpare, SingleRunner, NoLostWakeup, DiskStates
<1>6. QED
  BY <1>3, <1>4, <1>5 DEF IInv

\* Changing a nice value touches nothing the other conjuncts speak of.
LEMMA SetNiceStep ==
  ASSUME IInv, NEW i \in Slots, NEW n \in Nices, set_nice(i, n)
  PROVE  IInv'
<1> USE DEF taskVars, ioVars, ghostVars, cpuVars
<1>1. TypeOK'
  BY NicesAssumption DEF IInv, TypeOK, set_nice
<1>2. IdleIsSpare' /\ SingleRunner' /\ NoLostWakeup' /\ DiskStates'
  BY DEF IInv, IdleIsSpare, SingleRunner, NoLostWakeup, DiskStates, Table, set_nice
<1>3. QED
  BY <1>1, <1>2 DEF IInv

\* A caller that is neither Running nor woken: what it leaves is sound.
LEMMA SwitchAway ==
  ASSUME IInv, pc[current] \in {"run", "sleep", "wait", "exiting"},
         NEW st, NEW wf, NEW wt, NEW cr,
         SoundTable(st, wf, cr), yield_now(st, wf, wt, cr, ticks),
         current \notin Woken(st, wf, wt, ticks), st[current] # "Ready",
         \A i \in Slots : st[i] # "IoWait" \/ state[i] = "IoWait",
         UNCHANGED <<task_count, irq_seen>>, pc'[IDLE_TASK] = "run"
  PROVE  /\ state' \in [Slots -> TaskState] /\ wait_for' \in [Slots -> 0..MaxTasks]
         /\ credits' \in [Slots -> 0..8] /\ need_resched' \in BOOLEAN
         /\ current' \in Slots
         /\ IdleIsSpare' /\ NoLostWakeup' /\ SingleRunner' /\ DiskStates'
<1>1. TypeOK
  BY DEF IInv
<1>2. /\ state' \in [Slots -> TaskState] /\ wait_for' \in [Slots -> 0..MaxTasks]
      /\ credits' \in [Slots -> 0..8] /\ need_resched' \in BOOLEAN
      /\ current' \in Slots
      /\ state'[IDLE_TASK] \in {"Ready", "Running"}
      /\ \A i \in Slots : state'[i] # "Unused" => i \in Table
      /\ \A i \in Slots : state'[i] = "Running" => i = current'
      /\ \A i \in Slots : state'[i] = "IoWait" => st[i] = "IoWait"
      /\ state'[current'] = "Running"
  BY <1>1, YieldOutcome
<1>3. IdleIsSpare' /\ NoLostWakeup'
  BY <1>2 DEF IdleIsSpare, NoLostWakeup, Table, IInv
<1>4. SingleRunner' /\ DiskStates'
  BY <1>2, RunningIsEnough
<1>5. QED
  BY <1>2, <1>3, <1>4

\* Going to sleep: the deadline is ahead, so the sleeper is not woken at once.
LEMMA SleepStep ==
  ASSUME IInv, NEW n \in SleepTimes, sleep_ticks(n)
  PROVE  IInv'
<1> USE DEF taskVars, ioVars, ghostVars
<1> DEFINE wt == [wake_tick EXCEPT ![current] = (ticks + n) % TickMod]
           st == [state EXCEPT ![current] = "Blocked"]
<1>1. TypeOK /\ IdleIsSpare /\ SingleRunner /\ DiskStates
  BY DEF IInv
<1>2. /\ pc[current] = "run" /\ current # IDLE_TASK
      /\ wake_tick' = wt
      /\ pc' = [pc EXCEPT ![current] = "sleep"]
      /\ yield_now(st, wait_for, wt, credits, ticks)
      /\ UNCHANGED <<nice, parent, waitable, task_count, ticks, arg, ioVars, ghostVars>>
  BY DEF sleep_ticks, UserCalls, Calls
<1>3. SoundTable(st, wait_for, credits)
  BY <1>1, <1>2, OwnTableSound DEF SoundTable, TypeOK, TaskState, IdleIsSpare, SingleRunner
<1>4. current \notin Woken(st, wait_for, wt, ticks)
  <2>1. st[current] = "Blocked" /\ wt[current] = (ticks + n) % TickMod
    BY <1>1 DEF TypeOK
  <2>2. ~Reached(ticks, wt[current])
    BY <2>1, <1>1, NotYetReached DEF TypeOK
  <2>3. QED
    BY <2>1, <2>2 DEF Woken
<1>5. pc'[IDLE_TASK] = "run" /\ \A i \in Slots : st[i] # "IoWait" \/ state[i] = "IoWait"
  BY <1>1, <1>2 DEF DiskStates, TypeOK
<1>6. st[current] # "Ready"
  BY <1>1 DEF TypeOK
<1>7. wt \in [Slots -> 0..TickMod-1]
  <2>1. ticks + n \in Int
    BY <1>1, SleepTimesAssumption, TickModAssumption DEF TypeOK
  <2>2. (ticks + n) % TickMod \in 0..TickMod-1
    BY <2>1, ModRange, TickModAssumption
  <2>3. QED
    BY <2>2, <1>1 DEF TypeOK
<1> HIDE DEF wt, st
<1>8. /\ state' \in [Slots -> TaskState] /\ wait_for' \in [Slots -> 0..MaxTasks]
      /\ credits' \in [Slots -> 0..8] /\ need_resched' \in BOOLEAN
      /\ current' \in Slots
      /\ IdleIsSpare' /\ NoLostWakeup' /\ SingleRunner' /\ DiskStates'
  BY <1>2, <1>3, <1>4, <1>5, <1>6, SwitchAway
<1>9. TypeOK'
  BY <1>1, <1>2, <1>7, <1>8 DEF TypeOK, PcValues
<1>10. QED
  BY <1>8, <1>9 DEF IInv

\* The loop of sleep_ticks.
LEMMA SleepLoopStep ==
  ASSUME IInv, SleepLoop
  PROVE  IInv'
<1> USE DEF taskVars, ioVars, ghostVars
<1>1. TypeOK /\ IdleIsSpare /\ SingleRunner /\ NoLostWakeup /\ DiskStates
  BY DEF IInv
<1>2. state[current] = "Running" /\ current # IDLE_TASK
  BY <1>1 DEF SleepLoop, SingleRunner, DiskStates
<1>3. CASE /\ state' = [state EXCEPT ![current] = "Running"]
           /\ pc' = [pc EXCEPT ![current] = "run"]
           /\ UNCHANGED <<credits, wait_for, current, need_resched>>
  <2>1. state' = state
    BY <1>1, <1>2, <1>3 DEF TypeOK
  <2>2. TypeOK'
    BY <1>1, <1>3, <2>1 DEF SleepLoop, TypeOK, PcValues
  <2>3. IdleIsSpare' /\ SingleRunner' /\ NoLostWakeup' /\ DiskStates'
    BY <1>1, <1>2, <1>3, <2>1
    DEF SleepLoop, IdleIsSpare, SingleRunner, NoLostWakeup, DiskStates, Table, TypeOK
  <2>4. QED
    BY <2>2, <2>3 DEF IInv
<1>4. CASE YieldHere /\ UNCHANGED pc
  BY <1>4, YieldStep DEF SleepLoop
<1>5. QED
  BY <1>3, <1>4 DEF SleepLoop

\* Releasing slots of tasks that have ended, idle and the current task excepted.
LEMMA ReleasedKeeps ==
  ASSUME IInv, NEW S \in SUBSET Slots, IDLE_TASK \notin S, current \notin S,
         Released(S), UNCHANGED <<current, task_count, irq_seen>>,
         pc'[current] = pc[current] \/ (pc'[current] = "run" /\ pc[current] = "wait"),
         pc'[IDLE_TASK] = "run"
  PROVE  /\ state' \in [Slots -> TaskState] /\ wait_for' \in [Slots -> 0..MaxTasks]
         /\ credits' \in [Slots -> 0..8] /\ waitable' \in [Slots -> BOOLEAN]
         /\ IdleIsSpare' /\ SingleRunner' /\ NoLostWakeup' /\ DiskStates'
<1>1. TypeOK /\ IdleIsSpare /\ SingleRunner /\ NoLostWakeup /\ DiskStates
  BY DEF IInv
<1>2. /\ state' \in [Slots -> TaskState] /\ wait_for' \in [Slots -> 0..MaxTasks]
      /\ credits' \in [Slots -> 0..8] /\ waitable' \in [Slots -> BOOLEAN]
  <2>1. state' \in [Slots -> TaskState] /\ credits' \in [Slots -> 0..8]
    BY <1>1 DEF Released, TypeOK, TaskState
  <2>2. wait_for' \in [Slots -> 0..MaxTasks]
    BY <1>1, MaxTasksAssumption DEF Released, TypeOK
  <2>3. waitable' \in [Slots -> BOOLEAN]
    BY <1>1 DEF Released, TypeOK
  <2>4. QED
    BY <2>1, <2>2, <2>3
<1>3. state'[IDLE_TASK] = state[IDLE_TASK] /\ state'[current] = state[current]
  BY <1>1, SlotsFacts DEF Released
<1>4. \A i \in Slots : state'[i] = state[i] \/ state'[i] = "Unused"
  BY DEF Released
<1>5. QED
  BY <1>1, <1>2, <1>3, <1>4, SlotsFacts
  DEF IdleIsSpare, SingleRunner, NoLostWakeup, DiskStates, Table

\* Collecting a zombie.
LEMMA CollectStep ==
  ASSUME IInv, NEW c \in Slots, Collect(c), pc[current] \in {"run", "wait"},
         pc' = pc \/ (pc[current] = "wait" /\ pc' = [pc EXCEPT ![current] = "run"]),
         UNCHANGED <<arg, awaited>>
  PROVE  IInv'
<1> USE DEF ioVars
<1>1. TypeOK /\ IdleIsSpare /\ SingleRunner /\ NoLostWakeup /\ DiskStates
  BY DEF IInv
<1>2. c # IDLE_TASK /\ c # current
  BY <1>1 DEF Collect, IdleIsSpare, SingleRunner
<1>3. /\ pc' \in [Slots -> PcValues] /\ pc'[IDLE_TASK] = "run"
      /\ pc'[current] = pc[current] \/ (pc'[current] = "run" /\ pc[current] = "wait")
  <2>1. pc \in [Slots -> PcValues] /\ pc[IDLE_TASK] = "run"
    BY <1>1 DEF TypeOK, DiskStates
  <2>2. CASE pc' = pc
    BY <2>1, <2>2
  <2>3. CASE pc[current] = "wait" /\ pc' = [pc EXCEPT ![current] = "run"]
    BY <2>1, <2>3, SlotsFacts, <1>1 DEF PcValues
  <2>4. QED
    BY <2>2, <2>3
<1>4. /\ state' \in [Slots -> TaskState] /\ wait_for' \in [Slots -> 0..MaxTasks]
      /\ credits' \in [Slots -> 0..8] /\ waitable' \in [Slots -> BOOLEAN]
      /\ IdleIsSpare' /\ SingleRunner' /\ NoLostWakeup' /\ DiskStates'
  BY <1>2, <1>3, ReleasedKeeps DEF Collect
<1>5. TypeOK'
  BY <1>1, <1>3, <1>4 DEF Collect, TypeOK
<1>6. QED
  BY <1>4, <1>5 DEF IInv

\* Starting to wait for another task.
LEMMA WaitForStep ==
  ASSUME IInv, NEW c \in Slots, wait_for_task(c), pc[current] = "run", current # IDLE_TASK
  PROVE  IInv'
<1> USE DEF taskVars, ioVars, ghostVars
<1> DEFINE st == [state EXCEPT ![current] = "Waiting"]
           wf == [wait_for EXCEPT ![current] = c + 1]
<1>1. TypeOK /\ IdleIsSpare /\ SingleRunner /\ NoLostWakeup /\ DiskStates
  BY DEF IInv
<1>2. CASE Collect(c) /\ UNCHANGED <<pc, arg, awaited>>
  BY <1>2, CollectStep
<1>3. CASE /\ state[c] \notin Dead
           /\ pc' = [pc EXCEPT ![current] = "wait"]
           /\ arg' = [arg EXCEPT ![current] = c]
           /\ awaited' = [awaited EXCEPT ![current] = born[c]]
           /\ yield_now(st, wf, wake_tick, credits, ticks)
           /\ UNCHANGED <<taskVars, task_count, ticks, ioVars, born>>
  <2>1. c + 1 \in 0..MaxTasks /\ c \in Nat
    BY MaxTasksAssumption DEF Slots
  <2>2. SoundTable(st, wf, credits)
    BY <1>1, <2>1, OwnTableSound
    DEF SoundTable, TypeOK, TaskState, IdleIsSpare, SingleRunner
  <2>3. c # current
    BY DEF wait_for_task
  <2>4. current \notin Woken(st, wf, wake_tick, ticks)
    <3>1. st[current] = "Waiting" /\ wf[current] - 1 = c
      BY <1>1, <2>1 DEF TypeOK
    <3>2. st[c] # "Terminated"
      BY <1>1, <1>3, <2>3 DEF TypeOK, Dead
    <3>3. QED
      BY <3>1, <3>2 DEF Woken
  <2>5. pc'[IDLE_TASK] = "run" /\ \A i \in Slots : st[i] # "IoWait" \/ state[i] = "IoWait"
    BY <1>1, <1>3 DEF DiskStates, TypeOK
  <2>6. st[current] # "Ready"
    BY <1>1 DEF TypeOK
  <2>7. UNCHANGED <<task_count, irq_seen>>
    BY <1>3
  <2> HIDE DEF st, wf
  <2>8. /\ state' \in [Slots -> TaskState] /\ wait_for' \in [Slots -> 0..MaxTasks]
        /\ credits' \in [Slots -> 0..8] /\ need_resched' \in BOOLEAN
        /\ current' \in Slots
        /\ IdleIsSpare' /\ NoLostWakeup' /\ SingleRunner' /\ DiskStates'
    BY <1>3, <2>2, <2>4, <2>5, <2>6, <2>7, SwitchAway
  <2>9. TypeOK'
    BY <1>1, <1>3, <2>1, <2>8 DEF TypeOK, PcValues
  <2>10. QED
    BY <2>8, <2>9 DEF IInv
<1>4. QED
  BY <1>2, <1>3 DEF wait_for_task

\* waitpid(-1) names a slot of the table, with and without WNOHANG.
LEMMA ChildrenAreSlots ==
  ASSUME TypeOK
  PROVE  /\ FinishedChildren # {} => LowestOf(FinishedChildren) \in Slots
         /\ Children # {} => LowestOf(Children) \in Slots
<1>1. FinishedChildren \in SUBSET Slots /\ Children \in SUBSET Slots
  BY SlotsFacts DEF FinishedChildren, Children
<1>2. QED
  BY <1>1, LowestOfMember

LEMMA WaitAnyStep ==
  ASSUME IInv, WaitAny
  PROVE  IInv'
<1>1. PICK c \in Slots : wait_for_task(c)
  BY ChildrenAreSlots DEF WaitAny, IInv
<1>2. QED
  BY <1>1, WaitForStep DEF WaitAny, UserCalls, Calls

LEMMA ReapFinishedChildStep ==
  ASSUME IInv, ReapFinishedChild
  PROVE  IInv'
<1>1. PICK c \in Slots : Collect(c)
  BY ChildrenAreSlots DEF ReapFinishedChild, IInv
<1>2. QED
  BY <1>1, CollectStep DEF ReapFinishedChild, UserCalls, Calls

\* The loop of wait_for_task: another round, or the zombie is collected.
LEMMA WaitLoopStep ==
  ASSUME IInv, WaitLoop
  PROVE  IInv'
<1>1. pc[current] = "wait" /\ arg[current] \in Slots
  BY DEF WaitLoop, IInv, TypeOK
<1>2. CASE /\ Collect(arg[current])
           /\ pc' = [pc EXCEPT ![current] = "run"]
           /\ UNCHANGED <<arg, awaited>>
  BY <1>1, <1>2, CollectStep
<1>3. CASE YieldHere /\ UNCHANGED <<taskVars, task_count, ticks, pc, arg, ioVars, ghostVars>>
  BY <1>1, <1>3, YieldStep
<1>4. QED
  BY <1>2, <1>3 DEF WaitLoop

\* A program leaves user mode for good.
LEMMA ExitStep ==
  ASSUME IInv, Exit
  PROVE  IInv'
<1> USE DEF taskVars, cpuVars, ioVars, ghostVars
<1>1. TypeOK /\ IdleIsSpare /\ SingleRunner /\ NoLostWakeup /\ DiskStates
  BY DEF IInv
<1>2. /\ pc[current] = "run" /\ current # IDLE_TASK
      /\ pc' = [pc EXCEPT ![current] = "exiting"]
      /\ UNCHANGED <<taskVars, cpuVars, task_count, ticks, arg, ioVars, ghostVars>>
  BY DEF Exit, UserCalls, Calls
<1>3. TypeOK'
  BY <1>1, <1>2 DEF TypeOK, PcValues
<1>4. IdleIsSpare' /\ SingleRunner' /\ NoLostWakeup' /\ DiskStates'
  BY <1>1, <1>2 DEF IdleIsSpare, SingleRunner, NoLostWakeup, DiskStates, Table, TypeOK
<1>5. QED
  BY <1>3, <1>4 DEF IInv

\* The table a task leaves behind: it is dead itself, and of the others only
\* zombies have been released, never idle.
LEMMA EndedTableSound ==
  ASSUME IInv, pc[current] = "exiting"
  PROVE  /\ SoundTable(AfterEnd, Cleared(wait_for), Cleared(credits))
         /\ AfterEnd[current] \in Dead
         /\ \A i \in Slots : i # current => AfterEnd[i] \in {state[i], "Unused"}
<1>1. TypeOK /\ IdleIsSpare /\ SingleRunner /\ DiskStates
  BY DEF IInv
<1>2. current # IDLE_TASK /\ current \in Slots /\ IDLE_TASK \in Slots
  BY <1>1, SlotsFacts DEF DiskStates
<1>3. /\ Ended(current) \in [Slots -> TaskState] /\ Ended(current)[current] \in Dead
      /\ \A i \in Slots : i # current => Ended(current)[i] = state[i]
  BY <1>1 DEF Ended, TypeOK, TaskState, Dead
<1>4. IDLE_TASK \notin Gone
  BY <1>1, <1>2, <1>3 DEF Orphans, IdleIsSpare, Gone
<1>5. /\ AfterEnd \in [Slots -> TaskState] /\ AfterEnd[current] \in Dead
      /\ \A i \in Slots : i # current => AfterEnd[i] \in {state[i], "Unused"}
      /\ AfterEnd[IDLE_TASK] = state[IDLE_TASK]
  BY <1>2, <1>3, <1>4 DEF TaskState, Dead, AfterEnd
<1>6. Cleared(wait_for) \in [Slots -> 0..MaxTasks] /\ Cleared(credits) \in [Slots -> 0..8]
  BY <1>1, MaxTasksAssumption DEF TypeOK, Cleared
<1>7. SoundTable(AfterEnd, Cleared(wait_for), Cleared(credits))
  <2>1. AfterEnd[IDLE_TASK] \in {"Ready", "Running"}
    BY <1>1, <1>5 DEF IdleIsSpare
  <2>2. current \in Table
    BY <1>1, <1>2 DEF IdleIsSpare, SingleRunner
  <2>3. \A i \in Slots : AfterEnd[i] # "Unused" => i \in Table
    BY <2>2, <1>1, <1>5 DEF IdleIsSpare
  <2>4. \A i \in Slots : AfterEnd[i] = "Running" => i = current
    BY <1>1, <1>5 DEF SingleRunner
  <2>5. QED
    BY <1>5, <1>6, <2>1, <2>3, <2>4 DEF SoundTable
<1>8. QED
  BY <1>5, <1>7

\* A task ends.
LEMMA TerminateCurrentStep ==
  ASSUME IInv, TerminateCurrent
  PROVE  IInv'
<1> USE DEF ioVars, ghostVars
<1>1. TypeOK /\ DiskStates /\ current \in Slots
  BY DEF IInv, TypeOK
<1>2. /\ pc[current] = "exiting"
      /\ waitable' = [i \in Slots |-> waitable[i] /\ i \notin Gone]
      /\ yield_now(AfterEnd, Cleared(wait_for), wake_tick, Cleared(credits), ticks)
      /\ UNCHANGED <<nice, parent, wake_tick, task_count, ticks, pc, arg, ioVars, ghostVars>>
  BY DEF TerminateCurrent
<1>3. /\ SoundTable(AfterEnd, Cleared(wait_for), Cleared(credits))
      /\ AfterEnd[current] \in Dead
      /\ \A i \in Slots : i # current => AfterEnd[i] \in {state[i], "Unused"}
  BY <1>2, EndedTableSound
<1>4. /\ current \notin Woken(AfterEnd, Cleared(wait_for), wake_tick, ticks)
      /\ AfterEnd[current] # "Ready"
  BY <1>3 DEF Woken, Dead
<1>5. /\ \A i \in Slots : AfterEnd[i] # "IoWait" \/ state[i] = "IoWait"
      /\ pc'[IDLE_TASK] = "run" /\ UNCHANGED <<task_count, irq_seen>>
  BY <1>1, <1>2, <1>3 DEF Dead, DiskStates
<1>6. /\ state' \in [Slots -> TaskState] /\ wait_for' \in [Slots -> 0..MaxTasks]
      /\ credits' \in [Slots -> 0..8] /\ need_resched' \in BOOLEAN
      /\ current' \in Slots
      /\ IdleIsSpare' /\ NoLostWakeup' /\ SingleRunner' /\ DiskStates'
  BY <1>2, <1>3, <1>4, <1>5, SwitchAway
<1>7. waitable' \in [Slots -> BOOLEAN]
  BY <1>1, <1>2 DEF TypeOK
<1>8. TypeOK'
  BY <1>1, <1>2, <1>6, <1>7 DEF TypeOK
<1>9. QED
  BY <1>6, <1>8 DEF IInv

\* A task is ended by another one.
LEMMA TerminateStep ==
  ASSUME IInv, NEW t \in Slots, terminate(t)
  PROVE  IInv'
<1> USE DEF ioVars, ghostVars
<1>1. TypeOK /\ IdleIsSpare /\ SingleRunner /\ NoLostWakeup /\ DiskStates
  BY DEF IInv
<1>2. /\ t # IDLE_TASK /\ t # current /\ state[t] \notin Dead
      /\ UNCHANGED <<current, need_resched, nice, parent, wake_tick, task_count, ticks, pc, arg,
                     ioVars, ghostVars>>
  BY DEF terminate
<1>3. CASE /\ state' = [state EXCEPT ![t] = "Terminated"]
           /\ UNCHANGED <<waitable, wait_for, credits>>
  <2>1. TypeOK'
    BY <1>1, <1>2, <1>3 DEF TypeOK, TaskState
  <2>2. IdleIsSpare' /\ SingleRunner' /\ NoLostWakeup' /\ DiskStates'
    BY <1>1, <1>2, <1>3, SlotsFacts
    DEF IdleIsSpare, SingleRunner, NoLostWakeup, DiskStates, Table, TypeOK, Dead
  <2>3. QED
    BY <2>1, <2>2 DEF IInv
<1>4. CASE Released({t})
  <2>1. /\ state' \in [Slots -> TaskState] /\ wait_for' \in [Slots -> 0..MaxTasks]
        /\ credits' \in [Slots -> 0..8] /\ waitable' \in [Slots -> BOOLEAN]
        /\ IdleIsSpare' /\ SingleRunner' /\ NoLostWakeup' /\ DiskStates'
    <3>1. pc'[IDLE_TASK] = "run" /\ pc'[current] = pc[current]
      BY <1>1, <1>2 DEF DiskStates
    <3>2. {t} \in SUBSET Slots /\ IDLE_TASK \notin {t} /\ current \notin {t}
      BY <1>2
    <3>3. QED
      BY <1>2, <1>4, <3>1, <3>2, ReleasedKeeps
  <2>2. TypeOK'
    BY <1>1, <1>2, <2>1 DEF TypeOK
  <2>3. QED
    BY <2>1, <2>2 DEF IInv
<1>5. QED
  BY <1>3, <1>4 DEF terminate

\* Starting a disk request.
LEMMA IoRequestStep ==
  ASSUME IInv, IoRequest
  PROVE  IInv'
<1> USE DEF taskVars, cpuVars, ghostVars
<1>1. TypeOK /\ IdleIsSpare /\ SingleRunner /\ NoLostWakeup /\ DiskStates
  BY DEF IInv
<1>2. /\ pc[current] = "run" /\ current # IDLE_TASK
      /\ locked' = TRUE /\ irq_seen' = FALSE /\ disk' = "busy"
      /\ arg' = [arg EXCEPT ![current] = (ticks + IoTimeout) % TickMod]
      /\ pc' = [pc EXCEPT ![current] = "io_test"]
      /\ UNCHANGED <<taskVars, cpuVars, task_count, ticks, ghostVars>>
  BY DEF IoRequest, Calls
<1>3. (ticks + IoTimeout) % TickMod \in Nat
  <2>1. ticks + IoTimeout \in Int
    BY <1>1, IoTimeoutAssumption, TickModAssumption DEF TypeOK
  <2>2. QED
    BY <2>1, ModRange, TickModAssumption
<1>4. TypeOK'
  BY <1>1, <1>2, <1>3 DEF TypeOK, PcValues
<1>5. IdleIsSpare' /\ SingleRunner' /\ NoLostWakeup' /\ DiskStates'
  BY <1>1, <1>2 DEF IdleIsSpare, SingleRunner, NoLostWakeup, DiskStates, Table, TypeOK
<1>6. QED
  BY <1>4, <1>5 DEF IInv

\* The test that decides whether to sleep: only with the flag down.
LEMMA IoTestStep ==
  ASSUME IInv, IoTest
  PROVE  IInv'
<1> USE DEF taskVars, ghostVars
<1>1. TypeOK /\ IdleIsSpare /\ SingleRunner /\ NoLostWakeup /\ DiskStates
  BY DEF IInv
<1>2. /\ pc[current] = "io_test" /\ state[current] = "Running" /\ current # IDLE_TASK
      /\ UNCHANGED <<taskVars, credits, wait_for, current, need_resched, task_count, ticks, arg,
                     disk, ghostVars>>
  BY <1>1 DEF IoTest, SingleRunner, DiskStates
<1>3. CASE IoFinish(state)
  <2>1. TypeOK'
    BY <1>1, <1>2, <1>3 DEF TypeOK, PcValues, IoFinish
  <2>2. IdleIsSpare' /\ SingleRunner' /\ NoLostWakeup' /\ DiskStates'
    BY <1>1, <1>2, <1>3
    DEF IdleIsSpare, SingleRunner, NoLostWakeup, DiskStates, Table, TypeOK, IoFinish
  <2>3. QED
    BY <2>1, <2>2 DEF IInv
<1>4. CASE /\ ~irq_seen
           /\ state' = [state EXCEPT ![current] = "IoWait"]
           /\ pc' = [pc EXCEPT ![current] = "io_armed"]
           /\ UNCHANGED <<irq_seen, locked>>
  <2>1. TypeOK'
    BY <1>1, <1>2, <1>4 DEF TypeOK, PcValues, TaskState
  <2>2. IdleIsSpare' /\ SingleRunner' /\ NoLostWakeup' /\ DiskStates'
    BY <1>1, <1>2, <1>4, SlotsFacts
    DEF IdleIsSpare, SingleRunner, NoLostWakeup, DiskStates, Table, TypeOK
  <2>3. QED
    BY <2>1, <2>2 DEF IInv
<1>5. QED
  BY <1>3, <1>4 DEF IoTest

\* The yield_now of wait_for_io; the interrupt may have come before it.
LEMMA IoYieldStep ==
  ASSUME IInv, IoYield
  PROVE  IInv'
<1> USE DEF taskVars, ioVars, ghostVars
<1>1. TypeOK /\ IdleIsSpare /\ SingleRunner /\ NoLostWakeup /\ DiskStates
  BY DEF IInv
<1>2. /\ pc[current] = "io_armed" /\ current # IDLE_TASK /\ current \in Slots
      /\ pc' = [pc EXCEPT ![current] = "io_woken"]
      /\ UNCHANGED <<taskVars, task_count, ticks, arg, ioVars, ghostVars>>
  BY <1>1, SlotsFacts DEF IoYield, DiskStates
<1>3. /\ state' \in [Slots -> TaskState] /\ wait_for' \in [Slots -> 0..MaxTasks]
      /\ credits' \in [Slots -> 0..8] /\ need_resched' \in BOOLEAN
      /\ current' \in Slots
      /\ IdleIsSpare' /\ NoLostWakeup'
      /\ \A i \in Slots : state'[i] = "Running" => i = current'
      /\ \/ state'[current'] = "Running"
         \/ current' = current /\ state'[current] = "Ready" /\ state[current] = "Ready"
      /\ state'[current'] = "Ready" => irq_seen'
  <2>1. state[current] \in {"Ready", "Running", "IoWait"}
    BY <1>1, <1>2 DEF DiskStates
  <2>2. YieldHere
    BY DEF IoYield
  <2>3. UNCHANGED <<task_count, irq_seen>>
    BY <1>2
  <2>4. QED
    BY <2>1, <2>2, <2>3, YieldHereKeeps
<1>4. /\ pc' \in [Slots -> PcValues] /\ pc'[IDLE_TASK] = "run" /\ pc'[current] = "io_woken"
      /\ \A i \in Slots : pc'[i] = "wait" => pc[i] = "wait"
  BY <1>1, <1>2 DEF TypeOK, PcValues, DiskStates
<1>5. TypeOK'
  BY <1>1, <1>2, <1>3, <1>4 DEF TypeOK
<1>6. SingleRunner' /\ DiskStates'
  BY <1>3, <1>4 DEF SingleRunner, DiskStates
<1>7. QED
  BY <1>3, <1>5, <1>6 DEF IInv

\* Back from it: done, too late, or once more.
LEMMA IoWokenStep ==
  ASSUME IInv, IoWoken
  PROVE  IInv'
<1> USE DEF taskVars, ghostVars
<1> DEFINE st == [state EXCEPT ![current] = "Running"]
<1>1. TypeOK /\ IdleIsSpare /\ SingleRunner /\ NoLostWakeup /\ DiskStates
  BY DEF IInv
<1>2. /\ pc[current] = "io_woken" /\ state[current] \in {"Ready", "Running"}
      /\ current # IDLE_TASK /\ current \in Slots
      /\ UNCHANGED <<taskVars, credits, wait_for, current, need_resched, task_count, ticks, arg,
                     disk, ghostVars>>
  BY <1>1, SlotsFacts DEF IoWoken, DiskStates
<1>3. CASE IoFinish(st)
  <2>1. st \in [Slots -> TaskState]
    BY <1>1 DEF TypeOK, TaskState
  <2>2. TypeOK'
    BY <1>1, <1>2, <1>3, <2>1 DEF TypeOK, PcValues, IoFinish
  <2>3. IdleIsSpare' /\ SingleRunner' /\ NoLostWakeup' /\ DiskStates'
    BY <1>1, <1>2, <1>3, SlotsFacts
    DEF IdleIsSpare, SingleRunner, NoLostWakeup, DiskStates, Table, TypeOK, IoFinish
  <2>4. QED
    BY <2>2, <2>3 DEF IInv
<1>4. CASE /\ ~irq_seen
           /\ pc' = [pc EXCEPT ![current] = "io_test"]
           /\ UNCHANGED <<state, irq_seen, locked>>
  <2>1. TypeOK'
    BY <1>1, <1>2, <1>4 DEF TypeOK, PcValues
  <2>2. IdleIsSpare' /\ SingleRunner' /\ NoLostWakeup' /\ DiskStates'
    BY <1>1, <1>2, <1>4
    DEF IdleIsSpare, SingleRunner, NoLostWakeup, DiskStates, Table, TypeOK
  <2>3. QED
    BY <2>1, <2>2 DEF IInv
<1>5. QED
  BY <1>3, <1>4 DEF IoWoken

\* Every step preserves the invariant.
LEMMA NextIInv ==
  ASSUME IInv, [Next]_vars
  PROVE  IInv'
<1>1. CASE Next
  <2>1. CASE Spawn
    BY <2>1, SpawnStep DEF Spawn
  <2>2. CASE SpawnChild
    BY <2>2, SpawnStep DEF SpawnChild, UserCalls, Calls
  <2>3. CASE Yield
    BY <2>3, YieldStep DEF Yield
  <2>4. CASE \E i \in Slots, n \in Nices : set_nice(i, n)
    BY <2>4, SetNiceStep
  <2>5. CASE \E n \in SleepTimes : sleep_ticks(n)
    BY <2>5, SleepStep
  <2>6. CASE \E c \in Slots : WaitPid(c)
    BY <2>6, WaitForStep DEF WaitPid, UserCalls, Calls
  <2>7. CASE WaitAny \/ ReapFinishedChild
    BY <2>7, WaitAnyStep, ReapFinishedChildStep
  <2>8. CASE Exit
    BY <2>8, ExitStep
  <2>9. CASE \E t \in Slots : terminate(t)
    BY <2>9, TerminateStep
  <2>10. CASE IoRequest
    BY <2>10, IoRequestStep
  <2>11. CASE Kernel
    BY <2>11, SleepLoopStep, WaitLoopStep, TerminateCurrentStep, IoTestStep, IoYieldStep,
       IoWokenStep DEF Kernel
  <2>12. CASE TimerTick \/ DiskIrq
    BY <2>12, TimerTickStep, DiskIrqStep
  <2>13. QED
    BY <1>1, <2>1, <2>2, <2>3, <2>4, <2>5, <2>6, <2>7, <2>8, <2>9, <2>10, <2>11, <2>12
    DEF Next, Program
<1>2. CASE UNCHANGED vars
  BY <1>2 DEF vars, taskVars, cpuVars, ioVars, ghostVars, IInv, TypeOK, IdleIsSpare,
     SingleRunner, NoLostWakeup, DiskStates, Table
<1>3. QED
  BY <1>1, <1>2

(* Theorems *)

\* IInv holds in every reachable state: with any number of slots, tasks,
\* calls and interrupts.
THEOREM InvariantHolds == Spec => []IInv
<1>1. IInv /\ [Next]_vars => IInv'
  BY NextIInv
<1>2. QED
  BY InitIInv, <1>1, PTL DEF Spec

\* Type correctness of the task table and of the scheduler's globals.
THEOREM TypeCorrect == Spec => []TypeOK
<1>1. IInv => TypeOK
  BY DEF IInv
<1>2. QED
  BY InvariantHolds, <1>1, PTL

\* The CPU's task is the only one marked Running: yield_now, the interrupts
\* and the waiting loops never disagree about who runs.
THEOREM OneTaskRuns == Spec => []SingleRunner
<1>1. IInv => SingleRunner
  BY DEF IInv
<1>2. QED
  BY InvariantHolds, <1>1, PTL

\* No task sleeps on a disk interrupt that has already come.
THEOREM NoWakeupIsLost == Spec => []NoLostWakeup
<1>1. IInv => NoLostWakeup
  BY DEF IInv
<1>2. QED
  BY InvariantHolds, <1>1, PTL

(* Dead slots stay dead *)

\* The dead of the table st are still dead after yield_now.
LEMMA YieldRaisesNobody ==
  ASSUME IInv, NEW st, NEW wf, NEW wt, NEW cr, NEW now,
         SoundTable(st, wf, cr), yield_now(st, wf, wt, cr, now),
         \A i \in Slots : state[i] \in Dead => st[i] \in Dead
  PROVE  \A i \in Slots : state[i] \in Dead => state'[i] \in Dead
BY YieldOutcome DEF IInv

LEMMA YieldHereRaisesNobody ==
  ASSUME IInv, YieldHere
  PROVE  \A i \in Slots : state[i] \in Dead => state'[i] \in Dead
BY OwnTableSound, YieldRaisesNobody DEF YieldHere

LEMMA TimerTickRaisesNobody ==
  ASSUME IInv, TimerTick
  PROVE  \A i \in Slots : state[i] \in Dead => state'[i] \in Dead
<1> DEFINE cr == [credits EXCEPT ![current] = IF @ > 1 THEN @ - 1 ELSE 0]
<1>1. \/ yield_now(state, wait_for, wake_tick, cr, (ticks + 1) % TickMod)
      \/ state' = state
  BY DEF TimerTick
<1>2. SoundTable(state, wait_for, cr)
  <2>1. cr \in [Slots -> 0..8]
    BY DEF IInv, TypeOK
  <2>2. QED
    BY <2>1, OwnTableSound DEF SoundTable
<1> HIDE DEF cr
<1>3. QED
  BY <1>1, <1>2, YieldRaisesNobody

\* The tables sleep_ticks and wait_for_task hand to yield_now.
LEMMA AsleepTableSound ==
  ASSUME IInv, pc[current] = "run", current # IDLE_TASK,
         NEW kind \in {"Blocked", "Waiting"}, NEW wf \in [Slots -> 0..MaxTasks]
  PROVE  SoundTable([state EXCEPT ![current] = kind], wf, credits)
<1>1. state[current] = "Running"
  BY DEF IInv, SingleRunner
<1>2. QED
  BY <1>1, OwnTableSound DEF SoundTable, TaskState, IInv, TypeOK, IdleIsSpare, SingleRunner

LEMMA SleepRaisesNobody ==
  ASSUME IInv, NEW n \in SleepTimes, sleep_ticks(n)
  PROVE  \A i \in Slots : state[i] \in Dead => state'[i] \in Dead
<1> DEFINE st == [state EXCEPT ![current] = "Blocked"]
           wt == [wake_tick EXCEPT ![current] = (ticks + n) % TickMod]
<1>1. yield_now(st, wait_for, wt, credits, ticks)
  BY DEF sleep_ticks
<1>2. pc[current] = "run" /\ current # IDLE_TASK /\ state[current] = "Running"
  BY DEF sleep_ticks, UserCalls, Calls, IInv, SingleRunner
<1>3. SoundTable(st, wait_for, credits)
  BY <1>2, AsleepTableSound DEF IInv, TypeOK
<1>4. \A i \in Slots : state[i] \in Dead => st[i] \in Dead
  BY <1>2 DEF Dead, IInv, TypeOK
<1> HIDE DEF st, wt
<1>5. QED
  BY <1>1, <1>3, <1>4, YieldRaisesNobody

LEMMA WaitForRaisesNobody ==
  ASSUME IInv, NEW c \in Slots, wait_for_task(c), pc[current] = "run", current # IDLE_TASK
  PROVE  \A i \in Slots : state[i] \in Dead => state'[i] \in Dead
<1> DEFINE st == [state EXCEPT ![current] = "Waiting"]
           wf == [wait_for EXCEPT ![current] = c + 1]
<1>1. state[current] = "Running"
  BY DEF IInv, SingleRunner
<1>2. CASE Collect(c)
  BY <1>2 DEF Collect, Released, Dead
<1>3. CASE yield_now(st, wf, wake_tick, credits, ticks)
  <2>1. wf \in [Slots -> 0..MaxTasks]
    <3>1. c + 1 \in 0..MaxTasks
      BY MaxTasksAssumption DEF Slots
    <3>2. QED
      BY <3>1 DEF IInv, TypeOK
  <2>2. SoundTable(st, wf, credits)
    BY <2>1, AsleepTableSound
  <2>3. \A i \in Slots : state[i] \in Dead => st[i] \in Dead
    BY <1>1 DEF Dead, IInv, TypeOK
  <2> HIDE DEF st, wf
  <2>4. QED
    BY <1>3, <2>2, <2>3, YieldRaisesNobody
<1>4. QED
  BY <1>2, <1>3 DEF wait_for_task

\* terminate_current only adds dead slots before it gives up the CPU.
LEMMA TerminateCurrentRaisesNobody ==
  ASSUME IInv, TerminateCurrent
  PROVE  \A i \in Slots : state[i] \in Dead => state'[i] \in Dead
<1>1. /\ SoundTable(AfterEnd, Cleared(wait_for), Cleared(credits))
      /\ AfterEnd[current] \in Dead
      /\ \A i \in Slots : i # current => AfterEnd[i] \in {state[i], "Unused"}
  BY EndedTableSound DEF TerminateCurrent
<1>2. \A i \in Slots : state[i] \in Dead => AfterEnd[i] \in Dead
  BY <1>1 DEF Dead
<1>3. yield_now(AfterEnd, Cleared(wait_for), wake_tick, Cleared(credits), ticks)
  BY DEF TerminateCurrent
<1>4. QED
  BY <1>1, <1>2, <1>3, YieldRaisesNobody

\* The steps of the disk request write only the state of the current task,
\* which is alive, and the interrupt only that of tasks in IoWait.
LEMMA DiskRaisesNobody ==
  ASSUME IInv, IoTest \/ IoYield \/ IoWoken \/ DiskIrq
  PROVE  \A i \in Slots : state[i] \in Dead => state'[i] \in Dead
<1>1. CASE IoTest
  BY <1>1 DEF IoTest, IoFinish, IInv, TypeOK, SingleRunner, Dead
<1>2. CASE IoYield
  BY <1>2, YieldHereRaisesNobody DEF IoYield
<1>3. CASE IoWoken
  <2>1. state[current] \notin Dead
    BY <1>3 DEF IoWoken, IInv, DiskStates, Dead
  <2>2. QED
    BY <1>3, <2>1 DEF IoWoken, IoFinish, IInv, TypeOK
<1>4. CASE DiskIrq
  BY <1>4 DEF DiskIrq, Dead
<1>5. QED
  BY <1>1, <1>2, <1>3, <1>4

\* The other pieces of kernel code a task can be in the middle of.
LEMMA LoopsRaiseNobody ==
  ASSUME IInv, SleepLoop \/ WaitLoop
  PROVE  \A i \in Slots : state[i] \in Dead => state'[i] \in Dead
<1>1. CASE YieldHere
  BY <1>1, YieldHereRaisesNobody
<1>2. CASE SleepLoop /\ state' = [state EXCEPT ![current] = "Running"]
  BY <1>2 DEF SleepLoop, IInv, SingleRunner, TypeOK, Dead
<1>3. CASE Collect(arg[current])
  BY <1>3 DEF Collect, Released, Dead
<1>4. QED
  BY <1>1, <1>2, <1>3 DEF SleepLoop, WaitLoop

\* Only spawn turns a dead slot into a living one, and it counts a new life.
LEMMA SpawnCounts ==
  ASSUME IInv, NEW w \in BOOLEAN, spawn_inner(w), NEW i \in Slots,
         state[i] \in Dead, state'[i] \notin Dead
  PROVE  born'[i] = born[i] + 1
<1>1. i = FirstFree
  BY DEF spawn_inner, IInv, TypeOK
<1>2. QED
  BY <1>1 DEF spawn_inner, IInv, TypeOK

\* A call of waitpid.
LEMMA WaitCallsRaiseNobody ==
  ASSUME IInv, WaitAny \/ ReapFinishedChild \/ \E c \in Slots : WaitPid(c)
  PROVE  \A i \in Slots : state[i] \in Dead => state'[i] \in Dead
<1>1. CASE \E c \in Slots : WaitPid(c)
  BY <1>1, WaitForRaisesNobody DEF WaitPid, UserCalls, Calls
<1>2. CASE WaitAny
  <2>1. \E c \in Slots : wait_for_task(c)
    BY <1>2, ChildrenAreSlots DEF WaitAny, IInv
  <2>2. QED
    BY <1>2, <2>1, WaitForRaisesNobody DEF WaitAny, UserCalls, Calls
<1>3. CASE ReapFinishedChild
  BY <1>3 DEF ReapFinishedChild, Collect, Released, Dead
<1>4. QED
  BY <1>1, <1>2, <1>3

\* A slot's task, once it has ended, does not come back: no wake-up, interrupt,
\* unfinished wait or disk request makes a dead slot runnable; only spawn does.
THEOREM DeadStayDead == Spec => NoResurrection
<1>1. IInv /\ [Next]_vars
        => [\A i \in Slots : state[i] \in Dead /\ state'[i] \notin Dead
              => born'[i] = born[i] + 1]_vars
  <2> SUFFICES ASSUME IInv, Next, NEW i \in Slots, state[i] \in Dead, state'[i] \notin Dead
               PROVE  born'[i] = born[i] + 1
    OBVIOUS
  <2>1. CASE Spawn \/ SpawnChild
    BY <2>1, SpawnCounts DEF Spawn, SpawnChild
  <2>2. CASE Yield \/ \E j \in Slots, n \in Nices : set_nice(j, n)
    BY <2>2, YieldHereRaisesNobody DEF Yield, set_nice, cpuVars
  <2>3. CASE \E n \in SleepTimes : sleep_ticks(n)
    BY <2>3, SleepRaisesNobody
  <2>4. CASE WaitAny \/ ReapFinishedChild \/ \E c \in Slots : WaitPid(c)
    BY <2>4, WaitCallsRaiseNobody
  <2>5. CASE Exit \/ IoRequest
    BY <2>5 DEF Exit, IoRequest, cpuVars
  <2>6. CASE \E t \in Slots : terminate(t)
    BY <2>6 DEF terminate, Released, Dead, IInv, TypeOK
  <2>7. CASE Kernel
    BY <2>7, LoopsRaiseNobody, TerminateCurrentRaisesNobody, DiskRaisesNobody DEF Kernel
  <2>8. CASE TimerTick \/ DiskIrq
    BY <2>8, TimerTickRaisesNobody, DiskRaisesNobody
  <2>9. QED
    BY <2>1, <2>2, <2>3, <2>4, <2>5, <2>6, <2>7, <2>8 DEF Next, Program
<1>2. QED
  BY InvariantHolds, <1>1, PTL DEF Spec, NoResurrection

(* Zombies *)

\* Only tasks that somebody may collect stay as zombies.
ZombiesKept == \A i \in Slots : state[i] = "Terminated" => waitable[i]

\* yield_now makes no zombie.
LEMMA YieldKeepsZombies ==
  ASSUME IInv, ZombiesKept, NEW st, NEW wf, NEW wt, NEW cr, NEW now,
         SoundTable(st, wf, cr), yield_now(st, wf, wt, cr, now),
         \A i \in Slots : st[i] = "Terminated" => state[i] = "Terminated",
         waitable' = waitable
  PROVE  ZombiesKept'
BY YieldOutcome DEF IInv, ZombiesKept

LEMMA YieldHereKeepsZombies ==
  ASSUME IInv, ZombiesKept, YieldHere, waitable' = waitable
  PROVE  ZombiesKept'
BY OwnTableSound, YieldKeepsZombies DEF YieldHere

LEMMA TimerTickKeepsZombies ==
  ASSUME IInv, ZombiesKept, TimerTick
  PROVE  ZombiesKept'
<1> DEFINE cr == [credits EXCEPT ![current] = IF @ > 1 THEN @ - 1 ELSE 0]
<1>1. /\ \/ yield_now(state, wait_for, wake_tick, cr, (ticks + 1) % TickMod)
         \/ state' = state
      /\ waitable' = waitable
  BY DEF TimerTick, taskVars
<1>2. SoundTable(state, wait_for, cr)
  <2>1. cr \in [Slots -> 0..8]
    BY DEF IInv, TypeOK
  <2>2. QED
    BY <2>1, OwnTableSound DEF SoundTable
<1> HIDE DEF cr
<1>3. CASE yield_now(state, wait_for, wake_tick, cr, (ticks + 1) % TickMod)
  BY <1>1, <1>2, <1>3, YieldKeepsZombies
<1>4. CASE state' = state
  BY <1>1, <1>4 DEF ZombiesKept
<1>5. QED
  BY <1>1, <1>3, <1>4

\* Going to sleep, for a time or for another task.
LEMMA AsleepKeepsZombies ==
  ASSUME IInv, ZombiesKept, pc[current] = "run", current # IDLE_TASK, waitable' = waitable,
         NEW kind \in {"Blocked", "Waiting"}, NEW wf \in [Slots -> 0..MaxTasks], NEW wt,
         yield_now([state EXCEPT ![current] = kind], wf, wt, credits, ticks)
  PROVE  ZombiesKept'
<1> DEFINE st == [state EXCEPT ![current] = kind]
<1>1. SoundTable(st, wf, credits)
  BY AsleepTableSound
<1>2. \A i \in Slots : st[i] = "Terminated" => state[i] = "Terminated"
  BY DEF IInv, TypeOK
<1> HIDE DEF st
<1>3. yield_now(st, wf, wt, credits, ticks)
  BY DEF st
<1>4. QED
  BY <1>1, <1>2, <1>3, YieldKeepsZombies

LEMMA CollectKeepsZombies ==
  ASSUME IInv, ZombiesKept, NEW c, Collect(c)
  PROVE  ZombiesKept'
BY DEF Collect, Released, ZombiesKept, IInv, TypeOK

LEMMA WaitForKeepsZombies ==
  ASSUME IInv, ZombiesKept, NEW c \in Slots, wait_for_task(c), pc[current] = "run",
         current # IDLE_TASK
  PROVE  ZombiesKept'
<1> DEFINE wf == [wait_for EXCEPT ![current] = c + 1]
<1>1. wf \in [Slots -> 0..MaxTasks]
  <2>1. c + 1 \in 0..MaxTasks
    BY MaxTasksAssumption DEF Slots
  <2>2. QED
    BY <2>1 DEF IInv, TypeOK
<1>2. \/ Collect(c)
      \/ /\ yield_now([state EXCEPT ![current] = "Waiting"], wf, wake_tick, credits, ticks)
         /\ waitable' = waitable
  BY DEF wait_for_task, taskVars
<1> HIDE DEF wf
<1>3. QED
  BY <1>1, <1>2, CollectKeepsZombies, AsleepKeepsZombies

LEMMA WaitCallsKeepZombies ==
  ASSUME IInv, ZombiesKept, WaitAny \/ ReapFinishedChild \/ \E c \in Slots : WaitPid(c)
  PROVE  ZombiesKept'
<1>1. CASE \E c \in Slots : WaitPid(c)
  BY <1>1, WaitForKeepsZombies DEF WaitPid, UserCalls, Calls
<1>2. CASE WaitAny
  <2>1. \E c \in Slots : wait_for_task(c)
    BY <1>2, ChildrenAreSlots DEF WaitAny, IInv
  <2>2. QED
    BY <1>2, <2>1, WaitForKeepsZombies DEF WaitAny, UserCalls, Calls
<1>3. CASE ReapFinishedChild
  BY <1>3, CollectKeepsZombies DEF ReapFinishedChild
<1>4. QED
  BY <1>1, <1>2, <1>3

\* Which tasks of the table after the end of the current one are dead: those
\* of Gone were so before they were released.
LEMMA EndedTable ==
  ASSUME IInv, pc[current] = "exiting"
  PROVE  \A i \in Slots :
           /\ AfterEnd[i] = "Terminated" => Ended(current)[i] = "Terminated" /\ i \notin Gone
           /\ AfterEnd[i] \in Dead => Ended(current)[i] \in Dead
           /\ Ended(current)[i] = "Terminated" =>
                \/ i = current /\ waitable[i]
                \/ i # current /\ state[i] = "Terminated"
<1>1. state \in [Slots -> TaskState] /\ current \in Slots
  BY DEF IInv, TypeOK
<1>2. Ended(current)[current] \in Dead
  BY <1>1 DEF Ended, Dead
<1>3. \A i \in Gone : Ended(current)[i] \in Dead
  BY <1>1, <1>2 DEF Gone, Orphans, Dead
<1>4. QED
  BY <1>1, <1>3 DEF AfterEnd, Ended, Dead

LEMMA TerminateCurrentKeepsZombies ==
  ASSUME IInv, ZombiesKept, TerminateCurrent
  PROVE  ZombiesKept'
<1>1. /\ yield_now(AfterEnd, Cleared(wait_for), wake_tick, Cleared(credits), ticks)
      /\ waitable' = [i \in Slots |-> waitable[i] /\ i \notin Gone]
      /\ SoundTable(AfterEnd, Cleared(wait_for), Cleared(credits))
  BY EndedTableSound DEF TerminateCurrent
<1>2. \A i \in Slots : state'[i] = "Terminated" => AfterEnd[i] = "Terminated"
  BY <1>1, YieldOutcome DEF IInv
<1>3. \A i \in Slots : AfterEnd[i] = "Terminated" => waitable[i] /\ i \notin Gone
  BY EndedTable DEF TerminateCurrent, ZombiesKept
<1>4. QED
  BY <1>1, <1>2, <1>3 DEF ZombiesKept

\* The disk wait and the loops of sleep_ticks and wait_for_task.
LEMMA LoopsKeepZombies ==
  ASSUME IInv, ZombiesKept, SleepLoop \/ WaitLoop \/ IoTest \/ IoYield \/ IoWoken \/ DiskIrq
  PROVE  ZombiesKept'
<1>1. CASE YieldHere /\ waitable' = waitable
  BY <1>1, YieldHereKeepsZombies
<1>2. CASE Collect(arg[current])
  BY <1>2, CollectKeepsZombies
<1>3. CASE /\ waitable' = waitable
           /\ \A i \in Slots : state'[i] = "Terminated" => state[i] = "Terminated"
  BY <1>3 DEF ZombiesKept
<1>4. CASE SleepLoop \/ WaitLoop
  BY <1>1, <1>2, <1>3, <1>4 DEF SleepLoop, WaitLoop, taskVars, IInv, TypeOK
<1>5. CASE IoTest \/ IoYield \/ IoWoken
  BY <1>1, <1>3, <1>5 DEF IoTest, IoYield, IoWoken, IoFinish, taskVars, IInv, TypeOK
<1>6. CASE DiskIrq
  BY <1>3, <1>6 DEF DiskIrq, taskVars, IInv, TypeOK
<1>7. QED
  BY <1>4, <1>5, <1>6

\* Every step preserves it.
LEMMA NextKeepsZombies ==
  ASSUME IInv, ZombiesKept, [Next]_vars
  PROVE  ZombiesKept'
<1>1. CASE Spawn \/ SpawnChild
  BY <1>1 DEF Spawn, SpawnChild, spawn_inner, ZombiesKept, IInv, TypeOK
<1>2. CASE Yield
  BY <1>2, YieldHereKeepsZombies DEF Yield, taskVars
<1>3. CASE \E i \in Slots, n \in Nices : set_nice(i, n)
  BY <1>3 DEF set_nice, cpuVars, ZombiesKept
<1>4. CASE \E n \in SleepTimes : sleep_ticks(n)
  BY <1>4, AsleepKeepsZombies DEF sleep_ticks, UserCalls, Calls, IInv, TypeOK
<1>5. CASE WaitAny \/ ReapFinishedChild \/ \E c \in Slots : WaitPid(c)
  BY <1>5, WaitCallsKeepZombies
<1>6. CASE Exit \/ IoRequest
  BY <1>6 DEF Exit, IoRequest, taskVars, cpuVars, ZombiesKept
<1>7. CASE \E t \in Slots : terminate(t)
  <2> PICK t \in Slots : terminate(t)
    BY <1>7
  <2>1. CASE /\ waitable[t] /\ waitable' = waitable
             /\ state' = [state EXCEPT ![t] = "Terminated"]
    BY <2>1 DEF ZombiesKept, IInv, TypeOK
  <2>2. CASE Released({t})
    BY <2>2 DEF Released, ZombiesKept
  <2>3. QED
    BY <2>1, <2>2 DEF terminate
<1>8. CASE Kernel
  BY <1>8, LoopsKeepZombies, TerminateCurrentKeepsZombies DEF Kernel
<1>9. CASE TimerTick \/ DiskIrq
  BY <1>9, TimerTickKeepsZombies, LoopsKeepZombies
<1>10. CASE UNCHANGED vars
  BY <1>10 DEF vars, taskVars, cpuVars, ZombiesKept
<1>11. QED
  BY <1>1, <1>2, <1>3, <1>4, <1>5, <1>6, <1>7, <1>8, <1>9, <1>10 DEF Next, Program

\* The dead parent of a zombie was dead when reap_orphans looked, so the zombie
\* has been released.
LEMMA EndLeavesNoOrphan ==
  ASSUME IInv, ZombiesKept, TerminateCurrent, NEW i \in Slots
  PROVE  ~StrandedZombie(i)'
<1>1. /\ yield_now(AfterEnd, Cleared(wait_for), wake_tick, Cleared(credits), ticks)
      /\ parent' = parent /\ parent[i] \in Slots
      /\ SoundTable(AfterEnd, Cleared(wait_for), Cleared(credits))
  BY EndedTableSound DEF TerminateCurrent, IInv, TypeOK
<1>2. SUFFICES ASSUME state'[i] = "Terminated", state'[parent[i]] \in Dead
               PROVE  FALSE
  BY <1>1 DEF StrandedZombie
<1>3. AfterEnd[i] = "Terminated" /\ AfterEnd[parent[i]] \in Dead /\ i \in Table
  BY <1>1, <1>2, YieldOutcome DEF IInv, SoundTable
<1>4. /\ Ended(current)[i] = "Terminated" /\ Ended(current)[parent[i]] \in Dead
      /\ waitable[i] /\ i \notin Gone
  BY <1>1, <1>3, EndedTable DEF TerminateCurrent, ZombiesKept
<1>5. i \in Orphans(Ended(current))
  BY <1>3, <1>4 DEF Orphans
<1>6. QED
  BY <1>4, <1>5 DEF Gone

\* Whoever exits, in whatever order families end and are killed: afterwards no
\* zombie is left whose parent cannot collect it.
THEOREM ExitsReapOrphans == Spec => ExitReapsOrphans
<1>1. Init => ZombiesKept
  BY DEF Init, ZombiesKept, IDLE_TASK
<1>2. IInv /\ ZombiesKept /\ [Next]_vars => ZombiesKept'
  BY NextKeepsZombies
<1>3. IInv /\ ZombiesKept /\ [Next]_vars
        => [TerminateCurrent => \A i \in Slots : ~StrandedZombie(i)']_vars
  BY EndLeavesNoOrphan
<1>4. QED
  BY InvariantHolds, <1>1, <1>2, <1>3, PTL DEF Spec, ExitReapsOrphans

(* One request at a time *)

\* A step that lets nobody in or out of a disk request.
SameRequests ==
  /\ locked' = locked
  /\ \A i \in Slots : InRequest(i)' <=> InRequest(i)

LEMMA SameRequestsKeep ==
  ASSUME OneRequest, SameRequests
  PROVE  OneRequest'
BY DEF OneRequest, SameRequests

\* What a call of yield_now needs for it: the points of wait_for_io are those of
\* before, and whoever is at one is as dead or alive in the table as he was.
LEMMA YieldKeepsRequests ==
  ASSUME IInv, NEW st, NEW wf, NEW wt, NEW cr, NEW now,
         SoundTable(st, wf, cr), yield_now(st, wf, wt, cr, now), locked' = locked,
         \A i \in Slots : pc'[i] \in {"io_test", "io_armed", "io_woken"}
                            <=> pc[i] \in {"io_test", "io_armed", "io_woken"},
         \A i \in Slots : pc[i] \in {"io_test", "io_armed", "io_woken"}
                            => (st[i] \in Dead <=> state[i] \in Dead)
  PROVE  SameRequests
<1>1. \A i \in Slots : st[i] \in Dead <=> state'[i] \in Dead
  BY YieldOutcome DEF IInv
<1>2. QED
  BY <1>1 DEF SameRequests, InRequest

LEMMA YieldHereKeepsRequests ==
  ASSUME IInv, YieldHere, locked' = locked,
         \A i \in Slots : pc'[i] \in {"io_test", "io_armed", "io_woken"}
                            <=> pc[i] \in {"io_test", "io_armed", "io_woken"}
  PROVE  SameRequests
BY OwnTableSound, YieldKeepsRequests DEF YieldHere

LEMMA TimerTickKeepsRequests ==
  ASSUME IInv, TimerTick
  PROVE  SameRequests
<1> DEFINE cr == [credits EXCEPT ![current] = IF @ > 1 THEN @ - 1 ELSE 0]
<1>1. /\ \/ yield_now(state, wait_for, wake_tick, cr, (ticks + 1) % TickMod)
         \/ state' = state
      /\ locked' = locked /\ pc' = pc
  BY DEF TimerTick, ioVars
<1>2. SoundTable(state, wait_for, cr)
  <2>1. cr \in [Slots -> 0..8]
    BY DEF IInv, TypeOK
  <2>2. QED
    BY <2>1, OwnTableSound DEF SoundTable
<1> HIDE DEF cr
<1>3. CASE yield_now(state, wait_for, wake_tick, cr, (ticks + 1) % TickMod)
  BY <1>1, <1>2, <1>3, YieldKeepsRequests
<1>4. CASE state' = state
  BY <1>1, <1>4 DEF SameRequests, InRequest
<1>5. QED
  BY <1>1, <1>3, <1>4

\* Going to sleep, for a time or for another task.
LEMMA AsleepKeepsRequests ==
  ASSUME IInv, pc[current] = "run", current # IDLE_TASK, locked' = locked,
         NEW kind \in {"Blocked", "Waiting"}, NEW wf \in [Slots -> 0..MaxTasks], NEW wt,
         NEW point \in {"sleep", "wait"}, pc' = [pc EXCEPT ![current] = point],
         yield_now([state EXCEPT ![current] = kind], wf, wt, credits, ticks)
  PROVE  SameRequests
<1> DEFINE st == [state EXCEPT ![current] = kind]
<1>1. SoundTable(st, wf, credits)
  BY AsleepTableSound
<1>2. \A i \in Slots : i # current => st[i] = state[i]
  BY DEF IInv, TypeOK
<1>3. \A i \in Slots : pc'[i] \in {"io_test", "io_armed", "io_woken"}
                         <=> pc[i] \in {"io_test", "io_armed", "io_woken"}
  BY DEF IInv, TypeOK
<1>4. \A i \in Slots : pc[i] \in {"io_test", "io_armed", "io_woken"}
                         => (st[i] \in Dead <=> state[i] \in Dead)
  BY <1>2
<1> HIDE DEF st
<1>5. yield_now(st, wf, wt, credits, ticks)
  BY DEF st
<1>6. QED
  BY <1>1, <1>3, <1>4, <1>5, YieldKeepsRequests

LEMMA CollectKeepsRequests ==
  ASSUME IInv, NEW c, Collect(c), 
         \A i \in Slots : pc'[i] \in {"io_test", "io_armed", "io_woken"}
                            <=> pc[i] \in {"io_test", "io_armed", "io_woken"}
  PROVE  SameRequests
<1>1. \A i \in Slots : state'[i] \in Dead <=> state[i] \in Dead
  BY DEF Collect, Released, Dead
<1>2. QED
  BY <1>1 DEF Collect, ioVars, SameRequests, InRequest

LEMMA WaitForKeepsRequests ==
  ASSUME IInv, NEW c \in Slots, wait_for_task(c), pc[current] = "run", current # IDLE_TASK
  PROVE  SameRequests
<1> DEFINE wf == [wait_for EXCEPT ![current] = c + 1]
<1>1. wf \in [Slots -> 0..MaxTasks]
  <2>1. c + 1 \in 0..MaxTasks
    BY MaxTasksAssumption DEF Slots
  <2>2. QED
    BY <2>1 DEF IInv, TypeOK
<1>2. \/ Collect(c) /\ pc' = pc
      \/ /\ yield_now([state EXCEPT ![current] = "Waiting"], wf, wake_tick, credits, ticks)
         /\ pc' = [pc EXCEPT ![current] = "wait"]
         /\ locked' = locked
  BY DEF wait_for_task, ioVars
<1> HIDE DEF wf
<1>3. CASE Collect(c) /\ pc' = pc
  BY <1>3, CollectKeepsRequests
<1>4. CASE /\ yield_now([state EXCEPT ![current] = "Waiting"], wf, wake_tick, credits, ticks)
           /\ pc' = [pc EXCEPT ![current] = "wait"]
           /\ locked' = locked
  BY <1>1, <1>4, AsleepKeepsRequests
<1>5. QED
  BY <1>2, <1>3, <1>4

LEMMA WaitCallsKeepRequests ==
  ASSUME IInv, WaitAny \/ ReapFinishedChild \/ \E c \in Slots : WaitPid(c)
  PROVE  SameRequests
<1>1. CASE \E c \in Slots : WaitPid(c)
  BY <1>1, WaitForKeepsRequests DEF WaitPid, UserCalls, Calls
<1>2. CASE WaitAny
  <2>1. \E c \in Slots : wait_for_task(c)
    BY <1>2, ChildrenAreSlots DEF WaitAny, IInv
  <2>2. QED
    BY <1>2, <2>1, WaitForKeepsRequests DEF WaitAny, UserCalls, Calls
<1>3. CASE ReapFinishedChild
  BY <1>3, CollectKeepsRequests DEF ReapFinishedChild
<1>4. QED
  BY <1>1, <1>2, <1>3

\* Whoever ends is not inside a request, and reap_orphans releases the dead only.
LEMMA TerminateCurrentKeepsRequests ==
  ASSUME IInv, TerminateCurrent
  PROVE  SameRequests
<1>1. /\ yield_now(AfterEnd, Cleared(wait_for), wake_tick, Cleared(credits), ticks)
      /\ pc[current] = "exiting" /\ pc' = pc /\ locked' = locked
      /\ SoundTable(AfterEnd, Cleared(wait_for), Cleared(credits))
      /\ \A i \in Slots : i # current => AfterEnd[i] \in {state[i], "Unused"}
  BY EndedTableSound DEF TerminateCurrent, ioVars
<1>2. \A i \in Slots : i # current => (AfterEnd[i] \in Dead <=> state[i] \in Dead)
  <2>1. \A i \in Slots : i # current => Ended(current)[i] = state[i]
    BY DEF Ended, IInv, TypeOK
  <2>2. QED
    BY <1>1, <2>1, EndedTable DEF Dead
<1>3. QED
  BY <1>1, <1>2, YieldKeepsRequests

\* A new task is at no point of wait_for_io, and its slot was dead.
LEMMA SpawnKeepsRequests ==
  ASSUME IInv, NEW w \in BOOLEAN, spawn_inner(w)
  PROVE  SameRequests
<1> DEFINE new == FirstFree
<1>1. new \in Slots /\ state[new] = "Unused"
  BY FirstFreeIsLowest DEF spawn_inner, IInv, FreeSlots
<1>2. /\ pc' = [pc EXCEPT ![new] = "run"]
      /\ state' = [state EXCEPT ![new] = "Ready"]
      /\ locked' = locked
  BY DEF spawn_inner, ioVars
<1> HIDE DEF new
<1>3. QED
  BY <1>1, <1>2 DEF SameRequests, InRequest, Dead, IInv, TypeOK

\* The steps of a request: it begins when nobody is in one, and whoever ends it
\* is the one.
LEMMA RequestSteps ==
  ASSUME IInv, OneRequest, IoRequest \/ IoTest \/ IoYield \/ IoWoken
  PROVE  OneRequest'
<1> USE DEF IInv, TypeOK
<1>1. CASE IoRequest
  <2>1. \A i \in Slots : ~InRequest(i)
    BY <1>1 DEF IoRequest, OneRequest
  <2>2. state[current] = "Running" /\ state' = state /\ locked' = TRUE
        /\ pc' = [pc EXCEPT ![current] = "io_test"]
    BY <1>1 DEF IoRequest, Calls, cpuVars, SingleRunner
  <2>3. \A i \in Slots : InRequest(i)' <=> i = current
    BY <2>1, <2>2 DEF InRequest, Dead
  <2>4. QED
    BY <2>2, <2>3 DEF OneRequest
<1>2. CASE IoYield
  <2>1. YieldHere /\ locked' = locked /\ pc' = [pc EXCEPT ![current] = "io_woken"]
        /\ pc[current] = "io_armed"
    BY <1>2 DEF IoYield, ioVars
  <2>2. \A i \in Slots : pc'[i] \in {"io_test", "io_armed", "io_woken"}
                           <=> pc[i] \in {"io_test", "io_armed", "io_woken"}
    BY <2>1
  <2>3. QED
    BY <2>1, <2>2, YieldHereKeepsRequests, SameRequestsKeep
<1>3. ASSUME IoTest \/ IoWoken PROVE InRequest(current)
  BY <1>3 DEF IoTest, IoWoken, InRequest, Dead, SingleRunner, DiskStates
<1>4. CASE /\ IoTest \/ IoWoken
           /\ locked' = FALSE
           /\ pc' = [pc EXCEPT ![current] = "run"]
           /\ \A i \in Slots : i # current => state'[i] = state[i]
  <2>1. \A i \in Slots : i # current => ~InRequest(i)
    BY <1>3, <1>4 DEF OneRequest
  <2>2. \A i \in Slots : ~InRequest(i)'
    BY <1>4, <2>1 DEF InRequest
  <2>3. QED
    BY <1>4, <2>2 DEF OneRequest
<1>5. CASE /\ IoTest \/ IoWoken
           /\ locked' = locked
           /\ \E point \in {"io_test", "io_armed"} : pc' = [pc EXCEPT ![current] = point]
           /\ \A i \in Slots : i # current => state'[i] = state[i]
           /\ state'[current] \notin Dead
  <2>1. SameRequests
    BY <1>3, <1>5 DEF SameRequests, InRequest
  <2>2. QED
    BY <2>1, SameRequestsKeep
<1>6. CASE IoTest
  BY <1>4, <1>5, <1>6 DEF IoTest, IoFinish, Dead
<1>7. CASE IoWoken
  <2>1. state[current] \notin Dead
    BY <1>3, <1>7 DEF InRequest
  <2>2. QED
    BY <1>4, <1>5, <1>7, <2>1 DEF IoWoken, IoFinish
<1>8. QED
  BY <1>1, <1>2, <1>6, <1>7

\* One task at a time is inside a disk request and it holds the device lock, if
\* nobody is killed: DeviceLock::acquire, wait_for_io and Drop for any number of
\* tasks that start, sleep, wait, exit and are preempted at any point.
THEOREM OneRequestAtATime ==
  ASSUME "kill" \notin Ops
  PROVE  Spec => []OneRequest
<1>1. Init => OneRequest
  BY DEF Init, OneRequest, InRequest
<1>2. ASSUME IInv, OneRequest, [Next]_vars PROVE OneRequest'
  <2>1. CASE Spawn \/ SpawnChild
    BY <1>2, <2>1, SpawnKeepsRequests, SameRequestsKeep DEF Spawn, SpawnChild
  <2>2. CASE Yield
    BY <1>2, <2>2, YieldHereKeepsRequests, SameRequestsKeep DEF Yield, ioVars
  <2>3. CASE \E i \in Slots, n \in Nices : set_nice(i, n)
    BY <1>2, <2>3 DEF set_nice, cpuVars, ioVars, OneRequest, InRequest
  <2>4. CASE \E n \in SleepTimes : sleep_ticks(n)
    <3>1. SameRequests
      BY <1>2, <2>4, AsleepKeepsRequests DEF sleep_ticks, UserCalls, Calls, ioVars, IInv, TypeOK
    <3>2. QED
      BY <1>2, <3>1, SameRequestsKeep
  <2>5. CASE WaitAny \/ ReapFinishedChild \/ \E c \in Slots : WaitPid(c)
    BY <1>2, <2>5, WaitCallsKeepRequests, SameRequestsKeep
  <2>6. CASE Exit
    <3>1. SameRequests
      BY <1>2, <2>6 DEF Exit, UserCalls, Calls, cpuVars, ioVars, SameRequests, InRequest, IInv, TypeOK
    <3>2. QED
      BY <1>2, <3>1, SameRequestsKeep
  <2>7. CASE \E t \in Slots : terminate(t)
    BY <2>7 DEF terminate, Calls
  <2>8. CASE SleepLoop
    <3>1. CASE YieldHere /\ pc' = pc
      BY <1>2, <2>8, <3>1, YieldHereKeepsRequests, SameRequestsKeep DEF SleepLoop, ioVars
    <3>2. CASE /\ state' = [state EXCEPT ![current] = "Running"]
               /\ pc' = [pc EXCEPT ![current] = "run"]
      <4>1. SameRequests
        BY <1>2, <2>8, <3>2 DEF SleepLoop, ioVars, SameRequests, InRequest, IInv, TypeOK
      <4>2. QED
        BY <1>2, <4>1, SameRequestsKeep
    <3>3. QED
      BY <2>8, <3>1, <3>2 DEF SleepLoop
  <2>9. CASE WaitLoop
    <3>1. CASE Collect(arg[current]) /\ pc' = [pc EXCEPT ![current] = "run"]
      <4>1. \A i \in Slots : pc'[i] \in {"io_test", "io_armed", "io_woken"}
                               <=> pc[i] \in {"io_test", "io_armed", "io_woken"}
        BY <1>2, <2>9, <3>1 DEF WaitLoop, IInv, TypeOK
      <4>2. QED
        BY <1>2, <3>1, <4>1, CollectKeepsRequests, SameRequestsKeep
    <3>2. CASE YieldHere /\ pc' = pc /\ locked' = locked
      BY <1>2, <3>2, YieldHereKeepsRequests, SameRequestsKeep
    <3>3. QED
      BY <2>9, <3>1, <3>2 DEF WaitLoop, ioVars
  <2>10. CASE TerminateCurrent \/ TimerTick
    BY <1>2, <2>10, TerminateCurrentKeepsRequests, TimerTickKeepsRequests, SameRequestsKeep
  <2>11. CASE IoRequest \/ IoTest \/ IoYield \/ IoWoken
    BY <1>2, <2>11, RequestSteps
  <2>12. CASE DiskIrq
    <3>1. SameRequests
      BY <2>12 DEF DiskIrq, SameRequests, InRequest, Dead
    <3>2. QED
      BY <1>2, <3>1, SameRequestsKeep
  <2>13. CASE UNCHANGED vars
    BY <1>2, <2>13 DEF vars, cpuVars, ioVars, OneRequest, InRequest
  <2>14. QED
    BY <1>2, <2>1, <2>2, <2>3, <2>4, <2>5, <2>6, <2>7, <2>8, <2>9, <2>10, <2>11, <2>12, <2>13
       DEF Next, Program, Kernel
<1>3. QED
  BY <1>1, <1>2, InvariantHolds, PTL DEF Spec

(* What waiters wait for *)

\* Three facts keep each other true: the launcher lives and calls nothing; what
\* others than idle and the launcher have made is waitable while it is in its slot;
\* and whoever is inside wait_for_task waits for a child of its own that is still there.
\* They are stated of any table, so that they can be shown of the one handed to
\* yield_now.
LauncherLives(st, at) ==
  1 \in Slots => \/ st[1] = "Unused" /\ born[1] = 0
                 \/ st[1] \notin Dead /\ born[1] = 1 /\ at[1] \notin {"wait", "exiting"}

ChildrenMarked(st, marks) ==
  \A i \in Slots : st[i] # "Unused" => marks[i] \/ parent[i] \in {0, 1}

Awaited(st, marks, t, c) ==
  /\ c \in Slots \ {t} /\ parent[c] = t
  /\ marks[c] /\ st[c] # "Unused"

WaitersServed(st, wf, marks, at, child, life) ==
  \A t \in Slots :
    /\ at[t] = "wait" /\ st[t] \notin Dead =>
         Awaited(st, marks, t, child[t]) /\ born[child[t]] = life[t]
    /\ st[t] = "Waiting" => at[t] = "wait" /\ wf[t] = child[t] + 1

FamilySound(st, wf, marks, at, child, life) ==
  LauncherLives(st, at) /\ ChildrenMarked(st, marks) /\ WaitersServed(st, wf, marks, at, child, life)

Families == FamilySound(state, wait_for, waitable, pc, arg, awaited)

\* With it, what a waiter sleeps on is in its slot.
LEMMA FamiliesKeepTarget ==
  ASSUME IInv, Families
  PROVE  WaiterKeepsTarget
<1> SUFFICES ASSUME NEW t \in Slots, state[t] = "Waiting"
             PROVE  LET c == wait_for[t] - 1
                    IN  c \in Table \ {t} /\ waitable[c] /\ born[c] = awaited[t]
  BY DEF WaiterKeepsTarget
<1>1. pc[t] = "wait" /\ wait_for[t] = arg[t] + 1 /\ state[t] \notin Dead
  BY DEF Families, FamilySound, WaitersServed, Dead
<1>2. Awaited(state, waitable, t, arg[t]) /\ born[arg[t]] = awaited[t]
  BY <1>1 DEF Families, FamilySound, WaitersServed
<1>3. wait_for[t] - 1 = arg[t]
  BY <1>1, <1>2, SlotsFacts DEF Awaited, IInv
<1>4. QED
  BY <1>2, <1>3 DEF Awaited, IInv, IdleIsSpare

\* yield_now makes tasks Ready or Running and changes no other state; whoever
\* still waits, waits for the same.
LEMMA YieldMoves ==
  ASSUME IInv, NEW st, NEW wf, NEW wt, NEW cr, NEW now,
         SoundTable(st, wf, cr), yield_now(st, wf, wt, cr, now)
  PROVE  \A i \in Slots : /\ state'[i] \in {st[i], "Ready", "Running"}
                          /\ state'[i] = "Waiting" => wait_for'[i] = wf[i]
<1> DEFINE woken == Woken(st, wf, wt, now)
           st1   == [i \in Slots |-> IF i \in woken THEN "Ready" ELSE st[i]]
           cr1   == PeriodCredits(st1, cr)
           next  == pick_next(st1, cr1)
           st2   == [st1 EXCEPT ![current] = IF @ = "Running" THEN "Ready" ELSE @]
<1>1. /\ wait_for' = [i \in Slots |-> IF i \in woken /\ st[i] = "Waiting" THEN 0 ELSE wf[i]]
      /\ state' = st1 \/ state' = [st2 EXCEPT ![next] = "Running"]
  BY DEF yield_now
<1>2. \A i \in Slots : /\ st1[i] \in {st[i], "Ready"}
                       /\ st1[i] = "Waiting" => st[i] = "Waiting" /\ i \notin woken
  OBVIOUS
<1>3. \A i \in Slots : st2[i] \in {st1[i], "Ready"}
  OBVIOUS
<1>4. DOMAIN st2 = Slots
  OBVIOUS
<1> HIDE DEF woken, st1, st2, next
<1>5. \A i \in Slots : state'[i] \in {st1[i], "Ready", "Running"}
  BY <1>1, <1>3, <1>4
<1>6. QED
  BY <1>1, <1>2, <1>5

\* Who hands a sound table to yield_now leaves a sound one.
LEMMA YieldKeepsFamilies ==
  ASSUME IInv, NEW st, NEW wf, NEW wt, NEW cr, NEW now,
         SoundTable(st, wf, cr), yield_now(st, wf, wt, cr, now), UNCHANGED <<parent, born>>,
         FamilySound(st, wf, waitable', pc', arg', awaited')
  PROVE  Families'
<1>1. \A i \in Slots : /\ st[i] \in Dead <=> state'[i] \in Dead
                       /\ state'[i] \in {st[i], "Ready", "Running"}
                       /\ state'[i] = "Waiting" => wait_for'[i] = wf[i]
  BY YieldOutcome, YieldMoves DEF IInv
<1>2. \A i \in Slots : /\ state'[i] = "Unused" <=> st[i] = "Unused"
                       /\ state'[i] = "Waiting" => st[i] = "Waiting"
  BY <1>1 DEF Dead
<1>3. QED
  BY <1>1, <1>2
     DEF Families, FamilySound, LauncherLives, ChildrenMarked, WaitersServed, Awaited

LEMMA YieldHereKeepsFamilies ==
  ASSUME IInv, YieldHere, UNCHANGED <<parent, born>>,
         FamilySound(state, wait_for, waitable', pc', arg', awaited')
  PROVE  Families'
BY OwnTableSound, YieldKeepsFamilies DEF YieldHere

\* A living task changes what it does itself, but does not begin to wait.
LEMMA OwnStep ==
  ASSUME IInv, Families, NEW st \in [Slots -> TaskState], NEW at, NEW child,
         state[current] \notin Dead, st[current] \notin Dead \union {"Waiting"},
         at[current] # "wait", at[current] = "exiting" => current # 1,
         \A i \in Slots \ {current} : st[i] = state[i] /\ at[i] = pc[i] /\ child[i] = arg[i]
  PROVE  FamilySound(st, wait_for, waitable, at, child, awaited)
<1>1. current \in Slots /\ \A i \in Slots : st[i] = "Unused" <=> state[i] = "Unused"
  BY DEF IInv, TypeOK, Dead
<1>2. QED
  BY <1>1 DEF Families, FamilySound, LauncherLives, ChildrenMarked, WaitersServed, Awaited, Dead

\* The task on the CPU is alive, and a task that makes a call is not the launcher.
LEMMA CallerFacts ==
  ASSUME IInv, Families
  PROVE  /\ current \in Slots /\ state[current] \notin Dead
         /\ \A op \in OpNames : UserCalls(op) => current \notin {0, 1}
<1>1. current \in Slots /\ state[current] \notin Dead
  BY DEF IInv, TypeOK, SingleRunner, DiskStates, Dead
<1>2. current = 1 => IsLauncher(1)
  BY <1>1 DEF Families, FamilySound, LauncherLives, IsLauncher, Dead
<1>3. QED
  BY <1>1, <1>2 DEF UserCalls, Calls, IDLE_TASK

LEMMA TimerTickKeepsFamilies ==
  ASSUME IInv, Families, TimerTick
  PROVE  Families'
<1> DEFINE cr == [credits EXCEPT ![current] = IF @ > 1 THEN @ - 1 ELSE 0]
<1>1. /\ \/ yield_now(state, wait_for, wake_tick, cr, (ticks + 1) % TickMod)
         \/ UNCHANGED <<state, wait_for>>
      /\ UNCHANGED <<parent, born, waitable, pc, arg, awaited>>
  BY DEF TimerTick, taskVars, ghostVars
<1>2. SoundTable(state, wait_for, cr)
  <2>1. cr \in [Slots -> 0..8]
    BY DEF IInv, TypeOK
  <2>2. QED
    BY <2>1, OwnTableSound DEF SoundTable
<1>3. FamilySound(state, wait_for, waitable', pc', arg', awaited')
  BY <1>1 DEF Families
<1> HIDE DEF cr
<1>4. CASE yield_now(state, wait_for, wake_tick, cr, (ticks + 1) % TickMod)
  BY <1>1, <1>2, <1>3, <1>4, YieldKeepsFamilies
<1>5. CASE UNCHANGED <<state, wait_for>>
  BY <1>1, <1>5
     DEF Families, FamilySound, LauncherLives, ChildrenMarked, WaitersServed, Awaited
<1>6. QED
  BY <1>1, <1>4, <1>5

\* Whoever collects a zombie is its parent, so nobody else waits for it.
LEMMA CollectKeepsFamilies ==
  ASSUME IInv, Families, NEW c \in Slots, Collect(c), parent[c] = current,
         pc[current] \in {"run", "wait"}, pc' = [pc EXCEPT ![current] = "run"],
         UNCHANGED <<arg, awaited>>
  PROVE  Families'
<1>1. /\ state[c] = "Terminated" /\ UNCHANGED <<parent, born>>
      /\ \A i \in Slots \ {c} : /\ waitable'[i] = waitable[i] /\ state'[i] = state[i]
                                /\ wait_for'[i] = wait_for[i]
      /\ state'[c] = "Unused" /\ waitable'[c] = FALSE
      /\ pc'[current] = "run" /\ \A i \in Slots \ {current} : pc'[i] = pc[i]
      /\ state[current] = "Running"
  BY DEF Collect, Released, IInv, TypeOK, SingleRunner
<1>2. c # current
  BY <1>1
<1>3. LauncherLives(state, pc)'
  BY <1>1 DEF Families, FamilySound, LauncherLives, Dead
<1>4. ChildrenMarked(state, waitable)'
  BY <1>1 DEF Families, FamilySound, ChildrenMarked
<1>5. WaitersServed(state, wait_for, waitable, pc, arg, awaited)'
  BY <1>1, <1>2 DEF Families, FamilySound, WaitersServed, Awaited, Dead
<1>6. QED
  BY <1>3, <1>4, <1>5 DEF Families, FamilySound

\* A wait begins with a child of the caller.
LEMMA WaitForKeepsFamilies ==
  ASSUME IInv, Families, NEW c \in Slots, wait_for_task(c), parent[c] = current,
         pc[current] = "run", current \notin {0, 1}
  PROVE  Families'
<1> DEFINE st == [state EXCEPT ![current] = "Waiting"]
           wf == [wait_for EXCEPT ![current] = c + 1]
<1>1. CASE Collect(c) /\ UNCHANGED <<pc, arg, awaited>>
  <2>1. pc' = [pc EXCEPT ![current] = "run"]
    BY <1>1 DEF IInv, TypeOK
  <2>2. QED
    BY <1>1, <2>1, CollectKeepsFamilies
<1>2. CASE /\ state[c] \notin Dead
           /\ pc' = [pc EXCEPT ![current] = "wait"]
           /\ arg' = [arg EXCEPT ![current] = c]
           /\ awaited' = [awaited EXCEPT ![current] = born[c]]
           /\ yield_now(st, wf, wake_tick, credits, ticks)
           /\ UNCHANGED <<waitable, parent, born>>
  <2>1. wf \in [Slots -> 0..MaxTasks]
    <3>1. c + 1 \in 0..MaxTasks
      BY MaxTasksAssumption DEF Slots
    <3>2. QED
      BY <3>1 DEF IInv, TypeOK
  <2>2. SoundTable(st, wf, credits)
    BY <2>1, AsleepTableSound DEF IDLE_TASK
  <2>3. /\ current \in Slots /\ c # current /\ state[current] = "Running"
        /\ st[current] = "Waiting" /\ wf[current] = c + 1
        /\ pc'[current] = "wait" /\ arg'[current] = c /\ awaited'[current] = born[c]
        /\ \A i \in Slots \ {current} : /\ st[i] = state[i] /\ wf[i] = wait_for[i] /\ pc'[i] = pc[i]
                                        /\ arg'[i] = arg[i] /\ awaited'[i] = awaited[i]
    BY <1>2 DEF wait_for_task, IInv, TypeOK, SingleRunner
  <2> HIDE DEF st, wf
  <2>4. LauncherLives(st, pc') /\ ChildrenMarked(st, waitable')
    BY <1>2, <2>3 DEF Families, FamilySound, LauncherLives, ChildrenMarked, Dead
  <2>5. WaitersServed(st, wf, waitable', pc', arg', awaited')
    <3>1. waitable[c] /\ st[c] # "Unused"
      BY <1>2, <2>3 DEF Families, FamilySound, ChildrenMarked, Dead
    <3>2. QED
      BY <1>2, <2>3, <3>1 DEF Families, FamilySound, WaitersServed, Awaited, Dead
  <2>6. QED
    BY <1>2, <2>2, <2>4, <2>5, YieldKeepsFamilies DEF FamilySound
<1>3. QED
  BY <1>1, <1>2 DEF wait_for_task, taskVars

LEMMA ChildrenHaveParent ==
  ASSUME IInv
  PROVE  /\ FinishedChildren # {} => LowestOf(FinishedChildren) \in FinishedChildren
         /\ Children # {} => LowestOf(Children) \in Children
         /\ FinishedChildren \subseteq Slots /\ Children \subseteq Slots
<1>1. FinishedChildren \in SUBSET Slots /\ Children \in SUBSET Slots
  BY SlotsFacts DEF FinishedChildren, Children, IInv
<1>2. QED
  BY <1>1, LowestOfMember

LEMMA WaitCallsKeepFamilies ==
  ASSUME IInv, Families, WaitAny \/ ReapFinishedChild
  PROVE  Families'
<1>1. current \notin {0, 1} /\ pc[current] = "run"
  BY CallerFacts DEF WaitAny, ReapFinishedChild, UserCalls, Calls, OpNames
<1>2. CASE WaitAny
  <2>1. PICK c \in Slots : wait_for_task(c) /\ parent[c] = current
    BY <1>2, ChildrenHaveParent DEF WaitAny, FinishedChildren, Children
  <2>2. QED
    BY <1>1, <2>1, WaitForKeepsFamilies
<1>3. CASE ReapFinishedChild
  <2>1. PICK c \in Slots : Collect(c) /\ parent[c] = current
    BY <1>3, ChildrenHaveParent DEF ReapFinishedChild, FinishedChildren
  <2>2. pc' = [pc EXCEPT ![current] = "run"] /\ UNCHANGED <<arg, awaited>>
    BY <1>1, <1>3 DEF ReapFinishedChild, IInv, TypeOK
  <2>3. QED
    BY <1>1, <2>1, <2>2, CollectKeepsFamilies
<1>4. QED
  BY <1>2, <1>3

\* The end of a task releases zombies without a parent and the task itself unless it
\* is waitable: nobody waits for any of them.
LEMMA TerminateCurrentKeepsFamilies ==
  ASSUME IInv, Families, ZombiesKept, TerminateCurrent
  PROVE  Families'
<1>1. /\ yield_now(AfterEnd, Cleared(wait_for), wake_tick, Cleared(credits), ticks)
      /\ pc[current] = "exiting"
      /\ UNCHANGED <<parent, born, pc, arg, awaited>>
      /\ waitable' = [i \in Slots |-> waitable[i] /\ i \notin Gone]
      /\ SoundTable(AfterEnd, Cleared(wait_for), Cleared(credits))
  BY EndedTableSound DEF TerminateCurrent, ghostVars
<1>2. current \in Slots /\ state[current] = "Running" /\ current # 1
  <2>1. current \in Slots /\ state[current] = "Running"
    BY <1>1 DEF IInv, TypeOK, SingleRunner
  <2>2. QED
    BY <1>1, <2>1 DEF Families, FamilySound, LauncherLives, Dead
<1> DEFINE gone == Gone
           ended == Ended(current)
           st == AfterEnd
           wf == Cleared(wait_for)
           marks == [i \in Slots |-> waitable[i] /\ i \notin gone]
<1>3. /\ \A i \in Slots : st[i] = IF i \in gone THEN "Unused" ELSE ended[i]
      /\ \A i \in Slots : wf[i] = IF i \in gone THEN 0 ELSE wait_for[i]
      /\ \A i \in Slots \ {current} : ended[i] = state[i]
      /\ ended[current] = IF waitable[current] THEN "Terminated" ELSE "Unused"
  BY <1>2 DEF AfterEnd, Cleared, Ended, IInv, TypeOK
<1>4. /\ waitable[current] => ended[current] = "Terminated"
      /\ \A i \in gone : /\ ended[i] \in Dead
                         /\ waitable[i] => ended[parent[i]] \in Dead
  <2>1. \A i \in Orphans(ended) : ended[i] = "Terminated" /\ ended[parent[i]] \in Dead
    BY DEF Orphans
  <2>2. QED
    BY <1>3, <2>1 DEF Gone, Dead
<1> HIDE DEF gone, ended, st, wf
<1>5. LauncherLives(st, pc)
  BY <1>2, <1>3, <1>4 DEF Families, FamilySound, LauncherLives, Dead
<1>6. ChildrenMarked(st, marks)
  BY <1>2, <1>3 DEF Families, FamilySound, ChildrenMarked
<1>7. WaitersServed(st, wf, marks, pc, arg, awaited)
  <2> SUFFICES ASSUME NEW t \in Slots
               PROVE  /\ pc[t] = "wait" /\ st[t] \notin Dead =>
                           Awaited(st, marks, t, arg[t]) /\ born[arg[t]] = awaited[t]
                      /\ st[t] = "Waiting" => pc[t] = "wait" /\ wf[t] = arg[t] + 1
    BY DEF WaitersServed
  <2>1. st[t] \notin Dead => t # current /\ st[t] = state[t] /\ wf[t] = wait_for[t]
                             /\ ended[t] = state[t]
    BY <1>3, <1>4 DEF Dead
  <2>2. ASSUME pc[t] = "wait", st[t] \notin Dead
        PROVE  Awaited(st, marks, t, arg[t]) /\ born[arg[t]] = awaited[t]
    <3>1. Awaited(state, waitable, t, arg[t]) /\ born[arg[t]] = awaited[t]
      BY <2>1, <2>2 DEF Families, FamilySound, WaitersServed
    <3>2. arg[t] \notin gone
      BY <1>4, <2>1, <2>2, <3>1 DEF Awaited
    <3>3. QED
      BY <1>3, <3>1, <3>2 DEF Awaited
  <2>3. st[t] = "Waiting" => pc[t] = "wait" /\ wf[t] = arg[t] + 1
    BY <2>1 DEF Families, FamilySound, WaitersServed, Dead
  <2>4. QED
    BY <2>2, <2>3
<1>8. FamilySound(st, wf, waitable', pc', arg', awaited')
  BY <1>1, <1>5, <1>6, <1>7 DEF FamilySound, gone
<1> USE DEF st, wf
<1>9. QED
  BY <1>1, <1>8, YieldKeepsFamilies

\* A killed child that somebody may wait for stays in its slot.
LEMMA TerminateKeepsFamilies ==
  ASSUME IInv, Families, NEW v \in Slots, terminate(v), "kill_launcher" \notin Ops
  PROVE  Families'
<1>1. /\ ~IsLauncher(v) /\ state[v] \notin Dead
      /\ UNCHANGED <<parent, born, pc, arg, awaited>>
      /\ \A i \in Slots \ {v} : /\ state'[i] = state[i] /\ waitable'[i] = waitable[i]
                                /\ wait_for'[i] = wait_for[i]
      /\ \/ waitable[v] /\ state'[v] = "Terminated" /\ waitable'[v] = waitable[v]
         \/ ~waitable[v] /\ state'[v] = "Unused"
  <2>1. ~IsLauncher(v) /\ state[v] \notin Dead
    BY DEF terminate
  <2>2. UNCHANGED <<parent, born, pc, arg, awaited>>
    BY DEF terminate, ghostVars
  <2>3. CASE /\ waitable[v] /\ state' = [state EXCEPT ![v] = "Terminated"]
             /\ UNCHANGED <<waitable, wait_for>>
    BY <2>1, <2>2, <2>3 DEF IInv, TypeOK
  <2>4. CASE ~waitable[v] /\ Released({v})
    BY <2>1, <2>2, <2>4 DEF Released
  <2>5. QED
    BY <2>3, <2>4 DEF terminate
<1>2. v # 1
  BY <1>1 DEF Families, FamilySound, LauncherLives, IsLauncher, Dead
<1>3. LauncherLives(state, pc)'
  BY <1>1, <1>2 DEF Families, FamilySound, LauncherLives, Dead
<1>4. ChildrenMarked(state, waitable)'
  BY <1>1 DEF Families, FamilySound, ChildrenMarked, Dead
<1>5. WaitersServed(state, wait_for, waitable, pc, arg, awaited)'
  BY <1>1 DEF Families, FamilySound, WaitersServed, Awaited, Dead
<1>6. QED
  BY <1>3, <1>4, <1>5 DEF Families, FamilySound

\* A task enters a slot nobody waits for; the applications the launcher and idle
\* start are the ones that are not waitable.
LEMMA SpawnKeepsFamilies ==
  ASSUME IInv, Families, Spawn \/ SpawnChild
  PROVE  Families'
<1> DEFINE new == FirstFree
<1>1. PICK w \in BOOLEAN : spawn_inner(w) /\ (w \/ current \in {0, 1})
  BY DEF Spawn, SpawnChild, IsLauncher, IDLE_TASK
<1>2. new \in Slots /\ state[new] = "Unused"
  BY <1>1, FirstFreeIsLowest DEF spawn_inner, IInv, FreeSlots
<1>3. /\ state'[new] = "Ready" /\ waitable'[new] = w /\ parent'[new] = current
      /\ pc'[new] = "run" /\ born'[new] = born[new] + 1
      /\ \A i \in Slots \ {new} :
           /\ state'[i] = state[i] /\ waitable'[i] = waitable[i] /\ parent'[i] = parent[i]
           /\ pc'[i] = pc[i] /\ arg'[i] = arg[i] /\ born'[i] = born[i] /\ awaited'[i] = awaited[i]
           /\ wait_for'[i] = wait_for[i]
  BY <1>1, <1>2 DEF spawn_inner, IInv, TypeOK
<1> HIDE DEF new
<1>4. LauncherLives(state, pc)'
  BY <1>2, <1>3 DEF Families, FamilySound, LauncherLives, Dead
<1>5. ChildrenMarked(state, waitable)'
  BY <1>1, <1>2, <1>3 DEF Families, FamilySound, ChildrenMarked
<1>6. WaitersServed(state, wait_for, waitable, pc, arg, awaited)'
  BY <1>2, <1>3 DEF Families, FamilySound, WaitersServed, Awaited, Dead
<1>7. QED
  BY <1>4, <1>5, <1>6 DEF Families, FamilySound

\* The calls and the kernel code that concern nobody but the caller.
LEMMA OwnStepsKeepFamilies ==
  ASSUME IInv, Families,
         \/ Exit \/ IoRequest \/ IoTest \/ IoYield \/ IoWoken \/ SleepLoop
         \/ \E n \in SleepTimes : sleep_ticks(n)
  PROVE  Families'
<1> USE DEF TaskState, Dead, IInv, TypeOK
<1>1. /\ current \in Slots /\ state[current] \notin Dead
      /\ \A op \in OpNames : UserCalls(op) => current \notin {0, 1}
  BY CallerFacts
<1>2. pc[current] # "wait" => state[current] # "Waiting"
  BY <1>1 DEF Families, FamilySound, WaitersServed
<1>3. ASSUME NEW st \in [Slots -> TaskState], NEW at, NEW child,
             st[current] \notin Dead \union {"Waiting"},
             at[current] # "wait", at[current] = "exiting" => current # 1,
             \A i \in Slots \ {current} : st[i] = state[i] /\ at[i] = pc[i] /\ child[i] = arg[i],
             state' = st, pc' = at, arg' = child,
             UNCHANGED <<wait_for, waitable, awaited, parent, born>>
      PROVE  Families'
  <2>1. FamilySound(st, wait_for, waitable, at, child, awaited)
    BY <1>1, <1>3, OwnStep
  <2>2. QED
    BY <1>3, <2>1 DEF Families, FamilySound, LauncherLives, ChildrenMarked, WaitersServed, Awaited
<1>4. CASE Exit
  <2> DEFINE at == [pc EXCEPT ![current] = "exiting"]
  <2>1. /\ pc' = at /\ current # 1 /\ pc[current] = "run"
        /\ UNCHANGED <<state, arg, wait_for, waitable, awaited, parent, born>>
    BY <1>1, <1>4 DEF Exit, UserCalls, Calls, OpNames, taskVars, cpuVars, ghostVars
  <2>2. at[current] = "exiting" /\ \A i \in Slots \ {current} : at[i] = pc[i]
    BY <1>1
  <2> HIDE DEF at
  <2>3. QED
    BY <1>1, <1>2, <1>3, <2>1, <2>2
<1>5. CASE IoRequest
  <2> DEFINE at == [pc EXCEPT ![current] = "io_test"]
             child == [arg EXCEPT ![current] = (ticks + IoTimeout) % TickMod]
  <2>1. /\ pc' = at /\ arg' = child /\ pc[current] = "run"
        /\ UNCHANGED <<state, wait_for, waitable, awaited, parent, born>>
    BY <1>5 DEF IoRequest, Calls, taskVars, cpuVars, ghostVars
  <2>2. at[current] = "io_test" /\ \A i \in Slots \ {current} : at[i] = pc[i] /\ child[i] = arg[i]
    BY <1>1
  <2> HIDE DEF at, child
  <2>3. QED
    BY <1>1, <1>2, <1>3, <2>1, <2>2
<1>6. CASE IoTest \/ IoWoken
  <2>1. \E to \in TaskState \ {"Unused", "Terminated", "Waiting"}, point \in {"run", "io_test", "io_armed"} :
           state' = [state EXCEPT ![current] = to] /\ pc' = [pc EXCEPT ![current] = point]
    <3>1. state = [state EXCEPT ![current] = state[current]] /\ state[current] # "Waiting"
      BY <1>1, <1>2, <1>6 DEF IoTest, IoWoken
    <3>2. CASE IoTest
      BY <1>1, <3>1, <3>2 DEF IoTest, IoFinish
    <3>3. CASE IoWoken
      BY <1>1, <3>1, <3>3 DEF IoWoken, IoFinish
    <3>4. QED
      BY <1>6, <3>2, <3>3
  <2>2. PICK to \in TaskState \ {"Unused", "Terminated", "Waiting"}, point \in {"run", "io_test", "io_armed"} :
           state' = [state EXCEPT ![current] = to] /\ pc' = [pc EXCEPT ![current] = point]
    BY <2>1
  <2> DEFINE st == [state EXCEPT ![current] = to]
             at == [pc EXCEPT ![current] = point]
  <2>3. UNCHANGED <<arg, wait_for, waitable, awaited, parent, born>>
    BY <1>6 DEF IoTest, IoWoken, taskVars, ghostVars
  <2>4. /\ st \in [Slots -> TaskState] /\ st[current] = to /\ at[current] = point
        /\ \A i \in Slots \ {current} : st[i] = state[i] /\ at[i] = pc[i]
    BY <1>1
  <2>5. st[current] \notin Dead \union {"Waiting"} /\ at[current] \notin {"wait", "exiting"}
    BY <2>4
  <2>6. state' = st /\ pc' = at
    BY <2>2
  <2> HIDE DEF st, at
  <2>7. QED
    BY <1>3, <2>3, <2>4, <2>5, <2>6
<1>7. ASSUME NEW point \in {"run", "sleep", "io_woken"}, pc' = [pc EXCEPT ![current] = point],
             pc[current] # "wait", YieldHere, UNCHANGED <<arg, waitable, awaited, parent, born>>
      PROVE  Families'
  <2> DEFINE at == [pc EXCEPT ![current] = point]
  <2>1. at[current] = point /\ \A i \in Slots \ {current} : at[i] = pc[i]
    BY <1>1
  <2>2. pc' = at
    BY <1>7
  <2> HIDE DEF at
  <2>3. FamilySound(state, wait_for, waitable, at, arg, awaited)
    BY <1>1, <1>2, <1>7, <2>1, OwnStep
  <2>4. QED
    BY <1>7, <2>2, <2>3, YieldHereKeepsFamilies
<1>8. CASE IoYield
  BY <1>7, <1>8 DEF IoYield, taskVars, ghostVars
<1>9. CASE SleepLoop
  <2>1. CASE YieldHere /\ UNCHANGED pc
    <3>1. pc' = [pc EXCEPT ![current] = "sleep"] /\ pc[current] # "wait"
      BY <1>9, <2>1 DEF SleepLoop
    <3>2. QED
      BY <1>7, <1>9, <2>1, <3>1 DEF SleepLoop, taskVars, ghostVars
  <2>2. CASE /\ state' = [state EXCEPT ![current] = "Running"]
             /\ pc' = [pc EXCEPT ![current] = "run"]
             /\ UNCHANGED wait_for
    <3> DEFINE st == [state EXCEPT ![current] = "Running"]
               at == [pc EXCEPT ![current] = "run"]
    <3>1. UNCHANGED <<arg, waitable, awaited, parent, born>>
      BY <1>9 DEF SleepLoop, taskVars, ghostVars
    <3>2. /\ st \in [Slots -> TaskState] /\ st[current] = "Running" /\ at[current] = "run"
          /\ \A i \in Slots \ {current} : st[i] = state[i] /\ at[i] = pc[i]
      BY <1>1
    <3>3. state' = st /\ pc' = at
      BY <2>2
    <3> HIDE DEF st, at
    <3>4. QED
      BY <1>3, <2>2, <3>1, <3>2, <3>3
  <2>3. QED
    BY <1>9, <2>1, <2>2 DEF SleepLoop
<1>10. ASSUME NEW n \in SleepTimes, sleep_ticks(n)
       PROVE  Families'
  <2> DEFINE st == [state EXCEPT ![current] = "Blocked"]
             at == [pc EXCEPT ![current] = "sleep"]
             wt == [wake_tick EXCEPT ![current] = (ticks + n) % TickMod]
  <2>1. /\ yield_now(st, wait_for, wt, credits, ticks) /\ pc' = at
        /\ UNCHANGED <<arg, waitable, awaited, parent, born>>
        /\ pc[current] = "run" /\ current # IDLE_TASK
    BY <1>10 DEF sleep_ticks, UserCalls, Calls, ghostVars
  <2>2. /\ st \in [Slots -> TaskState] /\ st[current] = "Blocked" /\ at[current] = "sleep"
        /\ \A i \in Slots \ {current} : st[i] = state[i] /\ at[i] = pc[i]
    BY <1>1
  <2>3. SoundTable(st, wait_for, credits)
    BY <2>1, AsleepTableSound
  <2> HIDE DEF st, at, wt
  <2>4. FamilySound(st, wait_for, waitable, at, arg, awaited)
    BY <1>1, <2>2, OwnStep
  <2>5. QED
    BY <2>1, <2>3, <2>4, YieldKeepsFamilies
<1>11. QED
  BY <1>4, <1>5, <1>6, <1>8, <1>9, <1>10

\* What waitpid(-1) sleeps on stays in its slot until the sleeper itself collects it
\* (wait_for_any, wait_for_task, reap_orphans, terminate), for any number of tasks
\* that fork, wait, exit and kill each other and any reuse of slots; unless they wait
\* for tasks of others, or the launcher is killed and its slot used again.
THEOREM WaitersKeepTargets ==
  ASSUME {"wait", "kill_launcher"} \intersect Ops = {}
  PROVE  Spec => []WaiterKeepsTarget
<1>1. Init => ZombiesKept /\ Families
  BY DEF Init, ZombiesKept, IDLE_TASK, Families, FamilySound, LauncherLives, ChildrenMarked,
         WaitersServed, Awaited
<1>2. IInv /\ ZombiesKept /\ [Next]_vars => ZombiesKept'
  BY NextKeepsZombies
<1>3. ASSUME IInv, ZombiesKept, Families, [Next]_vars PROVE Families'
  <2>1. CASE Spawn \/ SpawnChild
    BY <1>3, <2>1, SpawnKeepsFamilies
  <2>2. CASE Yield
    BY <1>3, <2>2, YieldHereKeepsFamilies DEF Yield, taskVars, ghostVars, Families
  <2>3. CASE \/ \E n \in SleepTimes : sleep_ticks(n)
             \/ Exit \/ IoRequest \/ IoTest \/ IoYield \/ IoWoken \/ SleepLoop
    BY <1>3, <2>3, OwnStepsKeepFamilies
  <2>4. CASE \E c \in Slots : WaitPid(c)
    BY <2>4 DEF WaitPid, UserCalls, Calls
  <2>5. CASE WaitAny \/ ReapFinishedChild
    BY <1>3, <2>5, WaitCallsKeepFamilies
  <2>6. CASE \E t \in Slots : terminate(t)
    BY <1>3, <2>6, TerminateKeepsFamilies
  <2>7. CASE WaitLoop
    <3>1. CASE /\ Collect(arg[current])
               /\ pc' = [pc EXCEPT ![current] = "run"]
               /\ UNCHANGED <<arg, awaited>>
      <4>1. arg[current] \in Slots /\ parent[arg[current]] = current
        BY <1>3, <2>7, CallerFacts DEF WaitLoop, Families, FamilySound, WaitersServed, Awaited
      <4>2. QED
        BY <1>3, <2>7, <3>1, <4>1, CollectKeepsFamilies DEF WaitLoop
    <3>2. CASE YieldHere /\ UNCHANGED <<waitable, parent, born, pc, arg, awaited>>
      BY <1>3, <3>2, YieldHereKeepsFamilies DEF Families
    <3>3. QED
      BY <2>7, <3>1, <3>2 DEF WaitLoop, taskVars, ghostVars
  <2>8. CASE TerminateCurrent \/ TimerTick
    BY <1>3, <2>8, TerminateCurrentKeepsFamilies, TimerTickKeepsFamilies
  <2>9. CASE DiskIrq
    BY <1>3, <2>9
       DEF DiskIrq, taskVars, ghostVars, Families, FamilySound, LauncherLives, ChildrenMarked,
           WaitersServed, Awaited, Dead
  <2>10. CASE \/ UNCHANGED vars
              \/ \E i \in Slots, n \in Nices : set_nice(i, n)
    BY <1>3, <2>10
       DEF vars, set_nice, taskVars, cpuVars, ghostVars, Families, FamilySound, LauncherLives,
           ChildrenMarked, WaitersServed, Awaited
  <2>11. QED
    BY <1>3, <2>1, <2>2, <2>3, <2>4, <2>5, <2>6, <2>7, <2>8, <2>9, <2>10
       DEF Next, Program, Kernel
<1>4. IInv /\ Families => WaiterKeepsTarget
  BY FamiliesKeepTarget
<1>5. QED
  BY <1>1, <1>2, <1>3, <1>4, InvariantHolds, PTL DEF Spec

------------------------------------------------------------------------------
(* Sizes of the controller *)

LEMMA Sizes ==
  /\ RING_SIZE \in Nat /\ RING_SIZE > 0 /\ MAX_PER_ROUND \in Nat /\ MAX_PER_ROUND > 0
  /\ WINDOW_TICKS \in Nat /\ WINDOW_TICKS > 0 /\ WindowMod \in Nat /\ WindowMod > 1
  /\ TASK_QUOTA \in Nat /\ REPORT_EVERY \in Nat /\ MaxCalls \in Nat
  /\ DEAD_THRESHOLD_TICKS \in Nat /\ BUSY_THRESHOLD_TICKS \in Nat /\ StallTicks \subseteq Nat
BY SizesAssumption

Ring == [cell : [Cells -> Kinds \union {NoMessage}], HEAD : Cells, TAIL : Cells, accepted : Seq(Kinds)]

\* Type correctness of the rest.
CTypes ==
  /\ sinceBeat \in 0 .. DEAD_THRESHOLD_TICKS /\ silent \in 0 .. DEAD_THRESHOLD_TICKS
  /\ sinceRoll \in 0 .. WINDOW_TICKS - 1 /\ WINDOWS_ROLLED \in 0 .. WindowMod - 1
  /\ suppressed \in Nat /\ beaten \in BOOLEAN
  /\ FALLBACK_ACTIVE \in BOOLEAN /\ LAST_REPORTED \in {"Healthy", "Busy", "Dead"}
  /\ desktop \in [at : {"heartbeat", "time", "messages"}, beaten : BOOLEAN, handled : 0 .. MAX_PER_ROUND]
  /\ TASK_WINDOW \in [Tasks -> 0 .. MaxCalls]
  /\ TASK_LAST_REPORT \in [Tasks -> 0 .. WindowMod - 1]
  /\ reported \in [Tasks -> 0 .. REPORT_EVERY]
  /\ call \in [Tasks -> {"none", "user", "yield", "dispatch"}]

------------------------------------------------------------------------------
(* The ring *)

DepthOf(r) == (r.HEAD + RING_SIZE - r.TAIL) % RING_SIZE

\* RingHolds, of any ring.
Holds(r) ==
  /\ r \in Ring /\ Len(r.accepted) < RING_SIZE
  /\ DepthOf(r) = Len(r.accepted)
  /\ \A k \in DOMAIN r.accepted : r.cell[(r.TAIL + k - 1) % RING_SIZE] = r.accepted[k]

\* Remainders of the positions, without the remainder.
LEMMA NextCell ==
  ASSUME NEW h \in Cells
  PROVE  (h + 1) % RING_SIZE = IF h + 1 = RING_SIZE THEN 0 ELSE h + 1
<1> h \in Nat /\ h < RING_SIZE
  BY Sizes DEF Cells
<1>1. CASE h + 1 = RING_SIZE
  BY <1>1, Sizes
<1>2. CASE h + 1 < RING_SIZE
  BY <1>2, Sizes
<1>3. QED
  BY <1>1, <1>2, Sizes

LEMMA DepthCases ==
  ASSUME NEW h \in Cells, NEW t \in Cells
  PROVE  (h + RING_SIZE - t) % RING_SIZE = IF h >= t THEN h - t ELSE h + RING_SIZE - t
<1> h \in Nat /\ h < RING_SIZE /\ t \in Nat /\ t < RING_SIZE
  BY Sizes DEF Cells
<1>1. CASE h >= t
  <2>1. h - t \in Nat /\ h - t < RING_SIZE /\ h + RING_SIZE - t = (h - t) + RING_SIZE
    BY <1>1, Sizes
  <2>2. QED
    BY <1>1, <2>1, Sizes
<1>2. CASE h < t
  BY <1>2, Sizes
<1>3. QED
  BY <1>1, <1>2

LEMMA CellCases ==
  ASSUME NEW t \in Cells, NEW j \in 0 .. RING_SIZE - 1
  PROVE  (t + j) % RING_SIZE = IF t + j < RING_SIZE THEN t + j ELSE t + j - RING_SIZE
<1> t \in Nat /\ t < RING_SIZE /\ j \in Nat /\ j < RING_SIZE
  BY Sizes DEF Cells
<1>1. CASE t + j < RING_SIZE
  BY <1>1, Sizes
<1>2. CASE t + j >= RING_SIZE
  <2> DEFINE i == t + j - RING_SIZE
  <2>1. i \in Nat /\ i < RING_SIZE /\ t + j = i + RING_SIZE
    BY <1>2, Sizes
  <2>2. (i + RING_SIZE) % RING_SIZE = i
    <3> HIDE DEF i
    <3>1. QED
      BY <2>1, Sizes
  <2>3. QED
    BY <1>2, <2>1, <2>2, Sizes
<1>3. QED
  BY <1>1, <1>2, Sizes

\* The positions of a ring to which a message is added.
LEMMA Advance ==
  ASSUME NEW h \in Cells, NEW t \in Cells, NEW n, NEW next,
         n = (h + RING_SIZE - t) % RING_SIZE, next = (h + 1) % RING_SIZE, next # t
  PROVE  /\ next \in Cells /\ n \in Nat /\ n + 1 < RING_SIZE
         /\ (next + RING_SIZE - t) % RING_SIZE = n + 1
         /\ (t + n) % RING_SIZE = h
         /\ \A j \in 0 .. n - 1 : (t + j) % RING_SIZE \in Cells \ {h}
<1>1. h \in Nat /\ h < RING_SIZE /\ t \in Nat /\ t < RING_SIZE
  BY Sizes DEF Cells
<1>2. next = IF h + 1 = RING_SIZE THEN 0 ELSE h + 1
  BY NextCell
<1>3. n = IF h >= t THEN h - t ELSE h + RING_SIZE - t
  BY DepthCases
<1>4. next \in Cells /\ n \in Nat /\ n + 1 < RING_SIZE
  BY <1>1, <1>2, <1>3, Sizes DEF Cells
<1>5. (next + RING_SIZE - t) % RING_SIZE = IF next >= t THEN next - t ELSE next + RING_SIZE - t
  BY <1>4, DepthCases
<1>6. (next + RING_SIZE - t) % RING_SIZE = n + 1
  <2> HIDE DEF Cells
  <2>1. (IF next >= t THEN next - t ELSE next + RING_SIZE - t) = n + 1
    BY <1>1, <1>2, <1>3, Sizes
  <2>2. QED
    BY <1>5, <2>1
<1>7. ASSUME NEW j \in 0 .. n
      PROVE  (t + j) % RING_SIZE = IF t + j < RING_SIZE THEN t + j ELSE t + j - RING_SIZE
  <2>1. j \in 0 .. RING_SIZE - 1
    BY <1>4, Sizes
  <2>2. QED
    BY <2>1, CellCases
<1>8. (t + n) % RING_SIZE = h
  <2>1. (t + n) % RING_SIZE = IF t + n < RING_SIZE THEN t + n ELSE t + n - RING_SIZE
    BY <1>4, <1>7
  <2>2. QED
    BY <1>1, <1>3, <2>1, Sizes
<1>9. ASSUME NEW j \in 0 .. n - 1
      PROVE  (t + j) % RING_SIZE \in Cells \ {h}
  <2>1. (t + j) % RING_SIZE = IF t + j < RING_SIZE THEN t + j ELSE t + j - RING_SIZE
    BY <1>4, <1>7
  <2>2. QED
    BY <1>1, <1>3, <1>4, <2>1, Sizes DEF Cells
<1>10. QED
  BY <1>4, <1>6, <1>8, <1>9

LEMMA PostedHolds ==
  ASSUME NEW r, Holds(r), NEW m \in Kinds
  PROVE  Holds(Posted(r, m))
<1> DEFINE next == (r.HEAD + 1) % RING_SIZE
           n == Len(r.accepted)
           p == Posted(r, m)
<1>1. /\ r \in Ring /\ r.HEAD \in Cells /\ r.TAIL \in Cells /\ r.accepted \in Seq(Kinds)
      /\ r.cell \in [Cells -> Kinds \union {NoMessage}]
      /\ n = (r.HEAD + RING_SIZE - r.TAIL) % RING_SIZE
  BY DEF Holds, Ring, DepthOf
<1>2. CASE next = r.TAIL
  BY <1>2 DEF Posted
<1>3. CASE next # r.TAIL
  <2>1. /\ next \in Cells /\ n \in Nat /\ n + 1 < RING_SIZE
        /\ (next + RING_SIZE - r.TAIL) % RING_SIZE = n + 1
        /\ (r.TAIL + n) % RING_SIZE = r.HEAD
        /\ \A j \in 0 .. n - 1 : (r.TAIL + j) % RING_SIZE \in Cells \ {r.HEAD}
    BY <1>1, <1>3, Advance
  <2>2. p = [r EXCEPT !.cell = [r.cell EXCEPT ![r.HEAD] = m], !.HEAD = next,
                      !.accepted = Append(r.accepted, m)]
    BY <1>1, <1>3 DEF Posted
  <2>3. Append(r.accepted, m) \in Seq(Kinds) /\ Len(Append(r.accepted, m)) = n + 1
        /\ [r.cell EXCEPT ![r.HEAD] = m] \in [Cells -> Kinds \union {NoMessage}]
    BY <1>1
  <2> HIDE DEF next, p
  <2>4. /\ p.cell = [r.cell EXCEPT ![r.HEAD] = m] /\ p.HEAD = next /\ p.TAIL = r.TAIL
        /\ p.accepted = Append(r.accepted, m) /\ p \in Ring
    BY <1>1, <2>1, <2>2, <2>3 DEF Ring
  <2>5. ASSUME NEW k \in DOMAIN p.accepted
        PROVE  p.cell[(p.TAIL + k - 1) % RING_SIZE] = p.accepted[k]
    <3>1. k \in 1 .. n + 1 /\ r.TAIL \in Nat
      BY <1>1, <2>1, <2>3, <2>4, Sizes DEF Cells
    <3>2. r.TAIL + k - 1 = r.TAIL + (k - 1)
      BY <3>1, <2>1
    <3>3. CASE k = n + 1
      <4>1. p.accepted[k] = m /\ k - 1 = n
        BY <1>1, <2>1, <2>4, <3>3
      <4>2. QED
        BY <1>1, <2>1, <2>4, <3>2, <4>1
    <3>4. CASE k # n + 1
      <4>1. k \in DOMAIN r.accepted /\ p.accepted[k] = r.accepted[k] /\ k - 1 \in 0 .. n - 1
        BY <1>1, <2>1, <2>4, <3>1, <3>4
      <4>2. (r.TAIL + (k - 1)) % RING_SIZE \in Cells \ {r.HEAD}
        BY <2>1, <4>1
      <4>3. r.cell[(r.TAIL + k - 1) % RING_SIZE] = r.accepted[k]
        BY <4>1 DEF Holds
      <4>4. QED
        BY <1>1, <2>4, <3>2, <4>1, <4>2, <4>3
    <3>5. QED
      BY <3>3, <3>4
  <2>6. DepthOf(p) = Len(p.accepted) /\ Len(p.accepted) < RING_SIZE
    BY <2>1, <2>3, <2>4 DEF DepthOf
  <2>7. QED
    BY <2>4, <2>5, <2>6 DEF Holds, p
<1>4. QED
  BY <1>2, <1>3

\* The positions of a ring from which a message is taken.
LEMMA Retreat ==
  ASSUME NEW h \in Cells, NEW t \in Cells, NEW n, NEW next, h # t,
         n = (h + RING_SIZE - t) % RING_SIZE, next = (t + 1) % RING_SIZE
  PROVE  /\ next \in Cells /\ n \in Nat /\ n > 0 /\ n < RING_SIZE
         /\ (h + RING_SIZE - next) % RING_SIZE = n - 1
         /\ \A j \in 0 .. n - 2 : /\ (next + j) % RING_SIZE = (t + (j + 1)) % RING_SIZE
                                  /\ (t + (j + 1)) % RING_SIZE \in Cells \ {t}
<1>1. h \in Nat /\ h < RING_SIZE /\ t \in Nat /\ t < RING_SIZE
  BY Sizes DEF Cells
<1>2. next = IF t + 1 = RING_SIZE THEN 0 ELSE t + 1
  BY NextCell
<1>3. n = IF h >= t THEN h - t ELSE h + RING_SIZE - t
  BY DepthCases
<1>4. next \in Cells /\ n \in Nat /\ n > 0 /\ n < RING_SIZE
  BY <1>1, <1>2, <1>3, Sizes DEF Cells
<1>5. (h + RING_SIZE - next) % RING_SIZE = IF h >= next THEN h - next ELSE h + RING_SIZE - next
  BY <1>4, DepthCases
<1>6. (h + RING_SIZE - next) % RING_SIZE = n - 1
  <2>1. (IF h >= next THEN h - next ELSE h + RING_SIZE - next) = n - 1
    <3> HIDE DEF Cells
    <3>1. QED
      BY <1>1, <1>2, <1>3, Sizes
  <2>2. QED
    BY <1>5, <2>1
<1>7. ASSUME NEW j \in 0 .. n - 2
      PROVE  /\ (next + j) % RING_SIZE = (t + (j + 1)) % RING_SIZE
             /\ (t + (j + 1)) % RING_SIZE \in Cells \ {t}
  <2>1. j \in 0 .. RING_SIZE - 1 /\ j + 1 \in 0 .. RING_SIZE - 1
    BY <1>4, Sizes
  <2>2. (next + j) % RING_SIZE = IF next + j < RING_SIZE THEN next + j ELSE next + j - RING_SIZE
    BY <1>4, <2>1, CellCases
  <2>3. (t + (j + 1)) % RING_SIZE = IF t + (j + 1) < RING_SIZE THEN t + (j + 1) ELSE t + (j + 1) - RING_SIZE
    BY <2>1, CellCases
  <2>4. (next + j) % RING_SIZE = (t + (j + 1)) % RING_SIZE
    BY <1>1, <1>2, <2>1, <2>2, <2>3, Sizes
  <2>5. (t + (j + 1)) % RING_SIZE \in Cells \ {t}
    BY <1>1, <2>1, <2>3, Sizes DEF Cells
  <2>6. QED
    BY <2>4, <2>5
<1>8. QED
  BY <1>4, <1>6, <1>7

LEMMA PollHolds ==
  ASSUME Holds(ring), poll
  PROVE  Holds(ring')
<1> DEFINE next == (ring.TAIL + 1) % RING_SIZE
           n == Len(ring.accepted)
<1>1. /\ ring \in Ring /\ ring.HEAD \in Cells /\ ring.TAIL \in Cells /\ ring.accepted \in Seq(Kinds)
      /\ ring.cell \in [Cells -> Kinds \union {NoMessage}] /\ ring.HEAD # ring.TAIL
      /\ n = (ring.HEAD + RING_SIZE - ring.TAIL) % RING_SIZE
  BY DEF Holds, Ring, DepthOf, poll
<1>2. /\ next \in Cells /\ n \in Nat /\ n > 0 /\ n < RING_SIZE
      /\ (ring.HEAD + RING_SIZE - next) % RING_SIZE = n - 1
      /\ \A j \in 0 .. n - 2 : /\ (next + j) % RING_SIZE = (ring.TAIL + (j + 1)) % RING_SIZE
                               /\ (ring.TAIL + (j + 1)) % RING_SIZE \in Cells \ {ring.TAIL}
  BY <1>1, Retreat
<1>3. ring' = [ring EXCEPT !.cell = [ring.cell EXCEPT ![ring.TAIL] = NoMessage], !.TAIL = next,
                           !.accepted = Tail(ring.accepted)]
  BY <1>1 DEF poll, Ring
<1>4. /\ Tail(ring.accepted) \in Seq(Kinds) /\ Len(Tail(ring.accepted)) = n - 1
      /\ \A k \in 1 .. n - 1 : Tail(ring.accepted)[k] = ring.accepted[k + 1]
      /\ [ring.cell EXCEPT ![ring.TAIL] = NoMessage] \in [Cells -> Kinds \union {NoMessage}]
  BY <1>1, <1>2
<1> HIDE DEF next
<1>5. /\ ring'.cell = [ring.cell EXCEPT ![ring.TAIL] = NoMessage] /\ ring'.HEAD = ring.HEAD
      /\ ring'.TAIL = next /\ ring'.accepted = Tail(ring.accepted) /\ ring' \in Ring
  BY <1>1, <1>2, <1>3, <1>4 DEF Ring
<1>6. ASSUME NEW k \in DOMAIN ring'.accepted
      PROVE  ring'.cell[(ring'.TAIL + k - 1) % RING_SIZE] = ring'.accepted[k]
  <2>1. k \in 1 .. n - 1 /\ ring.TAIL \in Nat /\ next \in Nat
    BY <1>1, <1>2, <1>4, <1>5, Sizes DEF Cells
  <2>2. next + k - 1 = next + (k - 1) /\ k - 1 \in 0 .. n - 2 /\ k - 1 + 1 = k
        /\ ring.TAIL + (k + 1) - 1 = ring.TAIL + k /\ k + 1 \in DOMAIN ring.accepted
    BY <1>1, <1>2, <2>1
  <2>3. (next + (k - 1)) % RING_SIZE = (ring.TAIL + k) % RING_SIZE
        /\ (ring.TAIL + k) % RING_SIZE \in Cells \ {ring.TAIL}
    BY <1>2, <2>2
  <2>4. ring.cell[(ring.TAIL + k) % RING_SIZE] = ring.accepted[k + 1]
    BY <2>2 DEF Holds
  <2>5. QED
    BY <1>1, <1>4, <1>5, <2>1, <2>2, <2>3, <2>4
<1>7. DepthOf(ring') = Len(ring'.accepted) /\ Len(ring'.accepted) < RING_SIZE
  BY <1>1, <1>2, <1>4, <1>5, Sizes DEF DepthOf
<1>8. QED
  BY <1>5, <1>6, <1>7 DEF Holds

------------------------------------------------------------------------------
(* Types, and the messages of the ring *)

LEMMA PostKeeps ==
  ASSUME Holds(ring), NEW m \in Kinds, post(m)
  PROVE  Holds(ring')
BY PostedHolds DEF post

LEMMA Marks ==
  ASSUME NEW w \in 0 .. WindowMod - 1
  PROVE  ReportMark(w) \in 0 .. WindowMod - 1 /\ ReportMark(w) # 0
BY Sizes DEF ReportMark

LEMMA NoteCallKeeps ==
  ASSUME CTypes, Holds(ring), NEW t \in Tasks, NEW fault \in BOOLEAN, note_call(t, fault)
  PROVE  /\ Holds(ring')
         /\ TASK_WINDOW' \in [Tasks -> 0 .. MaxCalls]
         /\ TASK_LAST_REPORT' \in [Tasks -> 0 .. WindowMod - 1]
         /\ reported' \in [Tasks -> 0 .. REPORT_EVERY]
         /\ UNCHANGED <<sinceRoll, WINDOWS_ROLLED>>
<1> DEFINE count == TASK_WINDOW[t] + 1
           last == TASK_LAST_REPORT[t]
           report == /\ count = TASK_QUOTA + 1
                     /\ last = 0 \/ (WINDOWS_ROLLED - last) % WindowMod >= REPORT_EVERY
           told == IF report THEN Posted(ring, "Task") ELSE ring
<1>1. /\ TASK_WINDOW[t] < MaxCalls
      /\ TASK_WINDOW' = [TASK_WINDOW EXCEPT ![t] = count]
      /\ TASK_LAST_REPORT' = IF report THEN [TASK_LAST_REPORT EXCEPT ![t] = ReportMark(WINDOWS_ROLLED)]
                             ELSE TASK_LAST_REPORT
      /\ reported' = IF report THEN [reported EXCEPT ![t] = 0] ELSE reported
      /\ ring' = IF fault THEN Posted(told, "Task") ELSE told
      /\ UNCHANGED <<sinceRoll, WINDOWS_ROLLED>>
  BY DEF note_call
<1>2. Holds(told)
  BY PostedHolds DEF Kinds
<1>3. Holds(ring')
  <2> HIDE DEF told
  <2>1. QED
    BY <1>1, <1>2, PostedHolds DEF Kinds
<1>4. TASK_WINDOW' \in [Tasks -> 0 .. MaxCalls]
  BY <1>1, Sizes DEF CTypes
<1>5. TASK_LAST_REPORT' \in [Tasks -> 0 .. WindowMod - 1]
  <2>1. ReportMark(WINDOWS_ROLLED) \in 0 .. WindowMod - 1
    BY Marks DEF CTypes
  <2> HIDE DEF report
  <2>2. QED
    BY <1>1, <2>1 DEF CTypes
<1>6. reported' \in [Tasks -> 0 .. REPORT_EVERY]
  <2> HIDE DEF report
  <2>1. QED
    BY <1>1, Sizes DEF CTypes
<1>7. QED
  BY <1>1, <1>3, <1>4, <1>5, <1>6

LEMMA TickTypes ==
  ASSUME CTypes, on_tick
  PROVE  CTypes' /\ ring' = ring
<1>1. /\ sinceBeat' = UpTo(DEAD_THRESHOLD_TICKS, sinceBeat + 1)
      /\ silent' = UpTo(DEAD_THRESHOLD_TICKS, silent + 1)
      /\ suppressed' = IF suppressed = 0 THEN 0 ELSE suppressed - 1
      /\ UNCHANGED <<ring, FALLBACK_ACTIVE, LAST_REPORTED, TASK_LAST_REPORT, beaten, desktop, call>>
  BY DEF on_tick, monitorVars
<1>2. /\ sinceBeat' \in 0 .. DEAD_THRESHOLD_TICKS /\ silent' \in 0 .. DEAD_THRESHOLD_TICKS
      /\ suppressed' \in Nat
  BY <1>1, Sizes DEF CTypes, UpTo
<1>3. CASE sinceRoll + 1 < WINDOW_TICKS
  <2>1. sinceRoll' = sinceRoll + 1 /\ UNCHANGED <<TASK_WINDOW, WINDOWS_ROLLED, reported>>
    BY <1>3 DEF on_tick
  <2>2. sinceRoll' \in 0 .. WINDOW_TICKS - 1
    BY <1>3, <2>1, Sizes DEF CTypes
  <2>3. QED
    BY <1>1, <1>2, <2>1, <2>2 DEF CTypes
<1>4. CASE ~(sinceRoll + 1 < WINDOW_TICKS)
  <2>1. /\ sinceRoll' = 0
        /\ WINDOWS_ROLLED' = (WINDOWS_ROLLED + 1) % WindowMod
        /\ TASK_WINDOW' = [u \in Tasks |-> 0]
        /\ reported' = [u \in Tasks |-> UpTo(REPORT_EVERY, reported[u] + 1)]
    BY <1>4 DEF on_tick
  <2>2. WINDOWS_ROLLED' \in 0 .. WindowMod - 1 /\ sinceRoll' \in 0 .. WINDOW_TICKS - 1
    BY <2>1, Sizes DEF CTypes
  <2>3. reported' \in [Tasks -> 0 .. REPORT_EVERY]
    BY <2>1, Sizes DEF CTypes, UpTo
  <2>4. TASK_WINDOW' \in [Tasks -> 0 .. MaxCalls]
    BY <2>1, Sizes
  <2>5. QED
    BY <1>1, <1>2, <2>2, <2>3, <2>4 DEF CTypes
<1>5. QED
  BY <1>1, <1>3, <1>4

LEMMA StepKeeps ==
  ASSUME CTypes, Holds(ring), [ControlNext]_controlVars
  PROVE  CTypes' /\ Holds(ring')
<1> USE DEF CTypes, monitorVars, loadVars, clockVars
<1>1. CASE LookAtHeartbeat
  BY <1>1 DEF LookAtHeartbeat
<1>2. CASE Monitor
  <2>1. /\ desktop' = [desktop EXCEPT !.at = "messages", !.beaten = FALSE]
        /\ UNCHANGED <<suppressed, beaten, silent, loadVars, call>>
        /\ sinceBeat' \in {0, sinceBeat}
        /\ FALLBACK_ACTIVE' \in BOOLEAN /\ LAST_REPORTED' \in {"Healthy", "Busy", "Dead"}
        /\ UNCHANGED ring \/ post("HealthChange")
    <3>1. CASE desktop.beaten
      BY <1>2, <3>1 DEF Monitor
    <3>2. CASE ~desktop.beaten
      BY <1>2, <3>2 DEF Monitor, Health
    <3>3. QED
      BY <1>2, <3>1, <3>2 DEF Monitor
  <2>2. 0 \in 0 .. DEAD_THRESHOLD_TICKS
    BY Sizes
  <2>3. /\ desktop' \in [at : {"heartbeat", "time", "messages"}, beaten : BOOLEAN, handled : 0 .. MAX_PER_ROUND]
        /\ sinceBeat' \in 0 .. DEAD_THRESHOLD_TICKS
    BY <2>1, <2>2
  <2>4. CTypes'
    BY <2>1, <2>3
  <2>5. Holds(ring')
    BY <2>1, PostKeeps DEF Kinds
  <2>6. QED
    BY <2>4, <2>5
<1>3. CASE drain
  <2>1. desktop' = [desktop EXCEPT !.handled = @ + 1] /\ desktop.handled < MAX_PER_ROUND
        /\ UNCHANGED <<monitorVars, loadVars, clockVars, call>> /\ poll
    BY <1>3 DEF drain
  <2>2. desktop.handled + 1 \in 0 .. MAX_PER_ROUND
    BY <2>1, Sizes
  <2>3. CTypes'
    BY <2>1, <2>2
  <2>4. QED
    BY <2>1, <2>3, PollHolds
<1>4. CASE RoundEnds
  <2>1. 0 \in 0 .. MAX_PER_ROUND
    BY Sizes
  <2>2. desktop' \in [at : {"heartbeat", "time", "messages"}, beaten : BOOLEAN, handled : 0 .. MAX_PER_ROUND]
    BY <1>4, <2>1 DEF RoundEnds
  <2>3. QED
    BY <1>4, <2>2 DEF RoundEnds
<1>5. CASE on_tick
  BY <1>5, TickTypes
<1>6. CASE beat
  <2>1. silent' \in 0 .. DEAD_THRESHOLD_TICKS /\ beaten' \in BOOLEAN
    BY <1>6, Sizes DEF beat
  <2>2. QED
    BY <1>6, <2>1 DEF beat
<1>7. ASSUME NEW n \in StallTicks, suppress_heartbeat(n)
      PROVE  CTypes' /\ Holds(ring')
  BY <1>7, Sizes DEF suppress_heartbeat
<1>8. ASSUME NEW t \in Tasks, Task(t)
      PROVE  CTypes' /\ Holds(ring')
  <2>1. CASE handle_syscall(t)
    <3>1. note_call(t, FALSE) /\ UNCHANGED <<monitorVars, clockVars, desktop>>
          /\ call' \in [Tasks -> {"none", "user", "yield", "dispatch"}]
      BY <2>1 DEF handle_syscall
    <3>2. QED
      BY <3>1, NoteCallKeeps
  <2>2. CASE Scheduled(t)
    BY <2>2 DEF Scheduled
  <2>3. CASE Answered(t)
    BY <2>3 DEF Answered
  <2>4. CASE Exits(t)
    BY <2>4, PostKeeps DEF Exits, Kinds
  <2>5. CASE Faults(t)
    <3>1. note_call(t, TRUE) /\ UNCHANGED <<monitorVars, clockVars, desktop>>
          /\ call' \in [Tasks -> {"none", "user", "yield", "dispatch"}]
      BY <2>5 DEF Faults
    <3>2. QED
      BY <3>1, NoteCallKeeps
  <2>6. CASE AppStarts(t)
    BY <2>6, PostKeeps DEF AppStarts, Kinds
  <2>7. QED
    BY <1>8, <2>1, <2>2, <2>3, <2>4, <2>5, <2>6 DEF Task
<1>9. CASE UNCHANGED controlVars
  BY <1>9 DEF controlVars
<1>10. QED
  BY <1>1, <1>2, <1>3, <1>4, <1>5, <1>6, <1>7, <1>8, <1>9 DEF ControlNext, Desktop, Other

LEMMA InitHolds ==
  ASSUME ControlInit
  PROVE  CTypes /\ Holds(ring)
<1>1. 0 \in Cells
  BY Sizes DEF Cells
<1>2. CTypes
  <2>1. /\ 0 \in 0 .. DEAD_THRESHOLD_TICKS /\ 0 \in 0 .. WINDOW_TICKS - 1 /\ 0 \in 0 .. WindowMod - 1
        /\ 0 \in 0 .. MAX_PER_ROUND /\ 0 \in 0 .. MaxCalls /\ REPORT_EVERY \in 0 .. REPORT_EVERY
    BY Sizes
  <2>2. QED
    BY <2>1 DEF ControlInit, CTypes
<1>3. ring \in Ring /\ Len(ring.accepted) = 0 /\ DOMAIN ring.accepted = {} /\ ring.HEAD = 0 /\ ring.TAIL = 0
  BY <1>1 DEF ControlInit, Ring
<1>4. DepthOf(ring) = 0
  BY <1>3, <1>1, DepthCases DEF DepthOf
<1>5. QED
  BY <1>2, <1>3, <1>4, Sizes DEF Holds

LEMMA HoldsIsInv ==
  ASSUME CTypes, Holds(ring)
  PROVE  ControllerInv
BY DEF CTypes, Holds, Ring, DepthOf, Depth, ControllerInv, ControllerTypeOK, RingHolds

\* Whatever the size of the ring and whoever posts and takes, the ring holds the
\* messages it accepted in their order and drops only those that find no room
\* (ipc.rs post, poll); with it, the types of the layer.
THEOREM RingKeepsMessages == ControlSpec => []ControllerInv
<1>1. ControlInit => CTypes /\ Holds(ring)
  BY InitHolds
<1>2. CTypes /\ Holds(ring) /\ [ControlNext]_controlVars => CTypes' /\ Holds(ring')
  BY StepKeeps
<1>3. CTypes /\ Holds(ring) => ControllerInv
  BY HoldsIsInv
<1>4. Holds(ring)' <=> Holds(ring')
  BY DEF Holds, Ring, DepthOf
<1>5. QED
  BY <1>1, <1>2, <1>3, <1>4, PTL DEF ControlSpec

------------------------------------------------------------------------------
(* The silence before the fallback *)

\* LAST_BEAT_TICK lags behind the last beat only while a beat is on its way to
\* the monitor: not yet read, or read in this round.
Unseen ==
  /\ desktop.at = "time" => ~beaten
  /\ desktop.at # "time" => ~desktop.beaten
  /\ ~beaten /\ ~desktop.beaten => sinceBeat <= silent

LEMMA UnseenKept ==
  ASSUME "slow_look" \notin ControlOps, CTypes, Unseen, [ControlNext]_controlVars
  PROVE  Unseen'
<1> sinceBeat \in Nat /\ silent \in Nat
  BY Sizes DEF CTypes
<1> USE DEF Unseen, monitorVars, loadVars, clockVars
<1>1. CASE LookAtHeartbeat
  BY <1>1 DEF LookAtHeartbeat, CTypes
<1>2. CASE Monitor
  <2>1. desktop' = [desktop EXCEPT !.at = "messages", !.beaten = FALSE] /\ UNCHANGED <<beaten, silent>>
        /\ sinceBeat' = (IF desktop.beaten THEN 0 ELSE sinceBeat) /\ desktop.at = "time"
    BY <1>2 DEF Monitor
  <2>2. QED
    BY <2>1 DEF CTypes
<1>3. CASE drain
  BY <1>3 DEF drain, CTypes
<1>4. CASE RoundEnds
  BY <1>4 DEF RoundEnds, CTypes
<1>5. CASE desktop.at # "time" /\ Other
  <2>1. CASE on_tick
    <3>1. /\ sinceBeat' = UpTo(DEAD_THRESHOLD_TICKS, sinceBeat + 1)
          /\ silent' = UpTo(DEAD_THRESHOLD_TICKS, silent + 1) /\ UNCHANGED <<beaten, desktop>>
      BY <2>1 DEF on_tick
    <3>2. sinceBeat <= silent => sinceBeat' <= silent'
      BY <3>1, Sizes DEF UpTo
    <3>3. QED
      BY <3>1, <3>2
  <2>2. CASE beat
    <3>1. beaten' = TRUE /\ desktop' = desktop
      BY <2>2 DEF beat
    <3>2. QED
      BY <1>5, <3>1
  <2>3. ASSUME NEW n \in StallTicks, suppress_heartbeat(n)
        PROVE  Unseen'
    <3>1. UNCHANGED <<desktop, beaten, sinceBeat, silent>>
      BY <2>3 DEF suppress_heartbeat
    <3>2. QED
      BY <3>1
  <2>4. ASSUME NEW t \in Tasks, Task(t)
        PROVE  Unseen'
    <3>1. UNCHANGED <<desktop, beaten, sinceBeat, silent>>
      BY <2>4 DEF Task, handle_syscall, Scheduled, Answered, Exits, Faults, AppStarts
    <3>2. QED
      BY <3>1
  <2>5. QED
    BY <1>5, <2>1, <2>2, <2>3, <2>4 DEF Other
<1>6. CASE UNCHANGED controlVars
  BY <1>6 DEF controlVars
<1>7. QED
  BY <1>1, <1>2, <1>3, <1>4, <1>5, <1>6 DEF ControlNext, Desktop

LEMMA DeadIsSilent ==
  ASSUME CTypes, Unseen, [ControlNext]_controlVars, FALLBACK_ACTIVE', ~FALLBACK_ACTIVE
  PROVE  silent >= DEAD_THRESHOLD_TICKS
<1>1. FALLBACK_ACTIVE' # FALLBACK_ACTIVE
  OBVIOUS
<1>2. Monitor
  BY <1>1 DEF ControlNext, Desktop, Other, Task, LookAtHeartbeat, drain, RoundEnds, on_tick, beat,
     suppress_heartbeat, handle_syscall, Scheduled, Answered, Exits, Faults, AppStarts, controlVars, monitorVars
<1>3. ~desktop.beaten /\ TooSilent /\ desktop.at = "time"
  BY <1>2 DEF Monitor
<1>4. QED
  BY <1>3, Sizes DEF Unseen, TooSilent, CTypes

\* Where the desktop task is not preempted between the heartbeat and the time it
\* reads, the fallback takes over only after DEAD_THRESHOLD_TICKS without a beat
\* (state_monitor.rs tick), whatever the tasks and the shell do.
THEOREM FallbackOnlyWhenSilent ==
  ASSUME "slow_look" \notin ControlOps
  PROVE  ControlSpec => DeadOnlyWhenSilent
<1>1. ControlInit => CTypes /\ Holds(ring) /\ Unseen
  <2>1. ControlInit => Unseen
    BY DEF ControlInit, Unseen
  <2>2. QED
    BY <2>1, InitHolds
<1>2. CTypes /\ Holds(ring) /\ Unseen /\ [ControlNext]_controlVars => CTypes' /\ Holds(ring') /\ Unseen'
  BY StepKeeps, UnseenKept
<1>3. CTypes /\ Unseen /\ [ControlNext]_controlVars
        => [FALLBACK_ACTIVE' /\ ~FALLBACK_ACTIVE => silent >= DEAD_THRESHOLD_TICKS]_controlVars
  BY DeadIsSilent
<1>4. Holds(ring)' <=> Holds(ring')
  BY DEF Holds, Ring, DepthOf
<1>5. QED
  BY <1>1, <1>2, <1>3, <1>4, PTL DEF ControlSpec, DeadOnlyWhenSilent

------------------------------------------------------------------------------
(* Reports *)

\* Windows from one count to another, which may have wrapped in between.
Windows(from, to) == (to - from) % WindowMod

LEMMA WindowsCases ==
  ASSUME NEW a \in 0 .. WindowMod - 1, NEW b \in 0 .. WindowMod - 1
  PROVE  Windows(a, b) = IF b >= a THEN b - a ELSE b - a + WindowMod
<1>1. CASE b >= a
  BY <1>1, Sizes DEF Windows
<1>2. CASE b < a
  BY <1>2, Sizes DEF Windows
<1>3. QED
  BY <1>1, <1>2

LEMMA NextWindow ==
  ASSUME NEW a \in 0 .. WindowMod - 1, NEW b \in 0 .. WindowMod - 1, NEW c, c = (b + 1) % WindowMod
  PROVE  /\ c \in 0 .. WindowMod - 1 /\ Windows(a, b) \in Nat /\ Windows(a, c) \in Nat
         /\ Windows(a, c) <= Windows(a, b) + 1
<1>1. c = IF b + 1 = WindowMod THEN 0 ELSE b + 1
  <2>1. CASE b + 1 = WindowMod
    BY <2>1, Sizes
  <2>2. CASE b + 1 # WindowMod
    <3>1. b + 1 \in Nat /\ b + 1 < WindowMod
      BY <2>2, Sizes
    <3>2. QED
      BY <3>1, <2>2, Sizes
  <2>3. QED
    BY <2>1, <2>2
<1>2. c \in 0 .. WindowMod - 1
  BY <1>1, Sizes
<1>3. /\ Windows(a, b) = IF b >= a THEN b - a ELSE b - a + WindowMod
      /\ Windows(a, c) = IF c >= a THEN c - a ELSE c - a + WindowMod
  BY <1>2, WindowsCases
<1>4. QED
  BY <1>1, <1>2, <1>3, Sizes

\* A report lies at least as many windows back as the counts tell, except for one
\* made while the count is 0: it is dated one window ahead, but the task is past
\* its quota until that window comes.
Spaced(t) ==
  /\ TASK_LAST_REPORT[t] = 0 => reported[t] = REPORT_EVERY
  /\ TASK_LAST_REPORT[t] # 0
       => \/ reported[t] >= UpTo(REPORT_EVERY, Windows(TASK_LAST_REPORT[t], WINDOWS_ROLLED))
          \/ WINDOWS_ROLLED = 0 /\ TASK_LAST_REPORT[t] = 1 /\ TASK_WINDOW[t] > TASK_QUOTA

AllSpaced == \A t \in Tasks : Spaced(t)

LEMMA NoteCallSpaced ==
  ASSUME CTypes, AllSpaced, NEW t \in Tasks, NEW fault \in BOOLEAN, note_call(t, fault)
  PROVE  /\ AllSpaced'
         /\ \A u \in Tasks : TASK_LAST_REPORT'[u] # TASK_LAST_REPORT[u] => reported[u] >= REPORT_EVERY
<1> DEFINE last == TASK_LAST_REPORT[t]
           report == /\ TASK_WINDOW[t] + 1 = TASK_QUOTA + 1
                     /\ last = 0 \/ Windows(last, WINDOWS_ROLLED) >= REPORT_EVERY
<1>1. /\ TASK_WINDOW' = [TASK_WINDOW EXCEPT ![t] = TASK_WINDOW[t] + 1]
      /\ TASK_LAST_REPORT' = IF report THEN [TASK_LAST_REPORT EXCEPT ![t] = ReportMark(WINDOWS_ROLLED)]
                             ELSE TASK_LAST_REPORT
      /\ reported' = IF report THEN [reported EXCEPT ![t] = 0] ELSE reported
      /\ WINDOWS_ROLLED' = WINDOWS_ROLLED
  BY DEF note_call, Windows
<1>2. /\ TASK_WINDOW[t] \in Nat /\ last \in 0 .. WindowMod - 1 /\ WINDOWS_ROLLED \in 0 .. WindowMod - 1
      /\ reported[t] \in 0 .. REPORT_EVERY
  BY DEF CTypes
<1>3. Windows(last, WINDOWS_ROLLED) \in Nat
  BY <1>2, NextWindow
<1>4. Spaced(t)
  BY DEF AllSpaced
<1>5. ASSUME NEW u \in Tasks, u # t
      PROVE  Spaced(u)' /\ TASK_LAST_REPORT'[u] = TASK_LAST_REPORT[u]
  <2>1. /\ TASK_WINDOW'[u] = TASK_WINDOW[u] /\ TASK_LAST_REPORT'[u] = TASK_LAST_REPORT[u]
        /\ reported'[u] = reported[u]
    <3> HIDE DEF report
    <3>1. QED
      BY <1>1, <1>5 DEF CTypes
  <2>2. QED
    BY <1>1, <2>1 DEF AllSpaced, Spaced, Windows
<1>6. CASE report
  <2>1. /\ TASK_WINDOW'[t] = TASK_QUOTA + 1 /\ TASK_LAST_REPORT'[t] = ReportMark(WINDOWS_ROLLED)
        /\ reported'[t] = 0
    BY <1>1, <1>2, <1>6 DEF CTypes
  <2>2. reported[t] >= REPORT_EVERY
    <3>1. CASE last = 0
      BY <1>2, <1>4, <3>1, Sizes DEF Spaced
    <3>2. CASE last # 0
      <4>1. Windows(last, WINDOWS_ROLLED) >= REPORT_EVERY /\ ~(TASK_WINDOW[t] > TASK_QUOTA)
        BY <1>2, <1>6, <3>2, Sizes
      <4>2. reported[t] >= UpTo(REPORT_EVERY, Windows(last, WINDOWS_ROLLED))
        BY <1>4, <3>2, <4>1 DEF Spaced
      <4>3. QED
        BY <1>3, <4>1, <4>2, Sizes DEF UpTo
    <3>3. QED
      BY <3>1, <3>2
  <2>3. Spaced(t)'
    <3>1. ReportMark(WINDOWS_ROLLED) # 0
      BY <1>2, Marks
    <3>2. CASE WINDOWS_ROLLED = 0
      BY <1>1, <2>1, <3>1, <3>2, Sizes DEF Spaced, ReportMark
    <3>3. CASE WINDOWS_ROLLED # 0
      <4>1. ReportMark(WINDOWS_ROLLED) = WINDOWS_ROLLED
        BY <3>3 DEF ReportMark
      <4>2. Windows(WINDOWS_ROLLED, WINDOWS_ROLLED) = 0
        BY <1>2, WindowsCases
      <4>3. UpTo(REPORT_EVERY, 0) = 0
        BY Sizes DEF UpTo
      <4>4. Windows(TASK_LAST_REPORT[t], WINDOWS_ROLLED)' = 0
        BY <1>1, <2>1, <4>1, <4>2 DEF Windows
      <4>5. QED
        BY <2>1, <3>1, <4>3, <4>4 DEF Spaced
    <3>4. QED
      BY <3>2, <3>3
  <2>4. QED
    BY <1>5, <2>2, <2>3 DEF AllSpaced
<1>7. CASE ~report
  <2>1. /\ TASK_WINDOW'[t] = TASK_WINDOW[t] + 1 /\ TASK_LAST_REPORT' = TASK_LAST_REPORT
        /\ reported' = reported
    BY <1>1, <1>2, <1>7 DEF CTypes
  <2>2. Spaced(t)'
    BY <1>1, <1>2, <1>4, <2>1, Sizes DEF Spaced, Windows
  <2>3. QED
    BY <1>5, <2>1, <2>2 DEF AllSpaced
<1>8. QED
  BY <1>6, <1>7

LEMMA TickSpaced ==
  ASSUME CTypes, AllSpaced, on_tick
  PROVE  AllSpaced'
<1>1. CASE sinceRoll + 1 < WINDOW_TICKS
  BY <1>1 DEF on_tick, AllSpaced, Spaced, Windows
<1>2. CASE ~(sinceRoll + 1 < WINDOW_TICKS)
  <2>1. /\ WINDOWS_ROLLED' = (WINDOWS_ROLLED + 1) % WindowMod
        /\ reported' = [u \in Tasks |-> UpTo(REPORT_EVERY, reported[u] + 1)]
        /\ UNCHANGED TASK_LAST_REPORT
    BY <1>2 DEF on_tick
  <2>2. SUFFICES ASSUME NEW t \in Tasks PROVE Spaced(t)'
    BY DEF AllSpaced
  <2> DEFINE last == TASK_LAST_REPORT[t]
  <2>3. /\ last \in 0 .. WindowMod - 1 /\ WINDOWS_ROLLED \in 0 .. WindowMod - 1
        /\ reported[t] \in 0 .. REPORT_EVERY
        /\ reported'[t] = UpTo(REPORT_EVERY, reported[t] + 1) /\ Spaced(t)
    BY <2>1 DEF CTypes, AllSpaced
  <2>4. /\ WINDOWS_ROLLED' \in 0 .. WindowMod - 1
        /\ Windows(last, WINDOWS_ROLLED) \in Nat /\ Windows(last, WINDOWS_ROLLED') \in Nat
        /\ Windows(last, WINDOWS_ROLLED') <= Windows(last, WINDOWS_ROLLED) + 1
    BY <2>1, <2>3, NextWindow
  <2>5. Windows(TASK_LAST_REPORT[t], WINDOWS_ROLLED)' = Windows(last, WINDOWS_ROLLED')
    BY <2>1 DEF Windows
  <2>6. CASE last = 0
    <3>1. UpTo(REPORT_EVERY, REPORT_EVERY + 1) = REPORT_EVERY
      BY Sizes DEF UpTo
    <3>2. QED
      BY <2>1, <2>3, <2>6, <3>1 DEF Spaced
  <2>7. CASE last # 0 /\ reported[t] >= UpTo(REPORT_EVERY, Windows(last, WINDOWS_ROLLED))
    <3>1. reported'[t] >= UpTo(REPORT_EVERY, Windows(last, WINDOWS_ROLLED'))
      BY <2>3, <2>4, <2>7, Sizes DEF UpTo
    <3>2. QED
      BY <2>1, <2>5, <2>7, <3>1 DEF Spaced
  <2>8. CASE last = 1 /\ WINDOWS_ROLLED = 0
    <3>1. WINDOWS_ROLLED' = 1
      BY <2>1, <2>8, Sizes
    <3>2. Windows(last, WINDOWS_ROLLED') = 0
      BY <2>3, <2>4, <2>8, <3>1, WindowsCases
    <3>3. UpTo(REPORT_EVERY, 0) = 0 /\ reported'[t] >= 0
      BY <2>3, Sizes DEF UpTo
    <3>4. QED
      BY <2>1, <2>5, <2>8, <3>2, <3>3 DEF Spaced
  <2>9. QED
    BY <2>3, <2>6, <2>7, <2>8 DEF Spaced
<1>3. QED
  BY <1>1, <1>2

LEMMA StepSpaced ==
  ASSUME CTypes, AllSpaced, [ControlNext]_controlVars
  PROVE  /\ AllSpaced'
         /\ \A t \in Tasks : TASK_LAST_REPORT'[t] # TASK_LAST_REPORT[t] => reported[t] >= REPORT_EVERY
<1>1. CASE UNCHANGED loadVars
  BY <1>1 DEF loadVars, AllSpaced, Spaced, Windows
<1>2. CASE on_tick
  <2>1. UNCHANGED TASK_LAST_REPORT
    BY <1>2 DEF on_tick
  <2>2. QED
    BY <1>2, <2>1, TickSpaced
<1>3. ASSUME NEW t \in Tasks, NEW fault \in BOOLEAN, note_call(t, fault)
      PROVE  /\ AllSpaced'
             /\ \A u \in Tasks : TASK_LAST_REPORT'[u] # TASK_LAST_REPORT[u] => reported[u] >= REPORT_EVERY
  BY <1>3, NoteCallSpaced
<1>4. \/ UNCHANGED loadVars \/ on_tick
      \/ \E t \in Tasks, fault \in BOOLEAN : note_call(t, fault)
  BY DEF ControlNext, Desktop, Other, Task, LookAtHeartbeat, Monitor, drain, RoundEnds, beat,
     suppress_heartbeat, handle_syscall, Scheduled, Answered, Exits, Faults, AppStarts, controlVars
<1>5. QED
  BY <1>1, <1>2, <1>3, <1>4

\* A task is reported at most once in REPORT_EVERY windows (load_balancer.rs
\* note_call), for any modulus of their count: where it wraps, and where the mark
\* of window 0 is moved because 0 means "never".
THEOREM ReportsAreSpaced == ControlSpec => ReportsSpaced
<1>1. ControlInit => CTypes /\ Holds(ring) /\ AllSpaced
  <2>1. ControlInit => AllSpaced
    BY DEF ControlInit, AllSpaced, Spaced
  <2>2. QED
    BY <2>1, InitHolds
<1>2. CTypes /\ Holds(ring) /\ AllSpaced /\ [ControlNext]_controlVars => CTypes' /\ Holds(ring') /\ AllSpaced'
  BY StepKeeps, StepSpaced
<1>3. CTypes /\ AllSpaced /\ [ControlNext]_controlVars
        => [\A t \in Tasks : TASK_LAST_REPORT'[t] # TASK_LAST_REPORT[t] => reported[t] >= REPORT_EVERY]_controlVars
  BY StepSpaced
<1>4. Holds(ring)' <=> Holds(ring')
  BY DEF Holds, Ring, DepthOf
<1>5. QED
  BY <1>1, <1>2, <1>3, <1>4, PTL DEF ControlSpec, ReportsSpaced
=============================================================================
