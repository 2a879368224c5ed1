------------------------------ MODULE Scheduler ------------------------------
(***************************************************************************)
(* The task table and the scheduler of Level-0a:                           *)
(* src/kernel/src/level0a/core/scheduler.rs, with the timer interrupt      *)
(* (pit.rs, idt) and the disk request that sleeps in it (drivers/ata.rs).  *)
(*                                                                         *)
(* The machine has one CPU.  The task that owns it is `current'; every     *)
(* action but the two interrupts is a piece of code that task executes   *)
(* up to the next point where another task or an interrupt can get in.     *)
(* System calls run with interrupts off, so they are atomic up to the      *)
(* yield_now that may be inside them; what a suspended task resumes with   *)
(* (its kernel stack, in the code) is pc[t].                               *)
(*                                                                         *)
(* born and awaited are history variables: they number the tasks that have *)
(* lived in a slot, which the code does not record, and no guard reads     *)
(* them except the bound MaxLives and IsLauncher.                          *)
(*                                                                         *)
(* An operator named Faulty_x is a plausible mistake in x, which a run has *)
(* to find; nothing in the specification uses it.                          *)
(***************************************************************************)
EXTENDS Integers

CONSTANTS
  MaxTasks,    \* MAX_TASKS
  TickMod,     \* the tick counter is a u32: 2^32 in the code
  Nices,       \* values passed to set_nice, clamped by the code to -20..19
  SleepTimes,  \* arguments of sleep_ticks
  IoTimeout,   \* IO_TIMEOUT_TICKS
  MaxLives,    \* bound: how many tasks ever live in one slot; one slot is reused
  Ops          \* which calls the tasks of this instance make; with "kill" they
               \* kill applications, with "kill_launcher" the first task too

OpNames == {"fork", "nice", "sleep", "wait", "waitany", "nohang", "kill", "exit",
            "io", "kill_launcher"}

ASSUME MaxTasksAssumption  == MaxTasks \in Nat \ {0}
ASSUME TickModAssumption   == TickMod \in Nat \ {0}
ASSUME NicesAssumption     == Nices \subseteq -20..19
\* The subsystems pass a u32 of milliseconds divided by ten: below half the
\* range of the tick counter, which the wrap-around comparison relies on.
ASSUME SleepTimesAssumption ==
  SleepTimes \subseteq {n \in Nat : 0 < n /\ 2 * n <= TickMod}
ASSUME IoTimeoutAssumption == IoTimeout \in Nat
ASSUME MaxLivesAssumption  == MaxLives \in Nat
ASSUME OpsAssumption       == Ops \subseteq OpNames

VARIABLES
  state, nice, credits, parent, waitable, wait_for, wake_tick, \* struct Task
  current,       \* CURRENT
  task_count,    \* TASK_COUNT
  need_resched,  \* NEED_RESCHED
  ticks,         \* pit::TICKS
  pc,            \* where each task resumes
  arg,           \* its local variable: the awaited child, or the I/O deadline
  irq_seen,      \* ata::IRQ_SEEN, the `ready' closure of wait_for_io
  locked,        \* ata::LOCKED
  disk,          \* the device: does it owe an interrupt?
  born, awaited

taskVars  == <<nice, parent, waitable, wake_tick>>
ioVars    == <<irq_seen, locked, disk>>
ghostVars == <<born, awaited>>
cpuVars   == <<state, credits, wait_for, current, need_resched>>
vars == <<taskVars, cpuVars, task_count, ticks, pc, arg, ioVars, ghostVars>>

Slots == 0 .. MaxTasks - 1
IDLE_TASK == 0
TaskState == {"Unused", "Ready", "Running", "Blocked", "Waiting", "IoWait", "Terminated"}

Dead == {"Unused", "Terminated"}

\* The slots pick_next, wake_expired and the others loop over.
Table == 0 .. task_count - 1

\* Where a task resumes: in its own code, in the loop of sleep_ticks or of
\* wait_for_task, on its way out, or at one of the points of wait_for_io.
PcValues == {"run", "sleep", "wait", "exiting", "io_test", "io_armed", "io_woken"}

\* Interrupts are on in the task's own code and in the disk path of kernel
\* tasks; the loops of sleep_ticks and wait_for_task run inside a system call.
Interruptible == pc[current] \notin {"sleep", "wait"}

------------------------------------------------------------------------------
(* Time slices *)

\* Fault: no floor, so the lowest priorities get no time at all.
Faulty_slice_ticks(n) == IF n <= -10 THEN 8 ELSE IF n < 0 THEN 4 ELSE IF n <= 4 THEN 2 ELSE 0

slice_ticks(n) ==
  CASE n <= -10           -> 8
    [] n \in -9 .. -1     -> 4
    [] n \in 0 .. 4       -> 2
    [] OTHER              -> 1

\* Fault: only the exact tick counts.
Faulty_Reached(a, b) == a = b

\* a.wrapping_sub(b) < 0x8000_0000: instant b has been reached at instant a.
Reached(a, b) == 2 * ((a - b + TickMod) % TickMod) < TickMod

refill_credits(cr) ==
  [i \in Slots |-> IF i \in Table THEN slice_ticks(nice[i]) ELSE cr[i]]

------------------------------------------------------------------------------
(* yield_now *)

\* Faults: wait_for is trusted whatever the state; waiters are forgotten.
Faulty_Woken_Stale(st, wf, wt, now) ==
  {i \in Table : \/ st[i] = "Blocked" /\ Reached(now, wt[i])
                 \/ wf[i] # 0 /\ st[wf[i] - 1] = "Terminated"}
Faulty_Woken_Sleepers(st, wf, wt, now) ==
  {i \in Table : st[i] = "Blocked" /\ Reached(now, wt[i])}

\* Tasks wake_expired makes Ready: sleepers whose tick has come, and waiters
\* whose target is Terminated.
Woken(st, wf, wt, now) ==
  {i \in Table : \/ st[i] = "Blocked" /\ Reached(now, wt[i])
                 \/ st[i] = "Waiting" /\ st[wf[i] - 1] = "Terminated"}

\* Fault: whoever does not sleep on a tick is taken for Ready.
Faulty_Candidates(st, cr) ==
  {i \in Table \ {IDLE_TASK} : st[i] \notin Dead \union {"Blocked"} /\ cr[i] > 0}

\* The tasks the scan of pick_next may return.
Candidates(st, cr) == {i \in Table \ {IDLE_TASK} : st[i] = "Ready" /\ cr[i] > 0}

\* Position of slot i in the scan that starts after the current task.
Distance(i) == (i - current - 1 + task_count) % task_count

FirstOf(S) == CHOOSE i \in S : \A j \in S : Distance(i) <= Distance(j)

\* The fallback of pick_next once no Ready task is left.
NoneReady(st, cr) ==
  IF current # IDLE_TASK /\ st[current] = "Running" /\ cr[current] > 0 THEN current
  ELSE IF st[IDLE_TASK] \in {"Ready", "Running"} THEN IDLE_TASK
  ELSE current

\* pick_next after wake_expired: the credits it leaves (a new period starts
\* when no Ready task has any left) and the task it returns.
PeriodCredits(st, cr) == IF Candidates(st, cr) = {} THEN refill_credits(cr) ELSE cr
pick_next(st, cr) ==
  IF Candidates(st, cr) # {} THEN FirstOf(Candidates(st, cr)) ELSE NoneReady(st, cr)

\* yield_now called with this task table at this instant.  The outgoing task
\* pays one credit for its turn; a switch to idle starts a new period.
yield_now(st, wf, wt, cr, now) ==
  LET woken == Woken(st, wf, wt, now)
      st1   == [i \in Slots |-> IF i \in woken THEN "Ready" ELSE st[i]]
      cr1   == PeriodCredits(st1, cr)
      next  == pick_next(st1, cr1)
      st2   == [st1 EXCEPT ![current] = IF @ = "Running" THEN "Ready" ELSE @]
      cr2   == IF current = IDLE_TASK \/ cr1[current] = 0 THEN cr1
               ELSE [cr1 EXCEPT ![current] = @ - 1]
  IN  /\ need_resched' = FALSE
      /\ wait_for' = [i \in Slots |-> IF i \in woken /\ st[i] = "Waiting" THEN 0 ELSE wf[i]]
      /\ current' = next
      /\ \/ /\ next = current
            /\ state' = st1
            /\ credits' = cr1
         \/ /\ next # current
            /\ state' = [st2 EXCEPT ![next] = "Running"]
            /\ credits' = IF next = IDLE_TASK THEN refill_credits(cr2) ELSE cr2

\* The task calls yield_now with the table as it is.
YieldHere == yield_now(state, wait_for, wake_tick, credits, ticks)

------------------------------------------------------------------------------
(* Interrupts *)

\* IRQ0: pit::on_tick, on_timer_tick, then preempt_from_timer.  The tick costs
\* the current task a credit; with its last one the task is preempted.
TimerTick ==
  LET now == (ticks + 1) % TickMod
      cr  == [credits EXCEPT ![current] = IF @ > 1 THEN @ - 1 ELSE 0]
      due == need_resched \/ credits[current] <= 1
  IN  /\ Interruptible
      /\ ticks' = now
      /\ \/ /\ due /\ task_count >= 2
            /\ yield_now(state, wait_for, wake_tick, cr, now)
         \/ /\ ~(due /\ task_count >= 2)
            /\ credits' = cr
            /\ need_resched' = due
            /\ UNCHANGED <<state, wait_for, current>>
      /\ UNCHANGED <<taskVars, task_count, pc, arg, ioVars, ghostVars>>

\* IRQ14: ata::on_irq and wake_io_waiters.  A lost interrupt or a faulty drive
\* is this action never being taken.
DiskIrq ==
  /\ Interruptible
  /\ disk = "busy"
  /\ disk' = "idle"
  /\ irq_seen' = TRUE
  /\ state' = [i \in Slots |-> IF i \in Table /\ state[i] = "IoWait" THEN "Ready" ELSE state[i]]
  /\ UNCHANGED <<taskVars, credits, wait_for, current, need_resched, task_count, ticks,
                 pc, arg, locked, ghostVars>>

------------------------------------------------------------------------------
(* Creating tasks *)

\* The kernel's own first task: the boot worker, then the desktop with its
\* shell.  It starts the applications and, unlike them, makes no system calls.
IsLauncher(i) == i = 1 /\ born[i] = 1

\* A task may make this call now; a program in user mode may.
Calls(op) == op \in Ops /\ pc[current] = "run" /\ current # IDLE_TASK
UserCalls(op) == Calls(op) /\ ~IsLauncher(current)

\* The slot spawn_inner takes: the first Unused one, else a new one at the end
\* (every slot beyond task_count is Unused).
FreeSlots == {i \in Slots : state[i] = "Unused"}
FirstFree == CHOOSE i \in FreeSlots : \A j \in FreeSlots : i <= j

\* Bound: MaxLives tasks in slot i, and no other slot is used twice.
HasLivesLeft(i) ==
  /\ born[i] < MaxLives
  /\ born[i] = 0 \/ \A j \in Slots \ {i} : born[j] <= 1

spawn_inner(isWaitable) ==
  LET i == FirstFree
  IN  /\ FreeSlots # {}
      /\ HasLivesLeft(i)
      /\ task_count' = IF i = task_count THEN task_count + 1 ELSE task_count
      /\ nice' = [nice EXCEPT ![i] = 0]
      /\ credits' = [credits EXCEPT ![i] = slice_ticks(0)]
      /\ state' = [state EXCEPT ![i] = "Ready"]
      /\ wake_tick' = [wake_tick EXCEPT ![i] = 0]
      /\ wait_for' = [wait_for EXCEPT ![i] = 0]
      /\ parent' = [parent EXCEPT ![i] = current]
      /\ waitable' = [waitable EXCEPT ![i] = isWaitable]
      /\ pc' = [pc EXCEPT ![i] = "run"]
      /\ arg' = [arg EXCEPT ![i] = 0]
      /\ born' = [born EXCEPT ![i] = @ + 1]
      /\ awaited' = [awaited EXCEPT ![i] = 0]
      /\ UNCHANGED <<current, need_resched, ticks, ioVars>>

\* spawn: the boot code starts the first task, the first task the others.
Spawn ==
  /\ pc[current] = "run"
  /\ IsLauncher(current) \/ (current = IDLE_TASK /\ task_count = 1)
  /\ spawn_inner(FALSE)

\* spawn_child, from fork: the child stays a zombie until it is collected.
SpawnChild == UserCalls("fork") /\ spawn_inner(TRUE)

------------------------------------------------------------------------------
(* Calls that keep or give up the CPU *)

Yield ==
  /\ pc[current] = "run"
  /\ YieldHere
  /\ UNCHANGED <<taskVars, task_count, ticks, pc, arg, ioVars, ghostVars>>

set_nice(i, value) ==
  /\ Calls("nice")
  /\ state[i] # "Unused"
  /\ nice' = [nice EXCEPT ![i] = value]
  /\ UNCHANGED <<cpuVars, parent, waitable, wake_tick, task_count, ticks, pc, arg,
                 ioVars, ghostVars>>

\* sleep_ticks up to its first yield_now ...
sleep_ticks(n) ==
  LET wt == [wake_tick EXCEPT ![current] = (ticks + n) % TickMod]
  IN  /\ UserCalls("sleep")
      /\ wake_tick' = wt
      /\ pc' = [pc EXCEPT ![current] = "sleep"]
      /\ yield_now([state EXCEPT ![current] = "Blocked"], wait_for, wt, credits, ticks)
      /\ UNCHANGED <<nice, parent, waitable, task_count, ticks, arg, ioVars, ghostVars>>

\* ... and from there: yield again until the tick is reached.
SleepLoop ==
  /\ pc[current] = "sleep"
  /\ \/ /\ Reached(ticks, wake_tick[current])
        /\ state' = [state EXCEPT ![current] = "Running"]
        /\ pc' = [pc EXCEPT ![current] = "run"]
        /\ UNCHANGED <<credits, wait_for, current, need_resched>>
     \/ /\ ~Reached(ticks, wake_tick[current])
        /\ YieldHere
        /\ UNCHANGED pc
  /\ UNCHANGED <<taskVars, task_count, ticks, arg, ioVars, ghostVars>>

------------------------------------------------------------------------------
(* waitpid *)

\* release_slot for every slot of S.
Released(S) ==
  /\ waitable' = [i \in Slots |-> IF i \in S THEN FALSE ELSE waitable[i]]
  /\ state'    = [i \in Slots |-> IF i \in S THEN "Unused" ELSE state[i]]
  /\ wait_for' = [i \in Slots |-> IF i \in S THEN 0 ELSE wait_for[i]]
  /\ credits'  = [i \in Slots |-> IF i \in S THEN 0 ELSE credits[i]]

\* The zombies wait_for_any and reap_finished_child look for.
FinishedChildren == {i \in Table \ {current} : parent[i] = current /\ state[i] = "Terminated"}
Children == {i \in Table \ {current} : parent[i] = current /\ state[i] # "Unused"}
LowestOf(S) == CHOOSE i \in S : \A j \in S : i <= j

\* wait_for_task when the child is already Terminated: collect it.
Collect(child) ==
  /\ state[child] = "Terminated"
  /\ Released({child})
  /\ UNCHANGED <<current, need_resched, nice, parent, wake_tick, task_count, ticks, ioVars,
                 born>>

\* wait_for_task up to its first yield_now.
wait_for_task(child) ==
  /\ child # current
  /\ \/ /\ Collect(child)
        /\ UNCHANGED <<pc, arg, awaited>>
     \/ /\ state[child] \notin Dead
        /\ pc' = [pc EXCEPT ![current] = "wait"]
        /\ arg' = [arg EXCEPT ![current] = child]
        /\ awaited' = [awaited EXCEPT ![current] = born[child]]
        /\ yield_now([state EXCEPT ![current] = "Waiting"],
                     [wait_for EXCEPT ![current] = child + 1], wake_tick, credits, ticks)
        /\ UNCHANGED <<taskVars, task_count, ticks, ioVars, born>>

\* waitpid(pid): any task of the table may be named, not only a child.
WaitPid(child) == UserCalls("wait") /\ child \in Table /\ wait_for_task(child)

\* waitpid(-1), wait_for_any: a finished child if there is one, else the first
\* living one.  `waitable' is not looked at.
WaitAny ==
  /\ UserCalls("waitany")
  /\ Children # {}
  /\ wait_for_task(LowestOf(IF FinishedChildren # {} THEN FinishedChildren ELSE Children))

\* waitpid(-1, WNOHANG): reap_finished_child.
ReapFinishedChild ==
  /\ UserCalls("nohang")
  /\ FinishedChildren # {}
  /\ Collect(LowestOf(FinishedChildren))
  /\ UNCHANGED <<pc, arg, awaited>>

\* The loop of wait_for_task after its yield_now: the slot is looked at again.
WaitLoop ==
  /\ pc[current] = "wait"
  /\ \/ /\ Collect(arg[current])
        /\ pc' = [pc EXCEPT ![current] = "run"]
        /\ UNCHANGED <<arg, awaited>>
     \/ /\ state[arg[current]] # "Terminated"
        /\ YieldHere
        /\ UNCHANGED <<taskVars, task_count, ticks, pc, arg, ioVars, ghostVars>>

------------------------------------------------------------------------------
(* Ending tasks *)

\* The table after `t' has ended: a waitable task stays as a zombie.
Ended(t) == [state EXCEPT ![t] = IF waitable[t] THEN "Terminated" ELSE "Unused"]

\* Fault: a parent whose slot has been released is forgotten.
Faulty_Orphans(st) ==
  {i \in Table : st[i] = "Terminated" /\ waitable[i] /\ st[parent[i]] = "Terminated"}

\* Zombies reap_orphans releases, given the table it finds.
Orphans(st) == {i \in Table : st[i] = "Terminated" /\ waitable[i] /\ st[parent[i]] \in Dead}

\* sys_exit leaves user mode; the task then runs its own clean-up in the kernel.
Exit ==
  /\ UserCalls("exit")
  /\ pc' = [pc EXCEPT ![current] = "exiting"]
  /\ UNCHANGED <<taskVars, cpuVars, task_count, ticks, arg, ioVars, ghostVars>>

\* What terminate_current releases: the orphaned zombies, and the task itself
\* unless somebody may wait for it.
Gone == Orphans(Ended(current)) \union {i \in {current} : ~waitable[i]}
AfterEnd == [i \in Slots |-> IF i \in Gone THEN "Unused" ELSE Ended(current)[i]]
Cleared(f) == [i \in Slots |-> IF i \in Gone THEN 0 ELSE f[i]]

\* terminate_current: end the task, clean up orphaned zombies, never come back.
TerminateCurrent ==
  /\ pc[current] = "exiting"
  /\ waitable' = [i \in Slots |-> waitable[i] /\ i \notin Gone]
  /\ yield_now(AfterEnd, Cleared(wait_for), wake_tick, Cleared(credits), ticks)
  /\ UNCHANGED <<nice, parent, wake_tick, task_count, ticks, pc, arg, ioVars, ghostVars>>

\* Fault: the slot is released although somebody may wait for the task.
Faulty_terminate(t) ==
  /\ Calls("kill")
  /\ t \notin {IDLE_TASK, current}
  /\ IsLauncher(t) => "kill_launcher" \in Ops
  /\ state[t] \notin Dead
  /\ Released({t})
  /\ UNCHANGED <<current, need_resched, nice, parent, wake_tick, task_count, ticks, pc, arg,
                 ioVars, ghostVars>>

\* terminate, from kill(pid, SIGKILL) or the shell: end another task wherever
\* it is.  Neither its locks nor its zombies are looked after.
terminate(t) ==
  /\ Calls("kill")
  /\ t \notin {IDLE_TASK, current}
  /\ IsLauncher(t) => "kill_launcher" \in Ops
  /\ state[t] \notin Dead
  /\ \/ /\ waitable[t]
        /\ state' = [state EXCEPT ![t] = "Terminated"]
        /\ UNCHANGED <<waitable, wait_for, credits>>
     \/ /\ ~waitable[t]
        /\ Released({t})
  /\ UNCHANGED <<current, need_resched, nice, parent, wake_tick, task_count, ticks, pc, arg,
                 ioVars, ghostVars>>

------------------------------------------------------------------------------
(* Disk requests: DeviceLock, arm_irq, await_irq and wait_for_io *)

\* Take the device lock (a task that finds it taken calls Yield and retries),
\* clear the flag, send the command and fix the deadline.
IoRequest ==
  /\ Calls("io")
  /\ ~locked
  /\ locked' = TRUE
  /\ irq_seen' = FALSE
  /\ disk' = "busy"
  /\ arg' = [arg EXCEPT ![current] = (ticks + IoTimeout) % TickMod]
  /\ pc' = [pc EXCEPT ![current] = "io_test"]
  /\ UNCHANGED <<taskVars, cpuVars, task_count, ticks, ghostVars>>

Faulty_IoFinish_Lock(st) ==
  /\ state' = st
  /\ irq_seen' = FALSE
  /\ pc' = [pc EXCEPT ![current] = "run"]
  /\ UNCHANGED locked

\* The request ends: await_irq clears the flag, Drop releases the lock.
IoFinish(st) ==
  /\ state' = st
  /\ irq_seen' = FALSE
  /\ locked' = FALSE
  /\ pc' = [pc EXCEPT ![current] = "run"]

\* Fault: the flag is not looked at again before going to sleep.
Faulty_IoTest ==
  /\ pc[current] = "io_test"
  /\ state' = [state EXCEPT ![current] = "IoWait"]
  /\ pc' = [pc EXCEPT ![current] = "io_armed"]
  /\ UNCHANGED <<taskVars, credits, wait_for, current, need_resched, task_count, ticks, arg,
                 ioVars, ghostVars>>

\* The section without interrupts: go to sleep unless the interrupt has come.
IoTest ==
  /\ pc[current] = "io_test"
  /\ \/ /\ irq_seen
        /\ IoFinish(state)
     \/ /\ ~irq_seen
        /\ state' = [state EXCEPT ![current] = "IoWait"]
        /\ pc' = [pc EXCEPT ![current] = "io_armed"]
        /\ UNCHANGED <<irq_seen, locked>>
  /\ UNCHANGED <<taskVars, credits, wait_for, current, need_resched, task_count, ticks, arg,
                 disk, ghostVars>>

IoYield ==
  /\ pc[current] = "io_armed"
  /\ pc' = [pc EXCEPT ![current] = "io_woken"]
  /\ YieldHere
  /\ UNCHANGED <<taskVars, task_count, ticks, arg, ioVars, ghostVars>>

\* After the yield_now: the interrupt has come, or the deadline has passed, or
\* the loop goes round.
IoWoken ==
  /\ pc[current] = "io_woken"
  /\ IF irq_seen \/ Reached(ticks, arg[current])
       THEN IoFinish([state EXCEPT ![current] = "Running"])
       ELSE pc' = [pc EXCEPT ![current] = "io_test"] /\ UNCHANGED <<state, irq_seen, locked>>
  /\ UNCHANGED <<taskVars, credits, wait_for, current, need_resched, task_count, ticks, arg,
                 disk, ghostVars>>

------------------------------------------------------------------------------
(* The specification *)

\* scheduler::init: the boot flow becomes task 0.
Init ==
  /\ state = [i \in Slots |-> IF i = IDLE_TASK THEN "Running" ELSE "Unused"]
  /\ nice = [i \in Slots |-> 0]
  /\ credits = [i \in Slots |-> 0]
  /\ parent = [i \in Slots |-> 0]
  /\ waitable = [i \in Slots |-> FALSE]
  /\ wait_for = [i \in Slots |-> 0]
  /\ wake_tick = [i \in Slots |-> 0]
  /\ current = IDLE_TASK
  /\ task_count = 1
  /\ need_resched = FALSE
  /\ ticks = 0
  /\ pc = [i \in Slots |-> "run"]
  /\ arg = [i \in Slots |-> 0]
  /\ irq_seen = FALSE /\ locked = FALSE /\ disk = "idle"
  /\ born = [i \in Slots |-> 0]
  /\ awaited = [i \in Slots |-> 0]

\* What the current task does of its own accord ...
Program ==
  \/ Spawn \/ SpawnChild
  \/ Yield
  \/ \E i \in Slots, n \in Nices : set_nice(i, n)
  \/ \E n \in SleepTimes : sleep_ticks(n)
  \/ \E c \in Slots : WaitPid(c)
  \/ WaitAny \/ ReapFinishedChild
  \/ Exit
  \/ \E t \in Slots : terminate(t)
  \/ IoRequest

\* ... and the kernel code it is in the middle of.
Kernel == SleepLoop \/ WaitLoop \/ TerminateCurrent \/ IoTest \/ IoYield \/ IoWoken

Next == Program \/ Kernel \/ TimerTick \/ DiskIrq

Spec == Init /\ [][Next]_vars

\* The CPU executes the code it is in the middle of, and the timer interrupt,
\* latched by the interrupt controller, is taken whenever interrupts are on
\* again and again.  Nothing forces a program to make any call.
FairSpec == Spec /\ WF_vars(Kernel) /\ SF_vars(TimerTick)

\* In addition, a drive that works: it answers every command.
FairDriveSpec == FairSpec /\ SF_vars(DiskIrq)

------------------------------------------------------------------------------
(* Properties *)

\* Type invariant of the task table and the scheduler's globals.
TypeOK ==
  /\ state \in [Slots -> TaskState]
  /\ nice \in [Slots -> -20..19]
  /\ credits \in [Slots -> 0..8]
  /\ parent \in [Slots -> Slots]
  /\ waitable \in [Slots -> BOOLEAN]
  /\ wait_for \in [Slots -> 0..MaxTasks]
  /\ wake_tick \in [Slots -> 0..TickMod-1]
  /\ current \in Slots
  /\ task_count \in 1..MaxTasks
  /\ need_resched \in BOOLEAN
  /\ ticks \in 0..TickMod-1
  /\ pc \in [Slots -> PcValues]
  /\ arg \in [Slots -> Nat]
  /\ \A i \in Slots : pc[i] = "wait" => arg[i] \in Slots
  /\ irq_seen \in BOOLEAN /\ locked \in BOOLEAN /\ disk \in {"idle", "busy"}
  /\ born \in [Slots -> 0..MaxLives]
  /\ awaited \in [Slots -> 0..MaxLives]

\* At most one slot is Running and it is CURRENT's, and the task that owns the
\* CPU is marked Running, except around the arming of a disk wait, where an
\* interrupt may already have made it Ready.  yield_now, sleep_ticks,
\* wait_for_io, terminate and the IRQ handler each write that state.
SingleRunner ==
  /\ \A i \in Slots : state[i] = "Running" => i = current
  /\ pc[current] \notin {"io_armed", "io_woken"} => state[current] = "Running"

\* Idle can always be picked, and slots beyond TASK_COUNT are Unused: the scan
\* of pick_next misses no task and yield_now never comes back to a task that
\* has just gone to sleep.
IdleIsSpare ==
  /\ state[IDLE_TASK] \in {"Ready", "Running"}
  /\ \A i \in Slots : state[i] # "Unused" => i \in Table

\* A task in IoWait has not missed its interrupt (the race the comment of
\* wait_for_io describes): if the flag is up, nobody sleeps on it.
NoLostWakeup == \A t \in Slots : state[t] = "IoWait" => ~irq_seen

\* What SingleRunner rests on: idle never leaves its loop, only a task inside
\* wait_for_io is in IoWait, and one that reaches the end of a disk wait
\* without the interrupt has been switched out and in again.
DiskStates ==
  /\ pc[IDLE_TASK] = "run"
  /\ pc[current] = "io_armed" => state[current] \in {"IoWait", "Ready", "Running"}
  /\ pc[current] = "io_woken" => state[current] \in {"Ready", "Running"}
  /\ state[current] = "Ready" => irq_seen

\* The inductive invariant of the proofs.
IInv == TypeOK /\ IdleIsSpare /\ SingleRunner /\ NoLostWakeup /\ DiskStates

\* The device lock is held exactly while one living task is inside a request.
InRequest(t) == state[t] \notin Dead /\ pc[t] \in {"io_test", "io_armed", "io_woken"}
OneRequest ==
  /\ locked <=> \E t \in Slots : InRequest(t)
  /\ \A t, u \in Slots : InRequest(t) /\ InRequest(u) => t = u

\* A task that ends by itself leaves no zombie that nobody can collect, neither
\* its own children nor those a kill has left before: reap_orphans releases
\* every zombie whose parent's slot holds no living task.
StrandedZombie(i) == state[i] = "Terminated" /\ state[parent[i]] \in Dead
ExitReapsOrphans == [][TerminateCurrent => \A i \in Slots : ~StrandedZombie(i)']_vars

\* Whatever a Waiting task waits for is still in its slot (alive or zombie):
\* nobody collected it or reused the slot behind the waiter's back.
WaiterKeepsTarget ==
  \A t \in Slots : state[t] = "Waiting" =>
    LET c == wait_for[t] - 1
    IN  c \in Table \ {t} /\ waitable[c] /\ born[c] = awaited[t]

\* A dead slot comes back to life only through spawn: no wake-up, interrupt or
\* unfinished wait makes a killed task runnable again.
NoResurrection ==
  [][\A i \in Slots : state[i] \in Dead /\ state'[i] \notin Dead => born'[i] = born[i] + 1]_vars

\* No Ready task starves, whatever the others' priorities.
NoStarvation ==
  \A t \in Slots \ {IDLE_TASK} : state[t] = "Ready" ~> (current = t \/ state[t] \in Dead)

\* A sleeping task gets up again, also across the wrap of the tick counter.
SleepersWake ==
  \A t \in Slots : state[t] = "Blocked" ~> (pc[t] = "run" \/ state[t] \in Dead)

\* Once the awaited task is a zombie, waitpid returns (or the waiter dies).
WaitersReturn ==
  \A t \in Slots \ {IDLE_TASK} :
    (state[t] = "Waiting" /\ state[wait_for[t] - 1] = "Terminated")
      ~> (pc[t] = "run" \/ state[t] \in Dead)

\* A disk wait ends, by the interrupt or by the deadline.
IoWaitEnds ==
  \A t \in Slots : state[t] = "IoWait" ~> state[t] # "IoWait"
====
