----------------------------- MODULE Controller -----------------------------
(***************************************************************************)
(* Level-0b2, the layer that watches the kernel (src/kernel/src/level0b2): *)
(* the ring of messages (ipc.rs) that the desktop task empties             *)
(* (level0a/messages.rs), the monitor of the heartbeat (state_monitor.rs)  *)
(* with its fallback (fallback.rs), the count of calls that slows a task   *)
(* down (load_balancer.rs), and the dispatcher over them (dispatcher.rs).  *)
(*                                                                         *)
(* Messages are posted and taken with interrupts off, each in one step.    *)
(* The desktop task works with interrupts on: between two of its steps     *)
(* ticks come and other tasks run.  Faulty_x is a mistake in x that a run  *)
(* has to find.                                                            *)
(***************************************************************************)
EXTENDS Integers, Sequences

CONSTANTS
  MAX_TASKS,             \* tasks 1..MAX_TASKS make calls
  RING_SIZE, MAX_PER_ROUND,
  WINDOW_TICKS, TASK_QUOTA, REPORT_EVERY,
  DEAD_THRESHOLD_TICKS, BUSY_THRESHOLD_TICKS,
  WindowMod,             \* 2^32 in the code
  StallTicks,            \* how long the shell's stall may suppress the heartbeat
  MaxCalls,              \* bound: calls of a task in one window
  ControlOps             \* what the tasks and the shell do, see ControlOpsAssumption

\* "slow_look" lets the desktop task be preempted between the heartbeat and the
\* time it reads: then it may find a silence that was none, see the README.
ASSUME ControlOpsAssumption == ControlOps \subseteq {"call", "stall", "slow_look"}
ASSUME SizesAssumption ==
  /\ {MAX_TASKS, RING_SIZE, MAX_PER_ROUND, WINDOW_TICKS, WindowMod} \subseteq Nat \ {0}
  /\ {TASK_QUOTA, REPORT_EVERY, DEAD_THRESHOLD_TICKS, BUSY_THRESHOLD_TICKS, MaxCalls} \subseteq Nat
  /\ WindowMod > 1
  /\ StallTicks \subseteq Nat

\* A time the code keeps in ticks is here the number of ticks since then (or
\* until then): only such differences are used, and they wrap with the ticks.
VARIABLES
  ring,                            \* ipc.rs: its cells, HEAD and TAIL, and (history) the
                                   \* messages accepted and not yet taken
  suppressed, beaten,              \* pit.rs: ticks until HEARTBEAT_SUPPRESSED_UNTIL, and
                                   \* whether the heartbeat is not LAST_HEARTBEAT
  sinceBeat, FALLBACK_ACTIVE, LAST_REPORTED,   \* state_monitor.rs: ticks since LAST_BEAT_TICK
  desktop,                         \* where the desktop task is in its round
  TASK_WINDOW, TASK_LAST_REPORT,
  sinceRoll, WINDOWS_ROLLED,       \* load_balancer.rs: ticks since WINDOW_START
  call,                            \* per task, the call in progress
  silent,                          \* history: ticks since the last beat, up to the threshold
  reported                         \* history: windows since a task was last reported

monitorVars == <<FALLBACK_ACTIVE, LAST_REPORTED>>
loadVars == <<TASK_WINDOW, TASK_LAST_REPORT, sinceRoll, WINDOWS_ROLLED, reported>>
clockVars == <<sinceBeat, suppressed, beaten, silent>>
controlVars == <<ring, monitorVars, loadVars, clockVars, desktop, call>>

Tasks == 1 .. MAX_TASKS
Cells == 0 .. RING_SIZE - 1
Kinds == {"Task", "HealthChange"}   \* of a task: its start, its end, a fault, a report
NoMessage == "taken"

UpTo(limit, n) == IF n < limit THEN n ELSE limit

------------------------------------------------------------------------------
(* ipc.rs *)

Depth == (ring.HEAD + RING_SIZE - ring.TAIL) % RING_SIZE

\* Fault: no cell is kept free, a full ring looks empty.
Faulty_Posted(r, m) ==
  [r EXCEPT !.cell[r.HEAD] = m, !.HEAD = (r.HEAD + 1) % RING_SIZE, !.accepted = Append(@, m)]

\* A message that finds no room is dropped: the sender never waits.
Posted(r, m) ==
  LET next == (r.HEAD + 1) % RING_SIZE
  IN  IF next = r.TAIL THEN r
      ELSE [r EXCEPT !.cell[r.HEAD] = m, !.HEAD = next, !.accepted = Append(@, m)]

post(m) == ring' = Posted(ring, m)

\* What a taken cell still holds is never read again.  The last messages are
\* also kept for the shell to list, which is left out.
poll ==
  /\ ring.TAIL # ring.HEAD
  /\ ring' = [ring EXCEPT !.cell[ring.TAIL] = NoMessage, !.TAIL = (@ + 1) % RING_SIZE,
                          !.accepted = Tail(@)]

------------------------------------------------------------------------------
(* The desktop task: the monitor, then at most MAX_PER_ROUND messages *)

\* state_monitor::tick reads the heartbeat, which becomes LAST_HEARTBEAT ...
LookAtHeartbeat ==
  /\ desktop.at = "heartbeat"
  /\ desktop' = [desktop EXCEPT !.at = "time", !.beaten = beaten]
  /\ beaten' = FALSE
  /\ UNCHANGED <<ring, monitorVars, loadVars, sinceBeat, suppressed, silent, call>>

Health(fallback, stall) ==
  CASE fallback -> "Dead"
    [] ~fallback /\ stall > BUSY_THRESHOLD_TICKS -> "Busy"
    [] OTHER -> "Healthy"

\* Fault: a silence that makes the system busy makes it dead.
Faulty_TooSilent == sinceBeat > BUSY_THRESHOLD_TICKS

TooSilent == sinceBeat >= DEAD_THRESHOLD_TICKS

\* ... then the time, and decides.  A return of the heartbeat ends the fallback,
\* a silence of DEAD_THRESHOLD_TICKS begins it; both are posted, and so is the
\* change to Busy.
Monitor ==
  /\ desktop.at = "time"
  /\ desktop' = [desktop EXCEPT !.at = "messages", !.beaten = FALSE]
  /\ IF desktop.beaten
     THEN /\ sinceBeat' = 0
          /\ FALLBACK_ACTIVE' = FALSE
          /\ LAST_REPORTED' = "Healthy"
          /\ IF FALLBACK_ACTIVE THEN post("HealthChange") ELSE UNCHANGED ring
     ELSE /\ FALLBACK_ACTIVE' = (FALLBACK_ACTIVE \/ TooSilent)
          /\ LAST_REPORTED' = Health(FALLBACK_ACTIVE', sinceBeat)
          /\ UNCHANGED sinceBeat
          /\ IF FALLBACK_ACTIVE' # FALLBACK_ACTIVE \/ (LAST_REPORTED' = "Busy" /\ LAST_REPORTED # "Busy")
             THEN post("HealthChange") ELSE UNCHANGED ring
  /\ UNCHANGED <<suppressed, beaten, silent, loadVars, call>>

drain ==
  /\ desktop.at = "messages" /\ desktop.handled < MAX_PER_ROUND
  /\ poll
  /\ desktop' = [desktop EXCEPT !.handled = @ + 1]
  /\ UNCHANGED <<monitorVars, loadVars, clockVars, call>>

\* The end of a round is a yield_now.
RoundEnds ==
  /\ desktop.at = "messages"
  /\ ring.TAIL = ring.HEAD \/ desktop.handled = MAX_PER_ROUND
  /\ desktop' = [desktop EXCEPT !.at = "heartbeat", !.handled = 0]
  /\ UNCHANGED <<ring, monitorVars, loadVars, clockVars, call>>

------------------------------------------------------------------------------
(* The timer and the heartbeat *)

\* What pit::on_tick does besides the scheduler's part: load_balancer::on_tick
\* closes a window that has lasted WINDOW_TICKS.  The counts per channel and what
\* else the shell shows of a window are left out.
on_tick ==
  /\ sinceBeat' = UpTo(DEAD_THRESHOLD_TICKS, sinceBeat + 1)
  /\ silent' = UpTo(DEAD_THRESHOLD_TICKS, silent + 1)
  /\ suppressed' = IF suppressed = 0 THEN 0 ELSE suppressed - 1
  /\ IF sinceRoll + 1 < WINDOW_TICKS
     THEN /\ sinceRoll' = sinceRoll + 1
          /\ UNCHANGED <<TASK_WINDOW, WINDOWS_ROLLED, reported>>
     ELSE /\ sinceRoll' = 0
          /\ WINDOWS_ROLLED' = (WINDOWS_ROLLED + 1) % WindowMod
          /\ TASK_WINDOW' = [t \in Tasks |-> 0]
          /\ reported' = [t \in Tasks |-> UpTo(REPORT_EVERY, reported[t] + 1)]
  /\ UNCHANGED <<ring, monitorVars, TASK_LAST_REPORT, beaten, desktop, call>>

\* Fault: while the fallback stands in there is no heartbeat.
Faulty_beat ==
  /\ suppressed = 0 /\ ~FALLBACK_ACTIVE
  /\ beaten' = TRUE /\ silent' = 0
  /\ UNCHANGED <<sinceBeat, suppressed, ring, monitorVars, loadVars, desktop, call>>

\* Every yield_now; until the suppression of the shell is over nothing happens.
beat ==
  /\ suppressed = 0
  /\ beaten' = TRUE /\ silent' = 0
  /\ UNCHANGED <<sinceBeat, suppressed, ring, monitorVars, loadVars, desktop, call>>

\* The shell's stall; one at a time is a bound.
suppress_heartbeat(n) ==
  /\ "stall" \in ControlOps
  /\ suppressed = 0
  /\ suppressed' = n
  /\ UNCHANGED <<beaten, silent, sinceBeat, ring, monitorVars, loadVars, desktop, call>>

------------------------------------------------------------------------------
(* Calls *)

\* Fault: a report in the first window is as good as none.
Faulty_ReportMark(window) == window

\* 0 stands for "never reported".
ReportMark(window) == IF window = 0 THEN 1 ELSE window

\* note_call: a task beyond its quota is to give up the CPU first, and every
\* REPORT_EVERY windows that is reported.  A fault is noted like a call and
\* then posted itself.
note_call(t, fault) ==
  LET count == TASK_WINDOW[t] + 1
      last == TASK_LAST_REPORT[t]
      report == /\ count = TASK_QUOTA + 1
                /\ last = 0 \/ (WINDOWS_ROLLED - last) % WindowMod >= REPORT_EVERY
      told == IF report THEN Posted(ring, "Task") ELSE ring
  IN  /\ TASK_WINDOW[t] < MaxCalls
      /\ TASK_WINDOW' = [TASK_WINDOW EXCEPT ![t] = count]
      /\ TASK_LAST_REPORT' = IF report THEN [TASK_LAST_REPORT EXCEPT ![t] = ReportMark(WINDOWS_ROLLED)]
                             ELSE TASK_LAST_REPORT
      /\ reported' = IF report THEN [reported EXCEPT ![t] = 0] ELSE reported
      /\ ring' = IF fault THEN Posted(told, "Task") ELSE told
      /\ UNCHANGED <<sinceRoll, WINDOWS_ROLLED>>

\* A call enters; a throttled task is in yield_now for a while.
handle_syscall(t) ==
  /\ "call" \in ControlOps
  /\ call[t] = "user"
  /\ note_call(t, FALSE)
  /\ call' = [call EXCEPT ![t] = IF TASK_WINDOW'[t] <= TASK_QUOTA THEN "dispatch" ELSE "yield"]
  /\ UNCHANGED <<monitorVars, clockVars, desktop>>

Scheduled(t) ==
  /\ call[t] = "yield"
  /\ call' = [call EXCEPT ![t] = "dispatch"]
  /\ UNCHANGED <<ring, monitorVars, loadVars, clockVars, desktop>>

\* An ordinary call: done by the subsystem, or by the fallback as far as it goes;
\* the fallback does the same with an exit.
Answered(t) ==
  /\ call[t] = "dispatch"
  /\ call' = [call EXCEPT ![t] = "user"]
  /\ UNCHANGED <<ring, monitorVars, loadVars, clockVars, desktop>>

\* exit, when no fallback stands in.
Exits(t) ==
  /\ call[t] = "dispatch" /\ ~FALLBACK_ACTIVE
  /\ call' = [call EXCEPT ![t] = "none"]
  /\ post("Task")
  /\ UNCHANGED <<monitorVars, loadVars, clockVars, desktop>>

\* exceptions::handle: a fault counts as a call, is posted and
\* ends the task.
Faults(t) ==
  /\ call[t] = "user"
  /\ note_call(t, TRUE)
  /\ call' = [call EXCEPT ![t] = "none"]
  /\ UNCHANGED <<monitorVars, clockVars, desktop>>

\* The next application in the slot: the counts of the last one go on.
AppStarts(t) ==
  /\ call[t] = "none"
  /\ call' = [call EXCEPT ![t] = "user"]
  /\ post("Task")
  /\ UNCHANGED <<monitorVars, loadVars, clockVars, desktop>>

------------------------------------------------------------------------------

ControlInit ==
  /\ ring = [cell |-> [i \in Cells |-> NoMessage], HEAD |-> 0, TAIL |-> 0, accepted |-> <<>>]
  /\ suppressed = 0 /\ beaten = FALSE /\ silent = 0 /\ sinceBeat = 0
  /\ FALLBACK_ACTIVE = FALSE /\ LAST_REPORTED = "Healthy"
  /\ desktop = [at |-> "heartbeat", beaten |-> FALSE, handled |-> 0]
  /\ TASK_WINDOW = [t \in Tasks |-> 0]
  /\ TASK_LAST_REPORT = [t \in Tasks |-> 0] /\ sinceRoll = 0 /\ WINDOWS_ROLLED = 0
  /\ reported = [t \in Tasks |-> REPORT_EVERY]
  /\ call = [t \in Tasks |-> "none"]

Desktop == LookAtHeartbeat \/ Monitor \/ drain \/ RoundEnds

Task(t) == handle_syscall(t) \/ Scheduled(t) \/ Answered(t) \/ Exits(t) \/ Faults(t) \/ AppStarts(t)

Other == on_tick \/ beat \/ (\E n \in StallTicks : suppress_heartbeat(n)) \/ (\E t \in Tasks : Task(t))

\* With slow_look left out the desktop task is not preempted between the two
\* values it reads.
ControlNext ==
  \/ Desktop
  \/ (desktop.at = "time" => "slow_look" \in ControlOps) /\ Other

ControlSpec == ControlInit /\ [][ControlNext]_controlVars

\* The timer ticks and the desktop task gets its turn (NoStarvation of Scheduler).
\* yield_now is called for ever, by the shell also between two commands: however
\* often it suppresses the heartbeat, the end of one suppression meets a beat.
FairControlSpec == ControlSpec /\ WF_controlVars(on_tick) /\ SF_controlVars(beat) /\ WF_controlVars(Desktop)

------------------------------------------------------------------------------
(* Properties *)

\* Type invariant.
ControllerTypeOK ==
  /\ ring.cell \in [Cells -> Kinds \union {NoMessage}]
  /\ ring.HEAD \in Cells /\ ring.TAIL \in Cells /\ Len(ring.accepted) < RING_SIZE
  /\ sinceBeat \in 0 .. DEAD_THRESHOLD_TICKS /\ sinceRoll \in 0 .. WINDOW_TICKS - 1
  /\ suppressed \in Nat
  /\ FALLBACK_ACTIVE \in BOOLEAN /\ beaten \in BOOLEAN
  /\ LAST_REPORTED \in {"Healthy", "Busy", "Dead"}
  /\ \A t \in Tasks : TASK_WINDOW[t] \in 0 .. MaxCalls /\ TASK_LAST_REPORT[t] \in 0 .. WindowMod - 1
  /\ call \in [Tasks -> {"none", "user", "yield", "dispatch"}]
  /\ desktop.handled \in 0 .. MAX_PER_ROUND

\* Between TAIL and HEAD are exactly the messages that were accepted and not yet
\* taken, in their order (post, poll): those posted while the ring is full are
\* dropped and harm none of the others.
RingHolds ==
  /\ Depth = Len(ring.accepted)
  /\ \A k \in DOMAIN ring.accepted : ring.cell[(ring.TAIL + k - 1) % RING_SIZE] = ring.accepted[k]

\* A task over its quota fills the ring with reports no faster than one in
\* REPORT_EVERY windows (note_call), also where the count of windows wraps.
ReportsSpaced ==
  [][\A t \in Tasks : TASK_LAST_REPORT'[t] # TASK_LAST_REPORT[t] => reported[t] >= REPORT_EVERY]_controlVars

\* The fallback takes over only after a silence of DEAD_THRESHOLD_TICKS.
DeadOnlyWhenSilent ==
  [][FALLBACK_ACTIVE' /\ ~FALLBACK_ACTIVE => silent >= DEAD_THRESHOLD_TICKS]_controlVars

\* It gives the control back: a suppression ends and the heartbeat is seen again.
FallbackEnds == FALLBACK_ACTIVE ~> ~FALLBACK_ACTIVE

\* What the layer keeps is consistent: beside the types, the ring holds exactly the
\* messages accepted and not yet taken, however full it was (ipc.rs post, poll).
ControllerInv == ControllerTypeOK /\ RingHolds
====
