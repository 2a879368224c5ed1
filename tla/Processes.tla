------------------------------ MODULE Processes ------------------------------
(***************************************************************************)
(* Which program a task runs, and what signals do to it: the launcher's    *)
(* queue and the requests of execve (src/kernel/src/level0a/launcher.rs),  *)
(* the start of an application and of a fork child (level0b1/process.rs,   *)
(* fork.rs), and signals (level0b1/signal.rs).                             *)
(*                                                                         *)
(* A system call is one action, with the delivery of signals at its end    *)
(* (level0b2/dispatcher.rs).  Starting and leaving run with interrupts on  *)
(* and are cut into steps.  A zombie is collected at once, its slot then   *)
(* is free.  Faulty_x is a mistake in x that a run has to find.            *)
(***************************************************************************)
EXTENDS Integers, Sequences, FiniteSets

CONSTANTS
  MaxTask,      \* slots of applications
  MAX_PENDING,  \* cells of the launcher's queue; one is never used
  Program,
  Signal,       \* the numbers of the signals that can be caught
  Ops           \* what an instance lets happen, see OpsAssumption

\* Each of these leads to one of the states the README describes:
\*   child_exec      a fork child calls execve
\*   handler_fork    a handler calls fork
\*   kill_starting   a task is killed before it has taken its path off the queue
\*   kill_exec       a task is killed between its call of execve and the new program
\*   full            there may be no slot for an application already in the queue
ASSUME TasksAssumption   == MaxTask \in Nat \ {0}
ASSUME QueueAssumption   == MAX_PENDING \in Nat \ {0}
ASSUME SignalsAssumption == Signal \subseteq Nat \ {0}
ASSUME OpsAssumption ==
  Ops \subseteq {"child_exec", "handler_fork", "kill_starting", "kill_exec", "full"}

VARIABLES
  life,         \* how far the task in a slot has got, see Lives
  forked,       \* its entry is child_task and not app_task
  program,      \* the program it runs or is about to
  queue,        \* PENDING of launcher.rs
  launching,    \* the shell has put a path into the queue and makes the task next
  EXEC_PATH,    \* the request of execve
  sigs,         \* per slot, what signal.rs keeps of it and the registers in ring 3
  interrupted,  \* history: the contexts its running handlers have interrupted
  stale         \* history: pending signals that were sent to an earlier program

launchVars == <<forked, program, queue, launching, EXEC_PATH>>
signalVars == <<sigs, interrupted, stale>>
vars == <<life, launchVars, signalVars>>

Tasks == 1 .. MaxTask
NoProgram == "none"
NoSignal == 0

\* free; spawned and not yet run; image being loaded; fork child not yet run;
\* in ring 3; back from it.
Lives == {"free", "starting", "image", "child", "user", "left"}

\* The registers in ring 3, as far as signals tell them apart: the handler the
\* program counter is in.
Context == Signal \union {NoSignal}

\* SIG_DFL, SIG_IGN, or a handler of a program.
Default == "default"
Ignore == "ignore"
Handlers == {Default, Ignore} \union Program

SlotSignals ==
  [context : Context, PENDING : SUBSET Signal, handler : [Signal -> Handlers],
   IN_HANDLER : BOOLEAN, SAVED : Context]

Blank == [context |-> NoSignal, PENDING |-> {}, handler |-> [s \in Signal |-> Default],
          IN_HANDLER |-> FALSE, SAVED |-> NoSignal]

FreeTasks == {t \in Tasks : life[t] = "free"}
NewTask == CHOOSE t \in FreeTasks : \A u \in FreeTasks : t <= u

------------------------------------------------------------------------------
(* Delivery *)

Due(s) == {signo \in s.PENDING : s.handler[signo] # Ignore}
LowestDue(s) == CHOOSE signo \in Due(s) : \A other \in Due(s) : signo <= other

\* The loop takes signals off in their order until one is not ignored.
TakenOff(s) ==
  IF Due(s) = {} THEN s.PENDING ELSE {signo \in s.PENDING : signo <= LowestDue(s)}

\* Fault: a handler may be interrupted by the next signal.
Faulty_deliver_pending(c, stack_valid) ==
  LET s == [c.s EXCEPT !.PENDING = @ \ TakenOff(c.s)]
      signo == LowestDue(c.s)
  IN  CASE Due(c.s) = {} -> [c EXCEPT !.s = s]
        [] Due(c.s) # {} /\ (c.s.handler[signo] = Default \/ ~stack_valid) ->
             [c EXCEPT !.s = s, !.life = "left"]
        [] OTHER ->
             [c EXCEPT !.s = [s EXCEPT !.SAVED = s.context, !.context = signo, !.IN_HANDLER = TRUE],
                       !.interrupted = Append(@, s.context)]

\* The end of every system call: the task is redirected to a handler, or ended
\* by a default action or by a stack that takes no signal frame.
deliver_pending(c, stack_valid) ==
  LET s == [c.s EXCEPT !.PENDING = @ \ TakenOff(c.s)]
      signo == LowestDue(c.s)
  IN  CASE c.s.IN_HANDLER -> c
        [] ~c.s.IN_HANDLER /\ Due(c.s) = {} -> [c EXCEPT !.s = s]
        [] ~c.s.IN_HANDLER /\ Due(c.s) # {} /\ (c.s.handler[signo] = Default \/ ~stack_valid) ->
             [c EXCEPT !.s = s, !.life = "left"]
        [] OTHER ->
             [c EXCEPT !.s = [s EXCEPT !.SAVED = s.context, !.context = signo, !.IN_HANDLER = TRUE],
                       !.interrupted = Append(@, s.context)]

\* Task t comes back to ring 3 from a system call that has made w of the world.
Return(t, w) ==
  \E stack_valid \in BOOLEAN :
    LET d == deliver_pending([s |-> w.sigs[t], life |-> w.life[t], interrupted |-> w.interrupted[t]],
                             stack_valid)
    IN  /\ sigs' = [w.sigs EXCEPT ![t] = d.s]
        /\ life' = [w.life EXCEPT ![t] = d.life]
        /\ interrupted' = [w.interrupted EXCEPT ![t] = d.interrupted]
        /\ stale' = [w.stale EXCEPT ![t] = @ \intersect d.s.PENDING]

------------------------------------------------------------------------------
(* The launcher *)

\* The first half of spawn_user_app: the path goes into the queue ...
spawn_user_app(p) ==
  /\ ~launching
  /\ Len(queue) < MAX_PENDING - 1
  /\ FreeTasks = {} => "full" \in Ops
  /\ queue' = Append(queue, p)
  /\ launching' = TRUE
  /\ UNCHANGED <<life, forked, program, EXEC_PATH, signalVars>>

\* ... and the task is made; interrupts were on in between.
spawn ==
  /\ launching
  /\ FreeTasks = {} => "full" \in Ops
  /\ launching' = FALSE
  /\ IF FreeTasks = {} THEN UNCHANGED <<life, forked>>
     ELSE /\ life' = [life EXCEPT ![NewTask] = "starting"]
          /\ forked' = [forked EXCEPT ![NewTask] = FALSE]
  /\ UNCHANGED <<program, queue, EXEC_PATH, signalVars>>

\* The slot has another program from here on: what is pending was not sent to it.
Runs(t, p) ==
  /\ program' = [program EXCEPT ![t] = p]
  /\ stale' = [stale EXCEPT ![t] = sigs'[t].PENDING]

\* Fault: the path is read and not taken.
Faulty_TakePending(t) ==
  /\ life[t] = "starting"
  /\ queue # <<>>
  /\ life' = [life EXCEPT ![t] = "image"]
  /\ UNCHANGED <<sigs, interrupted>>
  /\ Runs(t, Head(queue))
  /\ UNCHANGED <<forked, queue, launching, EXEC_PATH>>

\* app_task begins: without a path it ends at once.
TakePending(t) ==
  /\ life[t] = "starting"
  /\ IF queue = <<>>
     THEN life' = [life EXCEPT ![t] = "free"] /\ UNCHANGED <<queue, program, signalVars>>
     ELSE /\ life' = [life EXCEPT ![t] = "image"]
          /\ queue' = Tail(queue)
          /\ UNCHANGED <<sigs, interrupted>>
          /\ Runs(t, Head(queue))
  /\ UNCHANGED <<forked, launching, EXEC_PATH>>

\* run_image fails: no such file, no memory, not an image.
LoadFails(t) ==
  /\ life[t] = "image"
  /\ life' = [life EXCEPT ![t] = "left"]
  /\ UNCHANGED <<forked, program, queue, launching, EXEC_PATH, signalVars>>

\* Fault: what is pending stays.
Faulty_reset(s) == [s EXCEPT !.handler = Blank.handler, !.IN_HANDLER = FALSE]

reset(s) == [s EXCEPT !.handler = Blank.handler, !.IN_HANDLER = FALSE, !.PENDING = {}]

EnterRing3(t) ==
  /\ life[t] = "image"
  /\ life' = [life EXCEPT ![t] = "user"]
  /\ sigs' = [sigs EXCEPT ![t] = [reset(@) EXCEPT !.context = NoSignal]]
  /\ interrupted' = [interrupted EXCEPT ![t] = <<>>]
  /\ stale' = [stale EXCEPT ![t] = @ \intersect sigs'[t].PENDING]
  /\ UNCHANGED <<forked, program, queue, launching, EXEC_PATH>>

\* Fault: the request stays in its slot.
Faulty_take_exec(t) == UNCHANGED EXEC_PATH

take_exec(t) == EXEC_PATH' = [EXEC_PATH EXCEPT ![t] = NoProgram]

\* Back in app_task: the next program, or the end of the task.
NextProgram(t) ==
  /\ life[t] = "left" /\ ~forked[t]
  /\ EXEC_PATH[t] # NoProgram
  /\ take_exec(t)
  /\ life' = [life EXCEPT ![t] = "image"]
  /\ UNCHANGED <<sigs, interrupted>>
  /\ Runs(t, EXEC_PATH[t])
  /\ UNCHANGED <<forked, queue, launching>>

\* A fork child ends whatever it has asked for.
Ends(t) ==
  /\ life[t] = "left"
  /\ forked[t] \/ EXEC_PATH[t] = NoProgram
  /\ life' = [life EXCEPT ![t] = "free"]
  /\ UNCHANGED <<forked, program, queue, launching, EXEC_PATH, signalVars>>

------------------------------------------------------------------------------
(* System calls *)

InRing3(t) == life[t] = "user"

World == [sigs |-> sigs, life |-> life, interrupted |-> interrupted, stale |-> stale]

\* Any call that changes nothing here: where signals arrive.
Call(t) ==
  /\ InRing3(t)
  /\ Return(t, World)
  /\ UNCHANGED launchVars

Exit(t) ==
  /\ InRing3(t)
  /\ life' = [life EXCEPT ![t] = "left"]
  /\ UNCHANGED <<launchVars, signalVars>>

\* The request is noted, and the program left without a look at its signals.
execve(t, p) ==
  /\ InRing3(t)
  /\ forked[t] => "child_exec" \in Ops
  /\ EXEC_PATH' = [EXEC_PATH EXCEPT ![t] = p]
  /\ life' = [life EXCEPT ![t] = "left"]
  /\ UNCHANGED <<forked, program, queue, launching, signalVars>>

\* signal.rs: handlers are copied, pending signals are not.
clone_into(parent, child) ==
  [child EXCEPT !.handler = parent.handler, !.IN_HANDLER = FALSE, !.PENDING = {}]

\* The child returns from the same call, with 0; the parent may be redirected
\* on its way out.
fork(t) ==
  /\ InRing3(t)
  /\ FreeTasks # {}
  /\ sigs[t].context # NoSignal => "handler_fork" \in Ops
  /\ LET child == [clone_into(sigs[t], sigs[NewTask]) EXCEPT !.context = sigs[t].context]
     IN  Return(t, [sigs |-> [sigs EXCEPT ![NewTask] = child],
                    life |-> [life EXCEPT ![NewTask] = "child"],
                    interrupted |-> [interrupted EXCEPT ![NewTask] = interrupted[t]],
                    stale |-> [stale EXCEPT ![NewTask] = child.PENDING]])
  /\ forked' = [forked EXCEPT ![NewTask] = TRUE]
  /\ program' = [program EXCEPT ![NewTask] = program[t]]
  /\ UNCHANGED <<queue, launching, EXEC_PATH>>

\* child_task.
ChildRuns(t) ==
  /\ life[t] = "child"
  /\ life' = [life EXCEPT ![t] = "user"]
  /\ UNCHANGED <<launchVars, signalVars>>

\* signal(signo, handler).
set_handler(t, signo, h) ==
  /\ InRing3(t)
  /\ Return(t, [World EXCEPT !.sigs[t].handler[signo] = h])
  /\ UNCHANGED launchVars

\* kill(u, signo) of a signal that waits for its delivery.
raise(t, u, signo) ==
  /\ InRing3(t)
  /\ life[u] # "free"
  /\ Return(t, [World EXCEPT !.sigs[u].PENDING = @ \union {signo}, !.stale[u] = @ \ {signo}])
  /\ UNCHANGED launchVars

Killable(u) ==
  /\ life[u] # "free"
  /\ life[u] = "starting" => "kill_starting" \in Ops
  /\ life[u] = "left" /\ EXEC_PATH[u] # NoProgram => "kill_exec" \in Ops

\* SIGKILL, from another process or from the shell.  To itself it is an exit.
Killed(u) ==
  /\ Killable(u)
  /\ life' = [life EXCEPT ![u] = "free"]
  /\ UNCHANGED <<launchVars, signalVars>>

\* What the call restores.
sigreturn(s) == [s EXCEPT !.IN_HANDLER = FALSE, !.context = s.SAVED]

\* A handler returns: the trampoline calls sigreturn.  Outside of a handler, as
\* signal.rs counts it, that is an error.
Sigreturn(t) ==
  /\ InRing3(t)
  /\ sigs[t].context # NoSignal
  /\ IF sigs[t].IN_HANDLER
     THEN Return(t, [World EXCEPT !.sigs[t] = sigreturn(@), !.interrupted[t] = SubSeq(@, 1, Len(@) - 1)])
     ELSE Return(t, World)
  /\ UNCHANGED launchVars

------------------------------------------------------------------------------

Init ==
  /\ life = [t \in Tasks |-> "free"]
  /\ forked = [t \in Tasks |-> FALSE]
  /\ program = [t \in Tasks |-> NoProgram]
  /\ queue = <<>>
  /\ launching = FALSE
  /\ EXEC_PATH = [t \in Tasks |-> NoProgram]
  /\ sigs = [t \in Tasks |-> Blank]
  /\ interrupted = [t \in Tasks |-> <<>>]
  /\ stale = [t \in Tasks |-> {}]

SystemCall(t) ==
  \/ Call(t) \/ Exit(t) \/ fork(t) \/ Sigreturn(t)
  \/ \E p \in Program : execve(t, p)
  \/ \E signo \in Signal, h \in {Default, Ignore, program[t]} : set_handler(t, signo, h)
  \/ \E signo \in Signal, u \in Tasks : raise(t, u, signo)

\* Steps of the kernel on behalf of a task that is not in ring 3.
Kernel(t) ==
  TakePending(t) \/ LoadFails(t) \/ EnterRing3(t) \/ NextProgram(t) \/ Ends(t) \/ ChildRuns(t)

Next ==
  \/ spawn
  \/ \E p \in Program : spawn_user_app(p)
  \/ \E t \in Tasks : SystemCall(t) \/ Kernel(t) \/ Killed(t)

Spec == Init /\ [][Next]_vars

------------------------------------------------------------------------------
(* Properties *)

\* Type invariant.
ProcTypeOK ==
  /\ life \in [Tasks -> Lives]
  /\ forked \in [Tasks -> BOOLEAN]
  /\ program \in [Tasks -> Program \union {NoProgram}]
  /\ queue \in Seq(Program) /\ Len(queue) < MAX_PENDING
  /\ launching \in BOOLEAN
  /\ EXEC_PATH \in [Tasks -> Program \union {NoProgram}]
  /\ sigs \in [Tasks -> SlotSignals]
  /\ interrupted \in [Tasks -> Seq(Context)]
  /\ stale \in [Tasks -> SUBSET Signal]

\* The launcher hands paths over by their number only (spawn_user_app, app_task):
\* there is one in the queue for each task that will take one, so that none finds
\* it empty and none is left for a task that was to run something else.
QueueServesStarts ==
  Len(queue) = Cardinality({t \in Tasks : life[t] = "starting"}) + (IF launching THEN 1 ELSE 0)

\* A request of execve lives from the call to the loop of app_task in the same
\* task (request_exec, take_exec): no later program of the slot finds it.
RequestsAnswered ==
  \A t \in Tasks : EXEC_PATH[t] # NoProgram => life[t] = "left" /\ ~forked[t]

\* What a program in ring 3 has of signals is its own (reset, clone_into): no
\* signal is pending that was sent to an earlier program in its slot, and no
\* handler is an address in an earlier program.
NothingInherited ==
  \A t \in Tasks :
    life[t] = "user" =>
      /\ stale[t] = {}
      /\ \A signo \in Signal : sigs[t].handler[signo] \in {Default, Ignore, program[t]}

\* A process is in at most one handler, and where it was interrupted is what
\* sigreturn will restore (deliver_pending, sigreturn, clone_into).
HandlerCanReturn ==
  \A t \in Tasks :
    life[t] = "user" =>
      IF sigs[t].context = NoSignal
      THEN interrupted[t] = <<>> /\ ~sigs[t].IN_HANDLER
      ELSE interrupted[t] = <<sigs[t].SAVED>> /\ sigs[t].IN_HANDLER

\* What the launcher keeps is consistent: beside the types, as many paths wait in
\* the queue as there are tasks that will take one (spawn_user_app, app_task).
ProcInv == ProcTypeOK /\ QueueServesStarts
====
