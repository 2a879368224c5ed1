-------------------------------- MODULE Files --------------------------------
(***************************************************************************)
(* The descriptor tables of src/kernel/src/level0a/core/fd.rs over the     *)
(* pipes of Pipe: one table per task, copied by fork, emptied when a task  *)
(* ends, and the calls of kernel_api that go through it, with poll.        *)
(*                                                                         *)
(* A system call runs with interrupts off: one action, but for the sleep   *)
(* inside poll.  The shell is a kernel task; its kill command can be       *)
(* interrupted between marking the task dead and closing its table.        *)
(*                                                                         *)
(* Who collects a zombie is the subject of Scheduler; here it just happens.*)
(* As there, Faulty_x is a mistake in x that a run has to find.            *)
(***************************************************************************)
EXTENDS Pipe, FiniteSets

CONSTANTS
  MaxTask,        \* tasks 1..MaxTask have tables (0 is idle)
  MAX_FDS, FIRST_FREE_FD,
  Ops             \* which of these calls the tasks of an instance make; "takeover":
                  \* a fork takes the slot of a shell's kill that is half done

ASSUME TaskAssumption == MaxTask \in Nat \ {0}
ASSUME FdAssumption   == MAX_FDS \in Nat /\ FIRST_FREE_FD \in Nat /\ FIRST_FREE_FD < MAX_FDS
ASSUME OpsAssumption  == Ops \subseteq {"open", "io", "poll", "kill", "shellkill", "takeover"}

VARIABLES
  life,      \* per task slot: "free", "live", "leaving" (out of user mode) or "zombie"
  waitable,  \* made by fork: stays a zombie
  fds,       \* TABLES
  polling,   \* the poll a task is in the middle of
  killing    \* the task whose table the shell's kill has still to close

fileVars == <<life, waitable, fds, polling, killing>>
vars == <<pipeVars, fileVars>>

Tasks == 1 .. MaxTask
Fds == 0 .. MAX_FDS - 1
Kinds == {"File", "PipeRead", "PipeWrite"}
NoTask == 0

\* A descriptor; the node of a file and its offset are left out.
Empty == [kind |-> "none", node |-> 0]
Entry == {Empty} \union [kind : {"File"}, node : {0}]
                 \union [kind : {"PipeRead", "PipeWrite"}, node : PipeIndex]
EmptyTable == [fd \in Fds |-> Empty]

IsPipe(e) == e.kind \in {"PipeRead", "PipeWrite"}
Used(t, fd) == fds[t][fd] # Empty

\* The lowest free descriptors of a table, as allocate, allocate_pipe and dup
\* search it: 0, 1 and 2 are only ever filled by dup2.
FreeFds(t) == {fd \in Fds : fd >= FIRST_FREE_FD /\ ~Used(t, fd)}
FirstFreeFd(S) == CHOOSE fd \in S : \A other \in S : fd <= other

retain(ps, e) == IF IsPipe(e) THEN add_ref(ps, e.node, e.kind = "PipeWrite") ELSE ps
release(ps, e) == IF IsPipe(e) THEN close_end(ps, e.node, e.kind = "PipeWrite") ELSE ps

\* Fault: a copied table holds no references of its own.
Faulty_RetainAll(ps, table) == ps

\* The loops of clone_into and close_all over a table.
RetainAll(ps, table) ==
  LET after[n \in 0..MAX_FDS] == IF n = 0 THEN ps ELSE retain(after[n - 1], table[n - 1])
  IN  after[MAX_FDS]
ReleaseAll(ps, table) ==
  LET after[n \in 0..MAX_FDS] == IF n = 0 THEN ps ELSE release(after[n - 1], table[n - 1])
  IN  after[MAX_FDS]

------------------------------------------------------------------------------
(* Calls on descriptors *)

\* Task t is in its own code and may make a system call.
InUserMode(t) == life[t] = "live" /\ polling[t] = <<>>

SetFd(t, fd, e) == fds' = [fds EXCEPT ![t][fd] = e]

open(t) ==
  /\ "open" \in Ops
  /\ InUserMode(t)
  /\ FreeFds(t) # {}
  /\ SetFd(t, FirstFreeFd(FreeFds(t)), [kind |-> "File", node |-> 0])
  /\ UNCHANGED <<pipeVars, life, waitable, polling, killing>>

\* create_pipe: without room for both descriptors the pipe is given back.
create_pipe(t) ==
  LET i == NewPipe(PIPES)
      r == FirstFreeFd(FreeFds(t))
      w == FirstFreeFd(FreeFds(t) \ {r})
  IN  /\ InUserMode(t)
      /\ FreePipes(PIPES) # {}
      /\ \/ /\ Cardinality(FreeFds(t)) >= 2
            /\ PIPES' = created(PIPES)
            /\ fds' = [fds EXCEPT ![t] = [@ EXCEPT ![r] = [kind |-> "PipeRead", node |-> i],
                                                   ![w] = [kind |-> "PipeWrite", node |-> i]]]
         \/ /\ Cardinality(FreeFds(t)) < 2
            /\ PIPES' = close_end(close_end(created(PIPES), i, FALSE), i, TRUE)
            /\ UNCHANGED fds
      /\ sent' = [sent EXCEPT ![i] = <<>>]
      /\ UNCHANGED <<BUFFERS, life, waitable, polling, killing>>

\* read and write through the table; the wrong end is an error.
ReadFd(t, fd, n) ==
  /\ "io" \in Ops
  /\ InUserMode(t)
  /\ fds[t][fd].kind = "PipeRead"
  /\ read(fds[t][fd].node, n)
  /\ UNCHANGED fileVars
WriteFd(t, fd, bytes) ==
  /\ "io" \in Ops
  /\ InUserMode(t)
  /\ fds[t][fd].kind = "PipeWrite"
  /\ write(fds[t][fd].node, bytes)
  /\ UNCHANGED fileVars

dup(t, oldfd) ==
  /\ InUserMode(t)
  /\ Used(t, oldfd)
  /\ FreeFds(t) # {}
  /\ SetFd(t, FirstFreeFd(FreeFds(t)), fds[t][oldfd])
  /\ PIPES' = retain(PIPES, fds[t][oldfd])
  /\ UNCHANGED <<BUFFERS, sent, life, waitable, polling, killing>>

\* dup2: what newfd held is released first; the same number is left alone.
dup2(t, oldfd, newfd) ==
  /\ InUserMode(t)
  /\ Used(t, oldfd)
  /\ oldfd # newfd
  /\ SetFd(t, newfd, fds[t][oldfd])
  /\ PIPES' = retain(release(PIPES, fds[t][newfd]), fds[t][oldfd])
  /\ UNCHANGED <<BUFFERS, sent, life, waitable, polling, killing>>

close(t, fd) ==
  /\ InUserMode(t)
  /\ Used(t, fd)
  /\ SetFd(t, fd, Empty)
  /\ PIPES' = release(PIPES, fds[t][fd])
  /\ UNCHANGED <<BUFFERS, sent, life, waitable, polling, killing>>

------------------------------------------------------------------------------
(* Tasks *)

\* The slot spawn_inner takes.
FreeTasks == {t \in Tasks : life[t] = "free"}
NewTask == CHOOSE t \in FreeTasks : \A u \in FreeTasks : t <= u

\* An application started by the shell: its table is left as it is found.
Start ==
  /\ FreeTasks # {}
  /\ killing = NoTask
  /\ life' = [life EXCEPT ![NewTask] = "live"]
  /\ waitable' = [waitable EXCEPT ![NewTask] = FALSE]
  /\ UNCHANGED <<pipeVars, fds, polling, killing>>

\* fork: clone_into writes over whatever the child's table holds.
fork(t) ==
  /\ InUserMode(t)
  /\ \A i \in PipeIndex : PIPES[i].writers <= MaxRefs /\ PIPES[i].readers <= MaxRefs \* a bound
  /\ FreeTasks # {}
  /\ NewTask = killing => "takeover" \in Ops
  /\ life' = [life EXCEPT ![NewTask] = "live"]
  /\ waitable' = [waitable EXCEPT ![NewTask] = TRUE]
  /\ fds' = [fds EXCEPT ![NewTask] = fds[t]]
  /\ PIPES' = RetainAll(PIPES, fds[t])
  /\ UNCHANGED <<BUFFERS, sent, polling, killing>>

\* exit leaves user mode; the task then cleans up in the kernel ...
Exit(t) ==
  /\ InUserMode(t)
  /\ life' = [life EXCEPT ![t] = "leaving"]
  /\ UNCHANGED <<pipeVars, waitable, fds, polling, killing>>

Dies(t) == /\ life' = [life EXCEPT ![t] = IF waitable[t] THEN "zombie" ELSE "free"]
           /\ polling' = [polling EXCEPT ![t] = <<>>]

\* Fault: the ends are given back but the entries stay.
Faulty_close_all(t) == PIPES' = ReleaseAll(PIPES, fds[t]) /\ UNCHANGED fds

close_all(t) ==
  /\ PIPES' = ReleaseAll(PIPES, fds[t])
  /\ fds' = [fds EXCEPT ![t] = EmptyTable]

\* ... and ends in terminate_current.
TerminateCurrent(t) ==
  /\ life[t] = "leaving"
  /\ close_all(t)
  /\ Dies(t)
  /\ UNCHANGED <<BUFFERS, sent, waitable, killing>>

\* kill(pid, SIGKILL) by another task: terminate, all of it with interrupts off.
Kill(t, victim) ==
  /\ "kill" \in Ops
  /\ InUserMode(t)
  /\ victim # t /\ life[victim] \in {"live", "leaving"}
  /\ close_all(victim)
  /\ Dies(victim)
  /\ UNCHANGED <<BUFFERS, sent, waitable, killing>>

\* terminate from the shell: the task is dead and its slot perhaps free ...
ShellKill(victim) ==
  /\ "shellkill" \in Ops
  /\ killing = NoTask
  /\ life[victim] \in {"live", "leaving"}
  /\ Dies(victim)
  /\ killing' = victim
  /\ UNCHANGED <<pipeVars, waitable, fds>>

\* ... before its descriptors are closed.
ShellKillEnds ==
  /\ killing # NoTask
  /\ close_all(killing)
  /\ killing' = NoTask
  /\ UNCHANGED <<BUFFERS, sent, life, waitable, polling>>

\* A zombie is collected: wait_for_task, reap_finished_child or reap_orphans.
Reaped(t) ==
  /\ life[t] = "zombie"
  /\ life' = [life EXCEPT ![t] = "free"]
  /\ UNCHANGED <<pipeVars, waitable, fds, polling, killing>>

------------------------------------------------------------------------------
(* poll *)

\* What poll reports of one descriptor; the unredirected 0, 1 and 2 are left out.
readiness(e) ==
  IF e.kind = "File" THEN {"POLLIN", "POLLOUT"}
  ELSE IF e.kind = "none" \/ ~PIPES[e.node].used THEN {"POLLNVAL"}
  ELSE LET p == PIPES[e.node]
       IN  IF e.kind = "PipeRead"
             THEN {ev \in {"POLLIN"} : Pending(p) > 0} \union {ev \in {"POLLHUP"} : p.writers = 0}
             ELSE IF p.readers = 0 THEN {"POLLERR"}
                  ELSE {ev \in {"POLLOUT"} : Pending(p) < PIPE_CAPACITY}

\* Fault: only what was asked for is reported.
Faulty_revents(t, fd, events) == readiness(fds[t][fd]) \intersect events

revents(t, fd, events) ==
  readiness(fds[t][fd]) \intersect (events \union {"POLLERR", "POLLHUP", "POLLNVAL"})

\* Nothing is ready: the task sleeps.  timed: a limit was given, so the loop
\* may also end by itself.
poll(t, fd, events, timed) ==
  /\ "poll" \in Ops
  /\ InUserMode(t)
  /\ revents(t, fd, events) = {}
  /\ polling' = [polling EXCEPT ![t] = <<fd, events, timed>>]
  /\ UNCHANGED <<pipeVars, life, waitable, fds, killing>>

\* Another round after a tick: something is ready, or the limit has passed.
PollEnds(t) ==
  /\ polling[t] # <<>>
  /\ revents(t, polling[t][1], polling[t][2]) # {} \/ polling[t][3]
  /\ polling' = [polling EXCEPT ![t] = <<>>]
  /\ UNCHANGED <<pipeVars, life, waitable, fds, killing>>

------------------------------------------------------------------------------
(* The specification *)

Init ==
  /\ PipeInit
  /\ life = [t \in Tasks |-> "free"]
  /\ waitable = [t \in Tasks |-> FALSE]
  /\ fds = [t \in Tasks |-> EmptyTable]
  /\ polling = [t \in Tasks |-> <<>>]
  /\ killing = NoTask

Call(t) ==
  \/ open(t) \/ create_pipe(t) \/ fork(t) \/ Exit(t)
  \/ \E fd \in Fds :
       \/ dup(t, fd) \/ close(t, fd)
       \/ \E newfd \in Fds : dup2(t, fd, newfd)
       \/ \E n \in 1..MaxWrite : ReadFd(t, fd, n)
       \/ \E bytes \in Messages : WriteFd(t, fd, bytes)
       \/ \E ev \in {"POLLIN", "POLLOUT"}, timed \in BOOLEAN : poll(t, fd, {ev}, timed)
  \/ \E victim \in Tasks : Kill(t, victim)

Next ==
  \/ Start \/ ShellKillEnds
  \/ \E t \in Tasks : Call(t) \/ TerminateCurrent(t) \/ PollEnds(t) \/ ShellKill(t) \/ Reaped(t)

Spec == Init /\ [][Next]_vars

\* A sleeper of sleep_ticks(1) gets up and goes round the loop of poll again.
FairSpec == Spec /\ \A t \in Tasks : WF_vars(PollEnds(t))

------------------------------------------------------------------------------
(* Properties *)

\* Type invariant of the descriptor tables.
FilesTypeOK ==
  /\ PipeTypeOK
  /\ life \in [Tasks -> {"free", "live", "leaving", "zombie"}]
  /\ waitable \in [Tasks -> BOOLEAN]
  /\ fds \in [Tasks -> [Fds -> Entry]]
  /\ polling \in [Tasks -> {<<>>} \union (Fds \X (SUBSET {"POLLIN", "POLLOUT"}) \X BOOLEAN)]
  /\ killing \in Tasks \union {NoTask}

\* The descriptors that hold one end of a pipe, in all tables.
HoldersOf(i, k) == {tf \in Tasks \X Fds : fds[tf[1]][tf[2]] = [kind |-> k, node |-> i]}

\* The counters of a pipe are the numbers of descriptors on its two ends, and
\* it is in use exactly while there are any: through dup, dup2, fork, failed
\* calls, exits and kills no end is lost (the pipe would never be freed, its
\* reader never see the end) and none counted twice (freed under its users).
EndsCounted ==
  \A i \in PipeIndex :
    /\ PIPES[i].writers = Cardinality(HoldersOf(i, "PipeWrite"))
    /\ PIPES[i].readers = Cardinality(HoldersOf(i, "PipeRead"))
    /\ PIPES[i].used <=> (PIPES[i].writers > 0 \/ PIPES[i].readers > 0)

\* A task that has ended holds no descriptor, so the next one in its slot
\* inherits none (but for the one the shell's kill is still cleaning up).
DeadHoldNothing ==
  \A t \in Tasks \ {killing} : life[t] \in {"free", "zombie"} => fds[t] = EmptyTable

\* A poll on a pipe that no task can write to any more returns, whatever
\* events it asked for and however the writers ended.
PollSeesHangup ==
  \A t \in Tasks, fd \in Fds :
    (/\ polling[t] # <<>> /\ polling[t][1] = fd
     /\ fds[t][fd].kind = "PipeRead"
     /\ HoldersOf(fds[t][fd].node, "PipeWrite") = {}) ~> polling[t] = <<>>
\* Tables and pipes agree: beside the types, each pipe counts exactly the descriptors
\* of the tables that name its ends (dup, dup2, fork, close_end, add_ref).
FilesInv == FilesTypeOK /\ EndsCounted
====
