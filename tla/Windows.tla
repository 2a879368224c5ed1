------------------------------ MODULE Windows ------------------------------
(***************************************************************************)
(* The windows of the desktop: the input queue (level0a/input.rs), the     *)
(* window table with its z-order, focus and drag (level0a/wm.rs) and the   *)
(* queue of keys of each window (level0a/gui_api.rs).                      *)
(*                                                                         *)
(* Interrupts only put events into the queue.  The desktop task takes them *)
(* out; it is preempted like any task, so that programs open windows and   *)
(* end between its steps.  create and close_owned_by run with interrupts   *)
(* off, in one step.  Faulty_x is a mistake in x that a run has to find.   *)
(*                                                                         *)
(* A point of the screen and the window over it are a place.  The pixels,  *)
(* and compose, which only reads what is here, are left out.               *)
(***************************************************************************)
EXTENDS Integers, FiniteSets, Sequences

CONSTANTS
  Tasks,               \* the slots of the scheduler that run programs
  MAX_WINDOWS, WINDOW_MAP_SLOTS, QUEUE_SIZE, KEY_QUEUE,
  Places,
  Ops                  \* steps that lead to states the README describes, see OpsAssumption

\* "late_click": a program ends while the desktop is inside raise;
\* "focus_closed": the shell's focus names a closed window;
\* "takeover": a new task takes the slot of a killed one before kill has closed
\* the windows of the old one.
ASSUME OpsAssumption == Ops \subseteq {"late_click", "focus_closed", "takeover"}
ASSUME SizesAssumption ==
  {MAX_WINDOWS, WINDOW_MAP_SLOTS, QUEUE_SIZE, KEY_QUEUE} \subseteq Nat \ {0}
ASSUME PlacesAssumption == Places # {}

VARIABLES
  windows,                \* WINDOWS, of 1..MAX_WINDOWS
  Z_ORDER,                \* from the back to the front, WINDOW_COUNT long
  FOCUSED, DRAG_WINDOW,
  queue,                  \* input.rs: QUEUE from TAIL to HEAD
  keys,                   \* gui_api.rs: per window, how many keys wait
  desktop,                \* what the desktop task is inside of
  task                    \* the life of the program in a slot

vars == <<windows, Z_ORDER, FOCUSED, DRAG_WINDOW, queue, keys, desktop, task>>

None == 0
Slots == 1 .. MAX_WINDOWS
System == "system"        \* the owner of the shell's window, which never closes
SHELL_WINDOW == 1         \* the log's window, which is another such, is left out
count == Len(Z_ORDER)

ASSUME OwnersAssumption == System \notin Tasks

\* Of a closed window nothing but that it is closed is read.
Closed == [used |-> FALSE, owner |-> System, address |-> None, place |-> CHOOSE p \in Places : TRUE,
           dragged |-> FALSE]

OwnedBy(t) == {w \in Slots : windows[w].used /\ windows[w].owner = t}

Least(S) == CHOOSE x \in S : \A y \in S : x <= y

Idle == [at |-> "idle", window |-> None, title |-> FALSE, seen |-> 0]

------------------------------------------------------------------------------
(* Input *)

Events == {[kind |-> "key", place |-> Closed.place]}
            \union [kind : {"press", "release"}, place : Places]

\* A full queue keeps its events and drops the new one.  A mouse packet is an
\* event when its third byte is in (on_mouse_irq), a key when it is pressed.
push(event) ==
  /\ queue' = IF Len(queue) < QUEUE_SIZE - 1 THEN Append(queue, event) ELSE queue
  /\ UNCHANGED <<windows, Z_ORDER, FOCUSED, DRAG_WINDOW, keys, desktop, task>>

------------------------------------------------------------------------------
(* The calls of the programs *)

\* The addresses are numbered: a program has WINDOW_MAP_SLOTS of them, the one of
\* its next window is that of its number of windows.
map_address(t) == Cardinality(OwnedBy(t)) + 1

\* Fault: a reused slot enters the z-order a second time.
Faulty_Opened(slot) == Append(Z_ORDER, slot)

Opened(slot) == IF slot <= count THEN Z_ORDER ELSE Append(Z_ORDER, slot)

\* create, also of a window without room: it fails and changes nothing but the
\* heap, where a buffer already allocated stays.
create(t, place) ==
  LET free == {w \in 1 .. count : ~windows[w].used}
      slot == IF free # {} THEN Least(free) ELSE count + 1
  IN  /\ task[t] = "running"
      /\ slot <= MAX_WINDOWS /\ map_address(t) <= WINDOW_MAP_SLOTS
      /\ windows' = [windows EXCEPT ![slot] = [used |-> TRUE, owner |-> t, address |-> map_address(t),
                                               place |-> place, dragged |-> FALSE]]
      /\ Z_ORDER' = Opened(slot)
      /\ FOCUSED' = IF FOCUSED = None THEN slot ELSE FOCUSED
      /\ UNCHANGED <<DRAG_WINDOW, queue, keys, desktop, task>>

\* poll_key of any window, and read of the keyboard by its owner.
poll_key(t, w) ==
  /\ task[t] = "running"
  /\ keys[w] > 0
  /\ keys' = [keys EXCEPT ![w] = @ - 1]
  /\ UNCHANGED <<windows, Z_ORDER, FOCUSED, DRAG_WINDOW, queue, desktop, task>>

Closing(t) == OwnedBy(t)

\* Fault: the focus stays with a window that is closed.
Faulty_FocusAfter(closing) == FOCUSED

FocusAfter(closing) == IF FOCUSED \in closing THEN SHELL_WINDOW ELSE FOCUSED

\* Fault: a drag goes on after its window is closed.
Faulty_DragAfter(closing) == DRAG_WINDOW

DragAfter(closing) == IF DRAG_WINDOW \in closing THEN None ELSE DRAG_WINDOW

close_owned_by(t) ==
  /\ windows' = [w \in Slots |-> IF w \in Closing(t) THEN Closed ELSE windows[w]]
  /\ FOCUSED' = FocusAfter(Closing(t))
  /\ DRAG_WINDOW' = DragAfter(Closing(t))
  /\ UNCHANGED <<Z_ORDER, queue, keys>>

\* A program begins in a free slot, of the shell or by fork: without a window.
Starts(t) ==
  /\ task[t] = "none"
  /\ (desktop.at = "kill" /\ desktop.window = t) => "takeover" \in Ops
  /\ task' = [task EXCEPT ![t] = "running"]
  /\ UNCHANGED <<windows, Z_ORDER, FOCUSED, DRAG_WINDOW, queue, keys, desktop>>

\* It is back in the kernel, its address space is gone ...
Ends(t) ==
  /\ task[t] = "running"
  /\ task' = [task EXCEPT ![t] = "ending"]
  /\ UNCHANGED <<windows, Z_ORDER, FOCUSED, DRAG_WINDOW, queue, keys, desktop>>

Undisturbed == desktop.at # "idle" => desktop.at = "kill" \/ "late_click" \in Ops

\* Fault: the windows are left to the next program in the slot.
Faulty_Leaves(t) ==
  /\ task[t] = "ending" /\ Undisturbed
  /\ task' = [task EXCEPT ![t] = "none"]
  /\ UNCHANGED <<windows, FOCUSED, DRAG_WINDOW, Z_ORDER, queue, keys, desktop>>

\* ... its windows are closed and the task ends (app_task, child_task) ...
Leaves(t) ==
  /\ task[t] = "ending" /\ Undisturbed
  /\ task' = [task EXCEPT ![t] = "none"]
  /\ close_owned_by(t)
  /\ UNCHANGED desktop

\* ... or goes on with the program execve named.
Execs(t) ==
  /\ task[t] = "ending" /\ Undisturbed
  /\ task' = [task EXCEPT ![t] = "running"]
  /\ close_owned_by(t)
  /\ UNCHANGED desktop

------------------------------------------------------------------------------
(* The desktop task *)

\* handle_mouse looks at the windows from the front.
Hit(place) ==
  LET under == {i \in 1 .. count : windows[Z_ORDER[i]].used /\ windows[Z_ORDER[i]].place = place}
  IN  IF under = {} THEN None ELSE Z_ORDER[CHOOSE i \in under : \A j \in under : j <= i]

handle_key ==
  /\ queue # <<>> /\ Head(queue).kind = "key"
  /\ FOCUSED \notin {None, SHELL_WINDOW}
  /\ keys' = [keys EXCEPT ![FOCUSED] = IF @ < KEY_QUEUE - 1 THEN @ + 1 ELSE @]
  /\ queue' = Tail(queue)
  /\ UNCHANGED <<windows, Z_ORDER, FOCUSED, DRAG_WINDOW, desktop, task>>

\* A key of the shell, which may complete a command: focus raises a window that
\* has been opened, kill releases the slot of a task and then closes its windows.
shell_on_key ==
  /\ queue # <<>> /\ Head(queue).kind = "key"
  /\ FOCUSED = SHELL_WINDOW
  /\ queue' = Tail(queue)
  /\ \/ UNCHANGED <<desktop, task>>
     \/ \E w \in 1 .. count :
          /\ windows[w].used \/ "focus_closed" \in Ops
          /\ desktop' = [Idle EXCEPT !.at = "raise", !.window = w]
          /\ UNCHANGED task
     \/ \E t \in Tasks :
          /\ task[t] # "none"
          /\ task' = [task EXCEPT ![t] = "none"]
          /\ desktop' = [Idle EXCEPT !.at = "kill", !.window = t]
  /\ UNCHANGED <<windows, Z_ORDER, FOCUSED, DRAG_WINDOW, keys>>

KillCloses ==
  /\ desktop.at = "kill"
  /\ close_owned_by(desktop.window)
  /\ desktop' = Idle
  /\ UNCHANGED task

handle_release ==
  /\ queue # <<>> /\ Head(queue).kind = "release"
  /\ DRAG_WINDOW' = None
  /\ queue' = Tail(queue)
  /\ UNCHANGED <<windows, Z_ORDER, FOCUSED, keys, desktop, task>>

handle_drag ==
  /\ queue # <<>> /\ Head(queue).kind = "press" /\ DRAG_WINDOW # None
  /\ windows' = [windows EXCEPT ![DRAG_WINDOW].place = Head(queue).place]
  /\ queue' = Tail(queue)
  /\ UNCHANGED <<Z_ORDER, FOCUSED, DRAG_WINDOW, keys, desktop, task>>

handle_click ==
  /\ queue # <<>> /\ Head(queue).kind = "press" /\ DRAG_WINDOW = None
  /\ queue' = Tail(queue)
  /\ LET w == Hit(Head(queue).place)
     IN  IF w = None THEN UNCHANGED desktop
         ELSE \E title \in BOOLEAN :
                desktop' = [Idle EXCEPT !.at = "raise", !.window = w, !.title = title]
  /\ UNCHANGED <<windows, Z_ORDER, FOCUSED, DRAG_WINDOW, keys, task>>

\* raise reads the count of the windows and then moves its window to the last of
\* that many places: a window opened in between stays above it.
RaiseCounts ==
  /\ desktop.at = "raise"
  /\ desktop' = [desktop EXCEPT !.at = "move", !.seen = count]
  /\ UNCHANGED <<windows, Z_ORDER, FOCUSED, DRAG_WINDOW, queue, keys, task>>

RaiseMoves ==
  LET p == CHOOSE i \in 1 .. desktop.seen : Z_ORDER[i] = desktop.window
  IN  /\ desktop.at = "move"
      /\ Z_ORDER' = SubSeq(Z_ORDER, 1, p - 1) \o SubSeq(Z_ORDER, p + 1, desktop.seen)
                      \o <<desktop.window>> \o SubSeq(Z_ORDER, desktop.seen + 1, count)
      /\ FOCUSED' = desktop.window
      /\ IF desktop.title
         THEN /\ DRAG_WINDOW' = desktop.window
              /\ windows' = [windows EXCEPT ![desktop.window].dragged = TRUE]
         ELSE UNCHANGED <<DRAG_WINDOW, windows>>
      /\ desktop' = Idle
      /\ UNCHANGED <<queue, keys, task>>

handle_input ==
  /\ desktop.at = "idle"
  /\ handle_key \/ shell_on_key \/ handle_release \/ handle_drag \/ handle_click

------------------------------------------------------------------------------

\* After the boot the shell is open and has the focus.
Init ==
  /\ windows = [w \in Slots |-> [Closed EXCEPT !.used = w = SHELL_WINDOW]]
  /\ Z_ORDER = <<SHELL_WINDOW>>
  /\ FOCUSED = SHELL_WINDOW /\ DRAG_WINDOW = None
  /\ queue = <<>>
  /\ keys = [w \in Slots |-> 0]
  /\ desktop = Idle
  /\ task = [t \in Tasks |-> "none"]

Desktop == handle_input \/ RaiseCounts \/ RaiseMoves \/ KillCloses

Program(t) ==
  \/ Starts(t) \/ Ends(t) \/ Leaves(t) \/ Execs(t)
  \/ \E place \in Places : create(t, place)
  \/ \E w \in Slots : poll_key(t, w)

Next ==
  \/ \E event \in Events : push(event)
  \/ Desktop
  \/ \E t \in Tasks : Program(t)

Spec == Init /\ [][Next]_vars

------------------------------------------------------------------------------
(* Properties *)

\* Type invariant.
WindowsTypeOK ==
  /\ windows \in [Slots -> [used : BOOLEAN, owner : Tasks \union {System}, place : Places,
                            address : 0 .. WINDOW_MAP_SLOTS, dragged : BOOLEAN]]
  /\ Z_ORDER \in Seq(Slots) /\ count <= MAX_WINDOWS
  /\ FOCUSED \in Slots \union {None} /\ DRAG_WINDOW \in Slots \union {None}
  /\ queue \in Seq(Events) /\ Len(queue) < QUEUE_SIZE
  /\ keys \in [Slots -> 0 .. KEY_QUEUE - 1]
  /\ desktop.at \in {"idle", "raise", "move", "kill"}
  /\ task \in [Tasks -> {"none", "running", "ending"}]

\* Every slot that was ever used is in the z-order once (create, raise), whatever
\* opens while raise is at work: no window is lost from the screen or drawn twice.
ZOrderComplete == {Z_ORDER[i] : i \in 1 .. count} = 1 .. count /\ \A w \in Slots : windows[w].used => w <= count

\* The windows of a program have different addresses: the next one is counted
\* from the open ones, which is right only because all of them close at once
\* (create, close_owned_by).
AddressesDistinct ==
  \A v, w \in Slots :
    (v # w /\ windows[v].used /\ windows[w].used /\ windows[v].owner = windows[w].owner
       /\ windows[v].owner # System) => windows[v].address # windows[w].address

\* "aksi halde tuslar bosluga gider" (wm.rs): the keyboard always belongs to an
\* open window.
FocusOnOpenWindow == FOCUSED # None /\ windows[FOCUSED].used

\* A window moves only if it was itself taken by its title since it was opened
\* (handle_mouse, close_owned_by): never by a drag of its slot's last window.
MovedByItsUser ==
  [][\A w \in Slots :
       (windows[w].used /\ windows'[w].used /\ windows'[w].place # windows[w].place)
         => windows[w].dragged]_vars

\* Every window of a program has a live owner, but for the moment kill needs to
\* close it (close_owned_by, kill): no dead rectangle stays on the screen.
OwnersLive ==
  \A w \in Slots :
    (windows[w].used /\ windows[w].owner # System)
      => task[windows[w].owner] # "none" \/ (desktop.at = "kill" /\ desktop.window = windows[w].owner)

\* The window table is consistent: beside the types, every slot is in the z-order
\* once although raise is preempted by create, and no two windows of a program
\* share an address (create, raise, close_owned_by).
WindowsInv == WindowsTypeOK /\ ZOrderComplete /\ AddressesDistinct
====
