------------------------------ MODULE CowMemory ------------------------------
(***************************************************************************)
(* The memory of processes: frames with reference counts                   *)
(* (src/kernel/src/level0a/core/frames.rs), the page tables of a process   *)
(* with demand paging and copy-on-write (mmu_i386.rs, mmu_x86_64.rs), and  *)
(* the life of an address space in run_image, fork, exit and kill          *)
(* (level0b1/process.rs, fork.rs, scheduler.rs).                           *)
(*                                                                         *)
(* Loading and leaving run with interrupts on: an action is a piece of     *)
(* them, and another task may run in between.  System calls and page       *)
(* faults are atomic.  A page holds one value; windows (PTE_SHARED) are    *)
(* left out.  An address space is named by the frame of its topmost table, *)
(* as in cr3; the kernel's is 0, and so is "no address space".  Faulty_x   *)
(* is a mistake in x that a run has to find.                               *)
(***************************************************************************)
EXTENDS Integers, FiniteSets

CONSTANTS
  Pool,           \* per machine, its number of frames
  MAX_REFS,       \* a count holds no more than this (u8::MAX)
  MaxTask,        \* slots of applications 1..MaxTask; 0 stands for the kernel tasks
  ENTRIES,        \* pages of the user region
  Value, Zero,    \* what a page may hold, and what alloc fills it with
  Stale,          \* what a free frame holds, whatever it was used for
  Ops             \* "kill_midway": a task may be killed while it changes address spaces

ASSUME PoolAssumption  == Pool \in [{"i386", "x86_64"} -> Nat]
ASSUME RefsAssumption  == MAX_REFS \in Nat \ {0}
ASSUME TasksAssumption == MaxTask \in Nat \ {0}
ASSUME PagesAssumption == ENTRIES \in Nat \ {0}
ASSUME ValueAssumption == Zero \in Value /\ Stale \notin Value
ASSUME OpsAssumption   == Ops \subseteq {"kill_midway"}

VARIABLES
  arch,           \* the machine the kernel was built for, "i386" or "x86_64"
  frames,         \* per frame its count (REFCOUNT, 0 when its bit is clear) and content
  spaces,         \* per address space its tables and the entries for its pages
  address_space,  \* per task, as in struct Task
  space,          \* the local variable of run_image and child_task
  pc,             \* how far a task has got in loading or leaving
  current,
  cr3,            \* the address space the CPU uses
  tlb,            \* the translations it has cached on a store
  halted          \* a fault in the kernel has stopped the machine

memVars  == <<arch, frames, spaces>>
taskVars == <<address_space, space, pc>>
cpuVars  == <<current, cr3, tlb>>
vars == <<memVars, taskVars, cpuVars, halted>>

Frames == 1 .. Pool[arch]
Pages  == 0 .. ENTRIES - 1
Apps   == 1 .. MaxTask
KernelTask == 0
kernel_cr3 == 0
NoSpace == 0

\* Page table entries.
Absent  == [state |-> "absent", frame |-> 0, writable |-> FALSE, cow |-> FALSE]
Demand  == [state |-> "demand", frame |-> 0, writable |-> FALSE, cow |-> FALSE]
Mapped(f, writable, cow) ==
  [state |-> "present", frame |-> f, writable |-> writable, cow |-> cow]
Pte == {Absent, Demand} \union
       [state : {"present"}, frame : Frames, writable : BOOLEAN, cow : BOOLEAN]
Present(e) == e.state = "present"

\* A memory: the frames with the address spaces in them.
Mem == [frames |-> frames, spaces |-> spaces]
Becomes(m) == frames' = m.frames /\ spaces' = m.spaces /\ UNCHANGED arch

------------------------------------------------------------------------------
(* frames.rs *)

FreeFrames(m) == {f \in Frames : m.frames[f].refs = 0}
FirstFrame(m) ==
  LET unused == FreeFrames(m) IN CHOOSE f \in unused : \A g \in unused : f <= g

\* Fault: the frame is handed out as it was.
Faulty_alloc(m) == [m EXCEPT !.frames[FirstFrame(m)].refs = 1]

\* The memory after FirstFrame(m) has been allocated, if there is one.
alloc(m) == [m EXCEPT !.frames[FirstFrame(m)] = [refs |-> 1, data |-> Zero]]

Shareable(m, f) == m.frames[f].refs \in 1 .. MAX_REFS - 1
share(m, f) == [m EXCEPT !.frames[f].refs = @ + 1]

Freed(frame) ==
  IF frame.refs > 1 THEN [frame EXCEPT !.refs = @ - 1] ELSE [refs |-> 0, data |-> Stale]

free(m, f) == [m EXCEPT !.frames[f] = Freed(@)]

\* Each of these frames is given back once.
free_all(m, given) ==
  [m EXCEPT !.frames = [f \in Frames |-> IF f \in given THEN Freed(@[f]) ELSE @[f]]]

Copied(m, from, to) == [m EXCEPT !.frames[to].data = m.frames[from].data]

------------------------------------------------------------------------------
(* Address spaces: mmu_i386.rs *)

WithPte(m, d, p, e) == [m EXCEPT !.spaces[d].pte[p] = e]

\* n frames are asked for, one after the other, while there are any.
AllocateUpTo(m, n) ==
  LET got[k \in 0..n] ==
        IF k = 0 THEN [m |-> m, taken |-> {}]
        ELSE IF FreeFrames(got[k - 1].m) = {} THEN got[k - 1]
        ELSE [m |-> alloc(got[k - 1].m), taken |-> got[k - 1].taken \union {FirstFrame(got[k - 1].m)}]
  IN  got[n]

\* The first frame is the new space, the others are its tables; with one too few
\* all of them are given back.
create(m, count) ==
  LET got == AllocateUpTo(m, count)
      d == FirstFrame(m)
  IN  IF Cardinality(got.taken) < count THEN free_all(got.m, got.taken)
      ELSE [got.m EXCEPT !.spaces =
              [s \in DOMAIN m.spaces \union {d} |->
                 IF s = d THEN [tables |-> got.taken, pte |-> [p \in Pages |-> Absent]]
                          ELSE m.spaces[s]]]

\* Directory and page table.
i386_create_user_space(m) == create(m, 2)

\* PML4, PDPT, PD, and a page table for each half of the region.
x86_64_create_user_space(m) == create(m, 5)

create_user_space(m) ==
  IF arch = "i386" THEN i386_create_user_space(m) ELSE x86_64_create_user_space(m)

CanCreate(m) == Cardinality(FreeFrames(m)) >= (IF arch = "i386" THEN 2 ELSE 5)

\* The loop of destroy_user_space over the first n entries.
FreedUpTo(m, d, n) ==
  LET e(p) == m.spaces[d].pte[p]
      freed[k \in 0..n] ==
        IF k = 0 THEN m
        ELSE IF Present(e(k - 1)) THEN free(freed[k - 1], e(k - 1).frame)
        ELSE freed[k - 1]
  IN  freed[n]

\* Fault: the loop ends one entry early.
Faulty_PagesFreed(m, d) == FreedUpTo(m, d, ENTRIES - 1)

PagesFreed(m, d) == FreedUpTo(m, d, ENTRIES)

destroy_user_space(m, d) ==
  IF d = NoSpace THEN m
  ELSE [free_all(PagesFreed(m, d), m.spaces[d].tables)
          EXCEPT !.spaces = [s \in DOMAIN m.spaces \ {d} |-> m.spaces[s]]]

reserve_user_range(m, d) ==
  [m EXCEPT !.spaces[d].pte =
     [p \in Pages |-> IF Present(@[p]) THEN @[p] ELSE Demand]]

\* Fault: the page stays writable.
Faulty_CopyOnWrite(e) == [e EXCEPT !.cow = TRUE]

CopyOnWrite(e) == [e EXCEPT !.writable = FALSE, !.cow = TRUE]

\* One turn of the loop of clone_user_space, for page p: c is the memory so far
\* with the new directory and whether the loop goes on.
ClonePage(c, src, p) ==
  LET e == c.m.spaces[src].pte[p]
      shared == CopyOnWrite(e)
      copy == FirstFrame(c.m)
  IN  CASE ~c.ok \/ e.state = "absent" -> c
        [] c.ok /\ e.state = "demand" -> [c EXCEPT !.m = WithPte(c.m, c.dst, p, Demand)]
        [] c.ok /\ Present(e) /\ Shareable(c.m, e.frame) ->
             [c EXCEPT !.m = WithPte(WithPte(share(c.m, e.frame), src, p, shared), c.dst, p, shared)]
        [] c.ok /\ Present(e) /\ ~Shareable(c.m, e.frame) /\ FreeFrames(c.m) # {} ->
             [c EXCEPT !.m = WithPte(Copied(alloc(c.m), e.frame, copy),
                                     c.dst, p, Mapped(copy, TRUE, FALSE))]
        [] OTHER -> [c EXCEPT !.m = destroy_user_space(c.m, c.dst), !.ok = FALSE]

clone_user_space(m, src) ==
  LET cloned[n \in 0..ENTRIES] ==
        IF n = 0 THEN [m |-> create_user_space(m), dst |-> FirstFrame(m), ok |-> TRUE]
                 ELSE ClonePage(cloned[n - 1], src, n - 1)
  IN  IF CanCreate(m) THEN cloned[ENTRIES]
      ELSE [m |-> create_user_space(m), dst |-> NoSpace, ok |-> FALSE]

------------------------------------------------------------------------------
(* The CPU *)

Flushed == [p \in Pages |-> Absent]

\* A space that is loaded already is not loaded again, and nothing is flushed.
i386_switch_to(d) ==
  /\ cr3' = d
  /\ tlb' = IF d = cr3 THEN tlb ELSE Flushed

x86_64_switch_to(d) ==
  /\ cr3' = d
  /\ tlb' = Flushed

switch_to(d) == IF arch = "i386" THEN i386_switch_to(d) ELSE x86_64_switch_to(d)

\* The tail of yield_now: the space of the task that comes in.
Resume(t) ==
  /\ current' = t
  /\ switch_to(IF t = KernelTask THEN kernel_cr3 ELSE address_space[t])

Translation(p) == IF Present(tlb[p]) THEN tlb[p] ELSE spaces[cr3].pte[p]

\* The task on the CPU is at this point, and the machine runs.
At(t, point) == ~halted /\ current = t /\ pc[t] = point

Goto(t, point) == pc' = [pc EXCEPT ![t] = point]

\* In ring 3, or in a system call that reads or writes the memory of its caller.
InUserSpace(t) == At(t, "user") /\ cr3 # kernel_cr3

\* The loader fills the image; the kernel's own directory maps another memory
\* at these addresses, and a store there is not followed up.
InOwnImage(t) == At(t, "load") /\ cr3 # kernel_cr3

Store(t, p, v) ==
  /\ InUserSpace(t) \/ InOwnImage(t)
  /\ Present(Translation(p)) /\ Translation(p).writable
  /\ frames' = [frames EXCEPT ![Translation(p).frame].data = v]
  /\ tlb' = [tlb EXCEPT ![p] = Translation(p)]
  /\ UNCHANGED <<arch, spaces, taskVars, current, cr3, halted>>

handle_demand_fault(m, p) ==
  WithPte(alloc(m), cr3, p, Mapped(FirstFrame(m), TRUE, FALSE))

\* The last owner gets the page back; a sharer gets a copy.
handle_cow_fault(m, p) ==
  LET f == m.spaces[cr3].pte[p].frame
      copy == FirstFrame(m)
  IN  IF m.frames[f].refs <= 1
      THEN WithPte(m, cr3, p, Mapped(f, TRUE, FALSE))
      ELSE free(WithPte(Copied(alloc(m), f, copy), cr3, p, Mapped(copy, TRUE, FALSE)), f)

DemandFault(p) == ~Present(Translation(p))
CowFault(p) == Present(Translation(p)) /\ ~Translation(p).writable

\* ex14: what its two handlers can recover from.
Recoverable(p) ==
  LET e == spaces[cr3].pte[p]
  IN  \/ DemandFault(p) /\ e = Demand /\ FreeFrames(Mem) # {}
      \/ CowFault(p) /\ Present(e) /\ e.cow
           /\ (frames[e.frame].refs > 1 => FreeFrames(Mem) # {})

PageFault(t, p) ==
  /\ InUserSpace(t) \/ InOwnImage(t)
  /\ DemandFault(p) \/ CowFault(p)
  /\ Recoverable(p)
  /\ Becomes(IF DemandFault(p) THEN handle_demand_fault(Mem, p) ELSE handle_cow_fault(Mem, p))
  /\ tlb' = Flushed
  /\ UNCHANGED <<taskVars, current, cr3, halted>>

i386_page_fault(t, p) == arch = "i386" /\ PageFault(t, p)
x86_64_demand_fault(t, p) == arch = "x86_64" /\ PageFault(t, p) /\ DemandFault(p)
x86_64_cow_fault(t, p) == arch = "x86_64" /\ PageFault(t, p) /\ CowFault(p)

\* Fault: the tables are still loaded when they are destroyed.
Faulty_release_space(t) ==
  /\ address_space' = [address_space EXCEPT ![t] = NoSpace]
  /\ UNCHANGED <<cr3, tlb>>
  /\ Goto(t, "destroy")

\* The first half of release_space, and of the end of child_task: out of the
\* address space before it is destroyed.
release_space(t) ==
  /\ address_space' = [address_space EXCEPT ![t] = NoSpace]
  /\ switch_to(kernel_cr3)
  /\ Goto(t, "destroy")

\* exceptions::handle: a fault of ring 3 ends the process, one of ring 0 the system.
\* In ring 0 are the loader, and system calls, which touch only pages that are
\* present (is_user_accessible).
FatalFault(t, p, ring0) ==
  /\ InUserSpace(t) \/ InOwnImage(t)
  /\ DemandFault(p) \/ CowFault(p)
  /\ ~Recoverable(p)
  /\ pc[t] = "load" => ring0
  /\ ring0 /\ pc[t] = "user" => CowFault(p)
  /\ halted' = ring0
  /\ IF ring0 THEN UNCHANGED <<address_space, pc, cr3, tlb>> ELSE release_space(t)
  /\ UNCHANGED <<memVars, space, current>>

------------------------------------------------------------------------------
(* Loading: app_task and run_image *)

user_task_count == Cardinality({t \in Apps : pc[t] = "user"})

\* The shell has started an application, and it gets the CPU.  Without room for
\* an address space the image goes to the shared region, unless somebody may be
\* using it.
Start(t) ==
  /\ ~halted /\ current = KernelTask
  /\ pc[t] = "free"
  /\ Becomes(create_user_space(Mem))
  /\ space' = [space EXCEPT ![t] = IF CanCreate(Mem) THEN FirstFrame(Mem) ELSE NoSpace]
  /\ Goto(t, CASE CanCreate(Mem) -> "created"
               [] ~CanCreate(Mem) /\ user_task_count > 0 -> "destroy"
               [] ~CanCreate(Mem) /\ user_task_count = 0 -> "load")
  /\ Resume(t)
  /\ UNCHANGED <<address_space, halted>>

EnterSpace(t) ==
  /\ At(t, "created")
  /\ switch_to(space[t])
  /\ Goto(t, "switched")
  /\ UNCHANGED <<memVars, address_space, space, current, halted>>

\* set_current_address_space and reserve_user_range, which flushes.
RegisterSpace(t) ==
  /\ At(t, "switched")
  /\ address_space' = [address_space EXCEPT ![t] = space[t]]
  /\ Becomes(reserve_user_range(Mem, space[t]))
  /\ tlb' = Flushed
  /\ Goto(t, "load")
  /\ UNCHANGED <<space, current, cr3, halted>>

EnterRing3(t) ==
  /\ At(t, "load")
  /\ Goto(t, "user")
  /\ UNCHANGED <<memVars, address_space, space, cpuVars, halted>>

------------------------------------------------------------------------------
(* fork, and the ends of a process *)

\* The new child is in ring 3 at the same instruction.
Fork(t) ==
  /\ InUserSpace(t)
  /\ address_space[t] # NoSpace
  /\ LET c == clone_user_space(Mem, address_space[t])
         slots == {u \in Apps : pc[u] = "free"}
     IN  \/ /\ ~c.ok
            /\ Becomes(c.m)
            /\ UNCHANGED <<taskVars, tlb>>
         \/ /\ c.ok /\ slots = {}
            /\ Becomes(destroy_user_space(c.m, c.dst))
            /\ tlb' = Flushed
            /\ UNCHANGED taskVars
         \/ /\ c.ok /\ slots # {}
            /\ \E child \in slots :
                 /\ address_space' = [address_space EXCEPT ![child] = c.dst]
                 /\ space' = [space EXCEPT ![child] = c.dst]
                 /\ Goto(child, "user")
            /\ Becomes(c.m)
            /\ tlb' = Flushed
  /\ UNCHANGED <<current, cr3, halted>>

\* The two machines copy a space alike.
i386_fork(t) == arch = "i386" /\ Fork(t)
x86_64_fork(t) == arch = "x86_64" /\ Fork(t)

\* exit, execve or an error of the loader.
Leave(t) ==
  /\ At(t, "user") \/ At(t, "load")
  /\ release_space(t)
  /\ UNCHANGED <<memVars, space, current, halted>>

Alive(t) == t # KernelTask => pc[t] # "free"

\* destroy_user_space, then terminate_current; after execve the slot is started
\* again.
End(t) ==
  /\ At(t, "destroy")
  /\ Becomes(destroy_user_space(Mem, space[t]))
  /\ space' = [space EXCEPT ![t] = NoSpace]
  /\ Goto(t, "free")
  /\ \E next \in {KernelTask} \union (Apps \ {t}) : Alive(next) /\ Resume(next)
  /\ UNCHANGED <<address_space, halted>>

\* Between its local variable and struct Task only one knows the space.
Midway(t) == space[t] # address_space[t]

\* terminate, called by the shell or by SIGKILL from another process.
terminate(t) ==
  /\ ~halted /\ current # t
  /\ current # KernelTask => pc[current] = "user"
  /\ pc[t] # "free"
  /\ Midway(t) => "kill_midway" \in Ops
  /\ Becomes(destroy_user_space(Mem, address_space[t]))
  /\ address_space' = [address_space EXCEPT ![t] = NoSpace]
  /\ space' = [space EXCEPT ![t] = NoSpace]
  /\ Goto(t, "free")
  /\ UNCHANGED <<cpuVars, halted>>

Preempt(t) ==
  /\ ~halted /\ t # current /\ Alive(t)
  /\ Resume(t)
  /\ UNCHANGED <<memVars, taskVars, halted>>

------------------------------------------------------------------------------

Init ==
  /\ arch \in {"i386", "x86_64"}
  /\ frames = [f \in Frames |-> [refs |-> 0, data |-> Stale]]
  /\ spaces = [d \in {} |-> [tables |-> {}, pte |-> Flushed]]
  /\ address_space = [t \in Apps |-> NoSpace]
  /\ space = [t \in Apps |-> NoSpace]
  /\ pc = [t \in Apps |-> "free"]
  /\ current = KernelTask
  /\ cr3 = kernel_cr3
  /\ tlb = Flushed
  /\ halted = FALSE

Access(t) ==
  \E p \in Pages :
    \/ \E v \in Value : Store(t, p, v)
    \/ i386_page_fault(t, p) \/ x86_64_demand_fault(t, p) \/ x86_64_cow_fault(t, p)
    \/ \E ring0 \in BOOLEAN : FatalFault(t, p, ring0)

Next ==
  \/ Preempt(KernelTask)
  \/ \E t \in Apps :
       \/ Preempt(t)
       \/ Access(t)
       \/ Start(t) \/ EnterSpace(t) \/ RegisterSpace(t) \/ EnterRing3(t)
       \/ i386_fork(t) \/ x86_64_fork(t)
       \/ Leave(t) \/ End(t)
       \/ terminate(t)

Spec == Init /\ [][Next]_vars

------------------------------------------------------------------------------
(* Properties *)

\* Every variable has its type; a directory that a task or the CPU refers to exists.
MemTypeOK ==
  /\ arch \in {"i386", "x86_64"}
  /\ frames \in [Frames -> [refs : 0 .. MAX_REFS, data : Value \union {Stale}]]
  /\ DOMAIN spaces \subseteq Frames
  /\ \A d \in DOMAIN spaces : spaces[d] \in [tables : SUBSET Frames, pte : [Pages -> Pte]]
  /\ address_space \in [Apps -> DOMAIN spaces \union {NoSpace}]
  /\ space \in [Apps -> DOMAIN spaces \union {NoSpace}]
  /\ pc \in [Apps -> {"free", "created", "switched", "load", "user", "destroy"}]
  /\ current \in Apps \union {KernelTask}
  /\ cr3 \in DOMAIN spaces \union {kernel_cr3}
  /\ tlb \in [Pages -> Pte]
  /\ halted \in BOOLEAN

\* The count of a frame (share and free of frames.rs, called from fork, faults,
\* exit and kill) is the number of tables and pages it is used for:
\* nothing in use is handed out again, nothing unused is kept.
Uses(f) ==
  Cardinality({d \in DOMAIN spaces : f \in spaces[d].tables})
    + Cardinality({x \in (DOMAIN spaces) \X Pages : spaces[x[1]].pte[x[2]].frame = f})
CountsExact == \A f \in Frames : frames[f].refs = Uses(f)

\* Every address space belongs to exactly one living task: the error paths of fork
\* and run_image, exit and kill leave none behind.
SpacesOwned ==
  \A d \in DOMAIN spaces : \E t \in Apps :
    /\ space[t] = d /\ pc[t] # "free"
    /\ \A u \in Apps \ {t} : space[u] # d /\ address_space[u] # d

\* A frame that can be written without a fault, by the page tables or by what the
\* CPU has cached of them, has one owner, and a page that cannot can still be
\* recovered (clone_user_space marks both sides; handle_cow_fault gives it back).
WritesArePrivate ==
  /\ \A d \in DOMAIN spaces, p \in Pages :
       LET e == spaces[d].pte[p]
       IN  Present(e) => IF e.writable THEN frames[e.frame].refs = 1 ELSE e.cow
  /\ \A p \in Pages :
       Present(tlb[p]) =>
         /\ cr3 \in DOMAIN spaces
         /\ spaces[cr3].pte[p].frame = tlb[p].frame
         /\ tlb[p].writable => frames[tlb[p].frame].refs = 1

\* The CPU is in the kernel's directory or in the one of the running task
\* (yield_now, run_image, release_space): never in another's, never in one that
\* has been given back or is about to be.
NoForeignSpace ==
  cr3 # kernel_cr3 =>
    /\ current # KernelTask /\ cr3 = space[current]
    /\ pc[current] \in {"switched", "load", "user"}

\* The pages of a process as it sees them: fork, demand and copy-on-write faults
\* and the reuse of frames do not show.
Content(d) ==
  [p \in Pages |-> LET e == spaces[d].pte[p]
                   IN  IF Present(e) THEN frames[e.frame].data ELSE Zero]
Private == INSTANCE PrivateMemory WITH
  Process <- Apps, Page <- Pages,
  memory <- [t \in {u \in Apps : address_space[u] # NoSpace} |-> Content(address_space[t])]
PrivateSpec == Private!Spec

\* No frame is freed while it is mapped and none is lost: beside the types, the count
\* of a frame is the number of its users, and every address space and page table
\* belongs to one task (release, clone_user_space, destroy_user_space).
MemInv == MemTypeOK /\ CountsExact /\ SpacesOwned
====
