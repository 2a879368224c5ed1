--------------------------- MODULE CowMemoryProofs ---------------------------
(***************************************************************************)
(* Proofs for CowMemory: which page tables the CPU uses; the types and the *)
(* counts of frames through faults, fork, exit and kill; that a frame that *)
(* can be written is private; that nothing is lost; and that processes get *)
(* what PrivateMemory promises.                                            *)
(*                                                                         *)
(* The operators on memories are proved about first, for a memory of       *)
(* frames fr and spaces sp (MemOK); the inductive invariant is MemoryInv.  *)
(***************************************************************************)
EXTENDS CowMemory, Induction, FiniteSetTheorems, TLAPS

Domains ==
  /\ DOMAIN address_space = Apps /\ DOMAIN space = Apps /\ DOMAIN pc = Apps
  /\ current \in Apps \union {KernelTask}

\* A task is switched back into the space it has loaded its image to, and only
\* between the loading and the end.
Registered ==
  \A t \in Apps :
    address_space[t] # NoSpace =>
      address_space[t] = space[t] /\ pc[t] \in {"load", "user"}

SpaceInv == Domains /\ Registered /\ NoForeignSpace

LEMMA InitSpaces == Init => SpaceInv
BY DEF Init, SpaceInv, Domains, Registered, NoForeignSpace

\* Whoever gets the CPU gets its own space or the kernel's.
LEMMA ResumeOwn ==
  ASSUME Domains, Registered, NEW t \in Apps \union {KernelTask},
         Resume(t), UNCHANGED taskVars
  PROVE  SpaceInv'
BY DEF Domains, Registered, SpaceInv, NoForeignSpace, Resume, switch_to, i386_switch_to, x86_64_switch_to, taskVars,
       KernelTask, kernel_cr3, NoSpace, Apps

LEMMA AccessKeeps ==
  ASSUME SpaceInv, NEW t \in Apps, Access(t)
  PROVE  SpaceInv'
<1> USE DEF SpaceInv, Domains, Registered, NoForeignSpace, taskVars, memVars, cpuVars
<1> PICK p \in Pages :
      \/ \E v \in Value : Store(t, p, v)
      \/ PageFault(t, p)
      \/ \E ring0 \in BOOLEAN : FatalFault(t, p, ring0)
  BY DEF Access, i386_page_fault, x86_64_demand_fault, x86_64_cow_fault
<1>1. CASE \E v \in Value : Store(t, p, v)
  BY <1>1 DEF Store
<1>2. CASE PageFault(t, p)
  BY <1>2 DEF PageFault
<1>3. ASSUME NEW ring0 \in BOOLEAN, FatalFault(t, p, ring0)
      PROVE  SpaceInv'
  <2>1. CASE ring0
    BY <1>3, <2>1 DEF FatalFault
  <2>2. CASE ~ring0
    BY <1>3, <2>2 DEF FatalFault, release_space, switch_to, i386_switch_to, x86_64_switch_to, Goto, kernel_cr3
  <2>3. QED
    BY <2>1, <2>2
<1>4. QED
  BY <1>1, <1>2, <1>3

LEMMA ForkKeeps ==
  ASSUME SpaceInv, NEW t \in Apps, Fork(t)
  PROVE  SpaceInv'
<1> USE DEF SpaceInv, Domains, Registered, NoForeignSpace, taskVars
<1>1. UNCHANGED <<current, cr3>> /\ current = t /\ pc[t] = "user"
  BY DEF Fork, InUserSpace, At
<1>2. CASE UNCHANGED taskVars
  BY <1>1, <1>2
<1>3. ASSUME NEW child \in Apps, NEW d, pc[child] = "free",
             address_space' = [address_space EXCEPT ![child] = d],
             space' = [space EXCEPT ![child] = d],
             Goto(child, "user")
      PROVE  SpaceInv'
  BY <1>1, <1>3 DEF Goto
<1>4. QED
  BY <1>2, <1>3 DEF Fork

\* Every step keeps the CPU out of spaces that are not the running task's.
LEMMA StepKeeps ==
  ASSUME SpaceInv, [Next]_vars
  PROVE  SpaceInv'
<1> USE DEF SpaceInv, Domains, Registered, NoForeignSpace, taskVars, memVars, cpuVars
<1>1. ASSUME NEW t \in Apps \union {KernelTask}, Preempt(t)
      PROVE  SpaceInv'
  BY <1>1, ResumeOwn DEF Preempt
<1>2. ASSUME NEW t \in Apps, Start(t)
      PROVE  SpaceInv'
  BY <1>2 DEF Start, Resume, switch_to, i386_switch_to, x86_64_switch_to, Goto, KernelTask, kernel_cr3, NoSpace, Apps
<1>3. ASSUME NEW t \in Apps, EnterSpace(t)
      PROVE  SpaceInv'
  BY <1>3 DEF EnterSpace, At, switch_to, i386_switch_to, x86_64_switch_to, Goto, KernelTask, Apps
<1>4. ASSUME NEW t \in Apps, RegisterSpace(t)
      PROVE  SpaceInv'
  BY <1>4 DEF RegisterSpace, At, Goto
<1>5. ASSUME NEW t \in Apps, EnterRing3(t)
      PROVE  SpaceInv'
  BY <1>5 DEF EnterRing3, At, Goto
<1>6. ASSUME NEW t \in Apps, Leave(t)
      PROVE  SpaceInv'
  BY <1>6 DEF Leave, release_space, switch_to, i386_switch_to, x86_64_switch_to, Goto, kernel_cr3
<1>7. ASSUME NEW t \in Apps, End(t)
      PROVE  SpaceInv'
  <2>1. PICK next \in {KernelTask} \union (Apps \ {t}) : Resume(next)
    BY <1>7 DEF End
  <2>2. address_space[t] = NoSpace
    BY <1>7 DEF End, At
  <2>3. Domains' /\ Registered'
    BY <1>7, <2>1, <2>2 DEF End, Goto, Resume
  <2>4. NoForeignSpace'
    BY <1>7, <2>1 DEF End, Goto, Resume, switch_to, i386_switch_to, x86_64_switch_to, KernelTask, kernel_cr3, NoSpace, Apps
  <2>5. QED
    BY <2>3, <2>4
<1>8. ASSUME NEW t \in Apps, terminate(t)
      PROVE  SpaceInv'
  BY <1>8 DEF terminate, Goto
<1>9. CASE UNCHANGED vars
  BY <1>9 DEF vars
<1>10. QED
  BY <1>1, <1>2, <1>3, <1>4, <1>5, <1>6, <1>7, <1>8, <1>9, AccessKeeps, ForkKeeps DEF Next, i386_fork, x86_64_fork

\* Preemption, the start and the end of processes, fork and kill in any order: the
\* CPU never uses the page tables of another process, nor tables that have been or
\* are being destroyed (switch_to in yield_now, run_image and release_space).
THEOREM OwnPageTables == Spec => []NoForeignSpace
<1>1. Init => SpaceInv
  BY InitSpaces
<1>2. SpaceInv /\ [Next]_vars => SpaceInv'
  BY StepKeeps
<1>3. SpaceInv => NoForeignSpace
  BY DEF SpaceInv
<1>4. QED
  BY <1>1, <1>2, <1>3, PTL DEF Spec

------------------------------------------------------------------------------
(* A memory as its frames and its address spaces *)

Contents == Value \union {Stale}
Frame == [refs : 0 .. MAX_REFS, data : Contents]
FrameMaps == [Frames -> Frame]
Space == [tables : SUBSET Frames, pte : [Pages -> Pte]]
SpaceMaps == UNION {[D -> Space] : D \in SUBSET Frames}

Memory(fr, sp) == [frames |-> fr, spaces |-> sp]

PutFrame(fr, f, x) == [fr EXCEPT ![f] = x]
PutPte(sp, d, p, e) == [sp EXCEPT ![d].pte[p] = e]
Without(sp, d) == [s \in DOMAIN sp \ {d} |-> sp[s]]
WithSpace(sp, d, x) == [s \in DOMAIN sp \union {d} |-> IF s = d THEN x ELSE sp[s]]

FreeIn(fr) == {f \in Frames : fr[f].refs = 0}
FirstIn(fr) == CHOOSE f \in FreeIn(fr) : \A g \in FreeIn(fr) : f <= g
FreeAll(fr, given) == [f \in Frames |-> IF f \in given THEN Freed(fr[f]) ELSE fr[f]]

LEMMA MemIsMemory == Mem = Memory(frames, spaces)
BY DEF Mem, Memory

LEMMA MemoryFields ==
  ASSUME NEW fr, NEW sp
  PROVE  Memory(fr, sp).frames = fr /\ Memory(fr, sp).spaces = sp
BY DEF Memory

LEMMA MemoryFirst ==
  ASSUME NEW fr, NEW sp
  PROVE  FreeFrames(Memory(fr, sp)) = FreeIn(fr) /\ FirstFrame(Memory(fr, sp)) = FirstIn(fr)
<1>1. FreeFrames(Memory(fr, sp)) = FreeIn(fr)
  BY DEF FreeFrames, FreeIn, Memory
<1>2. QED
  BY <1>1 DEF FirstFrame, FirstIn

LEMMA MemoryAlloc ==
  ASSUME NEW fr, NEW sp
  PROVE  alloc(Memory(fr, sp)) = Memory(PutFrame(fr, FirstIn(fr), [refs |-> 1, data |-> Zero]), sp)
BY MemoryFirst DEF alloc, Memory, PutFrame

LEMMA MemoryShare ==
  ASSUME NEW fr, NEW sp, NEW f
  PROVE  share(Memory(fr, sp), f) = Memory(PutFrame(fr, f, [fr[f] EXCEPT !.refs = @ + 1]), sp)
BY DEF share, Memory, PutFrame

LEMMA MemoryFree ==
  ASSUME NEW fr, NEW sp, NEW f
  PROVE  free(Memory(fr, sp), f) = Memory(PutFrame(fr, f, Freed(fr[f])), sp)
BY DEF free, Memory, PutFrame

LEMMA MemoryFreeAll ==
  ASSUME NEW fr, NEW sp, NEW given
  PROVE  free_all(Memory(fr, sp), given) = Memory(FreeAll(fr, given), sp)
BY DEF free_all, Memory, FreeAll

LEMMA MemoryCopied ==
  ASSUME NEW fr, NEW sp, NEW from, NEW to
  PROVE  Copied(Memory(fr, sp), from, to) = Memory(PutFrame(fr, to, [fr[to] EXCEPT !.data = fr[from].data]), sp)
BY DEF Copied, Memory, PutFrame

LEMMA MemoryWithPte ==
  ASSUME NEW fr, NEW sp, NEW d, NEW p, NEW e
  PROVE  WithPte(Memory(fr, sp), d, p, e) = Memory(fr, PutPte(sp, d, p, e))
BY DEF WithPte, Memory, PutPte

LEMMA MemoryShareable ==
  ASSUME NEW fr, NEW sp, NEW f
  PROVE  Shareable(Memory(fr, sp), f) <=> fr[f].refs \in 1 .. MAX_REFS - 1
BY DEF Shareable, Memory

\* A free frame is handed out when there is one.
LEMMA FirstIsFree ==
  ASSUME NEW fr, FreeIn(fr) # {}
  PROVE  FirstIn(fr) \in FreeIn(fr) /\ FirstIn(fr) \in Frames /\ fr[FirstIn(fr)].refs = 0
<1>1. FreeIn(fr) \in SUBSET Nat
  BY DEF FreeIn, Frames
<1>2. \E f \in FreeIn(fr) : \A g \in FreeIn(fr) : f <= g
  BY <1>1, LeastNatural
<1>3. FirstIn(fr) \in FreeIn(fr)
  BY <1>2, Zenon DEF FirstIn
<1>4. QED
  BY <1>3 DEF FreeIn

------------------------------------------------------------------------------
(* Counting the uses of a frame *)

\* How many of the first n pages have their entry at frame f.
HitsBelow(pte, f, n) == {p \in 0..n - 1 : pte[p].frame = f}
CountBelow(pte, f, n) == Cardinality(HitsBelow(pte, f, n))
PageCount(pte, f) == CountBelow(pte, f, ENTRIES)

OneIf(b) == IF b THEN 1 ELSE 0
OneAt(e, f) == IF e.frame = f THEN 1 ELSE 0

LEMMA CountSteps ==
  ASSUME NEW pte, NEW f, NEW n \in Nat
  PROVE  /\ CountBelow(pte, f, n) \in Nat
         /\ CountBelow(pte, f, 0) = 0
         /\ CountBelow(pte, f, n + 1) = CountBelow(pte, f, n) + OneAt(pte[n], f)
         /\ \A m \in 0..n : CountBelow(pte, f, m) <= CountBelow(pte, f, n)
<1>1. \A m \in Nat : IsFiniteSet(HitsBelow(pte, f, m))
  <2>1. ASSUME NEW m \in Nat PROVE IsFiniteSet(HitsBelow(pte, f, m))
    <3>1. IsFiniteSet(0..m - 1)
      BY FS_Interval
    <3>2. HitsBelow(pte, f, m) \in SUBSET (0..m - 1)
      BY DEF HitsBelow
    <3>3. QED
      BY <3>1, <3>2, FS_Subset
  <2>2. QED
    BY <2>1
<1>2. CountBelow(pte, f, n) \in Nat
  BY <1>1, FS_CardinalityType DEF CountBelow
<1>3. CountBelow(pte, f, 0) = 0
  <2>1. HitsBelow(pte, f, 0) = {}
    BY DEF HitsBelow
  <2>2. QED
    BY <2>1, FS_EmptySet DEF CountBelow
<1>4. CountBelow(pte, f, n + 1) = CountBelow(pte, f, n) + OneAt(pte[n], f)
  <2>1. n \notin HitsBelow(pte, f, n) /\ 0..(n + 1) - 1 = (0..n - 1) \union {n}
    BY DEF HitsBelow
  <2>2. CASE pte[n].frame = f
    <3>1. HitsBelow(pte, f, n + 1) = HitsBelow(pte, f, n) \union {n}
      BY <2>1, <2>2 DEF HitsBelow
    <3>2. QED
      BY <1>1, <2>1, <2>2, <3>1, FS_AddElement DEF CountBelow, OneAt
  <2>3. CASE pte[n].frame # f
    <3>1. HitsBelow(pte, f, n + 1) = HitsBelow(pte, f, n)
      BY <2>1, <2>3 DEF HitsBelow
    <3>2. QED
      BY <1>2, <2>3, <3>1 DEF CountBelow, OneAt
  <2>4. QED
    BY <2>2, <2>3
<1>5. ASSUME NEW m \in 0..n
      PROVE  CountBelow(pte, f, m) <= CountBelow(pte, f, n)
  <2>1. HitsBelow(pte, f, m) \in SUBSET HitsBelow(pte, f, n)
    BY DEF HitsBelow
  <2>2. QED
    BY <1>1, <2>1, FS_Subset DEF CountBelow
<1>6. QED
  BY <1>2, <1>3, <1>4, <1>5

\* One more turn of a loop over the pages.
LEMMA CountTurn ==
  ASSUME NEW pte, NEW f, NEW n \in 1..ENTRIES
  PROVE  /\ CountBelow(pte, f, n) = CountBelow(pte, f, n - 1) + OneAt(pte[n - 1], f)
         /\ CountBelow(pte, f, n - 1) \in Nat /\ OneAt(pte[n - 1], f) \in {0, 1}
         /\ CountBelow(pte, f, n) <= PageCount(pte, f)
         /\ PageCount(pte, f) \in Nat
<1>1. n - 1 \in Nat /\ (n - 1) + 1 = n /\ ENTRIES \in Nat /\ n \in 0..ENTRIES
  BY PagesAssumption
<1>2. /\ CountBelow(pte, f, (n - 1) + 1) = CountBelow(pte, f, n - 1) + OneAt(pte[n - 1], f)
      /\ CountBelow(pte, f, n - 1) \in Nat
  BY <1>1, CountSteps, Zenon
<1>3. /\ CountBelow(pte, f, ENTRIES) \in Nat
      /\ \A m \in 0..ENTRIES : CountBelow(pte, f, m) <= CountBelow(pte, f, ENTRIES)
  BY <1>1, CountSteps
<1>4. OneAt(pte[n - 1], f) \in {0, 1}
  BY DEF OneAt
<1>5. QED
  BY <1>1, <1>2, <1>3, <1>4 DEF PageCount

LEMMA PageCountType == ASSUME NEW pte, NEW f PROVE PageCount(pte, f) \in Nat
BY CountSteps, PagesAssumption DEF PageCount

\* The tables and the pages that use a frame.
TablesAt(sp, f) == {d \in DOMAIN sp : f \in sp[d].tables}
PagesAt(sp, f) == {x \in (DOMAIN sp) \X Pages : sp[x[1]].pte[x[2]].frame = f}
UsesIn(sp, f) == Cardinality(TablesAt(sp, f)) + Cardinality(PagesAt(sp, f))

LEMMA UsesAreUses == \A f : UsesIn(spaces, f) = Uses(f)
BY DEF UsesIn, TablesAt, PagesAt, Uses

Machine == arch \in {"i386", "x86_64"}

LEMMA FramesAreFinite == ASSUME Machine PROVE IsFiniteSet(Frames) /\ Frames \subseteq Nat \ {0}
<1>1. Pool[arch] \in Nat
  BY PoolAssumption DEF Machine
<1>2. \A n \in Nat : IsFiniteSet(1 .. n) /\ 1 .. n \subseteq Nat \ {0}
  BY FS_Interval
<1>3. QED
  BY <1>1, <1>2 DEF Frames

LEMMA SpacesAreFinite ==
  ASSUME Machine, NEW sp \in SpaceMaps
  PROVE  /\ sp \in [DOMAIN sp -> Space] /\ DOMAIN sp \subseteq Frames
         /\ IsFiniteSet(DOMAIN sp) /\ IsFiniteSet((DOMAIN sp) \X Pages)
<1>1. sp \in [DOMAIN sp -> Space] /\ DOMAIN sp \subseteq Frames
  BY DEF SpaceMaps
<1>2. IsFiniteSet(DOMAIN sp)
  BY <1>1, FramesAreFinite, FS_Subset
<1>3. IsFiniteSet(Pages)
  BY PagesAssumption, FS_Interval DEF Pages
<1>4. IsFiniteSet((DOMAIN sp) \X Pages)
  BY <1>2, <1>3, FS_Product
<1>5. QED
  BY <1>1, <1>2, <1>4

LEMMA UsersAreFinite ==
  ASSUME Machine, NEW sp \in SpaceMaps, NEW f
  PROVE  /\ IsFiniteSet(TablesAt(sp, f)) /\ IsFiniteSet(PagesAt(sp, f))
         /\ Cardinality(TablesAt(sp, f)) \in Nat /\ Cardinality(PagesAt(sp, f)) \in Nat
         /\ UsesIn(sp, f) \in Nat
<1>1. TablesAt(sp, f) \in SUBSET DOMAIN sp /\ PagesAt(sp, f) \in SUBSET ((DOMAIN sp) \X Pages)
  BY DEF TablesAt, PagesAt
<1>2. IsFiniteSet(TablesAt(sp, f)) /\ IsFiniteSet(PagesAt(sp, f))
  BY <1>1, SpacesAreFinite, FS_Subset
<1>3. QED
  BY <1>2, FS_CardinalityType DEF UsesIn

\* A frame without uses is in no table and in no page.
LEMMA Unused ==
  ASSUME Machine, NEW sp \in SpaceMaps, NEW f, UsesIn(sp, f) = 0
  PROVE  /\ \A d \in DOMAIN sp : f \notin sp[d].tables
         /\ \A d \in DOMAIN sp, p \in Pages : sp[d].pte[p].frame # f
<1>1. Cardinality(TablesAt(sp, f)) = 0 /\ Cardinality(PagesAt(sp, f)) = 0
  BY UsersAreFinite DEF UsesIn
<1>2. TablesAt(sp, f) = {} /\ PagesAt(sp, f) = {}
  BY <1>1, UsersAreFinite, FS_EmptySet
<1>3. \A d \in DOMAIN sp : f \notin sp[d].tables
  BY <1>2 DEF TablesAt
<1>4. ASSUME NEW d \in DOMAIN sp, NEW p \in Pages
      PROVE  sp[d].pte[p].frame # f
  <2>1. <<d, p>> \in (DOMAIN sp) \X Pages /\ <<d, p>> \notin PagesAt(sp, f)
    BY <1>2
  <2>2. QED
    BY <2>1 DEF PagesAt
<1>5. QED
  BY <1>3, <1>4

\* Another entry for a page.
LEMMA PutPteType ==
  ASSUME NEW sp \in SpaceMaps, NEW d \in DOMAIN sp, NEW p \in Pages, NEW e \in Pte
  PROVE  /\ PutPte(sp, d, p, e) \in SpaceMaps /\ DOMAIN PutPte(sp, d, p, e) = DOMAIN sp
         /\ PutPte(sp, d, p, e)[d].pte[p] = e
         /\ \A s \in DOMAIN sp : PutPte(sp, d, p, e)[s].tables = sp[s].tables
         /\ \A s \in DOMAIN sp, q \in Pages :
              <<s, q>> # <<d, p>> => PutPte(sp, d, p, e)[s].pte[q] = sp[s].pte[q]
<1>1. PICK D \in SUBSET Frames : sp \in [D -> Space]
  BY DEF SpaceMaps
<1>2. DOMAIN sp = D /\ sp[d] \in Space
  BY <1>1
<1> DEFINE x == [sp[d] EXCEPT !.pte[p] = e]
<1>3. /\ x \in Space /\ x.tables = sp[d].tables /\ x.pte[p] = e
      /\ \A q \in Pages \ {p} : x.pte[q] = sp[d].pte[q]
  BY <1>2 DEF Space
<1>4. PutPte(sp, d, p, e) = [sp EXCEPT ![d] = x]
  BY <1>1, <1>2 DEF PutPte
<1> HIDE DEF x
<1>5. PutPte(sp, d, p, e) \in [D -> Space]
  BY <1>1, <1>3, <1>4
<1>6. PutPte(sp, d, p, e) \in SpaceMaps
  BY <1>5 DEF SpaceMaps
<1>7. \A s \in DOMAIN sp : PutPte(sp, d, p, e)[s] = IF s = d THEN x ELSE sp[s]
  BY <1>1, <1>2, <1>4
<1>8. QED
  BY <1>2, <1>3, <1>5, <1>6, <1>7

LEMMA PutPteUses ==
  ASSUME Machine, NEW sp \in SpaceMaps, NEW d \in DOMAIN sp, NEW p \in Pages, NEW e \in Pte,
         NEW old, old = sp[d].pte[p], NEW f
  PROVE  /\ UsesIn(sp, f) \in Nat /\ UsesIn(sp, f) >= OneAt(old, f)
         /\ UsesIn(PutPte(sp, d, p, e), f) = (UsesIn(sp, f) - OneAt(old, f)) + OneAt(e, f)
<1> DEFINE tp == PutPte(sp, d, p, e)
           Rest(s) == PagesAt(s, f) \ {<<d, p>>}
<1>1. /\ tp \in SpaceMaps /\ DOMAIN tp = DOMAIN sp /\ tp[d].pte[p] = e
      /\ \A s \in DOMAIN sp : tp[s].tables = sp[s].tables
      /\ \A s \in DOMAIN sp, q \in Pages : <<s, q>> # <<d, p>> => tp[s].pte[q] = sp[s].pte[q]
  BY PutPteType
<1> HIDE DEF tp
<1>2. TablesAt(tp, f) = TablesAt(sp, f)
  BY <1>1 DEF TablesAt
<1>3. Rest(tp) = Rest(sp)
  <2>1. \A x \in (DOMAIN sp) \X Pages : x # <<d, p>> => tp[x[1]].pte[x[2]] = sp[x[1]].pte[x[2]]
    BY <1>1
  <2>2. QED
    BY <1>1, <2>1 DEF PagesAt
<1>4. ASSUME NEW s \in SpaceMaps, d \in DOMAIN s
      PROVE  /\ Cardinality(Rest(s)) \in Nat
             /\ Cardinality(PagesAt(s, f)) = Cardinality(Rest(s)) + OneAt(s[d].pte[p], f)
  <2>1. IsFiniteSet(PagesAt(s, f)) /\ IsFiniteSet(Rest(s)) /\ Cardinality(PagesAt(s, f)) \in Nat
    BY <1>4, UsersAreFinite, FS_Subset
  <2>2. Cardinality(Rest(s)) \in Nat
    BY <2>1, FS_CardinalityType
  <2>3. CASE s[d].pte[p].frame = f
    <3>1. <<d, p>> \in PagesAt(s, f)
      BY <1>4, <2>3 DEF PagesAt
    <3>2. Cardinality(Rest(s)) = Cardinality(PagesAt(s, f)) - 1
      BY <2>1, <3>1, FS_RemoveElement
    <3>3. QED
      BY <2>1, <2>2, <2>3, <3>2 DEF OneAt
  <2>4. CASE s[d].pte[p].frame # f
    <3>1. Rest(s) = PagesAt(s, f)
      BY <2>4 DEF PagesAt
    <3>2. OneAt(s[d].pte[p], f) = 0
      BY <2>4 DEF OneAt
    <3> HIDE DEF Rest
    <3>3. QED
      BY <2>2, <3>1, <3>2
  <2>5. QED
    BY <2>3, <2>4
<1>5. OneAt(old, f) \in Nat /\ OneAt(e, f) \in Nat
  BY DEF OneAt
<1>6. Cardinality(TablesAt(sp, f)) \in Nat
  BY UsersAreFinite
<1>7. /\ Cardinality(Rest(sp)) \in Nat
      /\ Cardinality(PagesAt(sp, f)) = Cardinality(Rest(sp)) + OneAt(old, f)
      /\ Cardinality(PagesAt(tp, f)) = Cardinality(Rest(sp)) + OneAt(e, f)
  BY <1>1, <1>3, <1>4
<1>8. /\ UsesIn(sp, f) \in Nat /\ UsesIn(sp, f) >= OneAt(old, f)
      /\ UsesIn(tp, f) = (UsesIn(sp, f) - OneAt(old, f)) + OneAt(e, f)
  <2> HIDE DEF Rest
  <2> QED
    BY <1>2, <1>5, <1>6, <1>7 DEF UsesIn
<1>9. QED
  BY <1>8 DEF tp

\* Without one of the spaces.
LEMMA WithoutUses ==
  ASSUME Machine, NEW sp \in SpaceMaps, NEW d \in DOMAIN sp, NEW f,
         NEW x, x = sp[d]
  PROVE  /\ Without(sp, d) \in SpaceMaps /\ DOMAIN Without(sp, d) = DOMAIN sp \ {d}
         /\ \A s \in DOMAIN sp \ {d} : Without(sp, d)[s] = sp[s]
         /\ UsesIn(Without(sp, d), f) \in Nat
         /\ UsesIn(sp, f) = UsesIn(Without(sp, d), f) + (OneIf(f \in x.tables) + PageCount(x.pte, f))
<1> DEFINE tp == Without(sp, d)
           M == {y \in PagesAt(sp, f) : y[1] = d}
           Hits == HitsBelow(x.pte, f, ENTRIES)
           second == [y \in M |-> y[2]]
<1>1. sp \in [DOMAIN sp -> Space] /\ DOMAIN sp \subseteq Frames
  BY SpacesAreFinite
<1>2. tp \in [DOMAIN sp \ {d} -> Space] /\ DOMAIN tp = DOMAIN sp \ {d} /\ \A s \in DOMAIN sp \ {d} : tp[s] = sp[s]
  BY <1>1 DEF Without
<1> HIDE DEF tp
<1>3. tp \in SpaceMaps
  BY <1>1, <1>2 DEF SpaceMaps
<1>4. TablesAt(tp, f) = TablesAt(sp, f) \ {d}
  BY <1>2 DEF TablesAt
<1>5. PagesAt(sp, f) = PagesAt(tp, f) \union M /\ PagesAt(tp, f) \intersect M = {}
  <2>1. ASSUME NEW y \in PagesAt(sp, f), y \notin M PROVE y \in PagesAt(tp, f)
    <3>1. y \in (DOMAIN tp) \X Pages /\ tp[y[1]] = sp[y[1]]
      BY <1>2, <2>1 DEF PagesAt
    <3>2. QED
      BY <3>1 DEF PagesAt
  <2>2. ASSUME NEW y \in PagesAt(tp, f) PROVE y \in PagesAt(sp, f) /\ y \notin M
    <3>1. y \in (DOMAIN sp) \X Pages /\ y[1] # d /\ tp[y[1]] = sp[y[1]]
      BY <1>2 DEF PagesAt
    <3>2. QED
      BY <3>1 DEF PagesAt
  <2>3. M \subseteq PagesAt(sp, f)
    OBVIOUS
  <2> HIDE DEF M
  <2>4. QED
    BY <2>1, <2>2, <2>3
<1>6. second \in Bijection(M, Hits)
  <2>1. \A y \in M : y = <<d, y[2]>> /\ y[2] \in Hits
    BY DEF PagesAt, HitsBelow, Pages
  <2>2. \A p \in Hits : <<d, p>> \in M
    BY DEF PagesAt, HitsBelow, Pages
  <2> HIDE DEF M, Hits
  <2>3. second \in [M -> Hits]
    BY <2>1
  <2>4. \A a, b \in M : second[a] = second[b] => a = b
    BY <2>1
  <2>5. \A p \in Hits : \E y \in M : second[y] = p
    <3> SUFFICES ASSUME NEW p \in Hits PROVE \E y \in M : second[y] = p
      OBVIOUS
    <3>1. <<d, p>> \in M /\ second[<<d, p>>] = p
      BY <2>2
    <3>2. QED
      BY <3>1
  <2>6. QED
    BY <2>3, <2>4, <2>5 DEF Bijection, Injection, Surjection, IsInjective
<1>7. /\ IsFiniteSet(PagesAt(sp, f)) /\ IsFiniteSet(TablesAt(sp, f)) /\ IsFiniteSet(PagesAt(tp, f))
      /\ Cardinality(PagesAt(tp, f)) \in Nat /\ Cardinality(TablesAt(tp, f)) \in Nat
      /\ Cardinality(TablesAt(sp, f)) \in Nat
  BY <1>3, UsersAreFinite
<1>8. IsFiniteSet(M) /\ Cardinality(M) \in Nat
  <2>1. IsFiniteSet(M)
    BY <1>7, FS_Subset
  <2>2. QED
    BY <2>1, FS_CardinalityType
<1>9. Cardinality(M) = PageCount(x.pte, f)
  <2> HIDE DEF M, Hits, second
  <2>1. ExistsBijection(M, Hits)
    BY <1>6 DEF ExistsBijection
  <2>2. QED
    BY <1>8, <2>1, FS_Bijection DEF Hits, PageCount, CountBelow
<1>10. Cardinality(PagesAt(sp, f)) = Cardinality(PagesAt(tp, f)) + Cardinality(M)
  <2> HIDE DEF M
  <2>1. Cardinality(PagesAt(tp, f) \union M) = Cardinality(PagesAt(tp, f)) + Cardinality(M) - Cardinality({})
    BY <1>5, <1>7, <1>8, FS_Union
  <2>2. QED
    BY <1>5, <1>7, <1>8, <2>1, FS_EmptySet
<1>11. Cardinality(TablesAt(sp, f)) = Cardinality(TablesAt(tp, f)) + OneIf(f \in x.tables)
  <2>1. CASE f \in x.tables
    <3>1. d \in TablesAt(sp, f)
      BY <2>1 DEF TablesAt
    <3>2. Cardinality(TablesAt(tp, f)) = Cardinality(TablesAt(sp, f)) - 1
      BY <1>4, <1>7, <3>1, FS_RemoveElement
    <3>3. QED
      BY <1>7, <2>1, <3>2 DEF OneIf
  <2>2. CASE f \notin x.tables
    <3>1. TablesAt(tp, f) = TablesAt(sp, f)
      BY <1>4, <2>2 DEF TablesAt
    <3>2. QED
      BY <1>7, <2>2, <3>1 DEF OneIf
  <2>3. QED
    BY <2>1, <2>2
<1>12. PageCount(x.pte, f) \in Nat /\ OneIf(f \in x.tables) \in Nat
  BY PageCountType DEF OneIf
<1>13. UsesIn(tp, f) \in Nat /\ UsesIn(sp, f) = UsesIn(tp, f) + (OneIf(f \in x.tables) + PageCount(x.pte, f))
  <2> HIDE DEF M
  <2>1. QED
    BY <1>7, <1>8, <1>9, <1>10, <1>11, <1>12 DEF UsesIn
<1>14. QED
  BY <1>2, <1>3, <1>13 DEF tp

\* A page table without an entry at a frame.
LEMMA NoPageCount ==
  ASSUME NEW pte, NEW f, \A p \in Pages : pte[p].frame # f
  PROVE  PageCount(pte, f) = 0
<1>1. HitsBelow(pte, f, ENTRIES) = {}
  BY DEF HitsBelow, Pages
<1>2. QED
  BY <1>1, FS_EmptySet DEF PageCount, CountBelow

NoPages(x) == \A p \in Pages : x.pte[p].frame = 0

\* With one more space.
LEMMA WithSpaceType ==
  ASSUME Machine, NEW sp \in SpaceMaps, NEW d \in Frames, NEW x \in Space
  PROVE  /\ WithSpace(sp, d, x) \in SpaceMaps /\ DOMAIN WithSpace(sp, d, x) = DOMAIN sp \union {d}
         /\ WithSpace(sp, d, x)[d] = x
         /\ \A s \in DOMAIN sp \ {d} : WithSpace(sp, d, x)[s] = sp[s]
<1> DEFINE tp == WithSpace(sp, d, x)
<1>1. sp \in [DOMAIN sp -> Space] /\ DOMAIN sp \subseteq Frames
  BY SpacesAreFinite
<1>2. /\ tp \in [DOMAIN sp \union {d} -> Space] /\ DOMAIN tp = DOMAIN sp \union {d}
      /\ tp[d] = x /\ \A s \in DOMAIN sp \ {d} : tp[s] = sp[s]
  BY <1>1 DEF WithSpace
<1> HIDE DEF tp
<1>3. tp \in SpaceMaps
  BY <1>1, <1>2 DEF SpaceMaps
<1>4. QED
  BY <1>2, <1>3 DEF tp

LEMMA WithSpaceUses ==
  ASSUME Machine, NEW sp \in SpaceMaps, NEW d \in Frames, d \notin DOMAIN sp, NEW x \in Space,
         NoPages(x), NEW f \in Frames
  PROVE  /\ UsesIn(sp, f) \in Nat
         /\ UsesIn(WithSpace(sp, d, x), f) = UsesIn(sp, f) + OneIf(f \in x.tables)
<1> DEFINE tp == WithSpace(sp, d, x)
<1>1. /\ tp \in SpaceMaps /\ DOMAIN tp = DOMAIN sp \union {d}
      /\ tp[d] = x /\ \A s \in DOMAIN sp \ {d} : tp[s] = sp[s]
  BY WithSpaceType
<1> HIDE DEF tp
<1>2. Without(tp, d) = sp
  <2>1. sp \in [DOMAIN sp -> Space]
    BY SpacesAreFinite
  <2>2. QED
    BY <1>1, <2>1 DEF Without
<1>3. PageCount(x.pte, f) = 0 /\ OneIf(f \in x.tables) \in Nat
  <2>1. \A p \in Pages : x.pte[p].frame # f
    BY DEF Frames, NoPages
  <2>2. QED
    BY <2>1, NoPageCount DEF OneIf
<1>4. /\ UsesIn(Without(tp, d), f) \in Nat
      /\ UsesIn(tp, f) = UsesIn(Without(tp, d), f) + (OneIf(f \in x.tables) + PageCount(x.pte, f))
  <2>1. d \in DOMAIN tp /\ x = tp[d]
    BY <1>1
  <2>2. ASSUME NEW y, y = tp[d]
        PROVE  /\ UsesIn(Without(tp, d), f) \in Nat
               /\ UsesIn(tp, f) = UsesIn(Without(tp, d), f) + (OneIf(f \in y.tables) + PageCount(y.pte, f))
    BY <1>1, <2>1, <2>2, WithoutUses
  <2>3. QED
    BY <2>1, <2>2, Zenon
<1>5. QED
  BY <1>2, <1>3, <1>4 DEF tp

------------------------------------------------------------------------------
(* A memory in order *)

Exact(fr, sp) == \A f \in Frames : fr[f].refs = UsesIn(sp, f)

\* An entry that can be written without a fault has the frame for itself.
Guarded(fr, e) == Present(e) => IF e.writable THEN fr[e.frame].refs = 1 ELSE e.cow

MemOK(fr, sp) ==
  /\ fr \in FrameMaps /\ sp \in SpaceMaps /\ Exact(fr, sp)
  /\ \A d \in DOMAIN sp : d \in sp[d].tables
  /\ \A d \in DOMAIN sp, p \in Pages : Guarded(fr, sp[d].pte[p])

LEMMA EntryTypes ==
  ASSUME NEW e \in Pte
  PROVE  /\ Present(e) => e.frame \in Frames /\ e.writable \in BOOLEAN /\ e.cow \in BOOLEAN
         /\ ~Present(e) => /\ e \in {Absent, Demand} /\ e.frame = 0
                           /\ \A f \in Frames : OneAt(e, f) = 0
         /\ e.frame \in Frames => Present(e)
BY DEF Pte, Absent, Demand, Present, OneAt, Frames

LEMMA MappedTypes ==
  ASSUME NEW f \in Frames, NEW w \in BOOLEAN, NEW c \in BOOLEAN
  PROVE  /\ Mapped(f, w, c) \in Pte /\ Present(Mapped(f, w, c))
         /\ Mapped(f, w, c).frame = f /\ Mapped(f, w, c).writable = w /\ Mapped(f, w, c).cow = c
BY DEF Mapped, Pte, Present

LEMMA SpaceTypes ==
  ASSUME NEW sp \in SpaceMaps, NEW d \in DOMAIN sp
  PROVE  /\ d \in Frames /\ sp[d] \in Space /\ sp[d].tables \in SUBSET Frames
         /\ sp[d].pte \in [Pages -> Pte]
         /\ \A p \in Pages : sp[d].pte[p] \in Pte
<1>1. PICK D \in SUBSET Frames : sp \in [D -> Space]
  BY DEF SpaceMaps
<1>2. sp[d] \in Space /\ d \in Frames
  BY <1>1
<1>3. QED
  BY <1>2 DEF Space

\* What is used has a count, and the only use of a frame is the only one.
LEMMA UsedFrames ==
  ASSUME Machine, NEW fr, NEW sp, MemOK(fr, sp), NEW f \in Frames
  PROVE  /\ fr[f].refs = UsesIn(sp, f) /\ fr[f].refs \in Nat
         /\ fr[f].refs = 0 => /\ \A d \in DOMAIN sp : f \notin sp[d].tables
                              /\ \A d \in DOMAIN sp, p \in Pages : sp[d].pte[p].frame # f
<1>1. sp \in SpaceMaps /\ fr[f].refs = UsesIn(sp, f)
  BY DEF MemOK, Exact
<1>2. UsesIn(sp, f) \in Nat
  BY <1>1, UsersAreFinite
<1>3. UsesIn(sp, f) = 0 => /\ \A d \in DOMAIN sp : f \notin sp[d].tables
                           /\ \A d \in DOMAIN sp, p \in Pages : sp[d].pte[p].frame # f
  BY <1>1, Unused
<1>4. QED
  BY <1>1, <1>2, <1>3

LEMMA OnlyUse ==
  ASSUME Machine, NEW fr, NEW sp, MemOK(fr, sp), NEW d \in DOMAIN sp, NEW p \in Pages,
         NEW f \in Frames, sp[d].pte[p].frame = f, fr[f].refs = 1
  PROVE  \A s \in DOMAIN sp, q \in Pages : <<s, q>> # <<d, p>> => sp[s].pte[q].frame # f
<1> DEFINE tp == PutPte(sp, d, p, Absent)
           old == sp[d].pte[p]
<1>1. sp \in SpaceMaps /\ Absent \in Pte /\ UsesIn(sp, f) = 1
  BY DEF MemOK, Exact, Pte
<1>2. OneAt(Absent, f) = 0 /\ OneAt(old, f) = 1
  BY DEF OneAt, Absent, Frames
<1>3. /\ tp \in SpaceMaps /\ DOMAIN tp = DOMAIN sp
      /\ \A s \in DOMAIN sp, q \in Pages : <<s, q>> # <<d, p>> => tp[s].pte[q] = sp[s].pte[q]
  BY <1>1, PutPteType
<1> HIDE DEF old
<1>4. UsesIn(tp, f) = (UsesIn(sp, f) - OneAt(old, f)) + OneAt(Absent, f)
  BY <1>1, PutPteUses DEF old
<1> HIDE DEF tp
<1>5. UsesIn(tp, f) = 0
  BY <1>1, <1>2, <1>4
<1>6. \A s \in DOMAIN tp, q \in Pages : tp[s].pte[q].frame # f
  BY <1>3, <1>5, Unused
<1>7. QED
  BY <1>3, <1>6

\* Another entry for a page, with the counts that go with it.
LEMMA EntryChange ==
  ASSUME Machine, NEW fr, NEW sp, MemOK(fr, sp), NEW d \in DOMAIN sp, NEW p \in Pages,
         NEW old, old = sp[d].pte[p], NEW e \in Pte, NEW gr \in FrameMaps,
         \A f \in Frames : gr[f].refs = (fr[f].refs - OneAt(old, f)) + OneAt(e, f),
         Guarded(gr, e),
         \A s \in DOMAIN sp, q \in Pages :
           <<s, q>> # <<d, p>> /\ Present(sp[s].pte[q]) /\ sp[s].pte[q].frame = e.frame
             => ~sp[s].pte[q].writable
  PROVE  MemOK(gr, PutPte(sp, d, p, e))
<1> DEFINE tp == PutPte(sp, d, p, e)
<1>1. sp \in SpaceMaps /\ fr \in FrameMaps
  BY DEF MemOK
<1>2. /\ tp \in SpaceMaps /\ DOMAIN tp = DOMAIN sp /\ tp[d].pte[p] = e
      /\ \A s \in DOMAIN sp : tp[s].tables = sp[s].tables
      /\ \A s \in DOMAIN sp, q \in Pages : <<s, q>> # <<d, p>> => tp[s].pte[q] = sp[s].pte[q]
  BY <1>1, PutPteType
<1>3. ASSUME NEW f \in Frames PROVE gr[f].refs = UsesIn(tp, f)
  <2>1. UsesIn(tp, f) = (UsesIn(sp, f) - OneAt(old, f)) + OneAt(e, f)
    BY <1>1, PutPteUses
  <2> HIDE DEF tp
  <2>2. fr[f].refs = UsesIn(sp, f)
    BY DEF MemOK, Exact
  <2>3. QED
    BY <2>1, <2>2
<1> HIDE DEF tp
<1>4. ASSUME NEW s \in DOMAIN sp, NEW q \in Pages, <<s, q>> # <<d, p>>, NEW e2, e2 = sp[s].pte[q]
      PROVE  Guarded(gr, e2)
  <2>1. SUFFICES ASSUME Present(e2), e2.writable PROVE gr[e2.frame].refs = 1
    BY <1>4 DEF Guarded, MemOK
  <2>2. e2.frame \in Frames /\ fr[e2.frame].refs = 1
    BY <1>1, <1>4, <2>1, SpaceTypes, EntryTypes DEF MemOK, Guarded
  <2>3. old.frame # e2.frame
    BY <1>4, <2>2, OnlyUse
  <2>4. e.frame # e2.frame
    BY <1>4, <2>1
  <2>5. OneAt(old, e2.frame) = 0 /\ OneAt(e, e2.frame) = 0
    BY <2>3, <2>4 DEF OneAt
  <2>6. QED
    BY <2>2, <2>5
<1>5. \A s \in DOMAIN tp, q \in Pages : Guarded(gr, tp[s].pte[q])
  BY <1>2, <1>4
<1>6. \A s \in DOMAIN tp : s \in tp[s].tables
  BY <1>2 DEF MemOK
<1>7. MemOK(gr, tp)
  BY <1>2, <1>3, <1>5, <1>6 DEF MemOK, Exact
<1>8. QED
  BY <1>7 DEF tp

\* Spaces whose tables and entries name the same frames.
SameFrames(sp, tp) ==
  /\ DOMAIN tp = DOMAIN sp
  /\ \A s \in DOMAIN sp : /\ tp[s].tables = sp[s].tables
                          /\ \A q \in Pages : tp[s].pte[q].frame = sp[s].pte[q].frame

LEMMA SameFramesUses ==
  ASSUME NEW sp, NEW tp, SameFrames(sp, tp), NEW f
  PROVE  UsesIn(tp, f) = UsesIn(sp, f)
<1>1. TablesAt(tp, f) = TablesAt(sp, f)
  BY DEF TablesAt, SameFrames
<1>2. PagesAt(tp, f) = PagesAt(sp, f)
  <2>1. \A x \in (DOMAIN sp) \X Pages : tp[x[1]].pte[x[2]].frame = sp[x[1]].pte[x[2]].frame
    BY DEF SameFrames
  <2>2. QED
    BY <2>1 DEF PagesAt, SameFrames
<1>3. QED
  BY <1>1, <1>2 DEF UsesIn

\* Only contents change.
LEMMA ContentChange ==
  ASSUME NEW fr, NEW sp, MemOK(fr, sp), NEW gr \in FrameMaps,
         \A f \in Frames : gr[f].refs = fr[f].refs
  PROVE  MemOK(gr, sp)
<1>1. sp \in SpaceMaps
  BY DEF MemOK
<1>2. ASSUME NEW d \in DOMAIN sp, NEW p \in Pages, NEW e, e = sp[d].pte[p] PROVE Guarded(gr, e)
  <2>1. e \in Pte /\ Guarded(fr, e)
    BY <1>1, <1>2, SpaceTypes DEF MemOK
  <2>2. QED
    BY <2>1, EntryTypes DEF Guarded
<1>3. QED
  BY <1>2 DEF MemOK, Exact

------------------------------------------------------------------------------
(* One frame *)

LEMMA PutFrameType ==
  ASSUME NEW fr \in FrameMaps, NEW f \in Frames, NEW x \in Frame
  PROVE  /\ PutFrame(fr, f, x) \in FrameMaps /\ PutFrame(fr, f, x)[f] = x
         /\ \A g \in Frames \ {f} : PutFrame(fr, f, x)[g] = fr[g]
BY DEF FrameMaps, PutFrame

LEMMA FrameTypes ==
  ASSUME NEW fr \in FrameMaps, NEW f \in Frames
  PROVE  fr[f] \in Frame /\ fr[f].refs \in 0 .. MAX_REFS /\ fr[f].refs \in Nat /\ fr[f].data \in Contents
BY RefsAssumption DEF FrameMaps, Frame

LEMMA FreedType ==
  ASSUME NEW x \in Frame
  PROVE  /\ Freed(x) \in Frame
         /\ x.refs > 0 => Freed(x).refs = x.refs - 1
         /\ Freed(x).refs > 0 => Freed(x).data = x.data
BY RefsAssumption DEF Freed, Frame, Contents

\* A reference is given back: frames keep their content while they are used.
LEMMA FreeOne ==
  ASSUME NEW fr \in FrameMaps, NEW f \in Frames, fr[f].refs > 0
  PROVE  /\ PutFrame(fr, f, Freed(fr[f])) \in FrameMaps
         /\ \A g \in Frames :
              /\ PutFrame(fr, f, Freed(fr[f]))[g].refs = fr[g].refs - (IF g = f THEN 1 ELSE 0)
              /\ PutFrame(fr, f, Freed(fr[f]))[g].refs > 0 => PutFrame(fr, f, Freed(fr[f]))[g].data = fr[g].data
<1> DEFINE x == fr[f]
           y == Freed(x)
           gr == PutFrame(fr, f, y)
<1>1. x \in Frame /\ y \in Frame /\ y.refs = x.refs - 1 /\ (y.refs > 0 => y.data = x.data)
  BY FrameTypes, FreedType
<1> HIDE DEF y
<1>2. gr \in FrameMaps /\ gr[f] = y /\ \A g \in Frames \ {f} : gr[g] = fr[g]
  BY <1>1, PutFrameType
<1> HIDE DEF gr
<1>3. ASSUME NEW g \in Frames
      PROVE  /\ gr[g].refs = fr[g].refs - (IF g = f THEN 1 ELSE 0)
             /\ gr[g].refs > 0 => gr[g].data = fr[g].data
  <2>1. CASE g = f
    BY <1>1, <1>2, <2>1
  <2>2. CASE g # f
    <3>1. fr[g].refs \in Nat /\ gr[g] = fr[g]
      BY <1>2, <2>2, FrameTypes
    <3>2. QED
      BY <2>2, <3>1
  <2>3. QED
    BY <2>1, <2>2
<1>4. QED
  BY <1>2, <1>3 DEF gr, y

\* Several frames are given back, once each.
LEMMA FreeSet ==
  ASSUME NEW fr \in FrameMaps, NEW given \in SUBSET Frames, \A f \in given : fr[f].refs > 0
  PROVE  /\ FreeAll(fr, given) \in FrameMaps
         /\ \A f \in Frames :
              /\ FreeAll(fr, given)[f].refs = fr[f].refs - OneIf(f \in given)
              /\ FreeAll(fr, given)[f].refs > 0 => FreeAll(fr, given)[f].data = fr[f].data
              /\ f \notin given => FreeAll(fr, given)[f] = fr[f]
<1>1. ASSUME NEW f \in Frames, NEW x, x = FreeAll(fr, given)[f]
      PROVE  /\ x \in Frame
             /\ x.refs = fr[f].refs - OneIf(f \in given)
             /\ x.refs > 0 => x.data = fr[f].data
             /\ f \notin given => x = fr[f]
  <2> DEFINE y == fr[f]
  <2>1. y \in Frame /\ y.refs \in Nat
    BY FrameTypes
  <2>2. x = IF f \in given THEN Freed(y) ELSE y
    BY <1>1 DEF FreeAll
  <2>3. f \in given => y.refs > 0
    OBVIOUS
  <2> HIDE DEF y
  <2>4. x \in Frame /\ x.refs = y.refs - OneIf(f \in given) /\ (x.refs > 0 => x.data = y.data)
    <3>1. CASE f \in given
      BY <2>1, <2>2, <2>3, <3>1, FreedType DEF OneIf
    <3>2. CASE f \notin given
      BY <2>1, <2>2, <3>2 DEF OneIf
    <3>3. QED
      BY <3>1, <3>2
  <2>5. QED
    BY <2>2, <2>4 DEF y
<1>2. FreeAll(fr, given) \in FrameMaps
  BY <1>1 DEF FreeAll, FrameMaps
<1>3. QED
  BY <1>1, <1>2

------------------------------------------------------------------------------
(* destroy_user_space *)

\* The frames after the first n entries have been given back.
Returned(fr, pte, n, h) ==
  \A f \in Frames : /\ h[f].refs = fr[f].refs - CountBelow(pte, f, n)
                    /\ h[f].refs > 0 => h[f].data = fr[f].data

LEMMA ReturnedTurn ==
  ASSUME NEW fr, NEW pte, pte \in [Pages -> Pte], NEW n \in 1..ENTRIES, NEW h \in FrameMaps,
         \A f \in Frames : fr[f].refs \in Nat /\ fr[f].refs >= PageCount(pte, f),
         Returned(fr, pte, n - 1, h), NEW e, e = pte[n - 1]
  PROVE  /\ Present(e) => /\ PutFrame(h, e.frame, Freed(h[e.frame])) \in FrameMaps
                          /\ Returned(fr, pte, n, PutFrame(h, e.frame, Freed(h[e.frame])))
         /\ ~Present(e) => Returned(fr, pte, n, h)
<1>1. e \in Pte
  BY PagesAssumption DEF Pages
<1>2. ASSUME NEW f \in Frames
      PROVE  /\ CountBelow(pte, f, n) = CountBelow(pte, f, n - 1) + OneAt(e, f)
             /\ CountBelow(pte, f, n - 1) \in Nat /\ OneAt(e, f) \in {0, 1}
             /\ CountBelow(pte, f, n) <= fr[f].refs
  <2>1. /\ CountBelow(pte, f, n) = CountBelow(pte, f, n - 1) + OneAt(e, f)
        /\ CountBelow(pte, f, n - 1) \in Nat /\ OneAt(e, f) \in {0, 1}
        /\ CountBelow(pte, f, n) <= PageCount(pte, f) /\ PageCount(pte, f) \in Nat
    BY CountTurn
  <2>2. QED
    BY <2>1
<1>3. CASE Present(e)
  <2> DEFINE f == e.frame
             g == PutFrame(h, f, Freed(h[f]))
  <2>1. f \in Frames /\ OneAt(e, f) = 1 /\ \A x \in Frames : OneAt(e, x) = IF x = f THEN 1 ELSE 0
    BY <1>1, <1>3, EntryTypes DEF OneAt
  <2> HIDE DEF f
  <2>2. h[f].refs > 0
    BY <1>2, <2>1 DEF Returned
  <2>3. /\ g \in FrameMaps
        /\ \A x \in Frames : /\ g[x].refs = h[x].refs - (IF x = f THEN 1 ELSE 0)
                             /\ g[x].refs > 0 => g[x].data = h[x].data
    BY <2>1, <2>2, FreeOne
  <2> HIDE DEF g
  <2>4. ASSUME NEW x \in Frames
        PROVE  /\ g[x].refs = fr[x].refs - CountBelow(pte, x, n)
               /\ g[x].refs > 0 => g[x].data = fr[x].data
    <3>1. /\ h[x].refs = fr[x].refs - CountBelow(pte, x, n - 1)
          /\ h[x].refs > 0 => h[x].data = fr[x].data
      BY DEF Returned
    <3>2. g[x].refs = h[x].refs - OneAt(e, x)
      BY <2>1, <2>3
    <3>3. /\ CountBelow(pte, x, n) = CountBelow(pte, x, n - 1) + OneAt(e, x)
          /\ CountBelow(pte, x, n - 1) \in Nat /\ OneAt(e, x) \in {0, 1} /\ fr[x].refs \in Nat
      BY <1>2
    <3>4. g[x].refs = fr[x].refs - CountBelow(pte, x, n) /\ (g[x].refs > 0 => h[x].refs > 0)
      BY <3>1, <3>2, <3>3
    <3>5. QED
      BY <2>3, <3>1, <3>4
  <2>5. QED
    BY <1>3, <2>3, <2>4 DEF Returned, g, f
<1>4. CASE ~Present(e)
  <2>1. \A f \in Frames : OneAt(e, f) = 0
    BY <1>1, <1>4, EntryTypes
  <2>2. \A f \in Frames : CountBelow(pte, f, n) = CountBelow(pte, f, n - 1)
    BY <1>2, <2>1
  <2>3. QED
    BY <1>4, <2>2 DEF Returned
<1>5. QED
  BY <1>3, <1>4

LEMMA PagesFreedLoop ==
  ASSUME NEW fr \in FrameMaps, NEW sp \in SpaceMaps, NEW d \in DOMAIN sp,
         NEW pte, pte = sp[d].pte,
         \A f \in Frames : fr[f].refs \in Nat /\ fr[f].refs >= PageCount(pte, f)
  PROVE  \E h \in FrameMaps : /\ PagesFreed(Memory(fr, sp), d) = Memory(h, sp)
                              /\ Returned(fr, pte, ENTRIES, h)
<1> DEFINE m == Memory(fr, sp)
           Turn(v, k) == IF Present(pte[k - 1]) THEN free(v, pte[k - 1].frame) ELSE v
           freed[k \in 0..ENTRIES] == IF k = 0 THEN m ELSE Turn(freed[k - 1], k)
           W == [k \in 0..ENTRIES |-> {Memory(h, sp) : h \in {h \in FrameMaps : Returned(fr, pte, k, h)}}]
           G == [k \in 1..ENTRIES |-> [v \in W[k - 1] |-> Turn(v, k)]]
<1>1. ENTRIES \in Nat /\ 0 \in 0..ENTRIES /\ ENTRIES \in 0..ENTRIES
      /\ \A k \in 1..ENTRIES : k - 1 \in 0..ENTRIES /\ k \in 0..ENTRIES /\ k - 1 \in Pages
  BY PagesAssumption DEF Pages
<1>2. pte \in [Pages -> Pte]
  BY SpaceTypes
<1>3. m \in W[0]
  <2>1. \A f \in Frames : CountBelow(pte, f, 0) = 0
    BY CountSteps
  <2>2. Returned(fr, pte, 0, fr)
    BY <2>1 DEF Returned
  <2>3. QED
    BY <1>1, <2>2
<1>4. ASSUME NEW k \in 1..ENTRIES, NEW v \in W[k - 1]
      PROVE  Turn(v, k) \in W[k]
  <2>1. PICK h \in FrameMaps : v = Memory(h, sp) /\ Returned(fr, pte, k - 1, h)
    BY <1>1
  <2> DEFINE e == pte[k - 1]
             g == PutFrame(h, e.frame, Freed(h[e.frame]))
  <2>2. /\ Present(e) => g \in FrameMaps /\ Returned(fr, pte, k, g)
        /\ ~Present(e) => Returned(fr, pte, k, h)
    BY <1>2, <2>1, ReturnedTurn
  <2>3. free(v, e.frame) = Memory(g, sp)
    BY <2>1, MemoryFree
  <2> HIDE DEF g
  <2>4. QED
    BY <1>1, <2>1, <2>2, <2>3
<1> HIDE DEF m
<1>5. PICK f : RunsWithin(f, ENTRIES, W, m, G)
  <2>1. TurnsWithin(ENTRIES, W, G)
    <3> HIDE DEF W, Turn
    <3> QED
      BY <1>4 DEF TurnsWithin
  <2> HIDE DEF W, G
  <2>2. QED
    BY <1>1, <1>3, <2>1, LoopWithin
<1>6. \A k \in 0..ENTRIES : k # 0 => G[k][f[k - 1]] = Turn(f[k - 1], k)
  <2>0. \A k \in 0..ENTRIES : k # 0 => k \in 1..ENTRIES /\ k - 1 \in 0..ENTRIES
    BY <1>1
  <2>1. \A k \in 0..ENTRIES : k # 0 => k \in 1..ENTRIES /\ f[k - 1] \in W[k - 1]
    <3> HIDE DEF W, G
    <3> QED
      BY <1>5, <2>0 DEF RunsWithin
  <2> HIDE DEF W, Turn
  <2>2. QED
    BY <2>1
<1> HIDE DEF W, G
<1>7. f = [k \in 0..ENTRIES |-> IF k = 0 THEN m ELSE Turn(f[k - 1], k)]
  <2> HIDE DEF Turn
  <2> QED
    BY <1>5, <1>6 DEF RunsWithin
<1>8. freed = [k \in 0..ENTRIES |-> IF k = 0 THEN m ELSE Turn(freed[k - 1], k)]
  BY <1>7, Zenon
<1>9. PagesFreed(m, d) = freed[ENTRIES]
  <2>1. pte = m.spaces[d].pte
    BY MemoryFields DEF m
  <2> HIDE DEF m
  <2>2. QED
    BY <2>1 DEF PagesFreed, FreedUpTo
<1> HIDE DEF freed, Turn
<1>10. \A k \in 0..ENTRIES : freed[k] \in W[k]
  <2> DEFINE S == {k \in 0..ENTRIES : freed[k] \in W[k]}
  <2>1. 0 \in S
    BY <1>1, <1>3, <1>8
  <2>2. ASSUME NEW k \in 1..ENTRIES, k - 1 \in S PROVE k \in S
    <3>1. freed[k] = Turn(freed[k - 1], k) /\ freed[k - 1] \in W[k - 1]
      BY <1>1, <1>8, <2>2
    <3>2. QED
      BY <1>1, <1>4, <3>1
  <2> HIDE DEF S
  <2>3. \A k \in 0..ENTRIES : k \in S
    BY <1>1, <2>1, <2>2, InductionUpTo
  <2>4. QED
    BY <2>3 DEF S
<1>11. freed[ENTRIES] \in W[ENTRIES]
  BY <1>1, <1>10
<1>12. QED
  BY <1>1, <1>9, <1>11 DEF W, m

\* The frames of the others keep their contents, and the counts only fall.
Shrinks(fr, gr) ==
  \A f \in Frames : /\ gr[f].refs <= fr[f].refs
                    /\ gr[f].refs > 0 => gr[f].data = fr[f].data

LEMMA DestroyKeeps ==
  ASSUME Machine, NEW fr, NEW sp, MemOK(fr, sp), NEW d \in DOMAIN sp
  PROVE  \E gr : /\ destroy_user_space(Memory(fr, sp), d) = Memory(gr, Without(sp, d))
                 /\ MemOK(gr, Without(sp, d)) /\ Shrinks(fr, gr)
<1> DEFINE x == sp[d]
           tables == x.tables
           tp == Without(sp, d)
<1>1. fr \in FrameMaps /\ sp \in SpaceMaps
  BY DEF MemOK
<1>2. d # NoSpace /\ tables \in SUBSET Frames /\ x.pte \in [Pages -> Pte]
  BY <1>1, SpaceTypes DEF Frames, NoSpace
<1>3. /\ tp \in SpaceMaps /\ DOMAIN tp = DOMAIN sp \ {d}
      /\ \A s \in DOMAIN sp \ {d} : tp[s] = sp[s]
      /\ \A f : /\ UsesIn(tp, f) \in Nat
                /\ UsesIn(sp, f) = UsesIn(tp, f) + (OneIf(f \in tables) + PageCount(x.pte, f))
  <2>0. x = sp[d]
    OBVIOUS
  <2> HIDE DEF x
  <2>1. ASSUME NEW f
        PROVE  /\ Without(sp, d) \in SpaceMaps /\ DOMAIN Without(sp, d) = DOMAIN sp \ {d}
               /\ \A s \in DOMAIN sp \ {d} : Without(sp, d)[s] = sp[s]
               /\ UsesIn(Without(sp, d), f) \in Nat
               /\ UsesIn(sp, f) = UsesIn(Without(sp, d), f) + (OneIf(f \in x.tables) + PageCount(x.pte, f))
    BY <1>1, <2>0, WithoutUses
  <2>2. QED
    BY <2>1
<1> HIDE DEF x
<1>4. ASSUME NEW f \in Frames
      PROVE  /\ fr[f].refs \in Nat /\ UsesIn(tp, f) \in Nat
             /\ PageCount(x.pte, f) \in Nat /\ OneIf(f \in tables) \in {0, 1}
             /\ fr[f].refs = UsesIn(tp, f) + (OneIf(f \in tables) + PageCount(x.pte, f))
  <2>1. fr[f].refs = UsesIn(sp, f)
    BY DEF MemOK, Exact
  <2>2. PageCount(x.pte, f) \in Nat /\ OneIf(f \in tables) \in {0, 1}
    BY PageCountType DEF OneIf
  <2> HIDE DEF tp, tables
  <2>3. QED
    BY <1>3, <2>1, <2>2 DEF tables
<1> HIDE DEF tp, tables
<1>5. PICK h \in FrameMaps : /\ PagesFreed(Memory(fr, sp), d) = Memory(h, sp)
                             /\ Returned(fr, x.pte, ENTRIES, h)
  <2>1. \A f \in Frames : fr[f].refs \in Nat /\ fr[f].refs >= PageCount(x.pte, f)
    BY <1>4
  <2>2. QED
    BY <1>1, <2>1, PagesFreedLoop DEF x
<1>6. \A f \in Frames : /\ h[f].refs = fr[f].refs - PageCount(x.pte, f)
                        /\ h[f].refs > 0 => h[f].data = fr[f].data
  BY <1>5 DEF Returned, PageCount
<1> DEFINE gr == FreeAll(h, tables)
<1>7. /\ gr \in FrameMaps
      /\ \A f \in Frames : /\ gr[f].refs = h[f].refs - OneIf(f \in tables)
                           /\ gr[f].refs > 0 => gr[f].data = h[f].data
  <2>1. ASSUME NEW f \in tables PROVE h[f].refs > 0
    <3>1. f \in Frames /\ OneIf(f \in tables) = 1
      BY <1>2 DEF OneIf
    <3>2. QED
      BY <1>4, <1>6, <3>1
  <2>2. QED
    BY <1>2, <2>1, FreeSet
<1>8. destroy_user_space(Memory(fr, sp), d) = Memory(gr, tp)
  <2>1. Memory(fr, sp).spaces = sp /\ free_all(Memory(h, sp), tables) = Memory(gr, sp)
    BY MemoryFields, MemoryFreeAll
  <2>2. [Memory(gr, sp) EXCEPT !.spaces = tp] = Memory(gr, tp)
    BY DEF Memory
  <2> HIDE DEF gr
  <2>3. destroy_user_space(Memory(fr, sp), d) = [Memory(gr, sp) EXCEPT !.spaces = Without(sp, d)]
    BY <1>2, <1>5, <2>1 DEF destroy_user_space, Without, tables, x
  <2>4. QED
    BY <2>2, <2>3 DEF tp
<1> HIDE DEF gr
<1>9. ASSUME NEW f \in Frames
      PROVE  /\ gr[f].refs = UsesIn(tp, f) /\ gr[f].refs <= fr[f].refs
             /\ gr[f].refs > 0 => gr[f].data = fr[f].data
  <2>1. gr[f].refs = UsesIn(tp, f) /\ gr[f].refs <= fr[f].refs /\ gr[f].refs <= h[f].refs
    BY <1>4, <1>6, <1>7
  <2>2. gr[f].refs > 0 => h[f].refs > 0
    BY <1>4, <1>6, <1>7
  <2>3. QED
    BY <1>6, <1>7, <2>1, <2>2
<1>10. ASSUME NEW s \in DOMAIN tp, NEW p \in Pages, NEW e, e = tp[s].pte[p] PROVE Guarded(gr, e)
  <2>1. s \in DOMAIN sp /\ e = sp[s].pte[p] /\ e \in Pte /\ Guarded(fr, e)
    BY <1>1, <1>3, <1>10, SpaceTypes DEF MemOK, tp
  <2>2. SUFFICES ASSUME Present(e), e.writable PROVE gr[e.frame].refs = 1
    BY <2>1 DEF Guarded
  <2>3. e.frame \in Frames /\ fr[e.frame].refs = 1
    BY <2>1, <2>2, EntryTypes DEF Guarded
  <2>4. UsesIn(tp, e.frame) # 0
    BY <1>3, <1>10, Unused DEF tp
  <2>5. QED
    BY <1>4, <1>9, <2>3, <2>4
<1>11. MemOK(gr, tp)
  BY <1>3, <1>7, <1>9, <1>10 DEF MemOK, Exact, tp, gr
<1>12. QED
  BY <1>8, <1>9, <1>11 DEF Shrinks, tp

------------------------------------------------------------------------------
(* create_user_space *)

Got(h, sp, T) == [m |-> Memory(h, sp), taken |-> T]

\* After up to n frames have been asked for: those in T have been free.
Taken(fr, n, h, T) ==
  /\ h \in FrameMaps /\ T \subseteq FreeIn(fr) /\ Cardinality(T) <= n
  /\ T = FreeIn(fr) \/ Cardinality(T) = n
  /\ n > 0 /\ FreeIn(fr) # {} => FirstIn(fr) \in T
  /\ \A f \in Frames : /\ f \in T => h[f].refs = 1
                       /\ f \notin T => h[f] = fr[f]

LEMMA TakenFacts ==
  ASSUME Machine, NEW fr \in FrameMaps, NEW n \in Nat, NEW h, NEW T, Taken(fr, n, h, T)
  PROVE  /\ T \in SUBSET Frames /\ IsFiniteSet(T) /\ Cardinality(T) \in Nat
         /\ IsFiniteSet(FreeIn(fr)) /\ Cardinality(FreeIn(fr)) \in Nat
         /\ Cardinality(T) <= Cardinality(FreeIn(fr))
         /\ FreeIn(h) = FreeIn(fr) \ T
<1>1. FreeIn(fr) \in SUBSET Frames /\ T \in SUBSET FreeIn(fr)
  BY DEF FreeIn, Taken
<1>2. IsFiniteSet(FreeIn(fr))
  BY <1>1, FramesAreFinite, FS_Subset
<1>3. IsFiniteSet(T) /\ Cardinality(T) <= Cardinality(FreeIn(fr))
  BY <1>1, <1>2, FS_Subset
<1>4. ASSUME NEW f \in Frames PROVE h[f].refs = 0 <=> (fr[f].refs = 0 /\ f \notin T)
  BY DEF Taken, FreeIn
<1>5. FreeIn(h) = FreeIn(fr) \ T
  BY <1>4 DEF FreeIn
<1>6. QED
  BY <1>1, <1>2, <1>3, <1>5, FS_CardinalityType

LEMMA TakenTurn ==
  ASSUME Machine, NEW fr \in FrameMaps, NEW n \in Nat \ {0}, NEW h, NEW T, Taken(fr, n - 1, h, T)
  PROVE  /\ FreeIn(h) = {} => Taken(fr, n, h, T)
         /\ FreeIn(h) # {} => Taken(fr, n, PutFrame(h, FirstIn(h), [refs |-> 1, data |-> Zero]), T \union {FirstIn(h)})
<1>1. /\ n - 1 \in Nat /\ h \in FrameMaps /\ T \subseteq FreeIn(fr) /\ Cardinality(T) <= n - 1
      /\ T = FreeIn(fr) \/ Cardinality(T) = n - 1
  BY DEF Taken
<1>2. /\ T \in SUBSET Frames /\ IsFiniteSet(T) /\ Cardinality(T) \in Nat
      /\ FreeIn(h) = FreeIn(fr) \ T
  BY <1>1, TakenFacts
<1>3. CASE FreeIn(h) = {}
  <2>1. T = FreeIn(fr)
    BY <1>1, <1>2, <1>3
  <2>2. FreeIn(fr) # {} => FirstIn(fr) \in T
    BY <2>1, FirstIsFree
  <2>3. QED
    BY <1>1, <1>2, <1>3, <2>1, <2>2 DEF Taken
<1>4. CASE FreeIn(h) # {}
  <2> DEFINE d == FirstIn(h)
             blank == [refs |-> 1, data |-> Zero]
             g == PutFrame(h, d, blank)
             U == T \union {d}
  <2>1. d \in FreeIn(h) /\ d \in Frames /\ d \in FreeIn(fr) /\ d \notin T
    BY <1>2, <1>4, FirstIsFree
  <2>2. blank \in Frame /\ blank.refs = 1
    BY RefsAssumption, ValueAssumption DEF Frame, Contents
  <2>3. T = {} => d = FirstIn(fr)
    BY <1>2 DEF FirstIn
  <2>4. T # {} => FirstIn(fr) \in T
    <3>1. SUFFICES ASSUME T # {} PROVE n - 1 > 0 /\ FreeIn(fr) # {}
      BY DEF Taken
    <3>2. Cardinality(T) # 0
      BY <1>2, <3>1, FS_EmptySet
    <3>3. QED
      BY <1>1, <1>2, <3>1, <3>2
  <2> HIDE DEF d, blank
  <2>5. g \in FrameMaps /\ g[d] = blank /\ \A f \in Frames \ {d} : g[f] = h[f]
    BY <1>1, <2>1, <2>2, PutFrameType
  <2>6. Cardinality(U) = Cardinality(T) + 1 /\ Cardinality(T) = n - 1
    <3>1. Cardinality(U) = Cardinality(T) + 1
      BY <1>2, <2>1, FS_AddElement
    <3>2. T # FreeIn(fr)
      BY <2>1
    <3>3. QED
      BY <1>1, <3>1, <3>2
  <2> HIDE DEF g
  <2>7. ASSUME NEW f \in Frames
        PROVE  /\ f \in U => g[f].refs = 1
               /\ f \notin U => g[f] = fr[f]
    BY <2>2, <2>5 DEF Taken
  <2>8. FirstIn(fr) \in U
    BY <2>3, <2>4
  <2>9. U \subseteq FreeIn(fr) /\ Cardinality(U) = n
    BY <1>1, <2>1, <2>6
  <2> HIDE DEF U
  <2>10. Taken(fr, n, g, U)
    BY <2>5, <2>7, <2>8, <2>9 DEF Taken
  <2>11. QED
    BY <1>4, <2>10 DEF g, U, d, blank
<1>5. QED
  BY <1>3, <1>4

LEMMA AllocateLoop ==
  ASSUME Machine, NEW fr \in FrameMaps, NEW sp, NEW n \in Nat
  PROVE  \E h, T : AllocateUpTo(Memory(fr, sp), n) = Got(h, sp, T) /\ Taken(fr, n, h, T)
<1> DEFINE m == Memory(fr, sp)
           start == [m |-> m, taken |-> {}]
           Turn(v) == IF FreeFrames(v.m) = {} THEN v
                      ELSE [m |-> alloc(v.m), taken |-> v.taken \union {FirstFrame(v.m)}]
           got[k \in 0..n] == IF k = 0 THEN start ELSE Turn(got[k - 1])
           W == [k \in 0..n |-> {v \in {Got(h, sp, T) : h \in FrameMaps, T \in SUBSET Frames} :
                                   \E h, T : v = Got(h, sp, T) /\ Taken(fr, k, h, T)}]
           G == [k \in 1..n |-> [v \in W[k - 1] |-> Turn(v)]]
<1>1. 0 \in 0..n /\ n \in 0..n /\ \A k \in 1..n : k - 1 \in 0..n /\ k \in 0..n /\ k \in Nat \ {0}
  OBVIOUS
<1>2. ASSUME NEW k \in 0..n, NEW v
      PROVE  v \in W[k] <=> \E h, T : v = Got(h, sp, T) /\ Taken(fr, k, h, T)
  <2>1. ASSUME NEW h, NEW T, Taken(fr, k, h, T) PROVE h \in FrameMaps /\ T \in SUBSET Frames
    BY <2>1 DEF Taken, FreeIn
  <2>2. QED
    BY <2>1
<1> HIDE DEF W
<1>3. start \in W[0]
  <2>1. Taken(fr, 0, fr, {})
    BY FS_EmptySet DEF Taken
  <2>2. start = Got(fr, sp, {})
    BY DEF Got
  <2>3. QED
    BY <1>1, <1>2, <2>1, <2>2
<1>4. ASSUME NEW k \in 1..n, NEW v \in W[k - 1]
      PROVE  Turn(v) \in W[k]
  <2>1. PICK h, T : v = Got(h, sp, T) /\ Taken(fr, k - 1, h, T)
    BY <1>1, <1>2
  <2> DEFINE d == FirstIn(h)
             g == PutFrame(h, d, [refs |-> 1, data |-> Zero])
             U == T \union {d}
  <2>2. /\ FreeIn(h) = {} => Taken(fr, k, h, T)
        /\ FreeIn(h) # {} => Taken(fr, k, g, U)
    BY <1>1, <2>1, TakenTurn
  <2>3. v.m = Memory(h, sp) /\ v.taken = T
    BY <2>1 DEF Got
  <2>4. FreeFrames(v.m) = FreeIn(h) /\ FirstFrame(v.m) = d /\ alloc(v.m) = Memory(g, sp)
    BY <2>3, MemoryFirst, MemoryAlloc
  <2> HIDE DEF g, U
  <2>5. Turn(v) = IF FreeIn(h) = {} THEN Got(h, sp, T) ELSE Got(g, sp, U)
    BY <2>1, <2>3, <2>4 DEF Got, U
  <2> HIDE DEF Turn
  <2>6. \E h2, T2 : Turn(v) = Got(h2, sp, T2) /\ Taken(fr, k, h2, T2)
    BY <2>2, <2>5
  <2>7. QED
    BY <1>1, <1>2, <2>6
<1> HIDE DEF start
<1>5. PICK f : RunsWithin(f, n, W, start, G)
  <2>1. TurnsWithin(n, W, G)
    <3> HIDE DEF W, Turn
    <3> QED
      BY <1>4 DEF TurnsWithin
  <2> HIDE DEF W, G
  <2>2. QED
    BY <1>1, <1>3, <2>1, LoopWithin
<1>6. \A k \in 0..n : k # 0 => G[k][f[k - 1]] = Turn(f[k - 1])
  <2>0. \A k \in 0..n : k # 0 => k \in 1..n /\ k - 1 \in 0..n
    BY <1>1
  <2>1. \A k \in 0..n : k # 0 => k \in 1..n /\ f[k - 1] \in W[k - 1]
    <3> HIDE DEF W, G
    <3> QED
      BY <1>5, <2>0 DEF RunsWithin
  <2> HIDE DEF W, Turn
  <2>2. QED
    BY <2>1
<1> HIDE DEF G
<1>7. f = [k \in 0..n |-> IF k = 0 THEN start ELSE Turn(f[k - 1])]
  <2> HIDE DEF Turn
  <2> QED
    BY <1>5, <1>6 DEF RunsWithin
<1>8. got = [k \in 0..n |-> IF k = 0 THEN start ELSE Turn(got[k - 1])]
  BY <1>7, Zenon
<1>9. AllocateUpTo(m, n) = got[n]
  BY DEF AllocateUpTo, start
<1> HIDE DEF got, Turn
<1>10. \A k \in 0..n : got[k] \in W[k]
  <2> DEFINE S == {k \in 0..n : got[k] \in W[k]}
  <2>1. 0 \in S
    BY <1>1, <1>3, <1>8
  <2>2. ASSUME NEW k \in 1..n, k - 1 \in S PROVE k \in S
    <3>1. got[k] = Turn(got[k - 1]) /\ got[k - 1] \in W[k - 1]
      BY <1>1, <1>8, <2>2
    <3>2. QED
      BY <1>1, <1>4, <3>1
  <2> HIDE DEF S
  <2>3. \A k \in 0..n : k \in S
    BY <1>1, <2>1, <2>2, InductionUpTo
  <2>4. QED
    BY <2>3 DEF S
<1>11. got[n] \in W[n]
  BY <1>1, <1>10
<1>12. QED
  BY <1>1, <1>2, <1>9, <1>11

\* What is used stays as it is.
Grows(fr, gr) == \A f \in Frames : fr[f].refs > 0 => gr[f] = fr[f]

\* One space more, of the frame d, without any page.
FreshSpace(sp, tp, d) ==
  /\ d \in Frames \ DOMAIN sp /\ DOMAIN tp = DOMAIN sp \union {d}
  /\ \A s \in DOMAIN sp : tp[s] = sp[s]
  /\ tp[d].pte = Flushed

LEMMA CreateKeeps ==
  ASSUME Machine, NEW fr, NEW sp, MemOK(fr, sp), NEW count \in Nat \ {0}
  PROVE  \E gr, tp : /\ create(Memory(fr, sp), count) = Memory(gr, tp)
                     /\ MemOK(gr, tp) /\ Grows(fr, gr)
                     /\ IF Cardinality(FreeIn(fr)) >= count THEN FreshSpace(sp, tp, FirstIn(fr)) ELSE tp = sp
<1>1. fr \in FrameMaps /\ sp \in SpaceMaps
  BY DEF MemOK
<1>2. PICK h, T : AllocateUpTo(Memory(fr, sp), count) = Got(h, sp, T) /\ Taken(fr, count, h, T)
  BY <1>1, AllocateLoop
<1>3. /\ T \in SUBSET Frames /\ IsFiniteSet(T) /\ Cardinality(T) \in Nat
      /\ Cardinality(FreeIn(fr)) \in Nat /\ Cardinality(T) <= Cardinality(FreeIn(fr))
  BY <1>1, <1>2, TakenFacts
<1>4. /\ h \in FrameMaps /\ T \subseteq FreeIn(fr) /\ Cardinality(T) <= count
      /\ T = FreeIn(fr) \/ Cardinality(T) = count
      /\ FreeIn(fr) # {} => FirstIn(fr) \in T
      /\ \A f \in Frames : /\ f \in T => h[f].refs = 1
                           /\ f \notin T => h[f] = fr[f]
  BY <1>2 DEF Taken
<1>5. Cardinality(FreeIn(fr)) >= count <=> Cardinality(T) >= count
  BY <1>3, <1>4
<1>6. \A f \in T : fr[f].refs = 0
  BY <1>4 DEF FreeIn
<1> DEFINE d == FirstIn(fr)
           x == [tables |-> T, pte |-> Flushed]
           tp == WithSpace(sp, d, x)
           back == FreeAll(h, T)
<1>7. create(Memory(fr, sp), count) = IF Cardinality(T) < count THEN Memory(back, sp) ELSE Memory(h, tp)
  <2>1. /\ Got(h, sp, T).m = Memory(h, sp) /\ Got(h, sp, T).taken = T
        /\ FirstFrame(Memory(fr, sp)) = d /\ Memory(fr, sp).spaces = sp
        /\ free_all(Memory(h, sp), T) = Memory(back, sp)
    BY MemoryFirst, MemoryFields, MemoryFreeAll DEF Got
  <2>2. [Memory(h, sp) EXCEPT !.spaces = tp] = Memory(h, tp)
    BY DEF Memory
  <2> HIDE DEF back, d
  <2>3. tp = [s \in DOMAIN sp \union {d} |-> IF s = d THEN [tables |-> T, pte |-> [p \in Pages |-> Absent]] ELSE sp[s]]
    BY DEF WithSpace, Flushed
  <2> HIDE DEF tp
  <2>4. create(Memory(fr, sp), count) =
          IF Cardinality(T) < count THEN Memory(back, sp) ELSE [Memory(h, sp) EXCEPT !.spaces = tp]
    BY <1>2, <2>1, <2>3 DEF create
  <2>5. QED
    BY <2>2, <2>4
<1>8. CASE Cardinality(T) < count
  <2>1. /\ back \in FrameMaps
        /\ \A f \in Frames : /\ back[f].refs = h[f].refs - OneIf(f \in T)
                             /\ f \notin T => back[f] = h[f]
    BY <1>3, <1>4, FreeSet
  <2> HIDE DEF back
  <2>2. \A f \in Frames : back[f].refs = fr[f].refs
    <3>1. ASSUME NEW f \in Frames PROVE back[f].refs = fr[f].refs
      <4>1. CASE f \in T
        BY <1>4, <1>6, <2>1, <4>1 DEF OneIf
      <4>2. CASE f \notin T
        BY <1>4, <2>1, <4>2
      <4>3. QED
        BY <4>1, <4>2
    <3>2. QED
      BY <3>1
  <2>3. MemOK(back, sp)
    BY <2>1, <2>2, ContentChange
  <2>4. Grows(fr, back)
    BY <1>4, <1>6, <2>1 DEF Grows
  <2>5. ~(Cardinality(FreeIn(fr)) >= count)
    BY <1>3, <1>5, <1>8
  <2>6. QED
    BY <1>7, <1>8, <2>3, <2>4, <2>5
<1>9. CASE ~(Cardinality(T) < count)
  <2>1. Cardinality(FreeIn(fr)) >= count
    BY <1>3, <1>5, <1>9
  <2>2. FreeIn(fr) # {}
    BY <1>3, <2>1, FS_EmptySet
  <2>3. d \in T /\ d \in Frames /\ fr[d].refs = 0
    BY <1>3, <1>4, <1>6, <2>2
  <2>4. d \notin DOMAIN sp
    BY <2>3, UsedFrames DEF MemOK
  <2>5. x \in Space /\ x.tables = T /\ x.pte = Flushed /\ \A p \in Pages : x.pte[p] = Absent /\ x.pte[p].frame = 0
    BY <1>3 DEF Space, Flushed, Pte, Absent
  <2> HIDE DEF d, x
  <2>6. /\ tp \in SpaceMaps /\ DOMAIN tp = DOMAIN sp \union {d}
        /\ tp[d] = x /\ \A s \in DOMAIN sp : tp[s] = sp[s]
        /\ \A f \in Frames : /\ UsesIn(sp, f) \in Nat
                             /\ UsesIn(tp, f) = UsesIn(sp, f) + OneIf(f \in x.tables)
    <3>1. x \in Space /\ NoPages(x)
      BY <2>5 DEF NoPages
    <3>2. d \in Frames
      BY <2>3
    <3>3. /\ tp \in SpaceMaps /\ DOMAIN tp = DOMAIN sp \union {d}
          /\ tp[d] = x /\ \A s \in DOMAIN sp \ {d} : tp[s] = sp[s]
      BY <1>1, <3>1, <3>2, WithSpaceType
    <3>4. ASSUME NEW f \in Frames
          PROVE  /\ UsesIn(sp, f) \in Nat
                 /\ UsesIn(tp, f) = UsesIn(sp, f) + OneIf(f \in x.tables)
      BY <1>1, <2>4, <3>1, <3>2, WithSpaceUses
    <3> HIDE DEF tp
    <3>5. QED
      BY <2>4, <3>3, <3>4
  <2> HIDE DEF tp
  <2>7. Exact(h, tp)
    <3>1. ASSUME NEW f \in Frames PROVE h[f].refs = UsesIn(tp, f)
      <4>1. fr[f].refs = UsesIn(sp, f) /\ UsesIn(tp, f) = UsesIn(sp, f) + OneIf(f \in T) /\ UsesIn(sp, f) \in Nat
        BY <2>5, <2>6 DEF MemOK, Exact
      <4>2. CASE f \in T
        BY <1>4, <1>6, <4>1, <4>2 DEF OneIf
      <4>3. CASE f \notin T
        BY <1>4, <4>1, <4>3 DEF OneIf
      <4>4. QED
        BY <4>2, <4>3
    <3>2. QED
      BY <3>1 DEF Exact
  <2>8. \A s \in DOMAIN tp : s \in tp[s].tables
    BY <2>3, <2>5, <2>6 DEF MemOK
  <2>9. ASSUME NEW s \in DOMAIN tp, NEW p \in Pages, NEW e, e = tp[s].pte[p] PROVE Guarded(h, e)
    <3>1. CASE s = d
      BY <2>5, <2>6, <2>9, <3>1 DEF Guarded, Present, Absent
    <3>2. CASE s # d
      <4>1. s \in DOMAIN sp /\ e = sp[s].pte[p] /\ e \in Pte /\ Guarded(fr, e)
        BY <1>1, <2>6, <2>9, <3>2, SpaceTypes DEF MemOK
      <4>2. SUFFICES ASSUME Present(e), e.writable PROVE h[e.frame].refs = 1
        BY <4>1 DEF Guarded
      <4>3. e.frame \in Frames /\ fr[e.frame].refs = 1
        BY <4>1, <4>2, EntryTypes DEF Guarded
      <4>4. QED
        BY <1>4, <1>6, <4>3
    <3>3. QED
      BY <3>1, <3>2
  <2>10. MemOK(h, tp)
    BY <1>4, <2>6, <2>7, <2>8, <2>9 DEF MemOK
  <2>11. Grows(fr, h)
    BY <1>4, <1>6 DEF Grows
  <2>12. FreshSpace(sp, tp, d)
    BY <2>3, <2>4, <2>5, <2>6 DEF FreshSpace
  <2>13. create(Memory(fr, sp), count) = Memory(h, tp)
    BY <1>7, <1>9 DEF tp, d, x
  <2>14. QED
    BY <2>1, <2>10, <2>11, <2>12, <2>13 DEF d
<1>10. QED
  BY <1>8, <1>9

CreateCount == IF arch = "i386" THEN 2 ELSE 5

LEMMA CreateSpaceKeeps ==
  ASSUME Machine, NEW fr, NEW sp, MemOK(fr, sp)
  PROVE  \E gr, tp : /\ create_user_space(Memory(fr, sp)) = Memory(gr, tp)
                     /\ MemOK(gr, tp) /\ Grows(fr, gr)
                     /\ IF CanCreate(Memory(fr, sp)) THEN FreshSpace(sp, tp, FirstIn(fr)) ELSE tp = sp
<1>1. CreateCount \in Nat \ {0}
  BY DEF CreateCount
<1>2. create_user_space(Memory(fr, sp)) = create(Memory(fr, sp), CreateCount)
  BY DEF create_user_space, i386_create_user_space, x86_64_create_user_space, CreateCount
<1>3. CanCreate(Memory(fr, sp)) <=> Cardinality(FreeIn(fr)) >= CreateCount
  BY MemoryFirst DEF CanCreate, CreateCount
<1>4. PICK gr, tp : /\ create(Memory(fr, sp), CreateCount) = Memory(gr, tp)
                    /\ MemOK(gr, tp) /\ Grows(fr, gr)
                    /\ IF Cardinality(FreeIn(fr)) >= CreateCount THEN FreshSpace(sp, tp, FirstIn(fr)) ELSE tp = sp
  BY <1>1, CreateKeeps
<1>5. QED
  BY <1>2, <1>3, <1>4

------------------------------------------------------------------------------
(* One entry of a page table, and what a process sees through it *)

Entry(sp, d, p) == sp[d].pte[p]
Seen(fr, e) == IF Present(e) THEN fr[e.frame].data ELSE Zero
SameEntry(e, e2) == e2.frame = e.frame /\ e2.state = e.state

Recounted(fr, gr, old, e) ==
  \A f \in Frames : gr[f].refs = (fr[f].refs - OneAt(old, f)) + OneAt(e, f)
OthersReadOnly(sp, d, p, e) ==
  \A s \in DOMAIN sp, q \in Pages :
    <<s, q>> # <<d, p>> /\ Present(Entry(sp, s, q)) /\ Entry(sp, s, q).frame = e.frame
      => ~Entry(sp, s, q).writable

LEMMA EntryStep ==
  ASSUME Machine, NEW fr, NEW sp, MemOK(fr, sp), NEW d \in DOMAIN sp, NEW p \in Pages,
         NEW e, e \in Pte, NEW gr \in FrameMaps,
         Recounted(fr, gr, Entry(sp, d, p), e), Guarded(gr, e), OthersReadOnly(sp, d, p, e)
  PROVE  MemOK(gr, PutPte(sp, d, p, e))
<1> DEFINE old == sp[d].pte[p]
<1>1. \A f \in Frames : gr[f].refs = (fr[f].refs - OneAt(old, f)) + OneAt(e, f)
  BY DEF Recounted, Entry
<1>2. \A s \in DOMAIN sp, q \in Pages :
        <<s, q>> # <<d, p>> /\ Present(sp[s].pte[q]) /\ sp[s].pte[q].frame = e.frame
          => ~sp[s].pte[q].writable
  BY DEF OthersReadOnly, Entry
<1>3. old = sp[d].pte[p]
  OBVIOUS
<1> HIDE DEF old
<1>4. QED
  BY <1>1, <1>2, <1>3, EntryChange

LEMMA EntryFacts ==
  ASSUME Machine, NEW fr, NEW sp, MemOK(fr, sp), NEW d \in DOMAIN sp, NEW p \in Pages,
         NEW e, e = Entry(sp, d, p)
  PROVE  /\ e \in Pte /\ Guarded(fr, e)
         /\ Present(e) => /\ e.frame \in Frames
                          /\ fr[e.frame].refs \in 1 .. MAX_REFS
<1>1. fr \in FrameMaps /\ sp \in SpaceMaps
  BY DEF MemOK
<1>2. e \in Pte /\ Guarded(fr, e)
  BY <1>1, SpaceTypes DEF Entry, MemOK
<1>3. ASSUME Present(e)
      PROVE  e.frame \in Frames /\ fr[e.frame].refs \in 1 .. MAX_REFS
  <2>1. e.frame \in Frames
    BY <1>2, <1>3, EntryTypes
  <2>2. fr[e.frame].refs # 0
    BY <2>1, UsedFrames DEF Entry
  <2>3. fr[e.frame].refs \in 0 .. MAX_REFS
    BY <1>1, <2>1, FrameTypes
  <2>4. QED
    BY <2>1, <2>2, <2>3, RefsAssumption
<1>4. QED
  BY <1>2, <1>3

LEMMA PutPteEntries ==
  ASSUME NEW sp \in SpaceMaps, NEW d \in DOMAIN sp, NEW p \in Pages, NEW e, e \in Pte
  PROVE  /\ PutPte(sp, d, p, e) \in SpaceMaps /\ DOMAIN PutPte(sp, d, p, e) = DOMAIN sp
         /\ Entry(PutPte(sp, d, p, e), d, p) = e
         /\ \A s \in DOMAIN sp : PutPte(sp, d, p, e)[s].tables = sp[s].tables
         /\ \A s \in DOMAIN sp, q \in Pages :
              <<s, q>> # <<d, p>> => Entry(PutPte(sp, d, p, e), s, q) = Entry(sp, s, q)
BY PutPteType DEF Entry

\* A frame that is in use before and after keeps its content.
Preserves(fr, gr) ==
  \A f \in Frames : fr[f].refs > 0 /\ gr[f].refs > 0 => gr[f].data = fr[f].data

LEMMA GrowsPreserves == ASSUME NEW fr, NEW gr, Grows(fr, gr) PROVE Preserves(fr, gr)
BY DEF Grows, Preserves

LEMMA ShrinksPreserves == ASSUME NEW fr, NEW gr, Shrinks(fr, gr) PROVE Preserves(fr, gr)
BY DEF Shrinks, Preserves

LEMMA KeptSeen ==
  ASSUME Machine, NEW fr, NEW sp, MemOK(fr, sp), NEW gr, NEW tp, MemOK(gr, tp), Preserves(fr, gr),
         NEW d \in DOMAIN sp, NEW p \in Pages, NEW s \in DOMAIN tp, NEW q \in Pages,
         SameEntry(Entry(sp, d, p), Entry(tp, s, q))
  PROVE  Seen(gr, Entry(tp, s, q)) = Seen(fr, Entry(sp, d, p))
<1> DEFINE e == Entry(sp, d, p)
           e2 == Entry(tp, s, q)
<1>1. /\ Present(e) => e.frame \in Frames /\ fr[e.frame].refs \in 1 .. MAX_REFS
      /\ Present(e2) => e2.frame \in Frames /\ gr[e2.frame].refs \in 1 .. MAX_REFS
  BY EntryFacts
<1>2. e2.frame = e.frame /\ (Present(e2) <=> Present(e))
  BY DEF SameEntry, Present
<1> HIDE DEF e, e2
<1>3. Seen(gr, e2) = Seen(fr, e)
  BY <1>1, <1>2 DEF Seen, Preserves
<1>4. QED
  BY <1>3 DEF e, e2

\* The old spaces have the same tables and entries at the same frames; what the
\* processes see in them is the same.
SameSpaces(sp, tp) ==
  \A s \in DOMAIN sp : /\ tp[s].tables = sp[s].tables
                       /\ \A q \in Pages : SameEntry(Entry(sp, s, q), Entry(tp, s, q))
SameSeen(fr, sp, gr, tp) ==
  \A s \in DOMAIN sp \intersect DOMAIN tp, q \in Pages : Seen(gr, Entry(tp, s, q)) = Seen(fr, Entry(sp, s, q))

LEMMA SameSpacesSeen ==
  ASSUME Machine, NEW fr, NEW sp, MemOK(fr, sp), NEW gr, NEW tp, MemOK(gr, tp), Preserves(fr, gr),
         \A s \in DOMAIN sp \intersect DOMAIN tp, q \in Pages : SameEntry(Entry(sp, s, q), Entry(tp, s, q))
  PROVE  SameSeen(fr, sp, gr, tp)
BY KeptSeen DEF SameSeen

------------------------------------------------------------------------------
(* Page faults *)

\* A free frame becomes a copy of one that is in use; the others stay as they are.
CopyOf(fr, from, to, gr) ==
  /\ gr \in FrameMaps /\ gr[to].refs = 1 /\ gr[to].data = fr[from].data
  /\ \A f \in Frames \ {to} : gr[f] = fr[f]

LEMMA CopyFrame ==
  ASSUME NEW fr \in FrameMaps, NEW sp, NEW f \in Frames, fr[f].refs > 0, FreeIn(fr) # {},
         NEW copy, copy = FirstIn(fr)
  PROVE  /\ copy \in Frames /\ fr[copy].refs = 0 /\ copy # f
         /\ \E gr : /\ Copied(alloc(Memory(fr, sp)), f, copy) = Memory(gr, sp)
                    /\ CopyOf(fr, f, copy, gr)
<1> DEFINE blank == [refs |-> 1, data |-> Zero]
           h == PutFrame(fr, copy, blank)
           x == [h[copy] EXCEPT !.data = h[f].data]
           gr == PutFrame(h, copy, x)
<1>1. copy \in Frames /\ fr[copy].refs = 0 /\ copy # f
  BY FirstIsFree
<1>2. blank \in Frame /\ blank.refs = 1
  BY RefsAssumption, ValueAssumption DEF Frame, Contents
<1>3. Copied(alloc(Memory(fr, sp)), f, copy) = Memory(gr, sp)
  BY MemoryAlloc, MemoryCopied
<1> HIDE DEF blank
<1>4. h \in FrameMaps /\ h[copy] = blank /\ \A g \in Frames \ {copy} : h[g] = fr[g]
  BY <1>1, <1>2, PutFrameType
<1> HIDE DEF h
<1>5. h[f] = fr[f] /\ h[f].data \in Contents
  BY <1>1, <1>4, FrameTypes
<1>6. x \in Frame /\ x.refs = 1 /\ x.data = fr[f].data
  BY <1>2, <1>4, <1>5 DEF Frame
<1> HIDE DEF x
<1>7. gr \in FrameMaps /\ gr[copy] = x /\ \A g \in Frames \ {copy} : gr[g] = h[g]
  BY <1>1, <1>4, <1>6, PutFrameType
<1> HIDE DEF gr
<1>8. CopyOf(fr, f, copy, gr)
  BY <1>4, <1>6, <1>7 DEF CopyOf
<1>9. QED
  BY <1>1, <1>3, <1>8

\* Nobody has an entry at a free frame.
LEMMA FreeIsUnmapped ==
  ASSUME Machine, NEW fr, NEW sp, MemOK(fr, sp), NEW f \in Frames, fr[f].refs = 0,
         NEW d \in DOMAIN sp, NEW p \in Pages, NEW e, e.frame = f
  PROVE  /\ OthersReadOnly(sp, d, p, e)
         /\ OneAt(Entry(sp, d, p), f) = 0
BY UsedFrames DEF OthersReadOnly, Entry, OneAt

LEMMA BlankFrame ==
  ASSUME NEW fr \in FrameMaps, NEW f \in Frames
  PROVE  /\ PutFrame(fr, f, [refs |-> 1, data |-> Zero]) \in FrameMaps
         /\ PutFrame(fr, f, [refs |-> 1, data |-> Zero])[f].refs = 1
         /\ PutFrame(fr, f, [refs |-> 1, data |-> Zero])[f].data = Zero
         /\ \A g \in Frames \ {f} : PutFrame(fr, f, [refs |-> 1, data |-> Zero])[g] = fr[g]
<1>1. [refs |-> 1, data |-> Zero] \in Frame
  BY RefsAssumption, ValueAssumption DEF Frame, Contents
<1>2. QED
  BY <1>1, PutFrameType

\* The entry of a page with a frame for itself.
Own(f) == Mapped(f, TRUE, FALSE)

LEMMA OwnType ==
  ASSUME NEW f \in Frames
  PROVE  Own(f) \in Pte /\ Present(Own(f)) /\ Own(f).frame = f /\ Own(f).writable = TRUE /\ Own(f).cow = FALSE
BY MappedTypes DEF Own

LEMMA DemandKeeps ==
  ASSUME Machine, NEW fr, NEW sp, MemOK(fr, sp), NEW d \in DOMAIN sp, NEW p \in Pages,
         Entry(sp, d, p) = Demand, FreeIn(fr) # {}
  PROVE  \E gr, tp : /\ WithPte(alloc(Memory(fr, sp)), d, p, Own(FirstIn(fr))) = Memory(gr, tp)
                     /\ MemOK(gr, tp) /\ DOMAIN tp = DOMAIN sp /\ SameSeen(fr, sp, gr, tp)
                     /\ \A s \in DOMAIN sp, q \in Pages :
                          <<s, q>> # <<d, p>> => Entry(tp, s, q) = Entry(sp, s, q)
<1> DEFINE new == FirstIn(fr)
           e == Own(new)
           gr == PutFrame(fr, new, [refs |-> 1, data |-> Zero])
           tp == PutPte(sp, d, p, e)
<1>1. fr \in FrameMaps /\ sp \in SpaceMaps
  BY DEF MemOK
<1>2. new \in Frames /\ fr[new].refs = 0
  BY FirstIsFree
<1>3. WithPte(alloc(Memory(fr, sp)), d, p, Own(FirstIn(fr))) = Memory(gr, tp)
  <2>1. alloc(Memory(fr, sp)) = Memory(gr, sp)
    BY MemoryAlloc
  <2>2. e = Own(FirstIn(fr))
    OBVIOUS
  <2> HIDE DEF gr, e
  <2>3. QED
    BY <2>1, <2>2, MemoryWithPte
<1> HIDE DEF new
<1>4. e \in Pte /\ Present(e) /\ e.frame = new /\ e.writable = TRUE /\ e.cow = FALSE
  BY <1>2, OwnType
<1> HIDE DEF e
<1>5. /\ gr \in FrameMaps /\ gr[new].refs = 1 /\ gr[new].data = Zero
      /\ \A g \in Frames \ {new} : gr[g] = fr[g]
  BY <1>1, <1>2, BlankFrame
<1> HIDE DEF gr
<1>6. OthersReadOnly(sp, d, p, e) /\ OneAt(Entry(sp, d, p), new) = 0
  BY <1>2, <1>4, FreeIsUnmapped
<1>7. Recounted(fr, gr, Entry(sp, d, p), e)
  <2>1. ASSUME NEW f \in Frames PROVE OneAt(Demand, f) = 0 /\ OneAt(e, f) = (IF f = new THEN 1 ELSE 0) /\ fr[f].refs \in Nat
    BY <1>1, <1>4, FrameTypes DEF OneAt, Demand, Frames
  <2>2. QED
    BY <1>2, <1>5, <2>1 DEF Recounted
<1>8. Guarded(gr, e)
  BY <1>4, <1>5 DEF Guarded
<1>9. MemOK(gr, tp)
  BY <1>1, <1>4, <1>5, <1>6, <1>7, <1>8, EntryStep
<1>10. /\ DOMAIN tp = DOMAIN sp /\ Entry(tp, d, p) = e
       /\ \A s \in DOMAIN sp, q \in Pages : <<s, q>> # <<d, p>> => Entry(tp, s, q) = Entry(sp, s, q)
  BY <1>1, <1>4, PutPteEntries
<1>11. Preserves(fr, gr)
  BY <1>2, <1>5 DEF Preserves
<1> HIDE DEF tp
<1>12. ASSUME NEW s \in DOMAIN sp, NEW q \in Pages
       PROVE  Seen(gr, Entry(tp, s, q)) = Seen(fr, Entry(sp, s, q))
  <2>1. CASE <<s, q>> = <<d, p>>
    <3>1. Entry(sp, s, q) = Demand /\ Entry(tp, s, q) = e
      BY <1>10, <2>1
    <3>2. Seen(fr, Demand) = Zero /\ Seen(gr, e) = Zero
      BY <1>4, <1>5 DEF Seen, Present, Demand
    <3>3. QED
      BY <3>1, <3>2
  <2>2. CASE <<s, q>> # <<d, p>>
    <3>1. SameEntry(Entry(sp, s, q), Entry(tp, s, q))
      BY <1>10, <2>2 DEF SameEntry
    <3>2. QED
      BY <1>9, <1>10, <1>11, <3>1, KeptSeen
  <2>3. QED
    BY <2>1, <2>2
<1>13. SameSeen(fr, sp, gr, tp)
  BY <1>12 DEF SameSeen
<1>14. QED
  BY <1>3, <1>9, <1>10, <1>13

\* A frame with one reference is mapped once.
LEMMA OnlyEntry ==
  ASSUME Machine, NEW fr, NEW sp, MemOK(fr, sp), NEW d \in DOMAIN sp, NEW p \in Pages,
         NEW f \in Frames, Entry(sp, d, p).frame = f, fr[f].refs = 1, NEW e, e.frame = f
  PROVE  OthersReadOnly(sp, d, p, e)
<1>1. sp[d].pte[p].frame = f
  BY DEF Entry
<1>2. \A s \in DOMAIN sp, q \in Pages : <<s, q>> # <<d, p>> => sp[s].pte[q].frame # f
  BY <1>1, OnlyUse
<1>3. QED
  BY <1>2 DEF OthersReadOnly, Entry

LEMMA LastOwnerKeeps ==
  ASSUME Machine, NEW fr, NEW sp, MemOK(fr, sp), NEW d \in DOMAIN sp, NEW p \in Pages,
         NEW old, old = Entry(sp, d, p), Present(old), NEW f, f = old.frame, fr[f].refs = 1
  PROVE  \E tp : /\ WithPte(Memory(fr, sp), d, p, Own(f)) = Memory(fr, tp)
                 /\ MemOK(fr, tp) /\ DOMAIN tp = DOMAIN sp /\ SameSeen(fr, sp, fr, tp)
                 /\ \A s \in DOMAIN sp, q \in Pages :
                      <<s, q>> # <<d, p>> => Entry(tp, s, q) = Entry(sp, s, q)
<1> DEFINE e == Own(f)
           tp == PutPte(sp, d, p, e)
<1>1. fr \in FrameMaps /\ sp \in SpaceMaps
  BY DEF MemOK
<1>2. f \in Frames
  BY EntryFacts
<1>3. WithPte(Memory(fr, sp), d, p, Own(f)) = Memory(fr, tp)
  BY MemoryWithPte
<1>4. e \in Pte /\ Present(e) /\ e.frame = f /\ e.writable = TRUE /\ e.cow = FALSE
  BY <1>2, OwnType
<1> HIDE DEF e
<1>5. OthersReadOnly(sp, d, p, e)
  BY <1>2, <1>4, OnlyEntry
<1>6. Recounted(fr, fr, old, e)
  <2>1. ASSUME NEW g \in Frames PROVE OneAt(e, g) = OneAt(old, g) /\ OneAt(e, g) \in {0, 1} /\ fr[g].refs \in Nat
    BY <1>1, <1>4, FrameTypes DEF OneAt
  <2>2. QED
    BY <2>1 DEF Recounted
<1>7. Guarded(fr, e)
  BY <1>4 DEF Guarded
<1>8. MemOK(fr, tp)
  BY <1>1, <1>4, <1>5, <1>6, <1>7, EntryStep
<1>9. /\ DOMAIN tp = DOMAIN sp /\ Entry(tp, d, p) = e
      /\ \A s \in DOMAIN sp, q \in Pages : <<s, q>> # <<d, p>> => Entry(tp, s, q) = Entry(sp, s, q)
  BY <1>1, <1>4, PutPteEntries
<1>10. Preserves(fr, fr)
  BY DEF Preserves
<1> HIDE DEF tp
<1>11. ASSUME NEW s \in DOMAIN sp, NEW q \in Pages
       PROVE  SameEntry(Entry(sp, s, q), Entry(tp, s, q))
  <2>1. CASE <<s, q>> = <<d, p>>
    BY <1>4, <1>9, <2>1 DEF SameEntry, Present
  <2>2. CASE <<s, q>> # <<d, p>>
    BY <1>9, <2>2 DEF SameEntry
  <2>3. QED
    BY <2>1, <2>2
<1>12. SameSeen(fr, sp, fr, tp)
  BY <1>8, <1>10, <1>11, SameSpacesSeen
<1>13. QED
  BY <1>3, <1>8, <1>9, <1>12

\* free(WithPte(Copied(alloc(m), f, copy), d, p, Own(copy)), f): a page that is shared
\* gets a frame for itself, and the others keep theirs.
LEMMA CopyKeeps ==
  ASSUME Machine, NEW fr, NEW sp, MemOK(fr, sp), NEW d \in DOMAIN sp, NEW p \in Pages,
         NEW old, old = Entry(sp, d, p), Present(old), NEW f, f = old.frame, FreeIn(fr) # {},
         NEW copy, copy = FirstIn(fr)
  PROVE  \E gr, tp : /\ free(WithPte(Copied(alloc(Memory(fr, sp)), f, copy), d, p, Own(copy)), f) = Memory(gr, tp)
                     /\ MemOK(gr, tp) /\ DOMAIN tp = DOMAIN sp /\ SameSeen(fr, sp, gr, tp)
                     /\ \A s \in DOMAIN sp, q \in Pages :
                          <<s, q>> # <<d, p>> => Entry(tp, s, q) = Entry(sp, s, q)
<1> DEFINE e == Own(copy)
           tp == PutPte(sp, d, p, e)
<1>1. fr \in FrameMaps /\ sp \in SpaceMaps
  BY DEF MemOK
<1>2. f \in Frames /\ fr[f].refs \in 1 .. MAX_REFS /\ fr[f].refs > 0
  BY EntryFacts
<1>3. /\ copy \in Frames /\ fr[copy].refs = 0 /\ copy # f
      /\ \E h : /\ Copied(alloc(Memory(fr, sp)), f, copy) = Memory(h, sp)
                /\ CopyOf(fr, f, copy, h)
  BY <1>1, <1>2, CopyFrame
<1>4. PICK h : /\ Copied(alloc(Memory(fr, sp)), f, copy) = Memory(h, sp)
               /\ CopyOf(fr, f, copy, h)
  BY <1>3
<1>5. /\ h \in FrameMaps /\ h[copy].refs = 1 /\ h[copy].data = fr[f].data
      /\ \A g \in Frames \ {copy} : h[g] = fr[g]
  BY <1>4 DEF CopyOf
<1> DEFINE gr == PutFrame(h, f, Freed(h[f]))
<1>6. free(WithPte(Copied(alloc(Memory(fr, sp)), f, copy), d, p, Own(copy)), f) = Memory(gr, tp)
  <2>1. WithPte(Memory(h, sp), d, p, Own(copy)) = Memory(h, tp)
    BY MemoryWithPte
  <2> HIDE DEF tp
  <2>2. QED
    BY <1>4, <2>1, MemoryFree
<1>7. /\ gr \in FrameMaps
      /\ \A g \in Frames : /\ gr[g].refs = h[g].refs - (IF g = f THEN 1 ELSE 0)
                           /\ gr[g].refs > 0 => gr[g].data = h[g].data
  <2>1. h[f].refs > 0
    BY <1>2, <1>3, <1>5
  <2>2. QED
    BY <1>2, <1>5, <2>1, FreeOne
<1> HIDE DEF gr
<1>8. e \in Pte /\ Present(e) /\ e.frame = copy /\ e.writable = TRUE /\ e.cow = FALSE
  BY <1>3, OwnType
<1> HIDE DEF e
<1>9. OthersReadOnly(sp, d, p, e) /\ OneAt(old, copy) = 0
  BY <1>3, <1>8, FreeIsUnmapped
<1>10. Recounted(fr, gr, old, e)
  <2>1. ASSUME NEW g \in Frames PROVE gr[g].refs = (fr[g].refs - OneAt(old, g)) + OneAt(e, g)
    <3>1. /\ OneAt(e, g) = (IF g = copy THEN 1 ELSE 0) /\ OneAt(old, g) = (IF g = f THEN 1 ELSE 0)
          /\ fr[g].refs \in Nat /\ h[g].refs \in Nat
      BY <1>1, <1>5, <1>8, FrameTypes DEF OneAt
    <3>2. h[g].refs = IF g = copy THEN 1 ELSE fr[g].refs
      BY <1>5
    <3>3. QED
      BY <1>3, <1>7, <3>1, <3>2
  <2>2. QED
    BY <2>1 DEF Recounted
<1>11. Guarded(gr, e) /\ gr[copy].refs = 1 /\ gr[copy].data = fr[f].data
  <2>1. gr[copy].refs = 1
    BY <1>3, <1>5, <1>7
  <2>2. gr[copy].data = fr[f].data
    BY <1>3, <1>5, <1>7, <2>1
  <2>3. QED
    BY <1>8, <2>1, <2>2 DEF Guarded
<1>12. MemOK(gr, tp)
  BY <1>1, <1>7, <1>8, <1>9, <1>10, <1>11, EntryStep
<1>13. /\ DOMAIN tp = DOMAIN sp /\ Entry(tp, d, p) = e
       /\ \A s \in DOMAIN sp, q \in Pages : <<s, q>> # <<d, p>> => Entry(tp, s, q) = Entry(sp, s, q)
  BY <1>1, <1>8, PutPteEntries
<1>14. Preserves(fr, gr)
  <2>1. ASSUME NEW g \in Frames, fr[g].refs > 0, gr[g].refs > 0 PROVE gr[g].data = fr[g].data
    <3>1. g # copy
      BY <1>3, <2>1
    <3>2. QED
      BY <1>5, <1>7, <2>1, <3>1
  <2>2. QED
    BY <2>1 DEF Preserves
<1> HIDE DEF tp
<1>15. ASSUME NEW s \in DOMAIN sp, NEW q \in Pages
       PROVE  Seen(gr, Entry(tp, s, q)) = Seen(fr, Entry(sp, s, q))
  <2>1. CASE <<s, q>> = <<d, p>>
    <3>1. Entry(sp, s, q) = old /\ Entry(tp, s, q) = e
      BY <1>13, <2>1
    <3>2. Seen(fr, old) = fr[f].data /\ Seen(gr, e) = fr[f].data
      BY <1>8, <1>11 DEF Seen
    <3>3. QED
      BY <3>1, <3>2
  <2>2. CASE <<s, q>> # <<d, p>>
    <3>1. SameEntry(Entry(sp, s, q), Entry(tp, s, q))
      BY <1>13, <2>2 DEF SameEntry
    <3>2. QED
      BY <1>12, <1>13, <1>14, <3>1, KeptSeen
  <2>3. QED
    BY <2>1, <2>2
<1>16. SameSeen(fr, sp, gr, tp)
  BY <1>15 DEF SameSeen
<1>17. QED
  BY <1>6, <1>12, <1>13, <1>16

------------------------------------------------------------------------------
(* Loading, and a store *)

Reserved(e) == IF Present(e) THEN e ELSE Demand
WithReserved(sp, d) ==
  [sp EXCEPT ![d].pte = [p \in Pages |-> IF Present(@[p]) THEN @[p] ELSE Demand]]

LEMMA ReserveKeeps ==
  ASSUME Machine, NEW fr, NEW sp, MemOK(fr, sp), NEW d \in DOMAIN sp
  PROVE  \E tp : /\ reserve_user_range(Memory(fr, sp), d) = Memory(fr, tp)
                 /\ MemOK(fr, tp) /\ DOMAIN tp = DOMAIN sp /\ SameSeen(fr, sp, fr, tp)
                 /\ \A q \in Pages : Entry(tp, d, q) = Reserved(Entry(sp, d, q))
                 /\ \A s \in DOMAIN sp \ {d}, q \in Pages : Entry(tp, s, q) = Entry(sp, s, q)
<1> DEFINE pte == [p \in Pages |-> Reserved(sp[d].pte[p])]
           x == [sp[d] EXCEPT !.pte = pte]
           tp == [sp EXCEPT ![d] = x]
<1>1. fr \in FrameMaps /\ sp \in SpaceMaps
  BY DEF MemOK
<1>2. PICK D \in SUBSET Frames : sp \in [D -> Space]
  BY <1>1 DEF SpaceMaps
<1>3. DOMAIN sp = D /\ sp[d] \in Space
  BY <1>2
<1>4. sp[d].pte \in [Pages -> Pte]
  BY <1>3 DEF Space
<1>5. pte \in [Pages -> Pte]
  <2>1. \A p \in Pages : Reserved(sp[d].pte[p]) \in Pte
    BY <1>4 DEF Reserved, Pte
  <2>2. QED
    BY <2>1
<1>6. reserve_user_range(Memory(fr, sp), d) = Memory(fr, tp)
  <2>1. x = [sp[d] EXCEPT !.pte = [p \in Pages |-> IF Present(@[p]) THEN @[p] ELSE Demand]]
    BY DEF Reserved
  <2>2. tp = WithReserved(sp, d)
    BY <2>1 DEF WithReserved
  <2> HIDE DEF tp
  <2>3. reserve_user_range(Memory(fr, sp), d) = Memory(fr, WithReserved(sp, d))
    BY DEF reserve_user_range, Memory, WithReserved
  <2>4. QED
    BY <2>2, <2>3
<1>7. pte = [p \in Pages |-> Reserved(sp[d].pte[p])]
  OBVIOUS
<1> HIDE DEF pte
<1>8. x \in Space /\ x.tables = sp[d].tables /\ x.pte = pte
  BY <1>3, <1>5 DEF Space
<1> HIDE DEF x
<1>9. tp \in [D -> Space] /\ DOMAIN tp = D /\ tp[d] = x /\ \A s \in D \ {d} : tp[s] = sp[s]
  BY <1>2, <1>3, <1>8
<1> HIDE DEF tp
<1>10. tp \in SpaceMaps
  BY <1>9 DEF SpaceMaps
<1>11. /\ \A q \in Pages : Entry(tp, d, q) = Reserved(Entry(sp, d, q))
       /\ \A s \in DOMAIN sp \ {d}, q \in Pages : Entry(tp, s, q) = Entry(sp, s, q)
  BY <1>3, <1>7, <1>8, <1>9 DEF Entry
<1>12. ASSUME NEW s \in DOMAIN sp, NEW q \in Pages, NEW e, e = Entry(sp, s, q), NEW e2, e2 = Entry(tp, s, q)
       PROVE  e2.frame = e.frame /\ Seen(fr, e2) = Seen(fr, e) /\ Guarded(fr, e2)
  <2>1. e \in Pte /\ Guarded(fr, e)
    BY <1>12, EntryFacts
  <2>2. e2 = e \/ (e2 = Demand /\ ~Present(e))
    BY <1>11, <1>12 DEF Reserved
  <2>3. CASE e2 = Demand /\ ~Present(e)
    <3>1. e.frame = 0
      BY <2>1, <2>3, EntryTypes
    <3>2. QED
      BY <2>3, <3>1 DEF Seen, Guarded, Present, Demand
  <2>4. QED
    BY <2>1, <2>2, <2>3
<1>13. SameFrames(sp, tp)
  <2>1. \A s \in DOMAIN sp : tp[s].tables = sp[s].tables
    BY <1>3, <1>8, <1>9
  <2>2. \A s \in DOMAIN sp, q \in Pages : tp[s].pte[q].frame = sp[s].pte[q].frame
    BY <1>12 DEF Entry
  <2>3. QED
    BY <1>3, <1>9, <2>1, <2>2 DEF SameFrames
<1>14. MemOK(fr, tp)
  <2>1. Exact(fr, tp)
    BY <1>13, SameFramesUses DEF Exact, MemOK
  <2>2. \A s \in DOMAIN tp, q \in Pages : Guarded(fr, tp[s].pte[q])
    BY <1>3, <1>9, <1>12 DEF Entry
  <2>3. \A s \in DOMAIN tp : s \in tp[s].tables
    BY <1>3, <1>9, <1>13 DEF MemOK, SameFrames
  <2>4. QED
    BY <1>1, <1>10, <2>1, <2>2, <2>3 DEF MemOK
<1>15. SameSeen(fr, sp, fr, tp)
  BY <1>12 DEF SameSeen
<1>16. DOMAIN tp = DOMAIN sp
  BY <1>3, <1>9
<1>17. QED
  BY <1>6, <1>11, <1>14, <1>15, <1>16

Stored(fr, f, v) == [fr EXCEPT ![f].data = v]

\* A store goes to a frame that nobody else has.
LEMMA StoreKeeps ==
  ASSUME Machine, NEW fr, NEW sp, MemOK(fr, sp), NEW d \in DOMAIN sp, NEW p \in Pages,
         NEW f \in Frames, Entry(sp, d, p).frame = f, fr[f].refs = 1, NEW v \in Value,
         NEW gr, gr = Stored(fr, f, v)
  PROVE  /\ MemOK(gr, sp) /\ \A g \in Frames : gr[g].refs = fr[g].refs
         /\ Seen(gr, Entry(sp, d, p)) = v
         /\ \A s \in DOMAIN sp, q \in Pages :
              <<s, q>> # <<d, p>> => Seen(gr, Entry(sp, s, q)) = Seen(fr, Entry(sp, s, q))
<1>1. fr \in FrameMaps /\ sp \in SpaceMaps
  BY DEF MemOK
<1> DEFINE x == [fr[f] EXCEPT !.data = v]
<1>2. x \in Frame /\ x.refs = fr[f].refs /\ x.data = v
  BY <1>1, FrameTypes DEF Frame, Contents
<1>3. gr = PutFrame(fr, f, x)
  BY DEF PutFrame, Stored
<1> HIDE DEF x
<1>4. gr \in FrameMaps /\ gr[f] = x /\ \A g \in Frames \ {f} : gr[g] = fr[g]
  BY <1>1, <1>2, <1>3, PutFrameType
<1>5. \A g \in Frames : gr[g].refs = fr[g].refs
  BY <1>2, <1>4
<1>6. MemOK(gr, sp)
  BY <1>4, <1>5, ContentChange
<1>7. Present(Entry(sp, d, p))
  <2>1. Entry(sp, d, p) \in Pte
    BY EntryFacts
  <2>2. QED
    BY <2>1, EntryTypes
<1>8. Seen(gr, Entry(sp, d, p)) = v
  BY <1>2, <1>4, <1>7 DEF Seen
<1>9. ASSUME NEW s \in DOMAIN sp, NEW q \in Pages, <<s, q>> # <<d, p>>, NEW e, e = Entry(sp, s, q)
      PROVE  Seen(gr, e) = Seen(fr, e)
  <2>1. sp[d].pte[p].frame = f /\ e = sp[s].pte[q]
    BY <1>9 DEF Entry
  <2>2. e.frame # f
    BY <1>9, <2>1, OnlyUse
  <2>3. e \in Pte /\ (Present(e) => e.frame \in Frames)
    BY <1>9, EntryFacts
  <2>4. QED
    BY <1>4, <2>2, <2>3 DEF Seen
<1>10. QED
  BY <1>5, <1>6, <1>8, <1>9

------------------------------------------------------------------------------
(* clone_user_space *)

\* What the loop has when it goes on, and when it has stopped.
Going(h, tp, d) == [m |-> Memory(h, tp), dst |-> d, ok |-> TRUE]
Stopped(h, tp, d) == [m |-> Memory(h, tp), dst |-> d, ok |-> FALSE]

GoesOn(c, m) == [c EXCEPT !.m = m]
Stops(c, m) == [c EXCEPT !.m = m, !.ok = FALSE]

LEMMA GoingFields ==
  ASSUME NEW h, NEW tp, NEW d
  PROVE  Going(h, tp, d).m = Memory(h, tp) /\ Going(h, tp, d).dst = d /\ Going(h, tp, d).ok
BY DEF Going

LEMMA StoppedFields ==
  ASSUME NEW h, NEW tp, NEW d
  PROVE  Stopped(h, tp, d).m = Memory(h, tp) /\ ~Stopped(h, tp, d).ok
BY DEF Stopped

LEMMA GoingChange ==
  ASSUME NEW h, NEW tp, NEW d, NEW gr, NEW tq
  PROVE  /\ GoesOn(Going(h, tp, d), Memory(gr, tq)) = Going(gr, tq, d)
         /\ Stops(Going(h, tp, d), Memory(gr, tq)) = Stopped(gr, tq, d)
<1> DEFINE r == [Going(h, tp, d) EXCEPT !.m = Memory(gr, tq)]
           s == [Going(h, tp, d) EXCEPT !.m = Memory(gr, tq), !.ok = FALSE]
           U == {Memory(h, tp), d, Memory(gr, tq)}
           R == [m : U, dst : U, ok : BOOLEAN]
<1>1. Going(h, tp, d) \in R /\ Going(h, tp, d).ok
  BY DEF Going
<1>2. /\ r \in R /\ r.m = Memory(gr, tq) /\ r.dst = d /\ r.ok
      /\ s \in R /\ s.m = Memory(gr, tq) /\ s.dst = d /\ ~s.ok
  BY <1>1 DEF Going
<1>3. /\ Going(gr, tq, d) \in R /\ Going(gr, tq, d).m = Memory(gr, tq)
      /\ Going(gr, tq, d).dst = d /\ Going(gr, tq, d).ok
      /\ Stopped(gr, tq, d) \in R /\ Stopped(gr, tq, d).m = Memory(gr, tq)
      /\ Stopped(gr, tq, d).dst = d /\ ~Stopped(gr, tq, d).ok
  BY DEF Going, Stopped
<1> HIDE DEF r, s, U
<1>4. QED
  BY <1>2, <1>3 DEF r, s, GoesOn, Stops

\* The space d is a copy of the first n pages of src, and the others are as before.
CloneGoing(fr, sp, src, d, n, h, tp) ==
  /\ MemOK(h, tp) /\ d \in Frames \ DOMAIN sp /\ DOMAIN tp = DOMAIN sp \union {d}
  /\ SameSpaces(sp, tp) /\ SameSeen(fr, sp, h, tp)
  /\ \A q \in Pages : IF q < n THEN Seen(h, Entry(tp, d, q)) = Seen(fr, Entry(sp, src, q))
                      ELSE Entry(tp, d, q) = Absent
CloneStopped(fr, sp, h, tp) ==
  /\ MemOK(h, tp) /\ DOMAIN tp = DOMAIN sp
  /\ SameSpaces(sp, tp) /\ SameSeen(fr, sp, h, tp)

\* A turn changes page n - 1 of the copy and nothing that anybody sees.
ClonesEntry(sp, src, d, p, h, tp, gr, tq) ==
  /\ MemOK(gr, tq) /\ DOMAIN tq = DOMAIN tp /\ Preserves(h, gr)
  /\ \A s \in DOMAIN sp : tq[s].tables = tp[s].tables
  /\ \A s \in DOMAIN sp, q \in Pages : SameEntry(Entry(tp, s, q), Entry(tq, s, q))
  /\ \A q \in Pages \ {p} : Entry(tq, d, q) = Entry(tp, d, q)
  /\ Seen(gr, Entry(tq, d, p)) = Seen(gr, Entry(tq, src, p))

LEMMA CloneTurn ==
  ASSUME Machine, NEW fr, NEW sp, MemOK(fr, sp), NEW src \in DOMAIN sp, NEW d, NEW p \in Pages,
         NEW h, NEW tp, CloneGoing(fr, sp, src, d, p, h, tp),
         NEW gr, NEW tq, ClonesEntry(sp, src, d, p, h, tp, gr, tq)
  PROVE  CloneGoing(fr, sp, src, d, p + 1, gr, tq)
<1>1. /\ MemOK(h, tp) /\ d \in Frames \ DOMAIN sp /\ DOMAIN tp = DOMAIN sp \union {d}
      /\ SameSpaces(sp, tp) /\ SameSeen(fr, sp, h, tp)
      /\ \A q \in Pages : IF q < p THEN Seen(h, Entry(tp, d, q)) = Seen(fr, Entry(sp, src, q))
                          ELSE Entry(tp, d, q) = Absent
  BY DEF CloneGoing
<1>2. /\ MemOK(gr, tq) /\ DOMAIN tq = DOMAIN tp /\ Preserves(h, gr)
      /\ \A s \in DOMAIN sp : tq[s].tables = tp[s].tables
      /\ \A s \in DOMAIN sp, q \in Pages : SameEntry(Entry(tp, s, q), Entry(tq, s, q))
      /\ \A q \in Pages \ {p} : Entry(tq, d, q) = Entry(tp, d, q)
      /\ Seen(gr, Entry(tq, d, p)) = Seen(gr, Entry(tq, src, p))
  BY DEF ClonesEntry
<1>3. SameSpaces(sp, tq)
  <2>1. \A s \in DOMAIN sp : tq[s].tables = sp[s].tables
    BY <1>1, <1>2 DEF SameSpaces
  <2>2. \A s \in DOMAIN sp, q \in Pages : SameEntry(Entry(sp, s, q), Entry(tq, s, q))
    BY <1>1, <1>2 DEF SameSpaces, SameEntry
  <2>3. QED
    BY <2>1, <2>2 DEF SameSpaces
<1>4. \A s \in DOMAIN sp, q \in Pages : Seen(gr, Entry(tq, s, q)) = Seen(h, Entry(tp, s, q))
  BY <1>1, <1>2, KeptSeen
<1>5. \A s \in DOMAIN sp, q \in Pages : Seen(gr, Entry(tq, s, q)) = Seen(fr, Entry(sp, s, q))
  <2>1. DOMAIN sp \intersect DOMAIN tp = DOMAIN sp
    BY <1>1
  <2>2. QED
    BY <1>1, <1>4, <2>1 DEF SameSeen
<1>6. SameSeen(fr, sp, gr, tq)
  BY <1>5 DEF SameSeen
<1>7. ASSUME NEW q \in Pages
      PROVE  IF q < p + 1 THEN Seen(gr, Entry(tq, d, q)) = Seen(fr, Entry(sp, src, q))
             ELSE Entry(tq, d, q) = Absent
  <2>1. q \in Nat /\ p \in Nat
    BY PagesAssumption DEF Pages
  <2>2. CASE q < p
    <3>1. Entry(tq, d, q) = Entry(tp, d, q)
      BY <1>2, <2>1, <2>2
    <3>2. SameEntry(Entry(tp, d, q), Entry(tq, d, q)) /\ d \in DOMAIN tp /\ d \in DOMAIN tq
      BY <1>1, <1>2, <3>1 DEF SameEntry
    <3>3. Seen(gr, Entry(tq, d, q)) = Seen(h, Entry(tp, d, q))
      BY <1>1, <1>2, <3>2, KeptSeen
    <3>4. q < p + 1
      BY <2>1, <2>2
    <3>5. QED
      BY <1>1, <2>2, <3>3, <3>4
  <2>3. CASE q = p
    <3>1. Seen(gr, Entry(tq, d, q)) = Seen(fr, Entry(sp, src, q))
      BY <1>2, <1>5, <2>1, <2>3
    <3>2. q < p + 1
      BY <2>1, <2>3
    <3>3. QED
      BY <3>1, <3>2
  <2>4. CASE q > p
    <3>1. Entry(tq, d, q) = Entry(tp, d, q)
      BY <1>2, <2>1, <2>4
    <3>2. ~(q < p + 1) /\ ~(q < p)
      BY <2>1, <2>4
    <3>3. QED
      BY <1>1, <3>1, <3>2
  <2>5. QED
    BY <2>1, <2>2, <2>3, <2>4
<1>8. QED
  BY <1>1, <1>2, <1>3, <1>6, <1>7 DEF CloneGoing

\* The space is given up again.
LEMMA CloneGivenUp ==
  ASSUME Machine, NEW fr, NEW sp, MemOK(fr, sp), NEW src \in DOMAIN sp, NEW d, NEW n,
         NEW h, NEW tp, CloneGoing(fr, sp, src, d, n, h, tp)
  PROVE  \E gr, tq : /\ destroy_user_space(Memory(h, tp), d) = Memory(gr, tq)
                     /\ CloneStopped(fr, sp, gr, tq)
<1>1. /\ MemOK(h, tp) /\ d \in Frames \ DOMAIN sp /\ DOMAIN tp = DOMAIN sp \union {d}
      /\ SameSpaces(sp, tp) /\ SameSeen(fr, sp, h, tp)
  BY DEF CloneGoing
<1>2. d \in DOMAIN tp
  BY <1>1
<1> DEFINE tq == Without(tp, d)
<1>3. PICK gr : /\ destroy_user_space(Memory(h, tp), d) = Memory(gr, tq)
                /\ MemOK(gr, tq) /\ Shrinks(h, gr)
  BY <1>1, <1>2, DestroyKeeps
<1>4. DOMAIN tq = DOMAIN sp /\ \A s \in DOMAIN sp : tq[s] = tp[s]
  BY <1>1 DEF Without
<1> HIDE DEF tq
<1>5. SameSpaces(sp, tq)
  BY <1>1, <1>4 DEF SameSpaces, Entry
<1>6. Preserves(h, gr)
  BY <1>3, ShrinksPreserves
<1>7. \A s \in DOMAIN sp, q \in Pages : SameEntry(Entry(tp, s, q), Entry(tq, s, q))
  BY <1>4 DEF SameEntry, Entry
<1>8. \A s \in DOMAIN sp, q \in Pages : Seen(gr, Entry(tq, s, q)) = Seen(h, Entry(tp, s, q))
  BY <1>1, <1>3, <1>4, <1>6, <1>7, KeptSeen
<1>9. SameSeen(fr, sp, gr, tq)
  <2>1. DOMAIN sp \intersect DOMAIN tp = DOMAIN sp /\ DOMAIN sp \intersect DOMAIN tq = DOMAIN sp
    BY <1>1, <1>4
  <2>2. QED
    BY <1>1, <1>8, <2>1 DEF SameSeen
<1>10. QED
  BY <1>3, <1>4, <1>5, <1>9 DEF CloneStopped

LEMMA SharedEntry ==
  ASSUME NEW e, e \in Pte, Present(e)
  PROVE  /\ CopyOnWrite(e) \in Pte /\ Present(CopyOnWrite(e)) /\ CopyOnWrite(e).frame = e.frame
         /\ CopyOnWrite(e).writable = FALSE /\ CopyOnWrite(e).cow = TRUE
         /\ SameEntry(e, CopyOnWrite(e))
<1>1. e \in [state : {"present"}, frame : Frames, writable : BOOLEAN, cow : BOOLEAN]
  BY DEF Pte, Present, Absent, Demand
<1>2. QED
  BY <1>1 DEF CopyOnWrite, Pte, Present, SameEntry

CanShare(fr, f) == fr[f].refs \in 1 .. MAX_REFS - 1

\* Both get the frame read-only: first the old space, then the copy.
LEMMA SharePage ==
  ASSUME Machine, NEW fr, NEW sp, MemOK(fr, sp), NEW src \in DOMAIN sp, NEW d \in DOMAIN sp, src # d,
         NEW p \in Pages, NEW e, e = Entry(sp, src, p), Present(e), Entry(sp, d, p) = Absent,
         NEW f, f = e.frame, CanShare(fr, f),
         NEW shared, shared = CopyOnWrite(e)
  PROVE  \E gr, tp : /\ WithPte(WithPte(share(Memory(fr, sp), f), src, p, shared), d, p, shared) = Memory(gr, tp)
                     /\ MemOK(gr, tp) /\ DOMAIN tp = DOMAIN sp /\ Preserves(fr, gr)
                     /\ \A s \in DOMAIN sp : tp[s].tables = sp[s].tables
                     /\ \A s \in DOMAIN sp, q \in Pages :
                          <<s, q>> # <<d, p>> => SameEntry(Entry(sp, s, q), Entry(tp, s, q))
                     /\ \A q \in Pages \ {p} : Entry(tp, d, q) = Entry(sp, d, q)
                     /\ Entry(tp, d, p) = shared /\ Entry(tp, src, p) = shared
<1> DEFINE more == [fr[f] EXCEPT !.refs = @ + 1]
           gr == PutFrame(fr, f, more)
           mid == PutPte(sp, src, p, shared)
           tp == PutPte(mid, d, p, shared)
<1>1. fr \in FrameMaps /\ sp \in SpaceMaps
  BY DEF MemOK
<1>2. e \in Pte /\ Guarded(fr, e) /\ f \in Frames
  BY EntryFacts
<1>3. /\ shared \in Pte /\ Present(shared) /\ shared.frame = f
      /\ shared.writable = FALSE /\ shared.cow = TRUE
      /\ SameEntry(e, shared)
  BY <1>2, SharedEntry
<1>4. WithPte(WithPte(share(Memory(fr, sp), f), src, p, shared), d, p, shared) = Memory(gr, tp)
  <2>1. share(Memory(fr, sp), f) = Memory(gr, sp)
    BY MemoryShare
  <2> HIDE DEF gr
  <2>2. WithPte(Memory(gr, sp), src, p, shared) = Memory(gr, mid)
    BY MemoryWithPte
  <2> HIDE DEF mid
  <2>3. WithPte(Memory(gr, mid), d, p, shared) = Memory(gr, tp)
    BY MemoryWithPte
  <2>4. QED
    BY <2>1, <2>2, <2>3
<1>5. more \in Frame /\ more.refs = fr[f].refs + 1 /\ more.data = fr[f].data
  BY <1>1, <1>2, FrameTypes, RefsAssumption DEF Frame, CanShare
<1> HIDE DEF more
<1>6. gr \in FrameMaps /\ gr[f] = more /\ \A g \in Frames \ {f} : gr[g] = fr[g]
  BY <1>1, <1>2, <1>5, PutFrameType
<1> HIDE DEF gr
<1>7. OthersReadOnly(sp, src, p, shared)
  <2>1. SUFFICES ASSUME NEW s \in DOMAIN sp, NEW q \in Pages, <<s, q>> # <<src, p>>,
                        NEW e2, e2 = Entry(sp, s, q), Present(e2), e2.frame = f
                 PROVE  ~e2.writable
    BY <1>3 DEF OthersReadOnly
  <2>2. SUFFICES ASSUME e2.writable PROVE FALSE
    OBVIOUS
  <2>3. fr[f].refs = 1
    BY <2>1, <2>2, EntryFacts DEF Guarded
  <2>4. sp[src].pte[p].frame = f /\ sp[s].pte[q].frame = f
    BY <2>1 DEF Entry
  <2>5. QED
    BY <1>2, <2>1, <2>3, <2>4, OnlyUse
<1>8. MemOK(fr, mid)
  <2>1. Recounted(fr, fr, e, shared)
    <3>1. ASSUME NEW g \in Frames
          PROVE  OneAt(shared, g) = OneAt(e, g) /\ OneAt(e, g) \in {0, 1} /\ fr[g].refs \in Nat
      BY <1>1, <1>3, FrameTypes DEF OneAt
    <3>2. QED
      BY <3>1 DEF Recounted
  <2>2. Guarded(fr, shared)
    BY <1>3 DEF Guarded
  <2>3. QED
    BY <1>1, <1>3, <1>7, <2>1, <2>2, EntryStep
<1>9. /\ mid \in SpaceMaps /\ DOMAIN mid = DOMAIN sp /\ Entry(mid, src, p) = shared
      /\ \A s \in DOMAIN sp : mid[s].tables = sp[s].tables
      /\ \A s \in DOMAIN sp, q \in Pages : <<s, q>> # <<src, p>> => Entry(mid, s, q) = Entry(sp, s, q)
  BY <1>1, <1>3, PutPteEntries
<1> HIDE DEF mid
<1>10. /\ DOMAIN tp = DOMAIN mid /\ Entry(tp, d, p) = shared
       /\ \A s \in DOMAIN mid : tp[s].tables = mid[s].tables
       /\ \A s \in DOMAIN mid, q \in Pages : <<s, q>> # <<d, p>> => Entry(tp, s, q) = Entry(mid, s, q)
  BY <1>3, <1>9, PutPteEntries
<1>11. Entry(mid, d, p) = Absent
  BY <1>9
<1>12. OthersReadOnly(mid, d, p, shared)
  <2>1. SUFFICES ASSUME NEW s \in DOMAIN mid, NEW q \in Pages, <<s, q>> # <<d, p>>,
                        NEW e2, e2 = Entry(mid, s, q), Present(e2), e2.frame = f
                 PROVE  ~e2.writable
    BY <1>3 DEF OthersReadOnly
  <2>2. CASE <<s, q>> = <<src, p>>
    BY <1>3, <1>9, <2>1, <2>2
  <2>3. CASE <<s, q>> # <<src, p>>
    <3>1. e2 = Entry(sp, s, q) /\ s \in DOMAIN sp
      BY <1>9, <2>1, <2>3
    <3>2. QED
      BY <1>3, <1>7, <2>1, <2>3, <3>1 DEF OthersReadOnly
  <2>4. QED
    BY <2>2, <2>3
<1>13. MemOK(gr, tp)
  <2>1. Recounted(fr, gr, Absent, shared)
    <3>1. ASSUME NEW g \in Frames
          PROVE  gr[g].refs = (fr[g].refs - OneAt(Absent, g)) + OneAt(shared, g)
      <4>1. OneAt(Absent, g) = 0 /\ OneAt(shared, g) = (IF g = f THEN 1 ELSE 0) /\ fr[g].refs \in Nat
        BY <1>1, <1>3, FrameTypes DEF OneAt, Absent, Frames
      <4>2. gr[g].refs = IF g = f THEN fr[g].refs + 1 ELSE fr[g].refs
        BY <1>5, <1>6
      <4>3. QED
        BY <4>1, <4>2
    <3>2. QED
      BY <3>1 DEF Recounted
  <2>2. Guarded(gr, shared)
    BY <1>3 DEF Guarded
  <2>3. QED
    BY <1>3, <1>6, <1>8, <1>9, <1>11, <1>12, <2>1, <2>2, EntryStep
<1> HIDE DEF tp
<1>14. Preserves(fr, gr)
  BY <1>5, <1>6 DEF Preserves
<1>15. Entry(tp, src, p) = shared
  <2>1. <<src, p>> # <<d, p>>
    OBVIOUS
  <2>2. QED
    BY <1>9, <1>10, <2>1
<1>16. ASSUME NEW s \in DOMAIN sp, NEW q \in Pages, <<s, q>> # <<d, p>>
       PROVE  SameEntry(Entry(sp, s, q), Entry(tp, s, q))
  <2>1. CASE <<s, q>> = <<src, p>>
    BY <1>3, <1>15, <2>1
  <2>2. CASE <<s, q>> # <<src, p>>
    BY <1>9, <1>10, <1>16, <2>2 DEF SameEntry
  <2>3. QED
    BY <2>1, <2>2
<1>17. \A q \in Pages \ {p} : Entry(tp, d, q) = Entry(sp, d, q)
  BY <1>9, <1>10
<1>18. \A s \in DOMAIN sp : tp[s].tables = sp[s].tables
  BY <1>9, <1>10
<1>19. DOMAIN tp = DOMAIN sp
  BY <1>9, <1>10
<1>20. QED
  BY <1>4, <1>10, <1>13, <1>14, <1>15, <1>16, <1>17, <1>18, <1>19

\* The copy gets a frame of its own, with the same content.
LEMMA CopyPage ==
  ASSUME Machine, NEW fr, NEW sp, MemOK(fr, sp), NEW src \in DOMAIN sp, NEW d \in DOMAIN sp, src # d,
         NEW p \in Pages, NEW e, e = Entry(sp, src, p), Present(e), Entry(sp, d, p) = Absent,
         NEW f, f = e.frame, FreeIn(fr) # {}, NEW copy, copy = FirstIn(fr)
  PROVE  \E gr, tp : /\ WithPte(Copied(alloc(Memory(fr, sp)), f, copy), d, p, Own(copy)) = Memory(gr, tp)
                     /\ MemOK(gr, tp) /\ DOMAIN tp = DOMAIN sp /\ Preserves(fr, gr)
                     /\ \A s \in DOMAIN sp : tp[s].tables = sp[s].tables
                     /\ \A s \in DOMAIN sp, q \in Pages :
                          <<s, q>> # <<d, p>> => Entry(tp, s, q) = Entry(sp, s, q)
                     /\ Seen(gr, Entry(tp, d, p)) = Seen(gr, Entry(tp, src, p))
<1> DEFINE own == Own(copy)
           tp == PutPte(sp, d, p, own)
<1>1. fr \in FrameMaps /\ sp \in SpaceMaps
  BY DEF MemOK
<1>2. f \in Frames /\ fr[f].refs \in 1 .. MAX_REFS /\ fr[f].refs > 0
  BY EntryFacts
<1>3. /\ copy \in Frames /\ fr[copy].refs = 0 /\ copy # f
      /\ \E h : /\ Copied(alloc(Memory(fr, sp)), f, copy) = Memory(h, sp)
                /\ CopyOf(fr, f, copy, h)
  BY <1>1, <1>2, CopyFrame
<1>4. PICK gr : /\ Copied(alloc(Memory(fr, sp)), f, copy) = Memory(gr, sp)
                /\ CopyOf(fr, f, copy, gr)
  BY <1>3
<1>5. /\ gr \in FrameMaps /\ gr[copy].refs = 1 /\ gr[copy].data = fr[f].data
      /\ \A g \in Frames \ {copy} : gr[g] = fr[g]
  BY <1>4 DEF CopyOf
<1>6. WithPte(Copied(alloc(Memory(fr, sp)), f, copy), d, p, Own(copy)) = Memory(gr, tp)
  BY <1>4, MemoryWithPte
<1>7. own \in Pte /\ Present(own) /\ own.frame = copy /\ own.writable = TRUE /\ own.cow = FALSE
  BY <1>3, OwnType
<1> HIDE DEF own
<1>8. OthersReadOnly(sp, d, p, own)
  BY <1>3, <1>7, FreeIsUnmapped
<1>9. Recounted(fr, gr, Absent, own)
  <2>1. ASSUME NEW g \in Frames PROVE gr[g].refs = (fr[g].refs - OneAt(Absent, g)) + OneAt(own, g)
    <3>1. OneAt(Absent, g) = 0 /\ OneAt(own, g) = (IF g = copy THEN 1 ELSE 0) /\ fr[g].refs \in Nat
      BY <1>1, <1>7, FrameTypes DEF OneAt, Absent, Frames
    <3>2. QED
      BY <1>3, <1>5, <3>1
  <2>2. QED
    BY <2>1 DEF Recounted
<1>10. Guarded(gr, own)
  BY <1>5, <1>7 DEF Guarded
<1>11. MemOK(gr, tp)
  BY <1>1, <1>5, <1>7, <1>8, <1>9, <1>10, EntryStep
<1>12. /\ DOMAIN tp = DOMAIN sp /\ Entry(tp, d, p) = own
       /\ \A s \in DOMAIN sp : tp[s].tables = sp[s].tables
       /\ \A s \in DOMAIN sp, q \in Pages : <<s, q>> # <<d, p>> => Entry(tp, s, q) = Entry(sp, s, q)
  BY <1>1, <1>7, PutPteEntries
<1>13. Preserves(fr, gr)
  BY <1>3, <1>5 DEF Preserves
<1> HIDE DEF tp
<1>14. Seen(gr, Entry(tp, d, p)) = Seen(gr, Entry(tp, src, p))
  <2>1. Entry(tp, src, p) = e
    BY <1>12
  <2>2. gr[f] = fr[f]
    BY <1>2, <1>3, <1>5
  <2>3. Seen(gr, e) = fr[f].data /\ Seen(gr, own) = fr[f].data
    BY <1>5, <1>7, <2>2 DEF Seen
  <2>4. QED
    BY <1>12, <2>1, <2>3
<1>15. QED
  BY <1>6, <1>11, <1>12, <1>13, <1>14

\* The copy gets the mark of a page that is reserved.
LEMMA DemandPage ==
  ASSUME Machine, NEW fr, NEW sp, MemOK(fr, sp), NEW d \in DOMAIN sp, NEW p \in Pages,
         Entry(sp, d, p) = Absent
  PROVE  \E tp : /\ WithPte(Memory(fr, sp), d, p, Demand) = Memory(fr, tp)
                 /\ MemOK(fr, tp) /\ DOMAIN tp = DOMAIN sp
                 /\ \A s \in DOMAIN sp : tp[s].tables = sp[s].tables
                 /\ \A s \in DOMAIN sp, q \in Pages :
                      <<s, q>> # <<d, p>> => Entry(tp, s, q) = Entry(sp, s, q)
                 /\ Entry(tp, d, p) = Demand
<1> DEFINE tp == PutPte(sp, d, p, Demand)
<1>1. fr \in FrameMaps /\ sp \in SpaceMaps
  BY DEF MemOK
<1>2. WithPte(Memory(fr, sp), d, p, Demand) = Memory(fr, tp)
  BY MemoryWithPte
<1>3. Demand \in Pte
  BY DEF Pte
<1>4. OthersReadOnly(sp, d, p, Demand)
  <2>1. SUFFICES ASSUME NEW s \in DOMAIN sp, NEW q \in Pages, NEW e2, e2 = Entry(sp, s, q),
                        Present(e2), e2.frame = Demand.frame
                 PROVE  FALSE
    BY DEF OthersReadOnly
  <2>2. e2.frame \in Frames
    BY <2>1, EntryFacts
  <2>3. QED
    BY <2>1, <2>2 DEF Demand, Frames
<1>5. Recounted(fr, fr, Absent, Demand)
  <2>1. ASSUME NEW g \in Frames PROVE OneAt(Absent, g) = 0 /\ OneAt(Demand, g) = 0 /\ fr[g].refs \in Nat
    BY <1>1, FrameTypes DEF OneAt, Absent, Demand, Frames
  <2>2. QED
    BY <2>1 DEF Recounted
<1>6. Guarded(fr, Demand)
  BY DEF Guarded, Present, Demand
<1>7. MemOK(fr, tp)
  BY <1>1, <1>3, <1>4, <1>5, <1>6, EntryStep
<1>8. /\ DOMAIN tp = DOMAIN sp /\ Entry(tp, d, p) = Demand
      /\ \A s \in DOMAIN sp : tp[s].tables = sp[s].tables
      /\ \A s \in DOMAIN sp, q \in Pages : <<s, q>> # <<d, p>> => Entry(tp, s, q) = Entry(sp, s, q)
  BY <1>1, <1>3, PutPteEntries
<1>9. QED
  BY <1>2, <1>7, <1>8

\* One turn of the loop.
LEMMA ClonePageKeeps ==
  ASSUME Machine, NEW fr, NEW sp, MemOK(fr, sp), NEW src \in DOMAIN sp, NEW d, NEW p \in Pages,
         NEW h, NEW tp, CloneGoing(fr, sp, src, d, p, h, tp),
         NEW c, c = Going(h, tp, d)
  PROVE  \E gr, tq : \/ /\ ClonePage(c, src, p) = Going(gr, tq, d)
                        /\ CloneGoing(fr, sp, src, d, p + 1, gr, tq)
                     \/ /\ ClonePage(c, src, p) = Stopped(gr, tq, d)
                        /\ CloneStopped(fr, sp, gr, tq)
<1> DEFINE e == Entry(tp, src, p)
           f == e.frame
           shared == CopyOnWrite(e)
           copy == FirstIn(h)
<1>0. MemOK(h, tp)
  BY DEF CloneGoing
<1>1. /\ d \in Frames \ DOMAIN sp /\ DOMAIN tp = DOMAIN sp \union {d}
      /\ \A q \in Pages : IF q < p THEN Seen(h, Entry(tp, d, q)) = Seen(fr, Entry(sp, src, q))
                          ELSE Entry(tp, d, q) = Absent
  BY DEF CloneGoing
<1>2. p \in Nat /\ ~(p < p)
  BY PagesAssumption DEF Pages
<1>3. Entry(tp, d, p) = Absent
  BY <1>1, <1>2
<1>4. d \in DOMAIN tp /\ src \in DOMAIN tp /\ src # d
  BY <1>1
<1>5. e \in Pte
  BY <1>0, <1>4, EntryFacts
<1>6. /\ c.m = Memory(h, tp) /\ c.dst = d /\ c.ok
      /\ c.m.spaces[src].pte[p] = e
      /\ FreeFrames(c.m) = FreeIn(h) /\ FirstFrame(c.m) = copy
      /\ Shareable(c.m, f) <=> h[f].refs \in 1 .. MAX_REFS - 1
  <2>1. c.m = Memory(h, tp) /\ c.dst = d /\ c.ok
    BY GoingFields
  <2> HIDE DEF f
  <2>2. FreeFrames(c.m) = FreeIn(h) /\ FirstFrame(c.m) = copy
    BY <2>1, MemoryFirst
  <2>3. Shareable(c.m, f) <=> h[f].refs \in 1 .. MAX_REFS - 1
    BY <2>1, MemoryShareable
  <2>4. c.m.spaces = tp
    BY <2>1, MemoryFields
  <2>5. QED
    BY <2>1, <2>2, <2>3, <2>4 DEF Entry
<1>7. /\ e.state = "absent" => ClonePage(c, src, p) = c
      /\ e.state = "demand" => ClonePage(c, src, p) = GoesOn(c, WithPte(Memory(h, tp), d, p, Demand))
      /\ e.state = "present" /\ CanShare(h, f) =>
           ClonePage(c, src, p) =
             GoesOn(c, WithPte(WithPte(share(Memory(h, tp), f), src, p, shared), d, p, shared))
      /\ e.state = "present" /\ ~CanShare(h, f) /\ FreeIn(h) # {} =>
           ClonePage(c, src, p) = GoesOn(c, WithPte(Copied(alloc(Memory(h, tp)), f, copy), d, p, Own(copy)))
      /\ e.state = "present" /\ ~CanShare(h, f) /\ FreeIn(h) = {} =>
           ClonePage(c, src, p) = Stops(c, destroy_user_space(Memory(h, tp), d))
  <2> HIDE DEF e, copy
  <2>1. "absent" # "demand" /\ "absent" # "present" /\ "demand" # "present"
    OBVIOUS
  <2>2. QED
    BY <1>6, <2>1 DEF ClonePage, Own, GoesOn, Stops, CanShare, Present
<1> DEFINE Goal == \E gr, tq : \/ /\ ClonePage(c, src, p) = Going(gr, tq, d)
                                  /\ CloneGoing(fr, sp, src, d, p + 1, gr, tq)
                               \/ /\ ClonePage(c, src, p) = Stopped(gr, tq, d)
                                  /\ CloneStopped(fr, sp, gr, tq)
<1> HIDE DEF Goal
<1> SUFFICES Goal
  BY DEF Goal
<1>8. ASSUME NEW gr, NEW tq, ClonePage(c, src, p) = GoesOn(c, Memory(gr, tq)) \/ ClonePage(c, src, p) = Going(gr, tq, d),
             ClonesEntry(sp, src, d, p, h, tp, gr, tq)
      PROVE  Goal
  <2>1. GoesOn(c, Memory(gr, tq)) = Going(gr, tq, d)
    BY GoingChange
  <2>2. CloneGoing(fr, sp, src, d, p + 1, gr, tq)
    BY <1>8, CloneTurn
  <2>3. ClonePage(c, src, p) = Going(gr, tq, d)
    BY <1>8, <2>1
  <2>4. QED
    BY <2>2, <2>3 DEF Goal
<1>9. Present(e) <=> e.state = "present"
  BY DEF Present
<1> HIDE DEF e, shared, copy
<1>10. CASE e.state = "absent"
  <2>1. ClonePage(c, src, p) = Going(h, tp, d)
    BY <1>7, <1>10
  <2>2. Seen(h, Entry(tp, d, p)) = Seen(h, Entry(tp, src, p))
    <3>1. Seen(h, Absent) = Zero /\ Seen(h, e) = Zero
      BY <1>10 DEF Seen, Present, Absent
    <3>2. QED
      BY <1>3, <3>1 DEF e
  <2>3. ClonesEntry(sp, src, d, p, h, tp, h, tp)
    BY <1>0, <2>2 DEF ClonesEntry, Preserves, SameEntry
  <2>4. QED
    BY <1>8, <2>1, <2>3
<1>11. CASE e.state = "demand"
  <2>1. e = Demand
    BY <1>5, <1>11 DEF Pte, Absent
  <2>2. PICK tq : /\ WithPte(Memory(h, tp), d, p, Demand) = Memory(h, tq)
                  /\ MemOK(h, tq) /\ DOMAIN tq = DOMAIN tp
                  /\ \A s \in DOMAIN tp : tq[s].tables = tp[s].tables
                  /\ \A s \in DOMAIN tp, q \in Pages : <<s, q>> # <<d, p>> => Entry(tq, s, q) = Entry(tp, s, q)
                  /\ Entry(tq, d, p) = Demand
    BY <1>0, <1>3, <1>4, DemandPage
  <2>3. ClonePage(c, src, p) = GoesOn(c, Memory(h, tq))
    BY <1>7, <1>11, <2>2
  <2>4. Entry(tq, src, p) = Demand
    BY <1>2, <1>4, <2>1, <2>2 DEF e
  <2>5. \A s \in DOMAIN sp, q \in Pages : Entry(tq, s, q) = Entry(tp, s, q)
    BY <1>1, <2>2
  <2>6. ClonesEntry(sp, src, d, p, h, tp, h, tq)
    BY <1>1, <1>4, <2>2, <2>4, <2>5 DEF ClonesEntry, Preserves, SameEntry
  <2>7. QED
    BY <1>8, <2>3, <2>6
<1>12. CASE Present(e) /\ CanShare(h, f)
  <2>1. PICK gr, tq :
          /\ WithPte(WithPte(share(Memory(h, tp), f), src, p, shared), d, p, shared) = Memory(gr, tq)
          /\ MemOK(gr, tq) /\ DOMAIN tq = DOMAIN tp /\ Preserves(h, gr)
          /\ \A s \in DOMAIN tp : tq[s].tables = tp[s].tables
          /\ \A s \in DOMAIN tp, q \in Pages :
               <<s, q>> # <<d, p>> => SameEntry(Entry(tp, s, q), Entry(tq, s, q))
          /\ \A q \in Pages \ {p} : Entry(tq, d, q) = Entry(tp, d, q)
          /\ Entry(tq, d, p) = shared /\ Entry(tq, src, p) = shared
    <3>1. e = Entry(tp, src, p) /\ f = e.frame /\ shared = CopyOnWrite(e)
      BY DEF e, shared
    <3> HIDE DEF f
    <3>2. QED
      BY <1>0, <1>3, <1>4, <1>12, <3>1, SharePage
  <2>2. ClonePage(c, src, p) = GoesOn(c, Memory(gr, tq))
    <3> HIDE DEF f
    <3> QED
      BY <1>7, <1>9, <1>12, <2>1
  <2>3. \A s \in DOMAIN sp, q \in Pages : SameEntry(Entry(tp, s, q), Entry(tq, s, q))
    BY <1>1, <2>1
  <2>4. \A s \in DOMAIN sp : tq[s].tables = tp[s].tables
    BY <1>1, <2>1
  <2>5. ClonesEntry(sp, src, d, p, h, tp, gr, tq)
    BY <2>1, <2>3, <2>4 DEF ClonesEntry
  <2>6. QED
    BY <1>8, <2>2, <2>5
<1>13. CASE Present(e) /\ ~CanShare(h, f) /\ FreeIn(h) # {}
  <2>1. PICK gr, tq :
          /\ WithPte(Copied(alloc(Memory(h, tp)), f, copy), d, p, Own(copy)) = Memory(gr, tq)
          /\ MemOK(gr, tq) /\ DOMAIN tq = DOMAIN tp /\ Preserves(h, gr)
          /\ \A s \in DOMAIN tp : tq[s].tables = tp[s].tables
          /\ \A s \in DOMAIN tp, q \in Pages :
               <<s, q>> # <<d, p>> => Entry(tq, s, q) = Entry(tp, s, q)
          /\ Seen(gr, Entry(tq, d, p)) = Seen(gr, Entry(tq, src, p))
    <3>1. e = Entry(tp, src, p) /\ f = e.frame /\ copy = FirstIn(h)
      BY DEF e, copy
    <3> HIDE DEF f
    <3>2. QED
      BY <1>0, <1>3, <1>4, <1>13, <3>1, CopyPage
  <2>2. ClonePage(c, src, p) = GoesOn(c, Memory(gr, tq))
    <3> HIDE DEF f
    <3> QED
      BY <1>7, <1>9, <1>13, <2>1
  <2>3. \A s \in DOMAIN sp, q \in Pages : Entry(tq, s, q) = Entry(tp, s, q)
    BY <1>1, <2>1
  <2>4. \A s \in DOMAIN sp : tq[s].tables = tp[s].tables
    BY <1>1, <2>1
  <2>5. \A q \in Pages \ {p} : Entry(tq, d, q) = Entry(tp, d, q)
    BY <1>4, <2>1
  <2>6. ClonesEntry(sp, src, d, p, h, tp, gr, tq)
    BY <2>1, <2>3, <2>4, <2>5 DEF ClonesEntry, SameEntry
  <2>7. QED
    BY <1>8, <2>2, <2>6
<1>14. CASE Present(e) /\ ~CanShare(h, f) /\ FreeIn(h) = {}
  <2>1. PICK gr, tq : /\ destroy_user_space(Memory(h, tp), d) = Memory(gr, tq)
                      /\ CloneStopped(fr, sp, gr, tq)
    BY CloneGivenUp
  <2>2. ClonePage(c, src, p) = Stops(c, Memory(gr, tq))
    <3> HIDE DEF f
    <3> QED
      BY <1>7, <1>9, <1>14, <2>1
  <2>3. Stops(c, Memory(gr, tq)) = Stopped(gr, tq, d)
    BY GoingChange
  <2>4. ClonePage(c, src, p) = Stopped(gr, tq, d)
    BY <2>2, <2>3
  <2>5. QED
    BY <2>1, <2>4 DEF Goal
<1>15. QED
  <2>1. e.state \in {"absent", "demand", "present"}
    BY <1>5 DEF Pte, Absent, Demand
  <2>2. QED
    BY <1>9, <1>10, <1>11, <1>12, <1>13, <1>14, <2>1

\* The loop after k turns.
Cloned(fr, sp, src, d, k, v) ==
  \E h, tp : \/ v = Going(h, tp, d) /\ CloneGoing(fr, sp, src, d, k, h, tp)
             \/ v = Stopped(h, tp, d) /\ CloneStopped(fr, sp, h, tp)

LEMMA ClonedTurn ==
  ASSUME Machine, NEW fr, NEW sp, MemOK(fr, sp), NEW src \in DOMAIN sp, NEW d, NEW p \in Pages,
         NEW v, Cloned(fr, sp, src, d, p, v)
  PROVE  Cloned(fr, sp, src, d, p + 1, ClonePage(v, src, p))
<1>1. PICK h, tp : \/ v = Going(h, tp, d) /\ CloneGoing(fr, sp, src, d, p, h, tp)
                   \/ v = Stopped(h, tp, d) /\ CloneStopped(fr, sp, h, tp)
  BY DEF Cloned
<1>2. CASE v = Going(h, tp, d) /\ CloneGoing(fr, sp, src, d, p, h, tp)
  <2>1. \E gr, tq : \/ /\ ClonePage(v, src, p) = Going(gr, tq, d)
                       /\ CloneGoing(fr, sp, src, d, p + 1, gr, tq)
                    \/ /\ ClonePage(v, src, p) = Stopped(gr, tq, d)
                       /\ CloneStopped(fr, sp, gr, tq)
    BY <1>2, ClonePageKeeps
  <2>2. QED
    BY <2>1 DEF Cloned
<1>3. CASE v = Stopped(h, tp, d) /\ CloneStopped(fr, sp, h, tp)
  <2>1. ~v.ok
    BY <1>3, StoppedFields
  <2>2. ClonePage(v, src, p) = v
    <3>1. ASSUME NEW c, ~c.ok PROVE ClonePage(c, src, p) = c
      BY <3>1 DEF ClonePage
    <3>2. QED
      BY <2>1, <3>1
  <2>3. QED
    BY <1>3, <2>2 DEF Cloned
<1>4. QED
  BY <1>1, <1>2, <1>3

LEMMA CloneLoop ==
  ASSUME Machine, NEW fr, NEW sp, MemOK(fr, sp), NEW src \in DOMAIN sp
  PROVE  \E d : Cloned(fr, sp, src, d, ENTRIES, clone_user_space(Memory(fr, sp), src))
<1> DEFINE m == Memory(fr, sp)
           d == FirstIn(fr)
           start == [m |-> create_user_space(m), dst |-> d, ok |-> TRUE]
           Turn(v, k) == ClonePage(v, src, k - 1)
           cloned[k \in 0..ENTRIES] == IF k = 0 THEN start ELSE Turn(cloned[k - 1], k)
           All == {Going(h, tp, d) : h \in FrameMaps, tp \in SpaceMaps}
                  \union {Stopped(h, tp, d) : h \in FrameMaps, tp \in SpaceMaps}
           W == [k \in 0..ENTRIES |-> {v \in All : Cloned(fr, sp, src, d, k, v)}]
           G == [k \in 1..ENTRIES |-> [v \in W[k - 1] |-> Turn(v, k)]]
<1>1. ENTRIES \in Nat /\ 0 \in 0..ENTRIES /\ ENTRIES \in 0..ENTRIES
      /\ \A k \in 1..ENTRIES : k - 1 \in 0..ENTRIES /\ k \in 0..ENTRIES /\ k - 1 \in Pages /\ (k - 1) + 1 = k
  BY PagesAssumption DEF Pages
<1>2. ASSUME NEW k \in 0..ENTRIES, NEW v
      PROVE  v \in W[k] <=> Cloned(fr, sp, src, d, k, v)
  <2>1. ASSUME Cloned(fr, sp, src, d, k, v) PROVE v \in All
    BY <2>1 DEF Cloned, CloneGoing, CloneStopped, MemOK
  <2> HIDE DEF All
  <2>2. QED
    BY <2>1
<1> HIDE DEF W
<1>3. PICK gr, tp : /\ create_user_space(m) = Memory(gr, tp)
                    /\ MemOK(gr, tp) /\ Grows(fr, gr)
                    /\ IF CanCreate(m) THEN FreshSpace(sp, tp, d) ELSE tp = sp
  BY CreateSpaceKeeps
<1>4. Preserves(fr, gr)
  BY <1>3, GrowsPreserves
<1>5. CASE ~CanCreate(m)
  <2>1. tp = sp /\ MemOK(gr, sp)
    BY <1>3, <1>5
  <2>2. SameSeen(fr, sp, gr, sp)
    <3>1. \A s \in DOMAIN sp \intersect DOMAIN sp, q \in Pages : SameEntry(Entry(sp, s, q), Entry(sp, s, q))
      BY DEF SameEntry
    <3>2. QED
      BY <1>4, <2>1, <3>1, SameSpacesSeen
  <2>3. CloneStopped(fr, sp, gr, sp)
    BY <2>1, <2>2 DEF CloneStopped, SameSpaces, SameEntry
  <2>4. clone_user_space(m, src) = Stopped(gr, sp, NoSpace)
    <3> HIDE DEF m
    <3> QED
      BY <1>3, <1>5, <2>1 DEF clone_user_space, Stopped
  <2>5. Cloned(fr, sp, src, NoSpace, ENTRIES, clone_user_space(m, src))
    BY <2>3, <2>4 DEF Cloned
  <2>6. QED
    BY <2>5
<1>6. CASE CanCreate(m)
  <2>1. FreshSpace(sp, tp, d)
    BY <1>3, <1>6
  <2>2. start = Going(gr, tp, d)
    BY <1>3 DEF Going
  <2>3. CloneGoing(fr, sp, src, d, 0, gr, tp)
    <3>1. d \in Frames \ DOMAIN sp /\ DOMAIN tp = DOMAIN sp \union {d} /\ \A s \in DOMAIN sp : tp[s] = sp[s]
      BY <2>1 DEF FreshSpace
    <3>2. \A q \in Pages : Entry(tp, d, q) = Absent
      BY <2>1 DEF FreshSpace, Flushed, Entry
    <3>3. \A s \in DOMAIN sp \intersect DOMAIN tp, q \in Pages : SameEntry(Entry(sp, s, q), Entry(tp, s, q))
      BY <3>1 DEF SameEntry, Entry
    <3>4. SameSeen(fr, sp, gr, tp)
      BY <1>3, <1>4, <3>3, SameSpacesSeen
    <3>5. SameSpaces(sp, tp)
      BY <3>1, <3>3 DEF SameSpaces
    <3>6. \A q \in Pages : ~(q < 0)
      BY DEF Pages
    <3> HIDE DEF d
    <3>7. QED
      BY <1>3, <3>1, <3>2, <3>4, <3>5, <3>6 DEF CloneGoing
  <2>4. start \in W[0]
    <3>1. Cloned(fr, sp, src, d, 0, start)
      BY <2>2, <2>3 DEF Cloned
    <3>2. QED
      BY <1>1, <1>2, <3>1
  <2>5. ASSUME NEW k \in 1..ENTRIES, NEW v \in W[k - 1]
        PROVE  Turn(v, k) \in W[k]
    <3>1. k - 1 \in 0..ENTRIES /\ k \in 0..ENTRIES /\ k - 1 \in Pages /\ (k - 1) + 1 = k
      BY <1>1
    <3>2. Cloned(fr, sp, src, d, k - 1, v)
      BY <1>2, <3>1
    <3>3. Cloned(fr, sp, src, d, (k - 1) + 1, Turn(v, k))
      BY <3>1, <3>2, ClonedTurn
    <3>4. Cloned(fr, sp, src, d, k, Turn(v, k))
      BY <3>1, <3>3
    <3> HIDE DEF d, Turn
    <3>5. QED
      BY <1>2, <3>1, <3>4
  <2> HIDE DEF start, d, m
  <2>6. PICK f : RunsWithin(f, ENTRIES, W, start, G)
    <3>1. TurnsWithin(ENTRIES, W, G)
      <4> HIDE DEF W, Turn
      <4> QED
        BY <2>5 DEF TurnsWithin
    <3> HIDE DEF W, G
    <3>2. QED
      BY <1>1, <2>4, <3>1, LoopWithin
  <2>7. \A k \in 0..ENTRIES : k # 0 => G[k][f[k - 1]] = Turn(f[k - 1], k)
    <3>0. \A k \in 0..ENTRIES : k # 0 => k \in 1..ENTRIES /\ k - 1 \in 0..ENTRIES
      BY <1>1
    <3>1. \A k \in 0..ENTRIES : k # 0 => k \in 1..ENTRIES /\ f[k - 1] \in W[k - 1]
      <4> HIDE DEF W, G
      <4> QED
        BY <2>6, <3>0 DEF RunsWithin
    <3> HIDE DEF W, Turn
    <3>2. QED
      BY <3>1
  <2> HIDE DEF W, G
  <2>8. f = [k \in 0..ENTRIES |-> IF k = 0 THEN start ELSE Turn(f[k - 1], k)]
    <3> HIDE DEF Turn
    <3> QED
      BY <2>6, <2>7 DEF RunsWithin
  <2>9. cloned = [k \in 0..ENTRIES |-> IF k = 0 THEN start ELSE Turn(cloned[k - 1], k)]
    BY <2>8, Zenon
  <2>10. clone_user_space(m, src) = cloned[ENTRIES]
    <3>1. FirstFrame(m) = d
      BY MemoryFirst DEF m, d
    <3>2. QED
      BY <1>6, <3>1 DEF clone_user_space, start
  <2> HIDE DEF cloned, Turn
  <2>11. \A k \in 0..ENTRIES : cloned[k] \in W[k]
    <3> DEFINE S == {k \in 0..ENTRIES : cloned[k] \in W[k]}
    <3>1. 0 \in S
      BY <1>1, <2>4, <2>9
    <3>2. ASSUME NEW k \in 1..ENTRIES, k - 1 \in S PROVE k \in S
      <4>1. cloned[k] = Turn(cloned[k - 1], k) /\ cloned[k - 1] \in W[k - 1]
        BY <1>1, <2>9, <3>2
      <4>2. QED
        BY <1>1, <2>5, <4>1
    <3> HIDE DEF S
    <3>3. \A k \in 0..ENTRIES : k \in S
      BY <1>1, <3>1, <3>2, InductionUpTo
    <3>4. QED
      BY <3>3 DEF S
  <2>12. cloned[ENTRIES] \in W[ENTRIES]
    BY <1>1, <2>11
  <2>13. Cloned(fr, sp, src, d, ENTRIES, clone_user_space(m, src))
    BY <1>1, <1>2, <2>10, <2>12
  <2>14. QED
    BY <2>13 DEF m
<1>7. QED
  BY <1>5, <1>6

------------------------------------------------------------------------------
(* The inductive invariant *)

Points == {"free", "created", "switched", "load", "user", "destroy"}
Names == Frames \union {NoSpace}
TypesFit(as, s, p, l) ==
  as \in [Apps -> Names] /\ s \in [Apps -> Names] /\ p \in [Apps -> Points] /\ l \in [Pages -> Pte]

\* The local variables of the tasks name different spaces that exist.
OwnSpaces ==
  /\ \A t \in Apps : space[t] # NoSpace => space[t] \in DOMAIN spaces
  /\ \A t, u \in Apps : t # u /\ space[t] # NoSpace => space[t] # space[u]
  /\ \A t \in Apps : pc[t] = "free" => space[t] = NoSpace
  /\ \A t \in Apps : pc[t] \in {"load", "user"} => address_space[t] = space[t]

\* Until it is registered a new space has no pages.
Untouched ==
  \A t \in Apps : pc[t] \in {"created", "switched"} =>
    space[t] # NoSpace /\ \A p \in Pages : Entry(spaces, space[t], p) = Absent

\* What the CPU has cached of the tables c is still what they say, and a page that it
\* writes without asking is not shared.
TlbFits(fr, sp, c, l) ==
  \A p \in Pages : Present(l[p]) =>
    /\ c \in DOMAIN sp
    /\ Entry(sp, c, p).frame = l[p].frame
    /\ l[p].writable => fr[l[p].frame].refs = 1

MemoryInv ==
  /\ Machine /\ MemOK(frames, spaces) /\ SpaceInv
  /\ TypesFit(address_space, space, pc, tlb) /\ halted \in BOOLEAN
  /\ OwnSpaces /\ Untouched /\ TlbFits(frames, spaces, cr3, tlb)

LEMMA SameMachine ==
  ASSUME Machine, UNCHANGED arch, MemOK(frames', spaces'), TypesFit(address_space', space', pc', tlb')
  PROVE  Machine' /\ MemOK(frames, spaces)' /\ TypesFit(address_space, space, pc, tlb)'
<1>1. Machine'
  BY DEF Machine
<1>2. MemOK(frames, spaces)'
  BY DEF MemOK, FrameMaps, Frame, Contents, Frames, SpaceMaps, Space, Pte, Exact, UsesIn, TablesAt, PagesAt, Guarded, Present
<1>3. TypesFit(address_space, space, pc, tlb)'
  BY DEF TypesFit, Names, Frames, Points, Pte
<1>4. QED
  BY <1>1, <1>2, <1>3

LEMMA TlbPrime ==
  ASSUME TlbFits(frames', spaces', cr3', tlb')
  PROVE  TlbFits(frames, spaces, cr3, tlb)'
BY DEF TlbFits

LEMMA FlushedFits ==
  ASSUME NEW fr, NEW sp, NEW c
  PROVE  Flushed \in [Pages -> Pte] /\ TlbFits(fr, sp, c, Flushed)
BY DEF TlbFits, Flushed, Pte, Present, Absent

\* Entries at the same frames, and counts that have not grown.
LEMMA TlbStays ==
  ASSUME Machine, NEW fr, NEW sp, MemOK(fr, sp), NEW gr, NEW tp, MemOK(gr, tp),
         NEW c, NEW l \in [Pages -> Pte], TlbFits(fr, sp, c, l),
         c \in DOMAIN sp => c \in DOMAIN tp /\ \A q \in Pages : Entry(tp, c, q).frame = Entry(sp, c, q).frame,
         \A f \in Frames : gr[f].refs <= fr[f].refs
  PROVE  TlbFits(gr, tp, c, l)
<1>1. SUFFICES ASSUME NEW p \in Pages, Present(l[p])
               PROVE  /\ c \in DOMAIN tp
                      /\ Entry(tp, c, p).frame = l[p].frame
                      /\ l[p].writable => gr[l[p].frame].refs = 1
  BY DEF TlbFits
<1> DEFINE f == l[p].frame
           e == Entry(sp, c, p)
           e2 == Entry(tp, c, p)
<1>2. c \in DOMAIN sp /\ e.frame = f /\ (l[p].writable => fr[f].refs = 1)
  BY <1>1 DEF TlbFits
<1>3. c \in DOMAIN tp /\ e2.frame = f
  BY <1>2
<1>4. ASSUME l[p].writable PROVE gr[f].refs = 1
  <2>1. fr[f].refs = 1
    BY <1>2, <1>4
  <2>2. e \in Pte /\ e2 \in Pte
    BY <1>2, <1>3, EntryFacts
  <2>3. f \in Frames
    <3>1. l[p] \in Pte
      OBVIOUS
    <3>2. QED
      BY <1>1, <3>1, EntryTypes
  <2>4. Present(e2)
    BY <1>3, <2>2, <2>3, EntryTypes
  <2>5. gr[f].refs \in 1 .. MAX_REFS
    BY <1>3, <2>4, EntryFacts
  <2>6. QED
    BY <2>1, <2>3, <2>5, RefsAssumption
<1>5. QED
  BY <1>3, <1>4

LEMMA SwitchFacts ==
  ASSUME NEW d, switch_to(d)
  PROVE  cr3' = d /\ (tlb' = Flushed \/ (tlb' = tlb /\ cr3' = cr3))
BY DEF switch_to, i386_switch_to, x86_64_switch_to

LEMMA InitMemory == Init => MemoryInv
<1> SUFFICES ASSUME Init PROVE MemoryInv
  OBVIOUS
<1>1. Machine
  BY DEF Init, Machine
<1>2. frames \in FrameMaps /\ \A f \in Frames : frames[f].refs = 0
  BY RefsAssumption DEF Init, FrameMaps, Frame, Contents
<1>3. DOMAIN spaces = {} /\ spaces \in SpaceMaps
  <2>1. spaces \in [{} -> Space] /\ {} \in SUBSET Frames
    BY DEF Init
  <2>2. QED
    BY <2>1 DEF SpaceMaps
<1>4. Exact(frames, spaces)
  <2>1. ASSUME NEW f \in Frames PROVE UsesIn(spaces, f) = 0
    <3>1. TablesAt(spaces, f) = {} /\ PagesAt(spaces, f) = {}
      BY <1>3 DEF TablesAt, PagesAt
    <3>2. QED
      BY <3>1, FS_EmptySet DEF UsesIn
  <2>2. QED
    BY <1>2, <2>1 DEF Exact
<1>5. MemOK(frames, spaces)
  BY <1>2, <1>3, <1>4 DEF MemOK
<1>6. TypesFit(address_space, space, pc, tlb) /\ TlbFits(frames, spaces, cr3, tlb)
  <2>1. tlb \in [Pages -> Pte] /\ TlbFits(frames, spaces, cr3, tlb)
    BY FlushedFits DEF Init
  <2>2. address_space \in [Apps -> Names] /\ space \in [Apps -> Names] /\ pc \in [Apps -> Points]
    BY DEF Init, Names, Points
  <2>3. QED
    BY <2>1, <2>2 DEF TypesFit
<1>7. OwnSpaces /\ Untouched /\ halted \in BOOLEAN
  BY DEF Init, OwnSpaces, Untouched
<1>8. QED
  BY <1>1, <1>5, <1>6, <1>7, InitSpaces DEF MemoryInv

------------------------------------------------------------------------------
(* The steps of a process in its own space *)

LEMMA RunningSpace ==
  ASSUME MemoryInv, NEW t \in Apps, InUserSpace(t) \/ InOwnImage(t)
  PROVE  /\ cr3 \in DOMAIN spaces /\ cr3 = space[t] /\ cr3 = address_space[t] /\ cr3 # NoSpace
         /\ current = t /\ pc[t] \in {"load", "user"}
         /\ \A u \in Apps : pc[u] \in {"created", "switched"} => space[u] # cr3
<1>1. current = t /\ pc[t] \in {"load", "user"} /\ cr3 # kernel_cr3
  BY DEF InUserSpace, InOwnImage, At
<1>2. cr3 = space[t] /\ cr3 # NoSpace
  BY <1>1 DEF MemoryInv, SpaceInv, NoForeignSpace, kernel_cr3, NoSpace
<1>3. cr3 \in DOMAIN spaces /\ address_space[t] = space[t]
  BY <1>1, <1>2 DEF MemoryInv, OwnSpaces
<1>4. \A u \in Apps : pc[u] \in {"created", "switched"} => space[u] # cr3
  BY <1>1, <1>2 DEF MemoryInv, OwnSpaces
<1>5. QED
  BY <1>1, <1>2, <1>3, <1>4

LEMMA TranslationFacts ==
  ASSUME MemoryInv, cr3 \in DOMAIN spaces, NEW p \in Pages
  PROVE  /\ Translation(p) \in Pte
         /\ Present(Translation(p)) =>
              /\ Entry(spaces, cr3, p).frame = Translation(p).frame
              /\ Translation(p).frame \in Frames
              /\ Present(Entry(spaces, cr3, p))
              /\ Translation(p).writable => frames[Translation(p).frame].refs = 1
         /\ ~Present(Translation(p)) => ~Present(Entry(spaces, cr3, p))
<1> DEFINE e == Entry(spaces, cr3, p)
           x == Translation(p)
<1>1. Machine /\ MemOK(frames, spaces) /\ tlb \in [Pages -> Pte] /\ TlbFits(frames, spaces, cr3, tlb)
  BY DEF MemoryInv, TypesFit
<1>2. e \in Pte /\ Guarded(frames, e) /\ tlb[p] \in Pte
  BY <1>1, EntryFacts
<1>3. x = IF Present(tlb[p]) THEN tlb[p] ELSE e
  BY DEF Translation, Entry
<1>4. Present(tlb[p]) => e.frame = tlb[p].frame /\ (tlb[p].writable => frames[tlb[p].frame].refs = 1)
  BY <1>1 DEF TlbFits
<1> HIDE DEF e, x
<1>5. CASE Present(tlb[p])
  <2>1. x = tlb[p] /\ x \in Pte /\ Present(x) /\ e.frame = x.frame /\ (x.writable => frames[x.frame].refs = 1)
    BY <1>2, <1>3, <1>4, <1>5
  <2>2. x.frame \in Frames
    BY <2>1, EntryTypes
  <2>3. Present(e)
    BY <1>2, <2>1, <2>2, EntryTypes
  <2>4. QED
    BY <2>1, <2>2, <2>3 DEF e, x
<1>6. CASE ~Present(tlb[p])
  <2>1. x = e
    BY <1>3, <1>6
  <2>2. Present(e) => e.frame \in Frames /\ (e.writable => frames[e.frame].refs = 1)
    BY <1>2, EntryTypes DEF Guarded
  <2>3. QED
    BY <1>2, <2>1, <2>2 DEF e, x
<1>7. QED
  BY <1>5, <1>6

LEMMA StoreMemory ==
  ASSUME MemoryInv, NEW t \in Apps, NEW p \in Pages, NEW v \in Value, Store(t, p, v)
  PROVE  /\ MemOK(frames', spaces) /\ tlb' \in [Pages -> Pte] /\ TlbFits(frames', spaces, cr3, tlb')
         /\ Seen(frames', Entry(spaces, cr3, p)) = v
         /\ \A s \in DOMAIN spaces, q \in Pages :
              <<s, q>> # <<cr3, p>> => Seen(frames', Entry(spaces, s, q)) = Seen(frames, Entry(spaces, s, q))
<1> DEFINE x == Translation(p)
           f == x.frame
<1>1. /\ Machine /\ MemOK(frames, spaces)
      /\ tlb \in [Pages -> Pte] /\ TlbFits(frames, spaces, cr3, tlb)
  BY DEF MemoryInv, TypesFit
<1>2. cr3 \in DOMAIN spaces
  BY RunningSpace DEF Store
<1>3. Present(x) /\ x.writable
  BY DEF Store
<1>4. x \in Pte /\ Entry(spaces, cr3, p).frame = f /\ f \in Frames /\ frames[f].refs = 1
  BY <1>2, <1>3, TranslationFacts
<1>5. frames' = Stored(frames, f, v) /\ tlb' = [tlb EXCEPT ![p] = x]
  BY DEF Store, Stored
<1> HIDE DEF x, f
<1>6. /\ MemOK(frames', spaces) /\ \A g \in Frames : frames'[g].refs = frames[g].refs
      /\ Seen(frames', Entry(spaces, cr3, p)) = v
      /\ \A s \in DOMAIN spaces, q \in Pages :
           <<s, q>> # <<cr3, p>> => Seen(frames', Entry(spaces, s, q)) = Seen(frames, Entry(spaces, s, q))
  BY <1>1, <1>2, <1>4, <1>5, StoreKeeps
<1>7. tlb' \in [Pages -> Pte] /\ tlb'[p] = x /\ \A q \in Pages \ {p} : tlb'[q] = tlb[q]
  BY <1>1, <1>4, <1>5
<1>8. TlbFits(frames', spaces, cr3, tlb')
  <2>1. ASSUME NEW q \in Pages, Present(tlb'[q])
        PROVE  /\ Entry(spaces, cr3, q).frame = tlb'[q].frame
               /\ tlb'[q].writable => frames'[tlb'[q].frame].refs = 1
    <3>1. CASE q = p
      BY <1>3, <1>4, <1>6, <1>7, <3>1 DEF f
    <3>2. CASE q # p
      <4>1. /\ tlb'[q] = tlb[q] /\ tlb[q] \in Pte
            /\ Entry(spaces, cr3, q).frame = tlb[q].frame
            /\ tlb[q].writable => frames[tlb[q].frame].refs = 1
        BY <1>1, <1>7, <2>1, <3>2 DEF TlbFits
      <4>2. tlb[q].frame \in Frames
        BY <2>1, <4>1, EntryTypes
      <4>3. QED
        BY <1>6, <4>1, <4>2
    <3>3. QED
      BY <3>1, <3>2
  <2>2. QED
    BY <1>2, <2>1 DEF TlbFits
<1>9. QED
  BY <1>6, <1>7, <1>8

LEMMA StoreInv ==
  ASSUME MemoryInv, NEW t \in Apps, NEW p \in Pages, NEW v \in Value, Store(t, p, v), SpaceInv'
  PROVE  MemoryInv'
<1>1. UNCHANGED <<arch, spaces, address_space, space, pc, current, cr3, halted>>
  BY DEF Store, taskVars
<1>2. /\ Machine /\ TypesFit(address_space, space, pc, tlb) /\ halted \in BOOLEAN /\ OwnSpaces /\ Untouched
      /\ MemOK(frames', spaces) /\ tlb' \in [Pages -> Pte] /\ TlbFits(frames', spaces, cr3, tlb')
  BY StoreMemory DEF MemoryInv
<1>3. TypesFit(address_space', space', pc', tlb')
  BY <1>1, <1>2 DEF TypesFit
<1>4. Machine' /\ MemOK(frames, spaces)' /\ TypesFit(address_space, space, pc, tlb)'
  BY <1>1, <1>2, <1>3, SameMachine
<1>5. TlbFits(frames, spaces, cr3, tlb)'
  BY <1>1, <1>2, TlbPrime
<1>6. OwnSpaces' /\ Untouched'
  BY <1>1, <1>2 DEF OwnSpaces, Untouched, Entry
<1>7. QED
  BY <1>1, <1>2, <1>4, <1>5, <1>6 DEF MemoryInv

LEMMA NextMemory ==
  ASSUME MemoryInv, SpaceInv', UNCHANGED arch, MemOK(frames', spaces'),
         TypesFit(address_space', space', pc', tlb'), halted' \in BOOLEAN,
         OwnSpaces', Untouched', TlbFits(frames', spaces', cr3', tlb')
  PROVE  MemoryInv'
<1>1. Machine
  BY DEF MemoryInv
<1>2. Machine' /\ MemOK(frames, spaces)' /\ TypesFit(address_space, space, pc, tlb)'
  BY <1>1, SameMachine
<1>3. TlbFits(frames, spaces, cr3, tlb)'
  BY TlbPrime
<1>4. QED
  BY <1>2, <1>3 DEF MemoryInv

LEMMA BecomesMemory ==
  ASSUME NEW fr, NEW sp, Becomes(Memory(fr, sp))
  PROVE  frames' = fr /\ spaces' = sp /\ UNCHANGED arch
BY DEF Becomes, Memory

LEMMA CowFaultSteps ==
  ASSUME NEW fr, NEW sp, NEW p
  PROVE  handle_cow_fault(Memory(fr, sp), p) =
           IF fr[Entry(sp, cr3, p).frame].refs <= 1
           THEN WithPte(Memory(fr, sp), cr3, p, Own(Entry(sp, cr3, p).frame))
           ELSE free(WithPte(Copied(alloc(Memory(fr, sp)), Entry(sp, cr3, p).frame, FirstIn(fr)),
                             cr3, p, Own(FirstIn(fr))),
                     Entry(sp, cr3, p).frame)
<1>1. FirstFrame(Memory(fr, sp)) = FirstIn(fr)
  BY MemoryFirst
<1>2. Memory(fr, sp).frames = fr /\ Memory(fr, sp).spaces = sp
  BY MemoryFields
<1>3. QED
  BY <1>1, <1>2, Zenon DEF handle_cow_fault, Own, Entry

\* A page fault changes one entry of the running task, and nothing that a task sees.
LEMMA FaultMemory ==
  ASSUME MemoryInv, NEW t \in Apps, NEW p \in Pages, PageFault(t, p)
  PROVE  /\ UNCHANGED arch /\ MemOK(frames', spaces')
         /\ DOMAIN spaces' = DOMAIN spaces /\ SameSeen(frames, spaces, frames', spaces')
         /\ \A s \in DOMAIN spaces, q \in Pages :
              <<s, q>> # <<cr3, p>> => Entry(spaces', s, q) = Entry(spaces, s, q)
<1> DEFINE e == Entry(spaces, cr3, p)
           f == e.frame
           copy == FirstIn(frames)
<1>1. /\ Machine /\ MemOK(frames, spaces) /\ cr3 \in DOMAIN spaces
  BY RunningSpace DEF MemoryInv, PageFault
<1>2. CASE DemandFault(p)
  <2>1. e = Demand /\ FreeIn(frames) # {}
    BY <1>2, MemIsMemory, MemoryFirst DEF PageFault, Recoverable, DemandFault, CowFault, Entry
  <2>2. Becomes(WithPte(alloc(Memory(frames, spaces)), cr3, p, Own(copy)))
    BY <1>2, MemIsMemory, MemoryFirst DEF PageFault, handle_demand_fault, Own
  <2>3. PICK gr, tp :
              /\ WithPte(alloc(Memory(frames, spaces)), cr3, p, Own(copy)) = Memory(gr, tp)
              /\ MemOK(gr, tp) /\ DOMAIN tp = DOMAIN spaces /\ SameSeen(frames, spaces, gr, tp)
              /\ \A s \in DOMAIN spaces, q \in Pages :
                   <<s, q>> # <<cr3, p>> => Entry(tp, s, q) = Entry(spaces, s, q)
    BY <1>1, <2>1, DemandKeeps
  <2>4. frames' = gr /\ spaces' = tp /\ UNCHANGED arch
    BY <2>2, <2>3, BecomesMemory
  <2>5. QED
    BY <2>3, <2>4
<1>3. CASE ~DemandFault(p)
  <2>1. Present(e) /\ (frames[f].refs > 1 => FreeIn(frames) # {})
    BY <1>3, MemIsMemory, MemoryFirst DEF PageFault, Recoverable, DemandFault, CowFault, Entry
  <2>2. Becomes(handle_cow_fault(Memory(frames, spaces), p))
    BY <1>3, MemIsMemory DEF PageFault
  <2>3. frames[f].refs \in 1 .. MAX_REFS
    BY <1>1, <2>1, EntryFacts
  <2>4. CASE frames[f].refs <= 1
    <3>1. frames[f].refs = 1
      BY <2>3, <2>4, RefsAssumption
    <3>2. Becomes(WithPte(Memory(frames, spaces), cr3, p, Own(f)))
      BY <2>2, <2>4, CowFaultSteps, Zenon
    <3>3. PICK tp : /\ WithPte(Memory(frames, spaces), cr3, p, Own(f)) = Memory(frames, tp)
                    /\ MemOK(frames, tp) /\ DOMAIN tp = DOMAIN spaces /\ SameSeen(frames, spaces, frames, tp)
                    /\ \A s \in DOMAIN spaces, q \in Pages :
                         <<s, q>> # <<cr3, p>> => Entry(tp, s, q) = Entry(spaces, s, q)
      BY <1>1, <2>1, <3>1, LastOwnerKeeps
    <3>4. frames' = frames /\ spaces' = tp /\ UNCHANGED arch
      BY <3>2, <3>3, BecomesMemory
    <3>5. QED
      BY <3>3, <3>4
  <2>5. CASE ~(frames[f].refs <= 1)
    <3>1. FreeIn(frames) # {}
      BY <2>1, <2>3, <2>5, RefsAssumption
    <3>2. Becomes(free(WithPte(Copied(alloc(Memory(frames, spaces)), f, copy), cr3, p, Own(copy)), f))
      BY <2>2, <2>5, CowFaultSteps, Zenon
    <3>3. PICK gr, tp :
             /\ free(WithPte(Copied(alloc(Memory(frames, spaces)), f, copy), cr3, p, Own(copy)), f) = Memory(gr, tp)
             /\ MemOK(gr, tp) /\ DOMAIN tp = DOMAIN spaces /\ SameSeen(frames, spaces, gr, tp)
             /\ \A s \in DOMAIN spaces, q \in Pages :
                  <<s, q>> # <<cr3, p>> => Entry(tp, s, q) = Entry(spaces, s, q)
      BY <1>1, <2>1, <3>1, CopyKeeps
    <3>4. frames' = gr /\ spaces' = tp /\ UNCHANGED arch
      BY <3>2, <3>3, BecomesMemory
    <3>5. QED
      BY <3>3, <3>4
  <2>6. QED
    BY <2>4, <2>5
<1>4. QED
  BY <1>2, <1>3

LEMMA FaultInv ==
  ASSUME MemoryInv, NEW t \in Apps, NEW p \in Pages, PageFault(t, p), SpaceInv'
  PROVE  MemoryInv'
<1>1. UNCHANGED <<address_space, space, pc, current, cr3, halted>> /\ tlb' = Flushed
  BY DEF PageFault, taskVars
<1>2. /\ UNCHANGED arch /\ MemOK(frames', spaces') /\ DOMAIN spaces' = DOMAIN spaces
      /\ \A s \in DOMAIN spaces, q \in Pages :
           <<s, q>> # <<cr3, p>> => Entry(spaces', s, q) = Entry(spaces, s, q)
  BY FaultMemory
<1>3. TypesFit(address_space', space', pc', tlb') /\ TlbFits(frames', spaces', cr3', tlb')
  BY <1>1, FlushedFits DEF MemoryInv, TypesFit
<1>4. OwnSpaces'
  BY <1>1, <1>2 DEF MemoryInv, OwnSpaces
<1>5. Untouched'
  <2>1. ASSUME NEW u \in Apps, pc[u] \in {"created", "switched"}, NEW q \in Pages
        PROVE  space[u] # NoSpace /\ Entry(spaces', space[u], q) = Absent
    <3>1. space[u] # NoSpace /\ space[u] \in DOMAIN spaces /\ Entry(spaces, space[u], q) = Absent
      BY <2>1 DEF MemoryInv, OwnSpaces, Untouched
    <3>2. space[u] # cr3
      BY <2>1, RunningSpace DEF PageFault
    <3>3. QED
      BY <1>2, <3>1, <3>2
  <2>2. Pages # {}
    BY PagesAssumption DEF Pages
  <2>3. QED
    BY <1>1, <2>1, <2>2 DEF Untouched, Entry
<1>6. QED
  BY <1>1, <1>2, <1>3, <1>4, <1>5, NextMemory DEF MemoryInv

\* Steps that leave the memory as it is.
LEMMA QuietInv ==
  ASSUME MemoryInv, SpaceInv', UNCHANGED <<memVars, space>>,
         tlb' = Flushed \/ (tlb' = tlb /\ cr3' = cr3), halted' \in BOOLEAN,
         address_space' \in [Apps -> Names], pc' \in [Apps -> Points],
         \A t \in Apps : pc'[t] = "free" => pc[t] = "free",
         \A t \in Apps : pc'[t] \in {"load", "user"} =>
           pc[t] \in {"load", "user"} /\ address_space'[t] = address_space[t],
         \A t \in Apps : pc'[t] \in {"created", "switched"} => pc[t] \in {"created", "switched"}
  PROVE  MemoryInv'
<1>1. UNCHANGED <<arch, frames, spaces, space>>
  BY DEF memVars
<1>2. /\ MemOK(frames, spaces) /\ TypesFit(address_space, space, pc, tlb)
      /\ TlbFits(frames, spaces, cr3, tlb)
  BY DEF MemoryInv
<1>3. MemOK(frames', spaces')
  BY <1>1, <1>2
<1>4. tlb' \in [Pages -> Pte] /\ TlbFits(frames', spaces', cr3', tlb')
  <2>1. CASE tlb' = Flushed
    BY <2>1, FlushedFits
  <2>2. CASE tlb' = tlb /\ cr3' = cr3
    BY <1>1, <1>2, <2>2 DEF TypesFit
  <2>3. QED
    BY <2>1, <2>2
<1>5. TypesFit(address_space', space', pc', tlb')
  BY <1>1, <1>2, <1>4 DEF TypesFit
<1>6. OwnSpaces'
  BY <1>1 DEF MemoryInv, OwnSpaces
<1>7. Untouched'
  BY <1>1 DEF MemoryInv, Untouched, Entry
<1>8. QED
  BY <1>1, <1>3, <1>4, <1>5, <1>6, <1>7, NextMemory

LEMMA ReleaseInv ==
  ASSUME MemoryInv, SpaceInv', NEW t \in Apps, release_space(t), UNCHANGED <<memVars, space>>, halted' \in BOOLEAN
  PROVE  MemoryInv'
<1>1. TypesFit(address_space, space, pc, tlb)
  BY DEF MemoryInv
<1>2. address_space' = [address_space EXCEPT ![t] = NoSpace] /\ pc' = [pc EXCEPT ![t] = "destroy"]
  BY DEF release_space, Goto
<1>3. tlb' = Flushed \/ (tlb' = tlb /\ cr3' = cr3)
  BY SwitchFacts DEF release_space
<1>4. address_space' \in [Apps -> Names] /\ pc' \in [Apps -> Points]
  BY <1>1, <1>2 DEF TypesFit, Names, Points
<1>5. \A u \in Apps : /\ u # t => address_space'[u] = address_space[u] /\ pc'[u] = pc[u]
                      /\ u = t => pc'[u] = "destroy"
  BY <1>1, <1>2 DEF TypesFit
<1>6. /\ \A u \in Apps : pc'[u] = "free" => pc[u] = "free"
      /\ \A u \in Apps : pc'[u] \in {"load", "user"} =>
           pc[u] \in {"load", "user"} /\ address_space'[u] = address_space[u]
      /\ \A u \in Apps : pc'[u] \in {"created", "switched"} => pc[u] \in {"created", "switched"}
  BY <1>5
<1>7. QED
  BY <1>3, <1>4, <1>6, QuietInv

LEMMA FatalInv ==
  ASSUME MemoryInv, SpaceInv', NEW t \in Apps, NEW p \in Pages, NEW ring0 \in BOOLEAN, FatalFault(t, p, ring0)
  PROVE  MemoryInv'
<1>1. UNCHANGED <<memVars, space>> /\ halted' \in BOOLEAN
  BY DEF FatalFault
<1>2. CASE ring0
  <2>1. UNCHANGED <<address_space, pc, cr3, tlb>>
    BY <1>2 DEF FatalFault
  <2>2. address_space \in [Apps -> Names] /\ pc \in [Apps -> Points]
    BY DEF MemoryInv, TypesFit
  <2>3. QED
    BY <1>1, <2>1, <2>2, QuietInv
<1>3. CASE ~ring0
  BY <1>1, <1>3, ReleaseInv DEF FatalFault
<1>4. QED
  BY <1>2, <1>3

LEMMA LeaveInv ==
  ASSUME MemoryInv, SpaceInv', NEW t \in Apps, Leave(t)
  PROVE  MemoryInv'
BY ReleaseInv DEF Leave, MemoryInv

LEMMA EnterSpaceInv ==
  ASSUME MemoryInv, SpaceInv', NEW t \in Apps, EnterSpace(t)
  PROVE  MemoryInv'
<1>1. address_space \in [Apps -> Names] /\ pc \in [Apps -> Points]
  BY DEF MemoryInv, TypesFit
<1>2. /\ UNCHANGED <<memVars, space>> /\ halted' \in BOOLEAN
      /\ UNCHANGED address_space /\ pc' = [pc EXCEPT ![t] = "switched"] /\ pc[t] = "created"
  BY DEF EnterSpace, Goto, At, MemoryInv
<1>3. tlb' = Flushed \/ (tlb' = tlb /\ cr3' = cr3)
  BY SwitchFacts DEF EnterSpace
<1>4. pc' \in [Apps -> Points]
  BY <1>1, <1>2 DEF Points
<1>5. \A u \in Apps : (u # t => pc'[u] = pc[u]) /\ (u = t => pc'[u] = "switched")
  BY <1>1, <1>2
<1>6. QED
  BY <1>1, <1>2, <1>3, <1>4, <1>5, QuietInv

LEMMA EnterRing3Inv ==
  ASSUME MemoryInv, SpaceInv', NEW t \in Apps, EnterRing3(t)
  PROVE  MemoryInv'
<1>1. address_space \in [Apps -> Names] /\ pc \in [Apps -> Points]
  BY DEF MemoryInv, TypesFit
<1>2. /\ UNCHANGED <<memVars, space>> /\ halted' \in BOOLEAN /\ UNCHANGED <<tlb, cr3>>
      /\ UNCHANGED address_space /\ pc' = [pc EXCEPT ![t] = "user"] /\ pc[t] = "load"
  BY DEF EnterRing3, Goto, At, MemoryInv, cpuVars
<1>3. pc' \in [Apps -> Points]
  BY <1>1, <1>2 DEF Points
<1>4. \A u \in Apps : (u # t => pc'[u] = pc[u]) /\ (u = t => pc'[u] = "user")
  BY <1>1, <1>2
<1>5. QED
  BY <1>1, <1>2, <1>3, <1>4, QuietInv

LEMMA PreemptInv ==
  ASSUME MemoryInv, SpaceInv', NEW t, Preempt(t)
  PROVE  MemoryInv'
<1>1. UNCHANGED <<memVars, space>> /\ halted' \in BOOLEAN /\ UNCHANGED <<address_space, pc>>
  BY DEF Preempt, taskVars, MemoryInv
<1>2. tlb' = Flushed \/ (tlb' = tlb /\ cr3' = cr3)
  BY SwitchFacts DEF Preempt, Resume
<1>3. address_space \in [Apps -> Names] /\ pc \in [Apps -> Points]
  BY DEF MemoryInv, TypesFit
<1>4. QED
  BY <1>1, <1>2, <1>3, QuietInv

------------------------------------------------------------------------------
(* The start and the end of a process *)

LEMMA NoSpaceIsNone ==
  ASSUME Machine, NEW fr, NEW sp, MemOK(fr, sp)
  PROVE  NoSpace \notin DOMAIN sp /\ DOMAIN sp \subseteq Frames /\ NoSpace \notin Frames
BY SpacesAreFinite, FramesAreFinite DEF MemOK, NoSpace

\* In the kernel's directory nothing of a process is cached.
LEMMA NothingCached ==
  ASSUME MemoryInv, cr3 = kernel_cr3, NEW fr, NEW sp, NEW d
  PROVE  TlbFits(fr, sp, d, tlb)
<1>1. cr3 \notin DOMAIN spaces
  BY NoSpaceIsNone DEF MemoryInv, NoSpace, kernel_cr3
<1>2. \A p \in Pages : ~Present(tlb[p])
  BY <1>1 DEF MemoryInv, TlbFits
<1>3. QED
  BY <1>2 DEF TlbFits

LEMMA AfterSwitch ==
  ASSUME MemoryInv, cr3 = kernel_cr3, NEW d, switch_to(d), NEW fr, NEW sp
  PROVE  tlb' \in [Pages -> Pte] /\ TlbFits(fr, sp, cr3', tlb')
<1>1. tlb' = Flushed \/ tlb' = tlb
  BY SwitchFacts
<1>2. CASE tlb' = Flushed
  BY <1>2, FlushedFits
<1>3. CASE tlb' = tlb
  BY <1>3, NothingCached DEF MemoryInv, TypesFit
<1>4. QED
  BY <1>1, <1>2, <1>3

LEMMA DestroyMemory ==
  ASSUME Machine, NEW fr, NEW sp, MemOK(fr, sp), NEW d \in DOMAIN sp \union {NoSpace}
  PROVE  \E gr, tp : /\ destroy_user_space(Memory(fr, sp), d) = Memory(gr, tp)
                     /\ MemOK(gr, tp) /\ Shrinks(fr, gr) /\ SameSeen(fr, sp, gr, tp)
                     /\ DOMAIN tp = DOMAIN sp \ {d}
                     /\ \A s \in DOMAIN tp, q \in Pages : Entry(tp, s, q) = Entry(sp, s, q)
<1>1. NoSpace \notin DOMAIN sp
  BY NoSpaceIsNone
<1>2. CASE d = NoSpace
  <2>1. destroy_user_space(Memory(fr, sp), d) = Memory(fr, sp)
    BY <1>2 DEF destroy_user_space
  <2>2. Shrinks(fr, fr)
    <3>1. fr \in FrameMaps
      BY DEF MemOK
    <3>2. \A f \in Frames : fr[f].refs \in 0 .. MAX_REFS
      BY <3>1 DEF FrameMaps, Frame
    <3>3. QED
      BY <3>2, RefsAssumption DEF Shrinks
  <2>3. SameSeen(fr, sp, fr, sp)
    BY DEF SameSeen
  <2>4. DOMAIN sp = DOMAIN sp \ {d}
    BY <1>1, <1>2
  <2>5. QED
    BY <2>1, <2>2, <2>3, <2>4
<1>3. CASE d # NoSpace
  <2>1. PICK gr : /\ destroy_user_space(Memory(fr, sp), d) = Memory(gr, Without(sp, d))
                  /\ MemOK(gr, Without(sp, d)) /\ Shrinks(fr, gr)
    BY <1>3, DestroyKeeps
  <2> DEFINE tp == Without(sp, d)
  <2>2. DOMAIN tp = DOMAIN sp \ {d} /\ \A s \in DOMAIN tp : tp[s] = sp[s]
    BY DEF Without
  <2> HIDE DEF tp
  <2>3. MemOK(gr, tp) /\ destroy_user_space(Memory(fr, sp), d) = Memory(gr, tp)
    BY <2>1 DEF tp
  <2>4. \A s \in DOMAIN tp, q \in Pages : Entry(tp, s, q) = Entry(sp, s, q)
    BY <2>2 DEF Entry
  <2>5. \A s \in DOMAIN sp \intersect DOMAIN tp, q \in Pages : SameEntry(Entry(sp, s, q), Entry(tp, s, q))
    BY <2>4 DEF SameEntry
  <2>6. SameSeen(fr, sp, gr, tp)
    BY <2>1, <2>3, <2>5, ShrinksPreserves, SameSpacesSeen
  <2>7. QED
    BY <2>1, <2>2, <2>3, <2>4, <2>6
<1>4. QED
  BY <1>2, <1>3

\* The memory after a space has been asked for.
CreatedIn(fr, sp, gr, tp) ==
  /\ MemOK(gr, tp) /\ SameSeen(fr, sp, gr, tp)
  /\ \A s \in DOMAIN sp : s \in DOMAIN tp /\ \A q \in Pages : Entry(tp, s, q) = Entry(sp, s, q)
  /\ CanCreate(Memory(fr, sp)) =>
       /\ FirstIn(fr) \in Frames \ DOMAIN sp
       /\ DOMAIN tp = DOMAIN sp \union {FirstIn(fr)}
       /\ \A q \in Pages : Entry(tp, FirstIn(fr), q) = Absent
  /\ ~CanCreate(Memory(fr, sp)) => DOMAIN tp = DOMAIN sp

LEMMA CreateMemory ==
  ASSUME Machine, NEW fr, NEW sp, MemOK(fr, sp)
  PROVE  \E gr, tp : /\ create_user_space(Memory(fr, sp)) = Memory(gr, tp)
                     /\ CreatedIn(fr, sp, gr, tp)
<1>1. PICK gr, tp : /\ create_user_space(Memory(fr, sp)) = Memory(gr, tp)
                    /\ MemOK(gr, tp) /\ Grows(fr, gr)
                    /\ IF CanCreate(Memory(fr, sp)) THEN FreshSpace(sp, tp, FirstIn(fr)) ELSE tp = sp
  BY CreateSpaceKeeps
<1> DEFINE d == FirstIn(fr)
<1>2. \A s \in DOMAIN sp : s \in DOMAIN tp /\ \A q \in Pages : Entry(tp, s, q) = Entry(sp, s, q)
  BY <1>1 DEF FreshSpace, Entry
<1>3. CanCreate(Memory(fr, sp)) =>
        d \in Frames \ DOMAIN sp /\ DOMAIN tp = DOMAIN sp \union {d} /\ \A q \in Pages : Entry(tp, d, q) = Absent
  BY <1>1 DEF FreshSpace, Entry, Flushed
<1>4. ~CanCreate(Memory(fr, sp)) => DOMAIN tp = DOMAIN sp
  BY <1>1
<1>5. \A s \in DOMAIN sp \intersect DOMAIN tp, q \in Pages : SameEntry(Entry(sp, s, q), Entry(tp, s, q))
  BY <1>2 DEF SameEntry
<1>6. SameSeen(fr, sp, gr, tp)
  BY <1>1, <1>5, GrowsPreserves, SameSpacesSeen
<1>7. QED
  <2>1. CreatedIn(fr, sp, gr, tp)
    BY <1>1, <1>2, <1>3, <1>4, <1>6 DEF CreatedIn
  <2>2. QED
    BY <1>1, <2>1

LEMMA UserTasks == user_task_count \in Nat
<1>1. IsFiniteSet(Apps)
  BY TasksAssumption, FS_Interval DEF Apps
<1>2. IsFiniteSet({t \in Apps : pc[t] = "user"})
  BY <1>1, FS_Subset
<1>3. QED
  BY <1>2, FS_CardinalityType DEF user_task_count

LEMMA StartMemory ==
  ASSUME MemoryInv, NEW t \in Apps, Start(t)
  PROVE  /\ UNCHANGED arch /\ MemOK(frames', spaces') /\ SameSeen(frames, spaces, frames', spaces')
         /\ \A s \in DOMAIN spaces :
              s \in DOMAIN spaces' /\ \A q \in Pages : Entry(spaces', s, q) = Entry(spaces, s, q)
         /\ space'[t] # NoSpace =>
              /\ space'[t] \in Frames \ DOMAIN spaces /\ DOMAIN spaces' = DOMAIN spaces \union {space'[t]}
              /\ \A q \in Pages : Entry(spaces', space'[t], q) = Absent
         /\ space'[t] = NoSpace => DOMAIN spaces' = DOMAIN spaces
         /\ space' = [space EXCEPT ![t] = space'[t]] /\ space'[t] \in Names
         /\ IF space'[t] # NoSpace THEN Goto(t, "created") ELSE Goto(t, "load") \/ Goto(t, "destroy")
         /\ UNCHANGED <<address_space, halted>>
<1> DEFINE m == Memory(frames, spaces)
           d == FirstIn(frames)
<1>1. Machine /\ MemOK(frames, spaces) /\ space \in [Apps -> Names]
  BY DEF MemoryInv, TypesFit
<1>0. PICK gr, tp : create_user_space(m) = Memory(gr, tp) /\ CreatedIn(frames, spaces, gr, tp)
  BY <1>1, CreateMemory
<1>2. /\ create_user_space(m) = Memory(gr, tp)
      /\ MemOK(gr, tp) /\ SameSeen(frames, spaces, gr, tp)
      /\ \A s \in DOMAIN spaces :
           s \in DOMAIN tp /\ \A q \in Pages : Entry(tp, s, q) = Entry(spaces, s, q)
      /\ CanCreate(m) =>
           /\ d \in Frames \ DOMAIN spaces
           /\ DOMAIN tp = DOMAIN spaces \union {d}
           /\ \A q \in Pages : Entry(tp, d, q) = Absent
      /\ ~CanCreate(m) => DOMAIN tp = DOMAIN spaces
  BY <1>0 DEF CreatedIn
<1>3. Becomes(create_user_space(m)) /\ space' = [space EXCEPT ![t] = IF CanCreate(m) THEN d ELSE NoSpace]
  BY MemIsMemory, MemoryFirst DEF Start
<1>4. IF CanCreate(m) THEN Goto(t, "created") ELSE Goto(t, "load") \/ Goto(t, "destroy")
  <2>1. m = Mem /\ (user_task_count > 0 \/ user_task_count = 0)
    BY UserTasks, MemIsMemory
  <2>2. Goto(t, CASE CanCreate(m) -> "created"
                  [] ~CanCreate(m) /\ user_task_count > 0 -> "destroy"
                  [] ~CanCreate(m) /\ user_task_count = 0 -> "load")
    BY <2>1 DEF Start
  <2> HIDE DEF m
  <2>3. CASE CanCreate(m)
    BY <2>2, <2>3 DEF Goto
  <2>4. CASE ~CanCreate(m) /\ user_task_count > 0
    <3>1. user_task_count # 0
      BY <2>4, UserTasks
    <3>2. QED
      BY <2>2, <2>4, <3>1 DEF Goto
  <2>5. CASE ~CanCreate(m) /\ user_task_count = 0
    <3>1. ~(user_task_count > 0)
      BY <2>5
    <3>2. QED
      BY <2>2, <2>5, <3>1 DEF Goto
  <2>6. QED
    BY <2>1, <2>3, <2>4, <2>5
<1>5. UNCHANGED <<address_space, halted>>
  BY DEF Start
<1>6. frames' = gr /\ spaces' = tp /\ UNCHANGED arch
  BY <1>2, <1>3, BecomesMemory
<1>7. space'[t] = IF CanCreate(m) THEN d ELSE NoSpace
  BY <1>1, <1>3
<1>8. CanCreate(m) => d # NoSpace
  BY <1>1, <1>2, NoSpaceIsNone
<1> HIDE DEF m, d
<1>9. (space'[t] # NoSpace <=> CanCreate(m)) /\ (CanCreate(m) => space'[t] = d)
  BY <1>7, <1>8
<1>10. space'[t] \in Names
  BY <1>2, <1>7 DEF Names
<1>11. space' = [space EXCEPT ![t] = space'[t]]
  BY <1>3, <1>7
<1>12. QED
  BY <1>2, <1>4, <1>5, <1>6, <1>9, <1>10, <1>11

LEMMA StartInv ==
  ASSUME MemoryInv, SpaceInv', NEW t \in Apps, Start(t)
  PROVE  MemoryInv'
<1> DEFINE d == space'[t]
<1>1. /\ UNCHANGED arch /\ MemOK(frames', spaces')
      /\ \A s \in DOMAIN spaces :
           s \in DOMAIN spaces' /\ \A q \in Pages : Entry(spaces', s, q) = Entry(spaces, s, q)
      /\ d # NoSpace =>
           /\ d \in Frames \ DOMAIN spaces /\ DOMAIN spaces' = DOMAIN spaces \union {d}
           /\ \A q \in Pages : Entry(spaces', d, q) = Absent
      /\ space' = [space EXCEPT ![t] = d] /\ d \in Names
      /\ IF d # NoSpace THEN Goto(t, "created") ELSE Goto(t, "load") \/ Goto(t, "destroy")
      /\ UNCHANGED <<address_space, halted>>
  BY StartMemory
<1>2. /\ address_space \in [Apps -> Names] /\ space \in [Apps -> Names] /\ pc \in [Apps -> Points]
      /\ OwnSpaces /\ Untouched /\ Registered /\ halted \in BOOLEAN
  BY DEF MemoryInv, TypesFit, SpaceInv
<1>3. PICK point \in {"created", "load", "destroy"} :
        pc' = [pc EXCEPT ![t] = point] /\ (point = "created" <=> d # NoSpace)
  BY <1>1 DEF Goto
<1>4. pc[t] = "free" /\ current = KernelTask
  BY DEF Start
<1>5. address_space[t] = NoSpace
  BY <1>2, <1>4 DEF Registered
<1>6. space' \in [Apps -> Names] /\ pc' \in [Apps -> Points]
      /\ \A u \in Apps : u # t => space'[u] = space[u] /\ pc'[u] = pc[u]
  BY <1>1, <1>2, <1>3 DEF Points
<1>7. pc'[t] = point
  BY <1>2, <1>3
<1>8. tlb' \in [Pages -> Pte] /\ TlbFits(frames', spaces', cr3', tlb')
  <2>1. cr3 = kernel_cr3
    BY <1>4 DEF MemoryInv, SpaceInv, NoForeignSpace
  <2>2. \E c : switch_to(c)
    BY DEF Start, Resume
  <2>3. QED
    BY <2>1, <2>2, AfterSwitch
<1>9. TypesFit(address_space', space', pc', tlb')
  BY <1>1, <1>2, <1>6, <1>8 DEF TypesFit
<1> HIDE DEF d
<1>10. \A u \in Apps : space[u] # NoSpace => space[u] \in DOMAIN spaces /\ space[u] # d
  BY <1>1, <1>2 DEF OwnSpaces
<1>11. OwnSpaces'
  <2>0. space'[t] = d
    BY DEF d
  <2>1. \A u \in Apps : space'[u] # NoSpace => space'[u] \in DOMAIN spaces'
    BY <1>1, <1>6, <1>10, <2>0
  <2>2. \A u, w \in Apps : u # w /\ space'[u] # NoSpace => space'[u] # space'[w]
    BY <1>2, <1>6, <1>10, <2>0 DEF OwnSpaces
  <2>3. \A u \in Apps : pc'[u] = "free" => space'[u] = NoSpace
    BY <1>2, <1>6, <1>7 DEF OwnSpaces
  <2>4. \A u \in Apps : pc'[u] \in {"load", "user"} => address_space'[u] = space'[u]
    BY <1>1, <1>2, <1>3, <1>5, <1>6, <1>7, <2>0 DEF OwnSpaces
  <2>5. QED
    BY <2>1, <2>2, <2>3, <2>4 DEF OwnSpaces
<1>12. Untouched'
  <2>0. space'[t] = d
    BY DEF d
  <2>1. ASSUME NEW u \in Apps, pc'[u] \in {"created", "switched"}
        PROVE  space'[u] # NoSpace /\ \A p \in Pages : Entry(spaces', space'[u], p) = Absent
    <3>1. CASE u = t
      BY <1>1, <1>3, <1>7, <2>0, <2>1, <3>1
    <3>2. CASE u # t
      BY <1>1, <1>2, <1>6, <1>10, <2>1, <3>2 DEF Untouched
    <3>3. QED
      BY <3>1, <3>2
  <2>2. QED
    BY <2>1 DEF Untouched, Entry
<1>13. QED
  BY <1>1, <1>2, <1>8, <1>9, <1>11, <1>12, NextMemory

LEMMA RegisterMemory ==
  ASSUME MemoryInv, NEW t \in Apps, RegisterSpace(t)
  PROVE  /\ UNCHANGED arch /\ MemOK(frames', spaces') /\ SameSeen(frames, spaces, frames', spaces')
         /\ DOMAIN spaces' = DOMAIN spaces /\ space[t] \in DOMAIN spaces /\ space[t] # NoSpace
         /\ \A q \in Pages : Entry(spaces', space[t], q) = Demand
         /\ \A s \in DOMAIN spaces \ {space[t]}, q \in Pages : Entry(spaces', s, q) = Entry(spaces, s, q)
<1> DEFINE d == space[t]
<1>1. pc[t] = "switched"
  BY DEF RegisterSpace, At
<1>2. Machine /\ MemOK(frames, spaces) /\ d \in DOMAIN spaces /\ d # NoSpace
      /\ \A q \in Pages : Entry(spaces, d, q) = Absent
  BY <1>1 DEF MemoryInv, OwnSpaces, Untouched
<1>3. Becomes(reserve_user_range(Memory(frames, spaces), d))
  BY MemIsMemory DEF RegisterSpace
<1> HIDE DEF d
<1>4. PICK tp : /\ reserve_user_range(Memory(frames, spaces), d) = Memory(frames, tp)
                /\ MemOK(frames, tp) /\ DOMAIN tp = DOMAIN spaces /\ SameSeen(frames, spaces, frames, tp)
                /\ \A q \in Pages : Entry(tp, d, q) = Reserved(Entry(spaces, d, q))
                /\ \A s \in DOMAIN spaces \ {d}, q \in Pages : Entry(tp, s, q) = Entry(spaces, s, q)
  BY <1>2, ReserveKeeps
<1>5. frames' = frames /\ spaces' = tp /\ UNCHANGED arch
  BY <1>3, <1>4, BecomesMemory
<1>6. Reserved(Absent) = Demand
  BY DEF Reserved, Absent, Present
<1>7. QED
  BY <1>2, <1>4, <1>5, <1>6 DEF d

LEMMA RegisterInv ==
  ASSUME MemoryInv, SpaceInv', NEW t \in Apps, RegisterSpace(t)
  PROVE  MemoryInv'
<1>1. /\ UNCHANGED arch /\ MemOK(frames', spaces') /\ DOMAIN spaces' = DOMAIN spaces
      /\ \A s \in DOMAIN spaces \ {space[t]}, q \in Pages : Entry(spaces', s, q) = Entry(spaces, s, q)
  BY RegisterMemory
<1>2. /\ address_space \in [Apps -> Names] /\ space \in [Apps -> Names] /\ pc \in [Apps -> Points]
      /\ OwnSpaces /\ Untouched /\ halted \in BOOLEAN
  BY DEF MemoryInv, TypesFit
<1>3. /\ address_space' = [address_space EXCEPT ![t] = space[t]] /\ pc' = [pc EXCEPT ![t] = "load"]
      /\ tlb' = Flushed /\ UNCHANGED <<space, halted>>
  BY DEF RegisterSpace, Goto
<1>4. \A u \in Apps : /\ u # t => address_space'[u] = address_space[u] /\ pc'[u] = pc[u]
                      /\ u = t => address_space'[u] = space[t] /\ pc'[u] = "load"
  BY <1>2, <1>3
<1>5. TypesFit(address_space', space', pc', tlb') /\ TlbFits(frames', spaces', cr3', tlb')
  BY <1>2, <1>3, FlushedFits DEF TypesFit, Points
<1>6. OwnSpaces'
  BY <1>1, <1>2, <1>3, <1>4 DEF OwnSpaces
<1>7. Untouched'
  <2>1. ASSUME NEW u \in Apps, pc'[u] \in {"created", "switched"}
        PROVE  space[u] # NoSpace /\ \A p \in Pages : Entry(spaces', space[u], p) = Absent
    <3>1. u # t /\ pc[u] \in {"created", "switched"}
      BY <1>4, <2>1
    <3>2. space[u] # NoSpace /\ space[u] \in DOMAIN spaces /\ space[u] # space[t]
      BY <1>2, <3>1 DEF OwnSpaces, Untouched
    <3>3. QED
      BY <1>1, <1>2, <3>1, <3>2 DEF Untouched
  <2>2. QED
    BY <1>3, <2>1 DEF Untouched, Entry
<1>8. QED
  BY <1>1, <1>2, <1>3, <1>5, <1>6, <1>7, NextMemory

\* A space is given back, and the others stay as they are.
DestroyedIn(fr, sp, d, gr, tp) ==
  /\ MemOK(gr, tp) /\ Shrinks(fr, gr) /\ SameSeen(fr, sp, gr, tp)
  /\ DOMAIN tp = DOMAIN sp \ {d}
  /\ \A s \in DOMAIN tp, q \in Pages : Entry(tp, s, q) = Entry(sp, s, q)

LEMMA DestroyStep ==
  ASSUME MemoryInv, NEW d \in DOMAIN spaces \union {NoSpace}, Becomes(destroy_user_space(Mem, d))
  PROVE  UNCHANGED arch /\ DestroyedIn(frames, spaces, d, frames', spaces')
<1>1. Machine /\ MemOK(frames, spaces)
  BY DEF MemoryInv
<1>2. PICK gr, tp : destroy_user_space(Memory(frames, spaces), d) = Memory(gr, tp)
                    /\ DestroyedIn(frames, spaces, d, gr, tp)
  BY <1>1, DestroyMemory DEF DestroyedIn
<1>3. frames' = gr /\ spaces' = tp /\ UNCHANGED arch
  BY <1>2, MemIsMemory, BecomesMemory
<1>4. QED
  BY <1>2, <1>3

\* The task whose space this is loses its names for it.
LEMMA RemovedInv ==
  ASSUME MemoryInv, SpaceInv', NEW t \in Apps, UNCHANGED <<arch, halted>>,
         NEW d, d \in {NoSpace, space[t]}, DestroyedIn(frames, spaces, d, frames', spaces'),
         space' = [space EXCEPT ![t] = NoSpace], pc' = [pc EXCEPT ![t] = "free"],
         address_space' \in [Apps -> Names],
         \A u \in Apps \ {t} : address_space'[u] = address_space[u],
         tlb' \in [Pages -> Pte], TlbFits(frames', spaces', cr3', tlb')
  PROVE  MemoryInv'
<1>1. MemOK(frames', spaces') /\ DOMAIN spaces' = DOMAIN spaces \ {d}
      /\ \A s \in DOMAIN spaces', q \in Pages : Entry(spaces', s, q) = Entry(spaces, s, q)
  BY DEF DestroyedIn
<1>2. /\ space \in [Apps -> Names] /\ pc \in [Apps -> Points] /\ OwnSpaces /\ Untouched /\ halted \in BOOLEAN
  BY DEF MemoryInv, TypesFit
<1>3. /\ space' \in [Apps -> Names] /\ pc' \in [Apps -> Points]
      /\ space'[t] = NoSpace /\ pc'[t] = "free"
      /\ \A u \in Apps \ {t} : space'[u] = space[u] /\ pc'[u] = pc[u]
  BY <1>2 DEF Names, Points
<1>4. \A u \in Apps \ {t} : space[u] # NoSpace => space[u] \in DOMAIN spaces'
  BY <1>1, <1>2 DEF OwnSpaces
<1>5. OwnSpaces'
  <2>1. \A u \in Apps : space'[u] # NoSpace => space'[u] \in DOMAIN spaces'
    BY <1>3, <1>4
  <2>2. \A u, w \in Apps : u # w /\ space'[u] # NoSpace => space'[u] # space'[w]
    BY <1>2, <1>3 DEF OwnSpaces
  <2>3. \A u \in Apps : pc'[u] = "free" => space'[u] = NoSpace
    BY <1>2, <1>3 DEF OwnSpaces
  <2>4. \A u \in Apps : pc'[u] \in {"load", "user"} => address_space'[u] = space'[u]
    BY <1>2, <1>3 DEF OwnSpaces
  <2>5. QED
    BY <2>1, <2>2, <2>3, <2>4 DEF OwnSpaces
<1>6. Untouched'
  <2>1. ASSUME NEW u \in Apps, pc'[u] \in {"created", "switched"}
        PROVE  space'[u] # NoSpace /\ \A p \in Pages : Entry(spaces', space'[u], p) = Absent
    <3>1. u # t /\ pc[u] \in {"created", "switched"} /\ space'[u] = space[u]
      BY <1>3, <2>1
    <3>2. space[u] # NoSpace /\ space[u] \in DOMAIN spaces'
      BY <1>2, <1>4, <3>1 DEF Untouched
    <3>3. QED
      BY <1>1, <1>2, <3>1, <3>2 DEF Untouched
  <2>2. QED
    BY <2>1 DEF Untouched, Entry
<1>7. TypesFit(address_space', space', pc', tlb')
  BY <1>3 DEF TypesFit
<1>8. QED
  BY <1>1, <1>2, <1>5, <1>6, <1>7, NextMemory

LEMMA EndInv ==
  ASSUME MemoryInv, SpaceInv', NEW t \in Apps, End(t)
  PROVE  MemoryInv'
<1>1. pc[t] = "destroy" /\ current = t
  BY DEF End, At
<1>2. cr3 = kernel_cr3
  BY <1>1 DEF MemoryInv, SpaceInv, NoForeignSpace
<1>3. tlb' \in [Pages -> Pte] /\ TlbFits(frames', spaces', cr3', tlb')
  <2>1. \E c : switch_to(c)
    BY DEF End, Resume
  <2>2. QED
    BY <1>2, <2>1, AfterSwitch
<1>4. space[t] \in DOMAIN spaces \union {NoSpace}
  BY DEF MemoryInv, OwnSpaces
<1>5. UNCHANGED arch /\ DestroyedIn(frames, spaces, space[t], frames', spaces')
  BY <1>4, DestroyStep DEF End
<1>6. /\ space' = [space EXCEPT ![t] = NoSpace] /\ pc' = [pc EXCEPT ![t] = "free"]
      /\ UNCHANGED <<address_space, halted>> /\ address_space \in [Apps -> Names]
  BY DEF End, Goto, MemoryInv, TypesFit
<1>7. QED
  BY <1>3, <1>5, <1>6, RemovedInv

\* A task is killed by the one that runs, or by the shell.
LEMMA TerminateMemory ==
  ASSUME MemoryInv, NEW t \in Apps, terminate(t)
  PROVE  /\ UNCHANGED <<arch, cr3, tlb, halted>> /\ address_space[t] \in {NoSpace, space[t]}
         /\ DestroyedIn(frames, spaces, address_space[t], frames', spaces')
         /\ cr3 \in DOMAIN spaces => cr3 # address_space[t]
         /\ address_space' = [address_space EXCEPT ![t] = NoSpace]
         /\ space' = [space EXCEPT ![t] = NoSpace] /\ pc' = [pc EXCEPT ![t] = "free"]
<1>1. address_space[t] \in {NoSpace, space[t]}
  BY DEF MemoryInv, SpaceInv, Registered
<1>2. address_space[t] \in DOMAIN spaces \union {NoSpace}
  BY <1>1 DEF MemoryInv, OwnSpaces
<1>3. UNCHANGED arch /\ DestroyedIn(frames, spaces, address_space[t], frames', spaces')
  BY <1>2, DestroyStep DEF terminate
<1>4. cr3 \in DOMAIN spaces => cr3 # address_space[t]
  <2>1. SUFFICES ASSUME cr3 \in DOMAIN spaces, cr3 = address_space[t] PROVE FALSE
    OBVIOUS
  <2>2. cr3 # NoSpace
    BY <2>1, NoSpaceIsNone DEF MemoryInv
  <2>3. current # KernelTask /\ cr3 = space[current] /\ current # t /\ space[t] = cr3
    BY <1>1, <2>1, <2>2 DEF MemoryInv, SpaceInv, NoForeignSpace, kernel_cr3, NoSpace, terminate
  <2>4. current \in Apps
    BY <2>3 DEF MemoryInv, SpaceInv, Domains
  <2>5. QED
    BY <2>2, <2>3, <2>4 DEF MemoryInv, OwnSpaces
<1>5. QED
  BY <1>1, <1>3, <1>4 DEF terminate, cpuVars, Goto

LEMMA TerminateInv ==
  ASSUME MemoryInv, SpaceInv', NEW t \in Apps, terminate(t)
  PROVE  MemoryInv'
<1>1. /\ UNCHANGED <<arch, cr3, tlb, halted>> /\ address_space[t] \in {NoSpace, space[t]}
      /\ DestroyedIn(frames, spaces, address_space[t], frames', spaces')
      /\ cr3 \in DOMAIN spaces => cr3 # address_space[t]
      /\ address_space' = [address_space EXCEPT ![t] = NoSpace]
      /\ space' = [space EXCEPT ![t] = NoSpace] /\ pc' = [pc EXCEPT ![t] = "free"]
  BY TerminateMemory
<1>2. /\ Machine /\ MemOK(frames, spaces) /\ TlbFits(frames, spaces, cr3, tlb)
      /\ address_space \in [Apps -> Names] /\ tlb \in [Pages -> Pte]
  BY DEF MemoryInv, TypesFit
<1>3. /\ address_space' \in [Apps -> Names]
      /\ \A u \in Apps \ {t} : address_space'[u] = address_space[u]
  BY <1>1, <1>2 DEF Names
<1>4. /\ MemOK(frames', spaces') /\ \A f \in Frames : frames'[f].refs <= frames[f].refs
      /\ cr3 \in DOMAIN spaces =>
           cr3 \in DOMAIN spaces' /\ \A q \in Pages : Entry(spaces', cr3, q).frame = Entry(spaces, cr3, q).frame
  BY <1>1 DEF DestroyedIn, Shrinks
<1>5. TlbFits(frames', spaces', cr3, tlb)
  BY <1>2, <1>4, TlbStays
<1>6. tlb' \in [Pages -> Pte] /\ TlbFits(frames', spaces', cr3', tlb')
  BY <1>1, <1>2, <1>5
<1>7. QED
  BY <1>1, <1>3, <1>6, RemovedInv

------------------------------------------------------------------------------
(* fork *)

LEMMA CloneResult ==
  ASSUME Machine, NEW fr, NEW sp, MemOK(fr, sp), NEW src \in DOMAIN sp,
         NEW c, c = clone_user_space(Memory(fr, sp), src)
  PROVE  \E h, tp : /\ c.m = Memory(h, tp)
                    /\ c.ok => CloneGoing(fr, sp, src, c.dst, ENTRIES, h, tp)
                    /\ ~c.ok => CloneStopped(fr, sp, h, tp)
<1>1. PICK d : Cloned(fr, sp, src, d, ENTRIES, c)
  BY CloneLoop
<1>2. PICK h, tp : \/ c = Going(h, tp, d) /\ CloneGoing(fr, sp, src, d, ENTRIES, h, tp)
                   \/ c = Stopped(h, tp, d) /\ CloneStopped(fr, sp, h, tp)
  BY <1>1 DEF Cloned
<1>3. CASE c = Going(h, tp, d) /\ CloneGoing(fr, sp, src, d, ENTRIES, h, tp)
  <2>1. c.m = Memory(h, tp) /\ c.dst = d /\ c.ok
    BY <1>3, GoingFields
  <2>2. QED
    BY <1>3, <2>1
<1>4. CASE c = Stopped(h, tp, d) /\ CloneStopped(fr, sp, h, tp)
  <2>1. c.m = Memory(h, tp) /\ ~c.ok
    BY <1>4, StoppedFields
  <2>2. QED
    BY <1>4, <2>1
<1>5. QED
  BY <1>2, <1>3, <1>4

\* The three ends of fork: no memory, no slot, or a child with the same content.
ForkFails ==
  CloneStopped(frames, spaces, frames', spaces') /\ UNCHANGED <<address_space, space, pc>>

ForkSucceeds(t, child) ==
  /\ pc[child] = "free"
  /\ CloneGoing(frames, spaces, address_space[t], space'[child], ENTRIES, frames', spaces')
  /\ address_space' = [address_space EXCEPT ![child] = space'[child]]
  /\ space' = [space EXCEPT ![child] = space'[child]]
  /\ pc' = [pc EXCEPT ![child] = "user"]

LEMMA ForkMemory ==
  ASSUME MemoryInv, NEW t \in Apps, Fork(t)
  PROVE  /\ UNCHANGED <<arch, current, cr3, halted>>
         /\ tlb' = tlb \/ tlb' = Flushed
         /\ address_space[t] \in DOMAIN spaces
         /\ \/ ForkFails
            \/ tlb' = Flushed /\ \E child \in Apps : ForkSucceeds(t, child)
<1> DEFINE src == address_space[t]
           c == clone_user_space(Mem, src)
<1>1. Machine /\ MemOK(frames, spaces) /\ space \in [Apps -> Names] /\ src \in DOMAIN spaces
  BY RunningSpace DEF Fork, MemoryInv, TypesFit
<1>2. PICK h, tp : /\ c.m = Memory(h, tp)
                   /\ c.ok => CloneGoing(frames, spaces, src, c.dst, ENTRIES, h, tp)
                   /\ ~c.ok => CloneStopped(frames, spaces, h, tp)
  BY <1>1, MemIsMemory, CloneResult
<1>3. UNCHANGED <<current, cr3, halted>>
  BY DEF Fork
<1>4. CASE ~c.ok /\ Becomes(c.m) /\ UNCHANGED <<taskVars, tlb>>
  <2>1. frames' = h /\ spaces' = tp /\ UNCHANGED arch
    BY <1>2, <1>4, BecomesMemory
  <2>2. QED
    BY <1>1, <1>2, <1>3, <1>4, <2>1 DEF ForkFails, taskVars
<1>5. CASE c.ok /\ Becomes(destroy_user_space(c.m, c.dst)) /\ tlb' = Flushed /\ UNCHANGED taskVars
  <2>1. PICK gr, tq : /\ destroy_user_space(Memory(h, tp), c.dst) = Memory(gr, tq)
                      /\ CloneStopped(frames, spaces, gr, tq)
    BY <1>1, <1>2, <1>5, CloneGivenUp
  <2>2. frames' = gr /\ spaces' = tq /\ UNCHANGED arch
    BY <1>2, <1>5, <2>1, BecomesMemory
  <2>3. QED
    BY <1>1, <1>3, <1>5, <2>1, <2>2 DEF ForkFails, taskVars
<1>6. ASSUME NEW child \in Apps, pc[child] = "free", c.ok, Becomes(c.m), tlb' = Flushed,
             address_space' = [address_space EXCEPT ![child] = c.dst],
             space' = [space EXCEPT ![child] = c.dst],
             Goto(child, "user")
      PROVE  UNCHANGED arch /\ ForkSucceeds(t, child)
  <2>1. frames' = h /\ spaces' = tp /\ UNCHANGED arch
    BY <1>2, <1>6, BecomesMemory
  <2>2. space'[child] = c.dst
    BY <1>1, <1>6
  <2>3. CloneGoing(frames, spaces, src, space'[child], ENTRIES, frames', spaces')
    BY <1>2, <1>6, <2>1, <2>2
  <2>4. QED
    BY <1>6, <2>1, <2>2, <2>3 DEF ForkSucceeds, Goto
<1> HIDE DEF c
<1>7. \/ ~c.ok /\ Becomes(c.m) /\ UNCHANGED <<taskVars, tlb>>
      \/ c.ok /\ Becomes(destroy_user_space(c.m, c.dst)) /\ tlb' = Flushed /\ UNCHANGED taskVars
      \/ /\ tlb' = Flushed
         /\ \E child \in Apps :
              /\ pc[child] = "free" /\ c.ok /\ Becomes(c.m)
              /\ address_space' = [address_space EXCEPT ![child] = c.dst]
              /\ space' = [space EXCEPT ![child] = c.dst]
              /\ Goto(child, "user")
  BY DEF Fork, c
<1>8. QED
  BY <1>1, <1>3, <1>4, <1>5, <1>6, <1>7

LEMMA AbsentStays ==
  ASSUME Machine, NEW fr, NEW sp, MemOK(fr, sp), NEW d \in DOMAIN sp, NEW p \in Pages,
         NEW e, SameEntry(e, Entry(sp, d, p)), e = Absent
  PROVE  Entry(sp, d, p) = Absent
<1> DEFINE x == Entry(sp, d, p)
<1>1. x \in Pte
  BY EntryFacts
<1>2. x.state = "absent"
  BY DEF SameEntry, Absent
<1> HIDE DEF x
<1>3. x = Absent
  BY <1>1, <1>2 DEF Pte, Absent, Demand
<1>4. QED
  BY <1>3 DEF x

LEMMA SameUses ==
  ASSUME NEW sp, NEW tp, DOMAIN tp = DOMAIN sp, SameSpaces(sp, tp), NEW f
  PROVE  UsesIn(tp, f) = UsesIn(sp, f)
<1>1. TablesAt(tp, f) = TablesAt(sp, f)
  BY DEF TablesAt, SameSpaces
<1>2. PagesAt(tp, f) = PagesAt(sp, f)
  BY DEF PagesAt, SameSpaces, SameEntry, Entry
<1>3. QED
  BY <1>1, <1>2 DEF UsesIn

LEMMA ForkFailsInv ==
  ASSUME MemoryInv, SpaceInv', UNCHANGED <<arch, current, cr3, halted>>,
         tlb' = tlb \/ tlb' = Flushed, ForkFails
  PROVE  MemoryInv'
<1>1. /\ Machine /\ MemOK(frames, spaces) /\ TlbFits(frames, spaces, cr3, tlb)
      /\ TypesFit(address_space, space, pc, tlb) /\ tlb \in [Pages -> Pte]
      /\ OwnSpaces /\ Untouched /\ halted \in BOOLEAN
  BY DEF MemoryInv, TypesFit
<1>2. /\ MemOK(frames', spaces') /\ DOMAIN spaces' = DOMAIN spaces /\ SameSpaces(spaces, spaces')
      /\ UNCHANGED <<address_space, space, pc>>
  BY DEF ForkFails, CloneStopped
<1>3. tlb' \in [Pages -> Pte] /\ TlbFits(frames', spaces', cr3', tlb')
  <2>1. CASE tlb' = tlb
    <3>1. \A f \in Frames : frames'[f].refs = frames[f].refs
      BY <1>1, <1>2, SameUses DEF MemOK, Exact
    <3>2. frames \in FrameMaps
      BY <1>1 DEF MemOK
    <3>3. \A f \in Frames : frames[f].refs \in 0 .. MAX_REFS
      BY <3>2 DEF FrameMaps, Frame
    <3>4. \A f \in Frames : frames'[f].refs <= frames[f].refs
      BY <3>1, <3>3, RefsAssumption
    <3>5. cr3 \in DOMAIN spaces =>
            cr3 \in DOMAIN spaces' /\ \A q \in Pages : Entry(spaces', cr3, q).frame = Entry(spaces, cr3, q).frame
      BY <1>2 DEF SameSpaces, SameEntry
    <3>6. TlbFits(frames', spaces', cr3, tlb)
      BY <1>1, <1>2, <3>4, <3>5, TlbStays
    <3>7. QED
      BY <1>1, <2>1, <3>6
  <2>2. CASE tlb' = Flushed
    BY <2>2, FlushedFits
  <2>3. QED
    BY <2>1, <2>2
<1>4. TypesFit(address_space', space', pc', tlb')
  BY <1>1, <1>2, <1>3 DEF TypesFit
<1>5. OwnSpaces'
  BY <1>1, <1>2 DEF OwnSpaces
<1>6. Untouched'
  <2>1. ASSUME NEW u \in Apps, pc[u] \in {"created", "switched"}
        PROVE  space[u] # NoSpace /\ \A p \in Pages : Entry(spaces', space[u], p) = Absent
    <3>1. space[u] # NoSpace /\ space[u] \in DOMAIN spaces /\ \A p \in Pages : Entry(spaces, space[u], p) = Absent
      BY <1>1, <2>1 DEF OwnSpaces, Untouched
    <3>2. \A p \in Pages : SameEntry(Entry(spaces, space[u], p), Entry(spaces', space[u], p))
      BY <1>2, <3>1 DEF SameSpaces
    <3>3. QED
      BY <1>1, <1>2, <3>1, <3>2, AbsentStays
  <2>2. QED
    BY <1>2, <2>1 DEF Untouched, Entry
<1>7. QED
  BY <1>1, <1>2, <1>3, <1>4, <1>5, <1>6, NextMemory

LEMMA ForkSucceedsInv ==
  ASSUME MemoryInv, SpaceInv', UNCHANGED <<arch, current, cr3, halted>>, tlb' = Flushed,
         NEW t \in Apps, NEW child \in Apps, ForkSucceeds(t, child)
  PROVE  MemoryInv'
<1> DEFINE d == space'[child]
<1>1. /\ Machine /\ MemOK(frames, spaces)
      /\ address_space \in [Apps -> Names] /\ space \in [Apps -> Names] /\ pc \in [Apps -> Points]
      /\ OwnSpaces /\ Untouched /\ halted \in BOOLEAN
  BY DEF MemoryInv, TypesFit
<1>2. /\ MemOK(frames', spaces') /\ d \in Frames \ DOMAIN spaces /\ DOMAIN spaces' = DOMAIN spaces \union {d}
      /\ SameSpaces(spaces, spaces')
      /\ address_space' = [address_space EXCEPT ![child] = d]
      /\ space' = [space EXCEPT ![child] = d] /\ pc' = [pc EXCEPT ![child] = "user"]
      /\ pc[child] = "free"
  BY DEF ForkSucceeds, CloneGoing
<1>3. d \in Names /\ d # NoSpace
  BY <1>1, <1>2, NoSpaceIsNone DEF Names
<1> HIDE DEF d
<1>4. /\ address_space' \in [Apps -> Names] /\ space' \in [Apps -> Names] /\ pc' \in [Apps -> Points]
      /\ address_space'[child] = d /\ space'[child] = d /\ pc'[child] = "user"
      /\ \A u \in Apps \ {child} :
           address_space'[u] = address_space[u] /\ space'[u] = space[u] /\ pc'[u] = pc[u]
  BY <1>1, <1>2, <1>3 DEF Points
<1>5. TypesFit(address_space', space', pc', tlb') /\ TlbFits(frames', spaces', cr3', tlb')
  BY <1>4, FlushedFits DEF TypesFit
<1>6. \A u \in Apps : space[u] # NoSpace => space[u] \in DOMAIN spaces /\ space[u] # d
  BY <1>1, <1>2 DEF OwnSpaces
<1>7. OwnSpaces'
  <2>1. \A u \in Apps : space'[u] # NoSpace => space'[u] \in DOMAIN spaces'
    BY <1>2, <1>4, <1>6
  <2>2. \A u, w \in Apps : u # w /\ space'[u] # NoSpace => space'[u] # space'[w]
    BY <1>1, <1>4, <1>6 DEF OwnSpaces
  <2>3. \A u \in Apps : pc'[u] = "free" => space'[u] = NoSpace
    BY <1>1, <1>4 DEF OwnSpaces
  <2>4. \A u \in Apps : pc'[u] \in {"load", "user"} => address_space'[u] = space'[u]
    BY <1>1, <1>4 DEF OwnSpaces
  <2>5. QED
    BY <2>1, <2>2, <2>3, <2>4 DEF OwnSpaces
<1>8. Untouched'
  <2>1. ASSUME NEW u \in Apps, pc'[u] \in {"created", "switched"}
        PROVE  space'[u] # NoSpace /\ \A p \in Pages : Entry(spaces', space'[u], p) = Absent
    <3>1. u # child /\ pc[u] \in {"created", "switched"} /\ space'[u] = space[u]
      BY <1>4, <2>1
    <3>2. space[u] # NoSpace /\ space[u] \in DOMAIN spaces /\ \A p \in Pages : Entry(spaces, space[u], p) = Absent
      BY <1>1, <3>1 DEF OwnSpaces, Untouched
    <3>3. \A p \in Pages : SameEntry(Entry(spaces, space[u], p), Entry(spaces', space[u], p))
      BY <1>2, <3>2 DEF SameSpaces
    <3>4. space[u] \in DOMAIN spaces'
      BY <1>2, <3>2
    <3>5. QED
      BY <1>1, <1>2, <3>1, <3>2, <3>3, <3>4, AbsentStays
  <2>2. QED
    BY <2>1 DEF Untouched, Entry
<1>9. QED
  BY <1>1, <1>2, <1>5, <1>7, <1>8, NextMemory

LEMMA ForkInv ==
  ASSUME MemoryInv, SpaceInv', NEW t \in Apps, Fork(t)
  PROVE  MemoryInv'
BY ForkMemory, ForkFailsInv, ForkSucceedsInv

------------------------------------------------------------------------------
(* Types, counts and privacy *)

LEMMA StepMemory ==
  ASSUME MemoryInv, [Next]_vars
  PROVE  MemoryInv'
<1>1. SpaceInv'
  BY StepKeeps DEF MemoryInv
<1>2. ASSUME NEW t \in Apps, Access(t) PROVE MemoryInv'
  <2>1. PICK p \in Pages :
          \/ \E v \in Value : Store(t, p, v)
          \/ PageFault(t, p)
          \/ \E ring0 \in BOOLEAN : FatalFault(t, p, ring0)
    BY <1>2 DEF Access, i386_page_fault, x86_64_demand_fault, x86_64_cow_fault
  <2>2. QED
    BY <1>1, <2>1, StoreInv, FaultInv, FatalInv
<1>3. CASE UNCHANGED vars
  <2>1. /\ UNCHANGED <<memVars, space>> /\ halted' \in BOOLEAN
        /\ UNCHANGED <<address_space, pc, cr3, tlb>>
    BY <1>3 DEF vars, memVars, taskVars, cpuVars, MemoryInv
  <2>2. address_space \in [Apps -> Names] /\ pc \in [Apps -> Points]
    BY DEF MemoryInv, TypesFit
  <2>3. QED
    BY <1>1, <2>1, <2>2, QuietInv
<1>4. ASSUME Preempt(KernelTask) PROVE MemoryInv'
  BY <1>1, <1>4, PreemptInv
<1>5. ASSUME NEW t \in Apps,
             Preempt(t) \/ Start(t) \/ EnterSpace(t) \/ RegisterSpace(t) \/ EnterRing3(t)
               \/ Fork(t) \/ Leave(t) \/ End(t) \/ terminate(t)
      PROVE  MemoryInv'
  BY <1>1, <1>5, PreemptInv, StartInv, EnterSpaceInv, RegisterInv, EnterRing3Inv, ForkInv, LeaveInv, EndInv,
     TerminateInv
<1>6. QED
  BY <1>2, <1>3, <1>4, <1>5 DEF Next, i386_fork, x86_64_fork

LEMMA MemoryAlways == Spec => []MemoryInv
BY InitMemory, StepMemory, PTL DEF Spec

LEMMA TypesFollow == ASSUME MemoryInv PROVE MemTypeOK
<1>1. /\ Machine /\ MemOK(frames, spaces) /\ TypesFit(address_space, space, pc, tlb) /\ halted \in BOOLEAN
      /\ OwnSpaces /\ Domains /\ Registered /\ NoForeignSpace
  BY DEF MemoryInv, SpaceInv
<1>2. frames \in FrameMaps /\ spaces \in [DOMAIN spaces -> Space] /\ DOMAIN spaces \subseteq Frames
  BY <1>1, SpacesAreFinite DEF MemOK
<1>3. \A d \in DOMAIN spaces : spaces[d] \in [tables : SUBSET Frames, pte : [Pages -> Pte]]
  BY <1>2 DEF Space
<1>4. space \in [Apps -> DOMAIN spaces \union {NoSpace}]
  BY <1>1 DEF TypesFit, OwnSpaces
<1>5. address_space \in [Apps -> DOMAIN spaces \union {NoSpace}]
  BY <1>1, <1>4 DEF TypesFit, Registered
<1>6. cr3 \in DOMAIN spaces \union {kernel_cr3}
  BY <1>1, <1>4 DEF NoForeignSpace, Domains, NoSpace, kernel_cr3
<1>7. QED
  BY <1>1, <1>2, <1>3, <1>4, <1>5, <1>6
     DEF MemTypeOK, Machine, FrameMaps, Frame, Contents, TypesFit, Points, Domains

\* Every variable of the memory of processes keeps its type: every entry of a page
\* table is absent, reserved or at an existing frame, every count fits its byte, and
\* what a task or cr3 names as its directory exists (frames.rs, mmu_*.rs, process.rs),
\* also when tasks may be killed half-way.
THEOREM MemoryTypes == Spec => []MemTypeOK
<1>1. MemoryInv => MemTypeOK
  BY TypesFollow
<1>2. QED
  BY <1>1, MemoryAlways, PTL

\* The count of every frame is the number of its uses after any interleaving of
\* faults, fork with its error paths, exit and kill: share and free of frames.rs are
\* called once per entry, so that no frame in use is handed out and none is lost.
THEOREM FramesAreCounted == Spec => []CountsExact
<1>1. MemoryInv => CountsExact
  <2> SUFFICES ASSUME MemoryInv PROVE CountsExact
    OBVIOUS
  <2>1. \A f \in Frames : frames[f].refs = UsesIn(spaces, f)
    BY DEF MemoryInv, MemOK, Exact
  <2>2. QED
    BY <2>1, UsesAreUses DEF CountsExact
<1>2. QED
  BY <1>1, MemoryAlways, PTL

\* A frame that the CPU writes without a fault, by its tables or by a translation it
\* still has from before a fork, belongs to one page of one process; what is shared
\* is marked so that handle_cow_fault recovers it.
THEOREM PrivateWrites == Spec => []WritesArePrivate
<1>1. MemoryInv => WritesArePrivate
  <2> SUFFICES ASSUME MemoryInv PROVE WritesArePrivate
    OBVIOUS
  <2>1. ASSUME NEW d \in DOMAIN spaces, NEW p \in Pages, Present(spaces[d].pte[p])
        PROVE  IF spaces[d].pte[p].writable THEN frames[spaces[d].pte[p].frame].refs = 1
               ELSE spaces[d].pte[p].cow
    BY <2>1 DEF MemoryInv, MemOK, Guarded
  <2>2. ASSUME NEW p \in Pages, Present(tlb[p])
        PROVE  /\ cr3 \in DOMAIN spaces
               /\ spaces[cr3].pte[p].frame = tlb[p].frame
               /\ tlb[p].writable => frames[tlb[p].frame].refs = 1
    BY <2>2 DEF MemoryInv, TlbFits, Entry
  <2>3. QED
    BY <2>1, <2>2 DEF WritesArePrivate
<1>2. QED
  BY <1>1, MemoryAlways, PTL

------------------------------------------------------------------------------
(* Whose address spaces there are *)

\* Every address space is the one that some task is using.
Known == \A d \in DOMAIN spaces : \E t \in Apps : space[t] = d

LEMMA KnownStays ==
  ASSUME Known, DOMAIN spaces' \subseteq DOMAIN spaces, UNCHANGED space
  PROVE  Known'
BY DEF Known

LEMMA KnownGrows ==
  ASSUME MemoryInv, Known, NEW t \in Apps, pc[t] = "free",
         space' = [space EXCEPT ![t] = space'[t]],
         DOMAIN spaces' \subseteq DOMAIN spaces \union {space'[t]}
  PROVE  Known'
<1>1. space[t] \notin DOMAIN spaces /\ space \in [Apps -> Names]
  BY NoSpaceIsNone DEF MemoryInv, OwnSpaces, TypesFit
<1>2. \A u \in Apps \ {t} : space'[u] = space[u]
  BY <1>1
<1>3. ASSUME NEW d \in DOMAIN spaces' PROVE \E u \in Apps : space'[u] = d
  BY <1>1, <1>2 DEF Known
<1>4. QED
  BY <1>3 DEF Known

LEMMA KnownShrinks ==
  ASSUME MemoryInv, Known, NEW t \in Apps, space' = [space EXCEPT ![t] = NoSpace],
         DOMAIN spaces' = DOMAIN spaces \ {space[t]}
  PROVE  Known'
<1>1. space \in [Apps -> Names]
  BY DEF MemoryInv, TypesFit
<1>2. \A u \in Apps \ {t} : space'[u] = space[u]
  BY <1>1
<1>3. ASSUME NEW d \in DOMAIN spaces' PROVE \E u \in Apps : space'[u] = d
  BY <1>2 DEF Known
<1>4. QED
  BY <1>3 DEF Known

LEMMA StepKnown ==
  ASSUME MemoryInv, Known, Ops = {}, [Next]_vars
  PROVE  Known'
<1>1. ASSUME NEW t \in Apps, Access(t) PROVE Known'
  <2>1. PICK p \in Pages :
          \/ \E v \in Value : Store(t, p, v)
          \/ PageFault(t, p)
          \/ \E ring0 \in BOOLEAN : FatalFault(t, p, ring0)
    BY <1>1 DEF Access, i386_page_fault, x86_64_demand_fault, x86_64_cow_fault
  <2>2. DOMAIN spaces' = DOMAIN spaces /\ UNCHANGED space
    BY <2>1, FaultMemory DEF Store, FatalFault, memVars, taskVars, PageFault
  <2>3. QED
    BY <2>2, KnownStays
<1>2. ASSUME UNCHANGED <<spaces, space>> PROVE Known'
  BY <1>2, KnownStays
<1>3. ASSUME NEW t \in Apps, Start(t) PROVE Known'
  <2>1. /\ space' = [space EXCEPT ![t] = space'[t]]
        /\ DOMAIN spaces' \subseteq DOMAIN spaces \union {space'[t]}
    BY <1>3, StartMemory
  <2>2. pc[t] = "free"
    BY <1>3 DEF Start
  <2>3. QED
    BY <2>1, <2>2, KnownGrows
<1>4. ASSUME NEW t \in Apps, RegisterSpace(t) PROVE Known'
  <2>1. DOMAIN spaces' = DOMAIN spaces
    BY <1>4, RegisterMemory
  <2>2. QED
    BY <1>4, <2>1, KnownStays DEF RegisterSpace
<1>5. ASSUME NEW t \in Apps, Fork(t) PROVE Known'
  <2>1. CASE ForkFails
    BY <2>1, KnownStays DEF ForkFails, CloneStopped
  <2>2. ASSUME NEW child \in Apps, ForkSucceeds(t, child) PROVE Known'
    BY <2>2, KnownGrows DEF ForkSucceeds, CloneGoing
  <2>3. QED
    BY <1>5, <2>1, <2>2, ForkMemory
<1>6. ASSUME NEW t \in Apps, End(t) PROVE Known'
  <2>1. space[t] \in DOMAIN spaces \union {NoSpace}
    BY DEF MemoryInv, OwnSpaces
  <2>2. DOMAIN spaces' = DOMAIN spaces \ {space[t]}
    BY <1>6, <2>1, DestroyStep DEF End, DestroyedIn
  <2>3. QED
    BY <1>6, <2>2, KnownShrinks DEF End
<1>7. ASSUME NEW t \in Apps, terminate(t) PROVE Known'
  <2>1. space[t] = address_space[t]
    BY <1>7 DEF terminate, Midway
  <2>2. DOMAIN spaces' = DOMAIN spaces \ {space[t]} /\ space' = [space EXCEPT ![t] = NoSpace]
    BY <1>7, <2>1, TerminateMemory DEF DestroyedIn
  <2>3. QED
    BY <2>2, KnownShrinks
<1>8. ASSUME NEW t \in Apps \union {KernelTask}, Preempt(t) PROVE Known'
  BY <1>2, <1>8 DEF Preempt, memVars, taskVars
<1>9. ASSUME NEW t \in Apps, EnterSpace(t) \/ EnterRing3(t) \/ Leave(t) PROVE Known'
  BY <1>2, <1>9 DEF EnterSpace, EnterRing3, Leave, memVars
<1>10. CASE UNCHANGED vars
  BY <1>2, <1>10 DEF vars, memVars, taskVars
<1>11. QED
  BY <1>1, <1>3, <1>4, <1>5, <1>6, <1>7, <1>8, <1>9, <1>10 DEF Next, i386_fork, x86_64_fork

\* Where no task is killed half-way through loading or leaving, every page table and
\* every frame in use belongs to exactly one living task: the error paths of fork and
\* run_image, exit and kill give back all they have taken, and nothing twice.
THEOREM NothingIsLost == ASSUME Ops = {} PROVE Spec => []MemInv
<1>1. Init => MemoryInv /\ Known
  BY InitMemory DEF Init, Known
<1>2. MemoryInv /\ Known /\ [Next]_vars => (MemoryInv /\ Known)'
  BY StepMemory, StepKnown
<1>3. MemoryInv /\ Known => SpacesOwned
  <2> SUFFICES ASSUME MemoryInv, Known, NEW d \in DOMAIN spaces
                 PROVE  \E t \in Apps :
                          /\ space[t] = d /\ pc[t] # "free"
                          /\ \A u \in Apps \ {t} : space[u] # d /\ address_space[u] # d
    BY DEF SpacesOwned
  <2>1. PICK t \in Apps : space[t] = d
    BY DEF Known
  <2>2. d # NoSpace
    BY NoSpaceIsNone DEF MemoryInv
  <2>3. pc[t] # "free" /\ \A u \in Apps \ {t} : space[u] # d
    BY <2>1, <2>2 DEF MemoryInv, OwnSpaces
  <2>4. \A u \in Apps \ {t} : address_space[u] # d
    BY <2>2, <2>3 DEF MemoryInv, SpaceInv, Registered
  <2>5. QED
    BY <2>1, <2>3, <2>4
<1>4. Spec => [](MemoryInv /\ Known)
  BY <1>1, <1>2, PTL DEF Spec
<1>5. MemoryInv /\ Known /\ CountsExact => MemInv
  BY <1>3, TypesFollow DEF MemInv
<1>6. QED
  BY <1>4, <1>5, FramesAreCounted, PTL

------------------------------------------------------------------------------
(* The promise of PrivateMemory *)

\* The memories of the processes as they see them.
PrivateView == [t \in {u \in Apps : address_space[u] # NoSpace} |-> Content(address_space[t])]

Owners(as) == {u \in Apps : as[u] # NoSpace}
SeenBy(fr, sp, d) == [p \in Pages |-> Seen(fr, Entry(sp, d, p))]
ViewOf(as, fr, sp) == [t \in Owners(as) |-> SeenBy(fr, sp, as[t])]

LEMMA ViewIs ==
  PrivateView = ViewOf(address_space, frames, spaces) /\ PrivateView' = ViewOf(address_space', frames', spaces')
BY DEF PrivateView, ViewOf, Owners, SeenBy, Content, Seen, Entry

LEMMA ViewFacts ==
  ASSUME NEW as, NEW fr, NEW sp
  PROVE  DOMAIN ViewOf(as, fr, sp) = Owners(as)
         /\ \A t \in Owners(as) : ViewOf(as, fr, sp)[t] = SeenBy(fr, sp, as[t])
BY DEF ViewOf

LEMMA SeenBySame ==
  ASSUME NEW fr, NEW sp, NEW gr, NEW tp, SameSeen(fr, sp, gr, tp), NEW d \in DOMAIN sp, d \in DOMAIN tp
  PROVE  SeenBy(gr, tp, d) = SeenBy(fr, sp, d)
BY DEF SeenBy, SameSeen

LEMMA PrivateInit == Init => Private!Init
BY Zenon DEF Init, Private!Init, NoSpace

\* How the steps of PrivateMemory look from here.
LEMMA AsStart ==
  ASSUME NEW t \in Apps, t \notin DOMAIN PrivateView,
         PrivateView' = [u \in DOMAIN PrivateView \union {t} |->
                           IF u = t THEN [p \in Pages |-> Zero] ELSE PrivateView[u]]
  PROVE  Private!Next
<1>1. Private!Start(t)
  BY DEF Private!Start, Private!Has, Private!With, PrivateView
<1>2. QED
  BY <1>1 DEF Private!Next

LEMMA AsStore ==
  ASSUME NEW t \in Apps, t \in DOMAIN PrivateView, NEW p \in Pages, NEW v \in Value,
         PrivateView' = [PrivateView EXCEPT ![t][p] = v]
  PROVE  Private!Next
<1>1. Private!Store(t, p, v)
  BY DEF Private!Store, Private!Has, PrivateView
<1>2. QED
  BY <1>1 DEF Private!Next

LEMMA AsFork ==
  ASSUME NEW t \in Apps, t \in DOMAIN PrivateView, NEW child \in Apps, child \notin DOMAIN PrivateView,
         PrivateView' = [u \in DOMAIN PrivateView \union {child} |->
                           IF u = child THEN PrivateView[t] ELSE PrivateView[u]]
  PROVE  Private!Next
<1>1. Private!Fork(t, child)
  BY DEF Private!Fork, Private!Has, Private!With, PrivateView
<1>2. QED
  BY <1>1 DEF Private!Next

LEMMA AsEnd ==
  ASSUME NEW t \in Apps, t \in DOMAIN PrivateView,
         PrivateView' = [u \in DOMAIN PrivateView \ {t} |-> PrivateView[u]]
  PROVE  Private!Next
<1>1. Private!End(t)
  BY DEF Private!End, Private!Has, PrivateView
<1>2. QED
  BY <1>1 DEF Private!Next

LEMMA SpaceOf ==
  ASSUME MemoryInv, NEW t \in Apps, address_space[t] # NoSpace
  PROVE  /\ address_space[t] \in DOMAIN spaces /\ address_space[t] = space[t] /\ pc[t] \in {"load", "user"}
         /\ \A u \in Apps \ {t} : address_space[u] # address_space[t] /\ space[u] # address_space[t]
<1>1. address_space[t] = space[t] /\ pc[t] \in {"load", "user"}
  BY DEF MemoryInv, SpaceInv, Registered
<1>2. \A u \in Apps \ {t} : space[u] # space[t]
  BY <1>1 DEF MemoryInv, OwnSpaces
<1>3. \A u \in Apps \ {t} : address_space[u] # address_space[t]
  BY <1>1, <1>2 DEF MemoryInv, SpaceInv, Registered
<1>4. QED
  BY <1>1, <1>2, <1>3 DEF MemoryInv, OwnSpaces

\* Faults, failed forks, the switches and the destruction of spaces do not show.
LEMMA ViewStays ==
  ASSUME MemoryInv, UNCHANGED address_space, SameSeen(frames, spaces, frames', spaces'),
         \A t \in Apps : address_space[t] # NoSpace => address_space[t] \in DOMAIN spaces'
  PROVE  UNCHANGED PrivateView
<1>1. ASSUME NEW t \in Owners(address_space)
      PROVE  SeenBy(frames', spaces', address_space[t]) = SeenBy(frames, spaces, address_space[t])
  <2>1. address_space[t] \in DOMAIN spaces /\ address_space[t] \in DOMAIN spaces'
    BY SpaceOf DEF Owners
  <2>2. QED
    BY <2>1, SeenBySame
<1>2. ViewOf(address_space', frames', spaces') = ViewOf(address_space, frames, spaces)
  BY <1>1 DEF ViewOf
<1>3. QED
  BY <1>2, ViewIs

LEMMA SameView ==
  ASSUME UNCHANGED <<address_space, frames, spaces>>
  PROVE  UNCHANGED PrivateView
BY DEF PrivateView, Content

LEMMA ViewEnds ==
  ASSUME MemoryInv, NEW t \in Apps, address_space' = [address_space EXCEPT ![t] = NoSpace],
         SameSeen(frames, spaces, frames', spaces'),
         \A u \in Apps \ {t} : address_space[u] # NoSpace => address_space[u] \in DOMAIN spaces'
  PROVE  [Private!Next]_PrivateView
<1>1. address_space \in [Apps -> Names]
  BY DEF MemoryInv, TypesFit
<1>2. CASE address_space[t] = NoSpace
  <2>1. UNCHANGED address_space
    BY <1>1, <1>2
  <2>2. UNCHANGED PrivateView
    BY <1>2, <2>1, ViewStays
  <2>3. QED
    BY <2>2
<1>3. CASE address_space[t] # NoSpace
  <2> DEFINE view == ViewOf(address_space, frames, spaces)
  <2>1. /\ t \in Owners(address_space) /\ Owners(address_space') = Owners(address_space) \ {t}
        /\ \A u \in Owners(address_space') : address_space'[u] = address_space[u]
    BY <1>1, <1>3 DEF Owners
  <2>2. ASSUME NEW u \in Owners(address_space')
        PROVE  SeenBy(frames', spaces', address_space'[u]) = view[u]
    <3>1. u \in Owners(address_space) /\ u \in Apps \ {t} /\ address_space[u] # NoSpace
          /\ address_space'[u] = address_space[u]
      BY <2>1 DEF Owners
    <3>2. address_space[u] \in DOMAIN spaces /\ address_space[u] \in DOMAIN spaces'
      BY <3>1, SpaceOf
    <3>3. SeenBy(frames', spaces', address_space[u]) = SeenBy(frames, spaces, address_space[u])
      BY <3>2, SeenBySame
    <3>4. QED
      BY <3>1, <3>3, ViewFacts
  <2>3. ViewOf(address_space', frames', spaces') = [u \in Owners(address_space) \ {t} |-> view[u]]
    <3> HIDE DEF view
    <3> QED
      BY <2>1, <2>2 DEF ViewOf
  <2>4. DOMAIN view = Owners(address_space)
    BY ViewFacts
  <2> HIDE DEF view
  <2>5. PrivateView' = [u \in DOMAIN PrivateView \ {t} |-> PrivateView[u]] /\ t \in DOMAIN PrivateView
    BY <2>1, <2>3, <2>4, ViewIs DEF view
  <2>6. QED
    BY <2>5, AsEnd
<1>4. QED
  BY <1>2, <1>3

LEMMA StoreView ==
  ASSUME MemoryInv, NEW t \in Apps, NEW p \in Pages, NEW v \in Value, Store(t, p, v)
  PROVE  Private!Next
<1> DEFINE view == ViewOf(address_space, frames, spaces)
<1>1. /\ Seen(frames', Entry(spaces, cr3, p)) = v
      /\ \A s \in DOMAIN spaces, q \in Pages :
           <<s, q>> # <<cr3, p>> => Seen(frames', Entry(spaces, s, q)) = Seen(frames, Entry(spaces, s, q))
  BY StoreMemory
<1>2. cr3 \in DOMAIN spaces /\ cr3 = address_space[t] /\ cr3 # NoSpace
  BY RunningSpace DEF Store
<1>3. UNCHANGED <<address_space, spaces>>
  BY DEF Store, taskVars
<1>4. SeenBy(frames', spaces, cr3) = [SeenBy(frames, spaces, cr3) EXCEPT ![p] = v]
  BY <1>1, <1>2 DEF SeenBy
<1>5. ASSUME NEW u \in Owners(address_space), u # t
      PROVE  SeenBy(frames', spaces, address_space[u]) = SeenBy(frames, spaces, address_space[u])
  <2>1. address_space[u] \in DOMAIN spaces /\ address_space[u] # cr3
    BY <1>2, <1>5, SpaceOf DEF Owners
  <2>2. \A q \in Pages : Seen(frames', Entry(spaces, address_space[u], q)) = Seen(frames, Entry(spaces, address_space[u], q))
    BY <1>1, <2>1
  <2>3. QED
    BY <2>2 DEF SeenBy
<1>6. t \in Owners(address_space)
  BY <1>2 DEF Owners
<1>7. DOMAIN view = Owners(address_space) /\ \A u \in Owners(address_space) : view[u] = SeenBy(frames, spaces, address_space[u])
  BY ViewFacts
<1> HIDE DEF view
<1> DEFINE stored == [view EXCEPT ![t][p] = v]
<1>8. ASSUME NEW u \in Owners(address_space)
      PROVE  SeenBy(frames', spaces, address_space[u]) = stored[u]
  <2>1. CASE u = t
    BY <1>2, <1>4, <1>6, <1>7, <2>1
  <2>2. CASE u # t
    BY <1>5, <1>7, <1>8, <2>2
  <2>3. QED
    BY <2>1, <2>2
<1>9. stored = [u \in Owners(address_space) |-> stored[u]]
  BY <1>7
<1> HIDE DEF stored
<1>10. ViewOf(address_space', frames', spaces') = stored
  BY <1>3, <1>8, <1>9 DEF ViewOf
<1>11. PrivateView' = [PrivateView EXCEPT ![t][p] = v] /\ t \in DOMAIN PrivateView
  BY <1>6, <1>7, <1>10, ViewIs DEF view, stored
<1>12. QED
  BY <1>11, AsStore

\* A space that is registered is a memory of zeros.
LEMMA RegisterView ==
  ASSUME MemoryInv, NEW t \in Apps, RegisterSpace(t)
  PROVE  Private!Next
<1> DEFINE view == ViewOf(address_space, frames, spaces)
           d == space[t]
           zeros == [p \in Pages |-> Zero]
<1>1. /\ SameSeen(frames, spaces, frames', spaces') /\ DOMAIN spaces' = DOMAIN spaces
      /\ d \in DOMAIN spaces /\ d # NoSpace /\ \A q \in Pages : Entry(spaces', d, q) = Demand
  BY RegisterMemory
<1>2. address_space \in [Apps -> Names] /\ address_space' = [address_space EXCEPT ![t] = d] /\ pc[t] = "switched"
  BY DEF MemoryInv, TypesFit, RegisterSpace, At
<1>3. t \notin Owners(address_space)
  BY <1>2, SpaceOf DEF Owners
<1> HIDE DEF d
<1>4. /\ Owners(address_space') = Owners(address_space) \union {t} /\ address_space'[t] = d
      /\ \A u \in Owners(address_space) : address_space'[u] = address_space[u] /\ u # t
  BY <1>1, <1>2, <1>3 DEF Owners
<1>5. SeenBy(frames', spaces', d) = zeros
  BY <1>1 DEF SeenBy, Seen, Demand, Present
<1>6. ASSUME NEW u \in Owners(address_space)
      PROVE  SeenBy(frames', spaces', address_space[u]) = view[u]
  <2>1. address_space[u] \in DOMAIN spaces /\ address_space[u] \in DOMAIN spaces'
    BY <1>1, SpaceOf DEF Owners
  <2>2. QED
    BY <1>1, <2>1, SeenBySame, ViewFacts
<1>7. DOMAIN view = Owners(address_space)
  BY ViewFacts
<1> HIDE DEF view, zeros
<1>8. ViewOf(address_space', frames', spaces') =
        [u \in Owners(address_space) \union {t} |-> IF u = t THEN zeros ELSE view[u]]
  BY <1>4, <1>5, <1>6 DEF ViewOf
<1>9. /\ PrivateView' = [u \in DOMAIN PrivateView \union {t} |-> IF u = t THEN [p \in Pages |-> Zero] ELSE PrivateView[u]]
      /\ t \notin DOMAIN PrivateView
  BY <1>3, <1>7, <1>8, ViewIs DEF view, zeros
<1>10. QED
  BY <1>9, AsStart

LEMMA ForkView ==
  ASSUME MemoryInv, NEW t \in Apps, Fork(t)
  PROVE  [Private!Next]_PrivateView
<1> DEFINE view == ViewOf(address_space, frames, spaces)
           src == address_space[t]
<1>1. src \in DOMAIN spaces /\ (ForkFails \/ \E child \in Apps : ForkSucceeds(t, child))
  BY ForkMemory
<1>2. src # NoSpace
  BY DEF Fork
<1>3. CASE ForkFails
  <2>1. UNCHANGED address_space /\ SameSeen(frames, spaces, frames', spaces') /\ DOMAIN spaces' = DOMAIN spaces
    BY <1>3 DEF ForkFails, CloneStopped
  <2>2. UNCHANGED PrivateView
    BY <2>1, ViewStays, SpaceOf
  <2>3. QED
    BY <2>2
<1>4. ASSUME NEW child \in Apps, ForkSucceeds(t, child)
      PROVE  Private!Next
  <2> DEFINE d == space'[child]
  <2>1. /\ SameSeen(frames, spaces, frames', spaces')
        /\ d \in Frames \ DOMAIN spaces /\ DOMAIN spaces' = DOMAIN spaces \union {d}
        /\ \A q \in Pages : IF q < ENTRIES THEN Seen(frames', Entry(spaces', d, q)) = Seen(frames, Entry(spaces, src, q))
                            ELSE Entry(spaces', d, q) = Absent
        /\ address_space' = [address_space EXCEPT ![child] = d] /\ pc[child] = "free"
    BY <1>4 DEF ForkSucceeds, CloneGoing
  <2>2. d # NoSpace /\ address_space \in [Apps -> Names]
    BY <2>1, NoSpaceIsNone DEF MemoryInv, TypesFit
  <2>3. t \in Owners(address_space) /\ child \notin Owners(address_space)
    BY <1>2, <2>1, SpaceOf DEF Owners
  <2> HIDE DEF d, src
  <2>4. /\ Owners(address_space') = Owners(address_space) \union {child} /\ address_space'[child] = d
        /\ \A u \in Owners(address_space) : address_space'[u] = address_space[u] /\ u # child
    BY <2>1, <2>2, <2>3 DEF Owners
  <2>5. SeenBy(frames', spaces', d) = SeenBy(frames, spaces, src)
    <3>1. \A q \in Pages : q < ENTRIES
      BY PagesAssumption DEF Pages
    <3>2. QED
      BY <2>1, <3>1 DEF SeenBy
  <2>6. ASSUME NEW u \in Owners(address_space)
        PROVE  SeenBy(frames', spaces', address_space[u]) = view[u]
    <3>1. address_space[u] \in DOMAIN spaces /\ address_space[u] \in DOMAIN spaces'
      BY <2>1, SpaceOf DEF Owners
    <3>2. QED
      BY <2>1, <3>1, SeenBySame, ViewFacts
  <2>7. DOMAIN view = Owners(address_space) /\ view[t] = SeenBy(frames, spaces, src)
    BY <2>3, ViewFacts DEF src
  <2> HIDE DEF view
  <2>8. ViewOf(address_space', frames', spaces') =
          [u \in Owners(address_space) \union {child} |-> IF u = child THEN view[t] ELSE view[u]]
    BY <2>4, <2>5, <2>6, <2>7 DEF ViewOf
  <2>9. /\ PrivateView' = [u \in DOMAIN PrivateView \union {child} |->
                             IF u = child THEN PrivateView[t] ELSE PrivateView[u]]
        /\ child \notin DOMAIN PrivateView /\ t \in DOMAIN PrivateView
    BY <2>3, <2>7, <2>8, ViewIs DEF view
  <2>10. QED
    BY <2>9, AsFork
<1>5. QED
  BY <1>1, <1>3, <1>4

LEMMA StepPrivate ==
  ASSUME MemoryInv, [Next]_vars
  PROVE  [Private!Next]_PrivateView
<1>1. SameSeen(frames, spaces, frames, spaces)
  BY DEF SameSeen
<1>2. \A u \in Apps : address_space[u] # NoSpace => address_space[u] \in DOMAIN spaces
  BY SpaceOf
<1>3. ASSUME UNCHANGED <<address_space, frames, spaces>> PROVE UNCHANGED PrivateView
  BY <1>3, SameView
<1>4. ASSUME NEW t \in Apps, release_space(t), UNCHANGED <<frames, spaces>>
      PROVE  [Private!Next]_PrivateView
  <2>1. address_space' = [address_space EXCEPT ![t] = NoSpace]
    BY <1>4 DEF release_space
  <2>2. QED
    BY <1>1, <1>2, <1>4, <2>1, ViewEnds
<1>5. ASSUME NEW t \in Apps, Access(t) PROVE [Private!Next]_PrivateView
  <2>1. PICK p \in Pages :
          \/ \E v \in Value : Store(t, p, v)
          \/ PageFault(t, p)
          \/ \E ring0 \in BOOLEAN : FatalFault(t, p, ring0)
    BY <1>5 DEF Access, i386_page_fault, x86_64_demand_fault, x86_64_cow_fault
  <2>2. CASE \E v \in Value : Store(t, p, v)
    BY <2>2, StoreView
  <2>3. CASE PageFault(t, p)
    <3>1. DOMAIN spaces' = DOMAIN spaces /\ SameSeen(frames, spaces, frames', spaces')
      BY <2>3, FaultMemory
    <3>2. UNCHANGED address_space
      BY <2>3 DEF PageFault, taskVars
    <3>3. UNCHANGED PrivateView
      BY <1>2, <3>1, <3>2, ViewStays
    <3>4. QED
      BY <3>3
  <2>4. ASSUME NEW ring0 \in BOOLEAN, FatalFault(t, p, ring0) PROVE [Private!Next]_PrivateView
    <3>1. UNCHANGED <<frames, spaces>> /\ (UNCHANGED address_space \/ release_space(t))
      BY <2>4 DEF FatalFault, memVars
    <3>2. QED
      BY <1>3, <1>4, <3>1
  <2>5. QED
    BY <2>1, <2>2, <2>3, <2>4
<1>6. ASSUME NEW t \in Apps, Start(t) PROVE UNCHANGED PrivateView
  <2>1. /\ SameSeen(frames, spaces, frames', spaces') /\ UNCHANGED address_space
        /\ \A s \in DOMAIN spaces : s \in DOMAIN spaces'
    BY <1>6, StartMemory
  <2>2. QED
    BY <1>2, <2>1, ViewStays
<1>7. ASSUME NEW t \in Apps, Leave(t) PROVE [Private!Next]_PrivateView
  BY <1>4, <1>7 DEF Leave, memVars
<1>8. ASSUME NEW t \in Apps, End(t) PROVE UNCHANGED PrivateView
  <2>1. space[t] \in DOMAIN spaces \union {NoSpace}
    BY DEF MemoryInv, OwnSpaces
  <2>2. /\ SameSeen(frames, spaces, frames', spaces') /\ DOMAIN spaces' = DOMAIN spaces \ {space[t]}
        /\ UNCHANGED address_space /\ pc[t] = "destroy"
    BY <1>8, <2>1, DestroyStep DEF End, At, DestroyedIn
  <2>3. \A u \in Apps : address_space[u] # NoSpace => address_space[u] # space[t]
    BY <2>2, SpaceOf
  <2>4. QED
    BY <1>2, <2>2, <2>3, ViewStays
<1>9. ASSUME NEW t \in Apps, terminate(t) PROVE [Private!Next]_PrivateView
  <2>1. /\ SameSeen(frames, spaces, frames', spaces') /\ DOMAIN spaces' = DOMAIN spaces \ {address_space[t]}
        /\ address_space' = [address_space EXCEPT ![t] = NoSpace]
    BY <1>9, TerminateMemory DEF DestroyedIn
  <2>2. \A u \in Apps \ {t} : address_space[u] # NoSpace => address_space[u] \in DOMAIN spaces'
    BY <2>1, SpaceOf
  <2>3. QED
    BY <2>1, <2>2, ViewEnds
<1>10. ASSUME NEW t \in Apps \union {KernelTask}, Preempt(t) PROVE UNCHANGED PrivateView
  BY <1>3, <1>10 DEF Preempt, memVars, taskVars
<1>11. ASSUME NEW t \in Apps, EnterSpace(t) \/ EnterRing3(t) PROVE UNCHANGED PrivateView
  BY <1>3, <1>11 DEF EnterSpace, EnterRing3, memVars
<1>12. CASE UNCHANGED vars
  BY <1>3, <1>12 DEF vars, memVars, taskVars
<1>13. QED
  BY <1>5, <1>6, <1>7, <1>8, <1>9, <1>10, <1>11, <1>12, RegisterView, ForkView
     DEF Next, i386_fork, x86_64_fork

\* The promise of mmu_i386.rs: every process has a memory of its own, zero at first;
\* only its own stores change it, and fork copies it.  Reserved pages, copy-on-write,
\* cached translations, the reuse of frames and the error paths never show.
THEOREM MemoryIsPrivate == Spec => PrivateSpec
<1>1. Init => Private!Init
  BY PrivateInit
<1>2. MemoryInv /\ [Next]_vars => [Private!Next]_PrivateView
  BY StepPrivate
<1>3. QED
  BY <1>1, <1>2, MemoryAlways, PTL DEF Spec, PrivateSpec, Private!Spec, PrivateView
====
