--------------------------- MODULE ProgramsProofs ---------------------------
(***************************************************************************)
(* Programs, from the file to ring 3 and back.                             *)
(*                                                                         *)
(* The loaders and the system calls are proved about for every image,      *)
(* every request and every size the assumptions on the constants allow.    *)
(* LoadingInv is the inductive invariant of a load: what the headers have  *)
(* claimed so far fits into the new process, what is behind it is fresh,   *)
(* and the parts, the relocations and the imports that were accepted hold  *)
(* what they are to hold and are not touched again.  CallFlow is that of   *)
(* the calls: a call on its way in will be understood by the kernel, one   *)
(* on its way out has done what was asked for and will make the program    *)
(* believe what is so.  The lemmas between the two follow each call of     *)
(* each library through the numbers, registers and stacks of both machines *)
(* and back.                                                               *)
(*                                                                         *)
(* Processes follows at the end: what a program in ring 3 has of signals   *)
(* is its own, its handlers can return, and the requests of execve and the *)
(* paths of the launcher reach those they are meant for.                   *)
(***************************************************************************)
EXTENDS SystemCalls, Processes, Induction, FiniteSetTheorems, SequenceTheorems

------------------------------------------------------------------------------
(* The inductive invariant of the loaders *)

Stages == {"none", "elf", "segments", "pe", "sections", "relocations", "imports", "enter", "running", "called",
           "failed"}
Building == {"segments", "sections", "relocations", "imports", "enter", "running"}

\* Where the image ends, with the thunks there are so far.
Top == IF load.stage = "imports" THEN EndOfImports ELSE load.end

Values == {Fresh, Cleared} \union {Byte(k) : k \in Extent(0, FileLength)}
          \union {Thunk(a) : a \in Cells} \union {Bound(a) : a \in Cells}

\* What the headers have claimed so far fits into the process.
LoadFits ==
  /\ arch \in Architectures
  /\ load \in [stage : Stages, size : 0 .. USER_MAP_SIZE, delta : {0, 1}, end : 0 .. USER_MAP_SIZE, thunk : Nat,
               headers : Nat, entries : Nat, stack : Nat, brk : Nat]
  /\ load.stage \in {"sections", "relocations", "imports"} => load.end = load.size
  /\ load.stage = "imports" => load.end <= load.thunk
  /\ load.stage = "imports" /\ load.entries > 0 => load.thunk <= USER_MAP_SIZE
  /\ load.stage \in {"pe", "sections"} => load.entries = 0
  /\ load.stage = "running" =>
       /\ load.stack = StackBottom /\ load.stack + USER_STACK_SIZE <= USER_MAP_SIZE
       /\ load.end <= load.brk /\ load.brk <= load.stack

MemTypes == \A c \in Cells : mem[c] \in Values /\ moved[c] \in {0, 1}

\* Before the first write.
Untouched ==
  load.stage \in {"none", "elf", "pe", "called"} =>
    /\ \A c \in Cells : mem[c] = Fresh /\ moved[c] = 0
    /\ parts = {}

\* Nothing lies behind the image.
FreshAbove == load.stage \in Building => \A c \in Cells : c >= Top => mem[c] = Fresh

\* A PE image is cleared before its sections come.
GapsCleared ==
  load.stage = "sections" =>
    \A c \in Cells : c < load.size /\ (\A p \in parts : c \notin Extent(p.vaddr, p.span)) => mem[c] = Cleared

MovedOnce ==
  /\ load.stage \in {"segments", "sections", "relocations"} =>
       \A c \in Cells : moved[c] = IF c \in patches THEN 1 ELSE 0
  /\ load.stage \notin {"relocations", "imports", "enter", "running", "failed"} => patches = {}

PartFits(p) ==
  /\ p \in [vaddr : Nat, span : Nat, offset : Nat, data : Nat]
  /\ p.vaddr + p.span <= load.end /\ p.data <= p.span
  /\ p.data > 0 => p.offset + p.data <= FileLength

PartsFit == load.stage \in Building => \A p \in parts : PartFits(p)

CellLoaded(p, c) ==
  /\ mem[c] = IF c < p.vaddr + p.data THEN Byte(p.offset + c - p.vaddr) ELSE Cleared
  /\ moved[c] = IF c \in patches THEN 1 ELSE 0

PartsLoaded == load.stage \in Building => \A p \in parts : \A c \in Extent(p.vaddr, p.span) \ Slots : CellLoaded(p, c)

ImportFits(rva) ==
  /\ rva \in Nat /\ rva + SlotSize <= load.size
  /\ imports[rva] \in Nat /\ load.size <= imports[rva] /\ imports[rva] + THUNK_SIZE <= Top

ImportLeads(rva) ==
  /\ \A c \in Extent(rva, SlotSize) : mem[c] = Bound(imports[rva]) /\ moved[c] = 0
  /\ \A c \in Extent(imports[rva], THUNK_SIZE) : mem[c] = Thunk(imports[rva])

ImportsHold ==
  /\ load.stage \in Building => \A rva \in DOMAIN imports : ImportFits(rva) /\ ImportLeads(rva)
  /\ load.stage \notin {"imports", "enter", "running", "failed"} => DOMAIN imports = {}

LoadingInv ==
  /\ LoadFits /\ MemTypes /\ ~stray
  /\ Untouched /\ FreshAbove /\ GapsCleared /\ MovedOnce
  /\ PartsFit /\ PartsLoaded /\ ImportsHold

------------------------------------------------------------------------------
(* Sizes *)

LEMMA PageUpIs ==
  ASSUME NEW a \in Nat
  PROVE  PageUp(a) \in Nat /\ PageUp(a) >= a
BY SizesAssumption DEF PageUp

LEMMA SlotIs == ASSUME arch \in Architectures PROVE SlotSize \in {1, 2} /\ THUNK_SIZE = SlotSize
BY DEF SlotSize, THUNK_SIZE, Architectures

------------------------------------------------------------------------------
(* The steps that leave the image as it is *)

LEMMA LoaderStarts == LoadInit => LoadingInv
<1> SUFFICES ASSUME LoadInit PROVE LoadingInv
  OBVIOUS
<1> USE SizesAssumption DEF LoadInit, NoLoad
<1>1. load.stage = "none"
  OBVIOUS
<1>2. LoadFits
  BY <1>1 DEF LoadFits, Stages
<1>3. MemTypes /\ Untouched
  BY DEF MemTypes, Untouched, Values
<1>4. ~stray /\ FreshAbove /\ GapsCleared /\ PartsFit /\ PartsLoaded
  BY <1>1 DEF FreshAbove, GapsCleared, PartsFit, PartsLoaded, Building
<1>5. MovedOnce /\ ImportsHold
  BY <1>1 DEF MovedOnce, ImportsHold, Building
<1> QED
  BY <1>2, <1>3, <1>4, <1>5 DEF LoadingInv

\* A load that begins, ends or has failed.
LEMMA Forgotten ==
  ASSUME LoadingInv, Forget, NEW stage \in {"none", "elf", "pe", "called", "failed"},
         load' = [NoLoad EXCEPT !.stage = stage]
  PROVE  LoadingInv'
<1> USE SizesAssumption DEF NoLoad
<1>1. load'.stage = stage
  OBVIOUS
<1>2. LoadFits'
  <2>1. arch' \in Architectures
    BY DEF Forget, LoadingInv, LoadFits
  <2> QED
    BY <1>1, <2>1 DEF LoadFits, Stages
<1>3. MemTypes' /\ Untouched'
  BY DEF Forget, MemTypes, Untouched, Values
<1>4. ~stray' /\ FreshAbove' /\ GapsCleared' /\ PartsFit' /\ PartsLoaded'
  BY <1>1 DEF FreshAbove, GapsCleared, PartsFit, PartsLoaded, Building, Forget, LoadingInv
<1>5. MovedOnce' /\ ImportsHold'
  BY <1>1 DEF MovedOnce, ImportsHold, Building, Forget
<1> QED
  BY <1>2, <1>3, <1>4, <1>5 DEF LoadingInv

LEMMA SlotsStay == ASSUME UNCHANGED Image PROVE Slots' = Slots /\ SlotSize' = SlotSize /\ THUNK_SIZE' = THUNK_SIZE
BY DEF Image, Slots, SlotSize, THUNK_SIZE

LEMMA FailedKeeps ==
  ASSUME LoadingInv, Fails
  PROVE  LoadingInv'
<1> USE SizesAssumption DEF NoLoad, Fails
<1>1. load'.stage = "failed"
  OBVIOUS
<1>2. LoadFits'
  <2>1. arch' \in Architectures
    BY DEF Image, LoadingInv, LoadFits
  <2> QED
    BY <1>1, <2>1 DEF LoadFits, Stages
<1>3. MemTypes' /\ ~stray'
  BY DEF LoadingInv, MemTypes, Image
<1>4. Untouched' /\ FreshAbove' /\ GapsCleared' /\ PartsFit' /\ PartsLoaded'
  BY <1>1 DEF Untouched, FreshAbove, GapsCleared, PartsFit, PartsLoaded, Building
<1>5. MovedOnce' /\ ImportsHold'
  BY <1>1 DEF MovedOnce, ImportsHold, Building
<1> QED
  BY <1>2, <1>3, <1>4, <1>5 DEF LoadingInv

\* The load goes on with the image as it is, and nothing that was behind it is now
\* in front of its end.
LEMMA ImageCarries ==
  ASSUME LoadingInv, UNCHANGED Image, LoadFits', load.stage \in Building, load'.stage \in Building,
         load'.stage = load.stage \/ load'.stage \notin {"segments", "sections"},
         load'.stage = "relocations" => load.stage \in {"relocations", "sections"},
         load'.size = load.size, load'.end >= load.end, Top' >= Top, Top \in Nat, Top' \in Nat
  PROVE  LoadingInv'
<1>1. MemTypes' /\ ~stray'
  BY DEF LoadingInv, MemTypes, Image
<1>2. Untouched' /\ GapsCleared'
  BY DEF Untouched, GapsCleared, Building, Image, LoadingInv
<1>3. FreshAbove'
  BY DEF FreshAbove, Image, LoadingInv, Cells
<1>4. MovedOnce'
  BY DEF MovedOnce, Building, Image, LoadingInv
<1>5. PartsFit'
  <2>1. load.end \in Nat /\ load'.end \in Nat
    BY SizesAssumption DEF LoadingInv, LoadFits
  <2>2. \A p \in parts : PartFits(p)
    BY DEF LoadingInv, PartsFit
  <2>3. \A p \in parts : PartFits(p)'
    BY <2>1, <2>2 DEF PartFits
  <2> QED
    BY <2>3 DEF PartsFit, Image
<1>6. PartsLoaded'
  BY SlotsStay DEF PartsLoaded, CellLoaded, Image, LoadingInv
<1>7. ImportsHold'
  <2> SUFFICES /\ \A rva \in DOMAIN imports : ImportFits(rva)' /\ ImportLeads(rva)'
               /\ load'.stage \notin {"imports", "enter", "running", "failed"} => DOMAIN imports = {}
    BY DEF ImportsHold, Image
  <2>1. \A rva \in DOMAIN imports : ImportFits(rva) /\ ImportLeads(rva)
    BY DEF LoadingInv, ImportsHold
  <2>2. \A rva \in DOMAIN imports : ImportLeads(rva)'
    BY <2>1, SlotsStay DEF ImportLeads, Image
  <2>3. SlotSize \in Nat
    BY SlotIs DEF LoadingInv, LoadFits
  <2>4. \A rva \in DOMAIN imports : ImportFits(rva)'
    BY <2>1, <2>3, SlotsStay, SlotIs DEF ImportFits, Image, LoadingInv, LoadFits
  <2>5. load'.stage \notin {"imports", "enter", "running", "failed"} => DOMAIN imports = {}
    BY DEF LoadingInv, ImportsHold, Building
  <2> QED
    BY <2>2, <2>4, <2>5
<1> QED
  BY <1>1, <1>2, <1>3, <1>4, <1>5, <1>6, <1>7 DEF LoadingInv

LEMMA TopIs == ASSUME LoadFits PROVE Top \in Nat /\ load.end <= Top /\ Top <= USER_MAP_SIZE
BY SizesAssumption DEF LoadFits, Top, EndOfImports

LEMMA run_imageKeeps ==
  ASSUME LoadingInv, NEW format, run_image(format)
  PROVE  LoadingInv'
<1>1. PICK stage \in {"none", "elf", "pe", "called", "failed"} : load' = [NoLoad EXCEPT !.stage = stage]
  BY DEF run_image
<1> QED
  BY <1>1, Forgotten DEF run_image

LEMMA mainKeeps == ASSUME LoadingInv, main PROVE LoadingInv'
BY Forgotten DEF main

LEMMA release_spaceKeeps == ASSUME LoadingInv, release_space PROVE LoadingInv'
<1>1. load' = [NoLoad EXCEPT !.stage = "none"]
  BY DEF release_space, NoLoad
<1> QED
  BY <1>1, Forgotten DEF release_space

LEMMA read_ehdrKeeps ==
  ASSUME LoadingInv, NEW class, read_ehdr(class)
  PROVE  LoadingInv'
<1>1. CASE Fails
  BY <1>1, FailedKeeps
<1>2. CASE load' = [load EXCEPT !.stage = "segments"] /\ UNCHANGED Image
  <2>1. load.stage = "elf" /\ LoadFits
    BY DEF read_ehdr, LoadingInv
  <2>2. /\ load' \in [stage : Stages, size : 0 .. USER_MAP_SIZE, delta : {0, 1}, end : 0 .. USER_MAP_SIZE, thunk : Nat,
                      headers : Nat, entries : Nat, stack : Nat, brk : Nat]
        /\ load'.stage = "segments"
    BY <1>2, <2>1 DEF LoadFits, Stages
  <2>3. LoadFits'
    BY <1>2, <2>1, <2>2 DEF LoadFits, Image
  <2>4. MemTypes' /\ ~stray' /\ Untouched' /\ GapsCleared'
    BY <1>2, <2>2 DEF LoadingInv, MemTypes, Image, Untouched, GapsCleared
  <2>5. parts' = {} /\ \A c \in Cells : mem'[c] = Fresh /\ moved'[c] = 0
    BY <1>2, <2>1 DEF LoadingInv, Untouched, Image
  <2>6. patches' = {} /\ DOMAIN imports' = {}
    BY <1>2, <2>1 DEF LoadingInv, MovedOnce, ImportsHold, Image
  <2>7. FreshAbove' /\ MovedOnce' /\ PartsFit' /\ PartsLoaded' /\ ImportsHold'
    BY <2>5, <2>6, <2>2 DEF FreshAbove, MovedOnce, PartsFit, PartsLoaded, ImportsHold
  <2> QED
    BY <2>3, <2>4, <2>7 DEF LoadingInv
<1> QED
  BY <1>1, <1>2 DEF read_ehdr

LEMMA elf_loadedKeeps == ASSUME LoadingInv, elf_loaded PROVE LoadingInv'
<1>1. CASE Fails
  BY <1>1, FailedKeeps
<1>2. CASE load' = [load EXCEPT !.stage = "enter"] /\ UNCHANGED Image
  <2>1. load.stage = "segments" /\ LoadFits
    BY DEF elf_loaded, LoadingInv
  <2>2. /\ load' \in [stage : Stages, size : 0 .. USER_MAP_SIZE, delta : {0, 1}, end : 0 .. USER_MAP_SIZE, thunk : Nat,
                      headers : Nat, entries : Nat, stack : Nat, brk : Nat]
        /\ load'.stage = "enter" /\ load'.end = load.end /\ load'.size = load.size
    BY <1>2, <2>1 DEF LoadFits, Stages
  <2>3. LoadFits'
    BY <1>2, <2>1, <2>2 DEF LoadFits, Image
  <2>4. Top = load.end /\ Top' = load'.end /\ load.end \in Nat
    BY <2>1, <2>2, SizesAssumption DEF Top, LoadFits
  <2> QED
    BY <1>2, <2>1, <2>2, <2>3, <2>4, ImageCarries DEF Building
<1> QED
  BY <1>1, <1>2 DEF elf_loaded

LEMMA sections_loadedKeeps == ASSUME LoadingInv, sections_loaded PROVE LoadingInv'
<1>1. load.stage = "sections" /\ LoadFits /\ UNCHANGED Image
  BY DEF sections_loaded, LoadingInv
<1>2. load.end \in Nat /\ load.entries = 0
  BY <1>1, SizesAssumption DEF LoadFits
<1>3. PageUp(load.end) \in Nat /\ PageUp(load.end) >= load.end
  BY <1>2, PageUpIs
<1>4. /\ load' \in [stage : Stages, size : 0 .. USER_MAP_SIZE, delta : {0, 1}, end : 0 .. USER_MAP_SIZE, thunk : Nat,
                    headers : Nat, entries : Nat, stack : Nat, brk : Nat]
      /\ load'.stage \in {"relocations", "imports"} /\ load'.end = load.end /\ load'.size = load.size
      /\ load'.entries = 0
      /\ load'.stage = "imports" => load'.thunk = PageUp(load.end)
  BY <1>1, <1>2, <1>3 DEF LoadFits, Stages, sections_loaded, AfterSections
<1>5. LoadFits'
  BY <1>1, <1>2, <1>3, <1>4 DEF LoadFits, Image
<1>6. Top = load.end /\ Top' = load'.end
  BY <1>1, <1>4 DEF Top, EndOfImports
<1> QED
  BY <1>1, <1>2, <1>4, <1>5, <1>6, ImageCarries DEF Building

LEMMA relocatedKeeps == ASSUME LoadingInv, NEW well, relocated(well) PROVE LoadingInv'
<1>1. CASE Fails
  BY <1>1, FailedKeeps
<1>2. CASE load' = [load EXCEPT !.stage = "imports", !.entries = 0, !.thunk = PageUp(load.end)] /\ UNCHANGED Image
  <2>1. load.stage = "relocations" /\ LoadFits
    BY DEF relocated, LoadingInv
  <2>2. load.end \in Nat
    BY <2>1, SizesAssumption DEF LoadFits
  <2>3. PageUp(load.end) \in Nat /\ PageUp(load.end) >= load.end
    BY <2>2, PageUpIs
  <2>4. /\ load' \in [stage : Stages, size : 0 .. USER_MAP_SIZE, delta : {0, 1}, end : 0 .. USER_MAP_SIZE, thunk : Nat,
                      headers : Nat, entries : Nat, stack : Nat, brk : Nat]
        /\ load'.stage = "imports" /\ load'.end = load.end /\ load'.size = load.size
        /\ load'.entries = 0 /\ load'.thunk = PageUp(load.end)
    BY <1>2, <2>1, <2>3 DEF LoadFits, Stages
  <2>5. LoadFits'
    BY <1>2, <2>1, <2>3, <2>4 DEF LoadFits, Image
  <2>6. Top = load.end /\ Top' = load'.end
    BY <2>1, <2>4 DEF Top, EndOfImports
  <2> QED
    BY <1>2, <2>1, <2>2, <2>4, <2>5, <2>6, ImageCarries DEF Building
<1> QED
  BY <1>1, <1>2 DEF relocated

LEMMA importedKeeps == ASSUME LoadingInv, NEW well, imported(well) PROVE LoadingInv'
<1>1. CASE Fails
  BY <1>1, FailedKeeps
<1>2. CASE load' = [load EXCEPT !.stage = "enter", !.end = EndOfImports] /\ UNCHANGED Image
  <2>1. load.stage = "imports" /\ LoadFits
    BY DEF imported, LoadingInv
  <2>2. Top = EndOfImports /\ Top \in Nat /\ load.end <= Top /\ Top <= USER_MAP_SIZE
    BY <2>1, TopIs DEF Top
  <2>3. /\ load' \in [stage : Stages, size : 0 .. USER_MAP_SIZE, delta : {0, 1}, end : 0 .. USER_MAP_SIZE, thunk : Nat,
                      headers : Nat, entries : Nat, stack : Nat, brk : Nat]
        /\ load'.stage = "enter" /\ load'.end = Top /\ load'.size = load.size
    <3>1. load' = [load EXCEPT !.stage = "enter", !.end = Top] /\ Top \in 0 .. USER_MAP_SIZE
      BY <1>2, <2>2, SizesAssumption
    <3> QED
      BY <3>1, <2>1 DEF LoadFits, Stages
  <2>4. LoadFits'
    BY <1>2, <2>1, <2>3 DEF LoadFits, Image
  <2>5. Top' = load'.end
    BY <2>3 DEF Top
  <2> QED
    BY <1>2, <2>1, <2>2, <2>3, <2>4, <2>5, ImageCarries DEF Building
<1> QED
  BY <1>1, <1>2 DEF imported

LEMMA enter_ring3Keeps == ASSUME LoadingInv, NEW room, enter_ring3(room) PROVE LoadingInv'
<1>1. CASE Fails
  BY <1>1, FailedKeeps
<1>2. CASE /\ load' = [load EXCEPT !.stage = "running", !.stack = StackBottom, !.brk = load.end] /\ UNCHANGED Image
           /\ ~ StackBottom + USER_STACK_SIZE > USER_MAP_SIZE
  <2>1. load.stage = "enter" /\ LoadFits
    BY DEF enter_ring3, LoadingInv
  <2>2. load.end \in Nat
    BY <2>1, SizesAssumption DEF LoadFits
  <2>3. StackBottom \in Nat /\ StackBottom >= load.end
    BY <2>2, PageUpIs DEF StackBottom
  <2>4. /\ load' \in [stage : Stages, size : 0 .. USER_MAP_SIZE, delta : {0, 1}, end : 0 .. USER_MAP_SIZE, thunk : Nat,
                      headers : Nat, entries : Nat, stack : Nat, brk : Nat]
        /\ load'.stage = "running" /\ load'.end = load.end /\ load'.size = load.size
        /\ load'.stack = StackBottom /\ load'.brk = load.end
    BY <1>2, <2>1, <2>2, <2>3 DEF LoadFits, Stages
  <2>5. StackBottom' = StackBottom
    BY <2>4 DEF StackBottom, PageUp
  <2>6. LoadFits'
    BY <1>2, <2>1, <2>2, <2>3, <2>4, <2>5, SizesAssumption DEF LoadFits, Image
  <2>7. Top = load.end /\ Top' = load'.end
    BY <2>1, <2>4 DEF Top
  <2> QED
    BY <1>2, <2>1, <2>2, <2>4, <2>6, <2>7, ImageCarries DEF Building
<1> QED
  BY <1>1, <1>2 DEF enter_ring3

LEMMA brkKeeps == ASSUME LoadingInv, NEW at \in Cells, brk(at) PROVE LoadingInv'
<1>1. load.stage = "running" /\ LoadFits /\ UNCHANGED Image
  BY DEF brk, LoadingInv
<1>2. load.end \in Nat
  BY <1>1, SizesAssumption DEF LoadFits
<1>3. /\ load' \in [stage : Stages, size : 0 .. USER_MAP_SIZE, delta : {0, 1}, end : 0 .. USER_MAP_SIZE, thunk : Nat,
                    headers : Nat, entries : Nat, stack : Nat, brk : Nat]
      /\ load'.stage = "running" /\ load'.end = load.end /\ load'.size = load.size /\ load'.stack = load.stack
      /\ load'.end <= load'.brk /\ load'.brk <= load'.stack
  BY <1>1, SizesAssumption DEF LoadFits, brk, Cells
<1>4. StackBottom' = StackBottom
  BY <1>3 DEF StackBottom, PageUp
<1>5. LoadFits'
  BY <1>1, <1>3, <1>4 DEF LoadFits, Image
<1>6. Top = load.end /\ Top' = load'.end
  BY <1>1, <1>3 DEF Top
<1> QED
  BY <1>1, <1>2, <1>3, <1>5, <1>6, ImageCarries DEF Building

------------------------------------------------------------------------------
(* The steps that write *)

\* The slots of the import table depend on the machine and the imports only.
LEMMA SlotsSame == ASSUME arch' = arch PROVE SlotSize' = SlotSize /\ THUNK_SIZE' = THUNK_SIZE
BY DEF SlotSize, THUNK_SIZE

\* A segment, or a header that is passed over.
LEMMA load_segmentKeeps ==
  ASSUME LoadingInv, LoadOps = {}, NEW s \in Segment, load_segment(s)
  PROVE  LoadingInv'
<1>1. load.stage = "segments" /\ LoadFits /\ MemTypes
  BY DEF load_segment, LoadingInv
<1>2. /\ s.offset \in Nat /\ s.filesz \in Nat /\ s.memsz \in Nat /\ s.vaddr \in Int
      /\ load.end \in Nat /\ load.headers \in Nat /\ load.stage \in Stages /\ load.size \in 0 .. USER_MAP_SIZE
  <2>1. s.offset \in Fields /\ s.filesz \in Fields /\ s.memsz \in Fields /\ s.vaddr \in Fields \union {-1}
    BY DEF Segment
  <2>2. s.offset \in Nat /\ s.filesz \in Nat /\ s.memsz \in Nat /\ s.vaddr \in Int
    <3>1. \A x \in Fields : x \in Nat
      BY SizesAssumption
    <3>2. s.vaddr = -1 \/ s.vaddr \in Fields
      BY <2>1
    <3>3. s.vaddr \in Int
      BY <3>1, <3>2
    <3> QED
      BY <2>1, <3>1, <3>3
  <2>3. load.end \in 0 .. USER_MAP_SIZE /\ load.headers \in Nat /\ load.stage \in Stages /\ load.size \in 0 .. USER_MAP_SIZE
    BY <1>1 DEF LoadFits
  <2> QED
    BY <2>2, <2>3
<1>3. CASE Fails
  BY <1>3, FailedKeeps
<1>4. CASE load' = [load EXCEPT !.headers = @ + 1] /\ UNCHANGED Image
  <2>1. /\ load' \in [stage : Stages, size : 0 .. USER_MAP_SIZE, delta : {0, 1}, end : 0 .. USER_MAP_SIZE, thunk : Nat,
                      headers : Nat, entries : Nat, stack : Nat, brk : Nat]
        /\ load'.stage = "segments" /\ load'.end = load.end /\ load'.size = load.size
    BY <1>1, <1>2, <1>4 DEF LoadFits
  <2>2. LoadFits'
    BY <1>1, <1>4, <2>1 DEF LoadFits, Image
  <2>3. Top = load.end /\ Top' = load'.end
    BY <1>1, <2>1 DEF Top
  <2> QED
    BY <1>1, <1>2, <1>4, <2>1, <2>2, <2>3, ImageCarries DEF Building
<1>5. CASE /\ ~(s.offset + s.filesz > FileLength \/ ~Inside(s.vaddr, s.memsz))
           /\ s.filesz <= s.memsz \/ "long_data" \in LoadOps
           /\ s.vaddr + s.memsz \in Unmapped => "wide" \in LoadOps
           /\ Apart(s.vaddr, s.memsz)
           /\ Write(Extent(s.vaddr, LargerOf(s.memsz, s.filesz)), LAMBDA c : SegmentCell(s, c))
           /\ load' = [load EXCEPT !.headers = @ + 1, !.end = LargerOf(@, s.vaddr + s.memsz)]
           /\ parts' = parts \union {[vaddr |-> s.vaddr, span |-> s.memsz, offset |-> s.offset, data |-> s.filesz]}
           /\ UNCHANGED <<arch, patches, imports>>
  <2> DEFINE R == Extent(s.vaddr, s.memsz)
             new == [vaddr |-> s.vaddr, span |-> s.memsz, offset |-> s.offset, data |-> s.filesz]
             end == LargerOf(load.end, s.vaddr + s.memsz)
  <2>1. /\ s.vaddr \in Nat /\ s.filesz <= s.memsz /\ s.vaddr + s.memsz <= USER_MAP_SIZE
        /\ s.offset + s.filesz <= FileLength
    BY <1>2, <1>5, SizesAssumption DEF Inside, Unmapped
  <2>2. Extent(s.vaddr, LargerOf(s.memsz, s.filesz)) = R
    BY <1>2, <2>1 DEF LargerOf
  <2>3. /\ \A c \in Cells : c \in R => mem'[c] = SegmentCell(s, c) /\ moved'[c] = 0
        /\ \A c \in Cells : c \notin R => mem'[c] = mem[c] /\ moved'[c] = moved[c]
        /\ stray' = (stray \/ ~R \subseteq Mapped)
    BY <1>5, <2>2 DEF Write
  <2>4. R \subseteq Mapped /\ R \subseteq Cells /\ \A c \in Cells : c \in R <=> s.vaddr <= c /\ c < s.vaddr + s.memsz
    BY <1>2, <2>1, SizesAssumption DEF Extent, Mapped, Cells
  <2>5. end \in 0 .. USER_MAP_SIZE /\ load.end <= end /\ s.vaddr + s.memsz <= end
    BY <1>1, <1>2, <2>1, SizesAssumption DEF LargerOf, LoadFits
  <2>6. load' = [load EXCEPT !.headers = load.headers + 1, !.end = end] /\ parts' = parts \union {new} /\ arch' = arch
    BY <1>5, <1>1 DEF LoadFits
  <2>7. /\ load' \in [stage : Stages, size : 0 .. USER_MAP_SIZE, delta : {0, 1}, end : 0 .. USER_MAP_SIZE, thunk : Nat,
                      headers : Nat, entries : Nat, stack : Nat, brk : Nat]
        /\ load'.stage = "segments" /\ load'.end = end /\ load'.size = load.size
    <3>1. load.headers + 1 \in Nat
      BY <1>2
    <3> HIDE DEF end
    <3> QED
      BY <1>1, <2>5, <2>6, <3>1 DEF LoadFits
  <2>8. new \in [vaddr : Nat, span : Nat, offset : Nat, data : Nat] /\ new.vaddr = s.vaddr /\ new.span = s.memsz
        /\ new.offset = s.offset /\ new.data = s.filesz
    BY <1>2, <2>1
  <2> HIDE DEF end, R, new
  <2>9. LoadFits'
    BY <1>1, <2>6, <2>7 DEF LoadFits
  <2>10. Top = load.end /\ Top' = end
    BY <1>1, <2>7 DEF Top
  <2>11. MemTypes'
    <3>1. ASSUME NEW c \in Cells, c \in R PROVE SegmentCell(s, c) \in Values
      <4>1. CASE c < s.vaddr + s.filesz
        <5>1. s.offset + c - s.vaddr \in Extent(0, FileLength)
          BY <1>2, <2>1, <2>4, <3>1, <4>1, SizesAssumption DEF Extent, Cells
        <5> QED
          BY <4>1, <5>1 DEF SegmentCell, Values
      <4>2. CASE ~ c < s.vaddr + s.filesz
        BY <4>2 DEF SegmentCell, Values
      <4> QED
        BY <4>1, <4>2
    <3> QED
      BY <1>1, <2>3, <3>1 DEF MemTypes
  <2>12. ~stray' /\ Untouched' /\ GapsCleared'
    BY <2>3, <2>4, <2>7 DEF LoadingInv, Untouched, GapsCleared
  <2>13. FreshAbove'
    <3>1. \A c \in Cells : c >= load.end => mem[c] = Fresh
      BY <1>1, <2>10 DEF LoadingInv, FreshAbove, Building
    <3>2. \A c \in Cells : c >= end => c \notin R /\ c >= load.end
      BY <1>2, <2>1, <2>4, <2>5 DEF Cells
    <3> QED
      BY <2>3, <2>10, <3>1, <3>2 DEF FreshAbove
  <2>14. patches = {} /\ patches' = {} /\ \A c \in Cells : moved[c] = 0 /\ moved'[c] = 0
    BY <1>1, <1>5, <2>3 DEF LoadingInv, MovedOnce
  <2>15. MovedOnce'
    BY <2>14 DEF MovedOnce
  <2>16. \A p \in parts : PartFits(p) /\ Extent(p.vaddr, p.span) \intersect R = {} /\ Extent(p.vaddr, p.span) \subseteq Cells
    <3>1. \A p \in parts : PartFits(p)
      BY <1>1 DEF LoadingInv, PartsFit, Building
    <3>2. \A p \in parts : Extent(p.vaddr, p.span) \intersect R = {}
      BY <1>5 DEF Apart, R
    <3>3. \A p \in parts : Extent(p.vaddr, p.span) \subseteq Cells
      <4>1. load.end <= USER_MAP_SIZE
        BY <1>1 DEF LoadFits
      <4> QED
        BY <3>1, <4>1, <1>2, SizesAssumption DEF PartFits, Extent, Cells
    <3> QED
      BY <3>1, <3>2, <3>3
  <2>17. PartsFit'
    <3>1. \A p \in parts : PartFits(p)'
      BY <1>2, <2>5, <2>7, <2>16 DEF PartFits
    <3>2. PartFits(new)'
      BY <1>2, <2>1, <2>5, <2>7, <2>8 DEF PartFits
    <3> QED
      BY <2>6, <3>1, <3>2 DEF PartsFit
  <2>18. DOMAIN imports = {} /\ DOMAIN imports' = {}
    BY <1>1, <1>5 DEF LoadingInv, ImportsHold
  <2>19. PartsLoaded'
    <3>1. Slots = {} /\ Slots' = {}
      BY <2>18 DEF Slots
    <3>2. ASSUME NEW p \in parts, NEW c \in Extent(p.vaddr, p.span) PROVE CellLoaded(p, c)'
      <4>1. CellLoaded(p, c)
        BY <1>1, <3>1, <3>2 DEF LoadingInv, PartsLoaded, Building
      <4>2. c \in Cells /\ c \notin R
        BY <2>16, <3>2
      <4> QED
        BY <2>3, <2>14, <4>1, <4>2 DEF CellLoaded
    <3>3. ASSUME NEW c \in Extent(new.vaddr, new.span) PROVE CellLoaded(new, c)'
      <4>1. c \in R /\ c \in Cells
        <5>1. Extent(new.vaddr, new.span) = R
          BY <2>8 DEF R
        <5> QED
          BY <2>4, <3>3, <5>1
      <4>2. mem'[c] = SegmentCell(s, c) /\ moved'[c] = 0
        BY <2>3, <4>1
      <4> QED
        BY <2>8, <2>14, <4>2 DEF CellLoaded, SegmentCell
    <3> QED
      BY <2>6, <3>1, <3>2, <3>3 DEF PartsLoaded
  <2>20. ImportsHold'
    BY <2>18 DEF ImportsHold
  <2> QED
    BY <2>9, <2>11, <2>12, <2>13, <2>15, <2>17, <2>19, <2>20 DEF LoadingInv
<1> QED
  BY <1>3, <1>4, <1>5 DEF load_segment

\* The memory of a PE image is cleared.
LEMMA pe_headersKeeps ==
  ASSUME LoadingInv, LoadOps = {}, NEW machine, NEW size \in Fields, NEW delta \in {0, 1}, pe_headers(machine, size, delta)
  PROVE  LoadingInv'
<1>1. load.stage = "pe" /\ LoadFits /\ MemTypes /\ load.entries = 0
  BY DEF pe_headers, LoadingInv, LoadFits
<1>2. CASE Fails
  BY <1>2, FailedKeeps
<1>3. CASE /\ ~(size > USER_MEM_SIZE)
           /\ size \in Unmapped => "wide" \in LoadOps
           /\ Write(Extent(0, size), LAMBDA c : Cleared)
           /\ load' = [load EXCEPT !.stage = "sections", !.size = size, !.delta = delta, !.end = size]
           /\ UNCHANGED <<arch, parts, patches, imports>>
  <2>1. size \in 0 .. USER_MAP_SIZE /\ Extent(0, size) = 0 .. size - 1
    BY <1>3, SizesAssumption DEF Unmapped, Extent
  <2>2. /\ load' \in [stage : Stages, size : 0 .. USER_MAP_SIZE, delta : {0, 1}, end : 0 .. USER_MAP_SIZE, thunk : Nat,
                      headers : Nat, entries : Nat, stack : Nat, brk : Nat]
        /\ load'.stage = "sections" /\ load'.end = size /\ load'.size = size /\ load'.entries = 0
    BY <1>1, <1>3, <2>1 DEF LoadFits, Stages
  <2>3. LoadFits'
    BY <1>1, <1>3, <2>2 DEF LoadFits
  <2>4. Top' = size
    BY <2>2 DEF Top
  <2>5. /\ \A c \in Cells : c < size => mem'[c] = Cleared /\ moved'[c] = 0
        /\ \A c \in Cells : c >= size => mem'[c] = mem[c] /\ moved'[c] = moved[c]
        /\ ~stray'
    <3>1. \A c \in Cells : c \in Extent(0, size) <=> c < size
      BY <2>1 DEF Cells
    <3>2. Extent(0, size) \subseteq Mapped
      BY <2>1, SizesAssumption DEF Mapped
    <3>3. ~stray
      BY DEF LoadingInv
    <3>4. \A c \in Cells : /\ mem'[c] = IF c \in Extent(0, size) THEN Cleared ELSE mem[c]
                           /\ moved'[c] = IF c \in Extent(0, size) THEN 0 ELSE moved[c]
      BY <1>3 DEF Write
    <3>5. \A c \in Cells : c >= size => ~ c < size
      BY <2>1 DEF Cells
    <3>6. ~stray'
      BY <1>3, <3>2, <3>3 DEF Write
    <3> QED
      BY <3>1, <3>4, <3>5, <3>6
  <2>6. /\ \A c \in Cells : mem[c] = Fresh /\ moved[c] = 0
        /\ parts' = {} /\ patches' = {} /\ DOMAIN imports' = {}
    BY <1>1, <1>3 DEF LoadingInv, Untouched, MovedOnce, ImportsHold
  <2>7. \A c \in Cells : c < size \/ c >= size
    BY <2>1 DEF Cells
  <2>8. MemTypes' /\ \A c \in Cells : moved'[c] = 0
    <3>1. \A c \in Cells : mem'[c] \in {Fresh, Cleared} /\ moved'[c] = 0
      BY <2>5, <2>6, <2>7
    <3> QED
      BY <3>1 DEF MemTypes, Values
  <2>9. FreshAbove'
    BY <2>4, <2>5, <2>6 DEF FreshAbove
  <2>10. Untouched' /\ GapsCleared'
    BY <2>2, <2>5 DEF Untouched, GapsCleared
  <2>11. MovedOnce' /\ PartsFit' /\ PartsLoaded' /\ ImportsHold'
    BY <2>6, <2>8 DEF MovedOnce, PartsFit, PartsLoaded, ImportsHold
  <2> QED
    BY <2>3, <2>5, <2>8, <2>9, <2>10, <2>11 DEF LoadingInv
<1> QED
  BY <1>2, <1>3 DEF pe_headers

\* A section: what the file does not fill stays as the headers left it.
LEMMA pe_sectionKeeps ==
  ASSUME LoadingInv, NEW s \in Section, pe_section(s)
  PROVE  LoadingInv'
<1> DEFINE span == LargerOf(s.virtual_size, s.raw_size)
           R == Extent(s.virtual_addr, span)
           W == Extent(s.virtual_addr, s.raw_size)
           new == [vaddr |-> s.virtual_addr, span |-> span, offset |-> s.raw_ptr, data |-> s.raw_size]
<1>1. load.stage = "sections" /\ LoadFits /\ MemTypes /\ ~stray
  BY DEF pe_section, LoadingInv
<1>2. s.virtual_size \in Nat /\ s.virtual_addr \in Nat /\ s.raw_size \in Nat /\ s.raw_ptr \in Nat
  BY SizesAssumption DEF Section
<1>3. /\ load.size \in Nat /\ load.size <= USER_MAP_SIZE /\ load.end = load.size /\ load.headers \in Nat /\ load.entries = 0
      /\ load.stage \in Stages
  BY <1>1, SizesAssumption DEF LoadFits
<1>4. span \in Nat /\ s.raw_size <= span
  BY <1>2 DEF LargerOf
<1>5. CASE Fails
  BY <1>5, FailedKeeps
<1>6. CASE /\ ~(s.virtual_addr + span > load.size \/ (s.raw_size > 0 /\ s.raw_ptr + s.raw_size > FileLength))
           /\ Apart(s.virtual_addr, span)
           /\ Write(W, LAMBDA c : Byte(s.raw_ptr + c - s.virtual_addr))
           /\ load' = [load EXCEPT !.headers = @ + 1]
           /\ parts' = parts \union {new}
           /\ UNCHANGED <<arch, patches, imports>>
  <2>1. /\ s.virtual_addr + span <= load.size /\ (s.raw_size > 0 => s.raw_ptr + s.raw_size <= FileLength)
        /\ FileLength \in Nat
    <3>1. FileLength \in Nat
      BY SizesAssumption
    <3> QED
      BY <1>2, <1>3, <1>4, <1>6, <3>1
  <2>2. /\ \A c \in Cells : c \in R <=> s.virtual_addr <= c /\ c < s.virtual_addr + span
        /\ \A c \in Cells : c \in W <=> s.virtual_addr <= c /\ c < s.virtual_addr + s.raw_size
        /\ R \subseteq Cells /\ W \subseteq Mapped
    BY <1>2, <1>3, <1>4, <2>1, SizesAssumption DEF Extent, Mapped, Cells
  <2>3. /\ new \in [vaddr : Nat, span : Nat, offset : Nat, data : Nat] /\ new.vaddr = s.virtual_addr /\ new.span = span
        /\ new.offset = s.raw_ptr /\ new.data = s.raw_size
    BY <1>2, <1>4
  <2>4. Extent(new.vaddr, new.span) = R
    BY <2>3
  <2>5. /\ \A c \in Cells : c \in W => mem'[c] = Byte(s.raw_ptr + c - s.virtual_addr) /\ moved'[c] = 0
        /\ \A c \in Cells : c \notin W => mem'[c] = mem[c] /\ moved'[c] = moved[c]
        /\ ~stray'
    BY <1>1, <1>6, <2>2 DEF Write
  <2>6. \A p \in parts : Extent(p.vaddr, p.span) \intersect R = {}
    BY <1>6 DEF Apart
  <2> HIDE DEF span, R, W, new
  <2>7. /\ load' \in [stage : Stages, size : 0 .. USER_MAP_SIZE, delta : {0, 1}, end : 0 .. USER_MAP_SIZE, thunk : Nat,
                      headers : Nat, entries : Nat, stack : Nat, brk : Nat]
        /\ load'.stage = "sections" /\ load'.end = load.end /\ load'.size = load.size /\ load'.entries = 0
    BY <1>1, <1>3, <1>6 DEF LoadFits
  <2>8. LoadFits'
    BY <1>1, <1>3, <1>6, <2>7 DEF LoadFits
  <2>9. Top = load.size /\ Top' = load.size
    BY <1>1, <1>3, <2>7 DEF Top
  <2>10. MemTypes'
    <3>1. ASSUME NEW c \in Cells, c \in W PROVE Byte(s.raw_ptr + c - s.virtual_addr) \in Values
      <4>1. s.raw_ptr + c - s.virtual_addr \in Extent(0, FileLength)
        BY <1>2, <2>1, <2>2, <3>1 DEF Extent, Cells
      <4> QED
        BY <4>1 DEF Values
    <3> QED
      BY <1>1, <2>5, <3>1 DEF MemTypes
  <2>11. Untouched'
    BY <2>7 DEF Untouched
  <2>12. FreshAbove'
    <3>1. \A c \in Cells : c >= load.size => mem[c] = Fresh
      BY <1>1, <2>9 DEF LoadingInv, FreshAbove, Building
    <3>2. \A c \in Cells : c >= load.size => c \notin W
      BY <1>2, <1>3, <1>4, <2>1, <2>2 DEF Cells
    <3> QED
      BY <2>5, <2>9, <3>1, <3>2 DEF FreshAbove
  <2>13. W \subseteq R
    <3>1. \A c \in Cells : c \in W => c \in R
      BY <1>2, <1>4, <2>2 DEF Cells
    <3> QED
      BY <2>2, <3>1, SizesAssumption DEF Mapped, Cells
  <2>14. \A c \in Cells : c < load.size /\ (\A p \in parts : c \notin Extent(p.vaddr, p.span)) => mem[c] = Cleared
    BY <1>1 DEF LoadingInv, GapsCleared
  <2>15. GapsCleared'
    <3>1. ASSUME NEW c \in Cells, c < load.size, \A p \in parts' : c \notin Extent(p.vaddr, p.span) PROVE mem'[c] = Cleared
      <4>1. c \notin R /\ \A p \in parts : c \notin Extent(p.vaddr, p.span)
        BY <1>6, <2>4, <3>1
      <4> QED
        BY <2>5, <2>13, <2>14, <3>1, <4>1
    <3> QED
      BY <2>7, <3>1 DEF GapsCleared
  <2>16. patches = {} /\ patches' = {} /\ \A c \in Cells : moved[c] = 0 /\ moved'[c] = 0
    BY <1>1, <1>6, <2>5 DEF LoadingInv, MovedOnce
  <2>17. MovedOnce'
    BY <2>16 DEF MovedOnce
  <2>18. \A p \in parts : PartFits(p)
    BY <1>1 DEF LoadingInv, PartsFit, Building
  <2>19. PartsFit'
    <3>1. \A p \in parts : PartFits(p)'
      BY <2>7, <2>18 DEF PartFits
    <3>2. PartFits(new)'
      BY <1>3, <1>4, <2>1, <2>3, <2>7 DEF PartFits
    <3> QED
      BY <1>6, <3>1, <3>2 DEF PartsFit
  <2>20. DOMAIN imports = {} /\ DOMAIN imports' = {}
    BY <1>1, <1>6 DEF LoadingInv, ImportsHold
  <2>21. PartsLoaded'
    <3>1. Slots = {} /\ Slots' = {}
      BY <2>20 DEF Slots
    <3>2. ASSUME NEW p \in parts, NEW c \in Extent(p.vaddr, p.span) PROVE CellLoaded(p, c)'
      <4>1. CellLoaded(p, c)
        BY <1>1, <3>1, <3>2 DEF LoadingInv, PartsLoaded, Building
      <4>2. c \in Cells
        BY <1>3, <2>18, <3>2, SizesAssumption DEF PartFits, Extent, Cells
      <4>3. c \notin W
        BY <2>6, <2>13, <3>2
      <4> QED
        BY <2>5, <2>16, <4>1, <4>2, <4>3 DEF CellLoaded
    <3>3. ASSUME NEW c \in Extent(new.vaddr, new.span) PROVE CellLoaded(new, c)'
      <4>1. c \in R /\ c \in Cells
        BY <2>2, <2>4, <3>3
      <4>2. moved'[c] = IF c \in patches' THEN 1 ELSE 0
        BY <2>16, <4>1
      <4>3. s.virtual_addr <= c /\ c < s.virtual_addr + span
        BY <2>2, <4>1
      <4>4. CASE c < s.virtual_addr + s.raw_size
        <5>1. mem'[c] = Byte(s.raw_ptr + c - s.virtual_addr)
          BY <2>2, <2>5, <4>1, <4>3, <4>4
        <5> QED
          BY <2>3, <4>2, <4>4, <5>1 DEF CellLoaded
      <4>5. CASE ~ c < s.virtual_addr + s.raw_size
        <5>1. c \notin W
          BY <2>2, <4>1, <4>5
        <5>2. c < load.size
          BY <1>2, <1>3, <1>4, <2>1, <4>1, <4>3 DEF Cells
        <5>3. \A p \in parts : c \notin Extent(p.vaddr, p.span)
          BY <2>6, <4>1
        <5>4. mem'[c] = Cleared
          BY <2>5, <2>14, <4>1, <5>1, <5>2, <5>3
        <5> QED
          BY <2>3, <4>2, <4>5, <5>4 DEF CellLoaded
      <4> QED
        BY <4>4, <4>5
    <3> QED
      BY <1>6, <3>1, <3>2, <3>3 DEF PartsLoaded
  <2>22. ImportsHold'
    BY <2>20 DEF ImportsHold
  <2> QED
    BY <2>5, <2>8, <2>10, <2>11, <2>12, <2>15, <2>17, <2>19, <2>21, <2>22 DEF LoadingInv
<1> QED
  BY <1>5, <1>6 DEF pe_section

\* A relocation: its cells have not been moved before.
LEMMA apply_relocationKeeps ==
  ASSUME LoadingInv, NEW rva \in Entries, apply_relocation(rva)
  PROVE  LoadingInv'
<1> DEFINE slot == Extent(rva, SlotSize)
<1>1. load.stage = "relocations" /\ LoadFits /\ MemTypes /\ ~stray
  BY DEF apply_relocation, LoadingInv
<1>2. rva \in Nat /\ SlotSize \in {1, 2}
  BY <1>1, SlotIs, SizesAssumption DEF LoadFits
<1>3. /\ load.size \in Nat /\ load.size <= USER_MAP_SIZE /\ load.end = load.size /\ load.entries \in Nat
      /\ load.stage \in Stages
  BY <1>1, SizesAssumption DEF LoadFits
<1>4. CASE Fails
  BY <1>4, FailedKeeps
<1>5. CASE /\ slot \intersect patches = {}
           /\ ~(rva + SlotSize > load.size)
           /\ moved' = [c \in Cells |-> moved[c] + (IF c \in slot THEN 1 ELSE 0)]
           /\ patches' = patches \union slot
           /\ stray' = (stray \/ ~slot \subseteq Mapped)
           /\ load' = [load EXCEPT !.entries = @ + 1]
           /\ UNCHANGED <<arch, mem, parts, imports>>
  <2>1. slot \subseteq Mapped
    BY <1>2, <1>3, <1>5, SizesAssumption DEF Extent, Mapped
  <2> HIDE DEF slot
  <2>2. ~stray'
    BY <1>1, <1>5, <2>1
  <2>3. /\ load' \in [stage : Stages, size : 0 .. USER_MAP_SIZE, delta : {0, 1}, end : 0 .. USER_MAP_SIZE, thunk : Nat,
                      headers : Nat, entries : Nat, stack : Nat, brk : Nat]
        /\ load'.stage = "relocations" /\ load'.end = load.end /\ load'.size = load.size
    BY <1>1, <1>3, <1>5 DEF LoadFits
  <2>4. LoadFits'
    BY <1>1, <1>3, <1>5, <2>3 DEF LoadFits
  <2>5. Top = load.size /\ Top' = load.size
    BY <1>1, <1>3, <2>3 DEF Top
  <2>6. \A c \in Cells : moved[c] = IF c \in patches THEN 1 ELSE 0
    BY <1>1 DEF LoadingInv, MovedOnce
  <2>7. \A c \in Cells : moved'[c] = IF c \in patches' THEN 1 ELSE 0
    <3> SUFFICES ASSUME NEW c \in Cells PROVE moved'[c] = IF c \in patches' THEN 1 ELSE 0
      OBVIOUS
    <3>1. moved'[c] = moved[c] + (IF c \in slot THEN 1 ELSE 0)
      BY <1>5
    <3>2. CASE c \in slot
      <4>1. c \notin patches /\ c \in patches'
        BY <1>5, <3>2
      <4> QED
        BY <2>6, <3>1, <3>2, <4>1
    <3>3. CASE c \notin slot
      <4>1. c \in patches <=> c \in patches'
        BY <1>5, <3>3
      <4> QED
        BY <2>6, <3>1, <3>3, <4>1
    <3> QED
      BY <3>2, <3>3
  <2>8. MemTypes'
    BY <1>1, <1>5, <2>7 DEF MemTypes
  <2>9. MovedOnce' /\ Untouched' /\ GapsCleared'
    BY <2>3, <2>7 DEF MovedOnce, Untouched, GapsCleared
  <2>10. FreshAbove'
    BY <1>1, <1>5, <2>5 DEF LoadingInv, FreshAbove, Building
  <2>11. PartsFit'
    <3>1. \A p \in parts : PartFits(p)
      BY <1>1 DEF LoadingInv, PartsFit, Building
    <3>2. \A p \in parts : PartFits(p)'
      BY <2>3, <3>1 DEF PartFits
    <3> QED
      BY <1>5, <3>2 DEF PartsFit
  <2>12. DOMAIN imports = {} /\ DOMAIN imports' = {}
    BY <1>1, <1>5 DEF LoadingInv, ImportsHold
  <2>13. PartsLoaded'
    <3>1. Slots = {} /\ Slots' = {}
      BY <2>12 DEF Slots
    <3>2. ASSUME NEW p \in parts, NEW c \in Extent(p.vaddr, p.span) PROVE CellLoaded(p, c)'
      <4>1. CellLoaded(p, c) /\ PartFits(p)
        BY <1>1, <3>1, <3>2 DEF LoadingInv, PartsLoaded, PartsFit, Building
      <4>2. c \in Cells
        BY <1>3, <3>2, <4>1, SizesAssumption DEF PartFits, Extent, Cells
      <4> QED
        BY <1>5, <2>7, <4>1, <4>2 DEF CellLoaded
    <3> QED
      BY <1>5, <3>1, <3>2 DEF PartsLoaded
  <2>14. ImportsHold'
    BY <2>3, <2>12 DEF ImportsHold
  <2> QED
    BY <2>2, <2>4, <2>8, <2>9, <2>10, <2>11, <2>13, <2>14 DEF LoadingInv
<1> QED
  BY <1>4, <1>5 DEF apply_relocation

\* An import: its thunk lies behind the image and the other thunks, its slot is no
\* other import's.
LEMMA resolve_importKeeps ==
  ASSUME LoadingInv, NEW rva \in Entries, resolve_import(rva)
  PROVE  LoadingInv'
<1> DEFINE slot == Extent(rva, SlotSize)
           code == Extent(load.thunk, THUNK_SIZE)
<1>1. load.stage = "imports" /\ LoadFits /\ MemTypes /\ ~stray
  BY DEF resolve_import, LoadingInv
<1>2. rva \in Nat /\ SlotSize \in {1, 2} /\ THUNK_SIZE = SlotSize
  BY <1>1, SlotIs, SizesAssumption DEF LoadFits
<1>3. /\ load.size \in Nat /\ load.size <= USER_MAP_SIZE /\ load.end = load.size /\ load.entries \in Nat
      /\ load.stage \in Stages /\ load.thunk \in Nat /\ load.size <= load.thunk
  BY <1>1, SizesAssumption DEF LoadFits
<1>4. CASE Fails
  BY <1>4, FailedKeeps
<1>5. CASE /\ slot \intersect Slots = {}
           /\ ~(~ThunkFits \/ rva + SlotSize > load.size)
           /\ Write(code \union slot, LAMBDA c : IF c \in code THEN Thunk(load.thunk) ELSE Bound(load.thunk))
           /\ imports' = [r \in DOMAIN imports \union {rva} |-> IF r = rva THEN load.thunk ELSE imports[r]]
           /\ load' = [load EXCEPT !.entries = @ + 1, !.thunk = @ + THUNK_SIZE]
           /\ UNCHANGED <<arch, parts, patches>>
  <2>1. rva + SlotSize <= load.size /\ load.thunk + SlotSize <= USER_MAP_SIZE
    BY <1>2, <1>3, <1>5, SizesAssumption DEF ThunkFits
  <2>2. /\ \A c \in Cells : c \in slot <=> rva <= c /\ c < rva + SlotSize
        /\ \A c \in Cells : c \in code <=> load.thunk <= c /\ c < load.thunk + SlotSize
        /\ slot \subseteq Mapped /\ slot \subseteq Cells /\ code \subseteq Mapped /\ code \subseteq Cells
        /\ load.thunk \in code /\ rva \in slot
    BY <1>2, <1>3, <2>1, SizesAssumption DEF Extent, Mapped, Cells
  <2>3. SlotSize' = SlotSize /\ THUNK_SIZE' = THUNK_SIZE
    BY <1>5, SlotsSame
  <2>4. /\ \A c \in Cells : c \in code => mem'[c] = Thunk(load.thunk) /\ moved'[c] = 0
        /\ \A c \in Cells : c \in slot /\ c \notin code => mem'[c] = Bound(load.thunk) /\ moved'[c] = 0
        /\ \A c \in Cells : c \notin slot /\ c \notin code => mem'[c] = mem[c] /\ moved'[c] = moved[c]
    BY <1>5 DEF Write
  <2>5. ~stray'
    BY <1>1, <1>5, <2>2 DEF Write
  <2>6. rva \notin DOMAIN imports /\ \A r \in DOMAIN imports : Extent(r, SlotSize) \intersect slot = {}
    <3>1. \A r \in DOMAIN imports : Extent(r, SlotSize) \subseteq Slots
      BY DEF Slots
    <3> QED
      BY <1>5, <2>2, <3>1
  <2>7. /\ DOMAIN imports' = DOMAIN imports \union {rva} /\ imports'[rva] = load.thunk
        /\ \A r \in DOMAIN imports : imports'[r] = imports[r]
    BY <1>5, <2>6
  <2>8. Extent(rva, SlotSize') = slot /\ Extent(load.thunk, THUNK_SIZE') = code
    BY <2>3
  <2>9. Slots \subseteq Slots' /\ slot \subseteq Slots'
    BY <2>3, <2>7 DEF Slots
  <2> HIDE DEF slot, code
  <2>10. /\ load' \in [stage : Stages, size : 0 .. USER_MAP_SIZE, delta : {0, 1}, end : 0 .. USER_MAP_SIZE, thunk : Nat,
                       headers : Nat, entries : Nat, stack : Nat, brk : Nat]
         /\ load'.stage = "imports" /\ load'.end = load.end /\ load'.size = load.size
         /\ load'.entries = load.entries + 1 /\ load'.thunk = load.thunk + SlotSize
    <3>1. load.entries + 1 \in Nat /\ load.thunk + SlotSize \in Nat
      BY <1>2, <1>3
    <3>2. load' = [load EXCEPT !.entries = load.entries + 1, !.thunk = load.thunk + SlotSize]
      BY <1>1, <1>2, <1>5 DEF LoadFits
    <3> QED
      BY <1>1, <1>3, <3>1, <3>2 DEF LoadFits
  <2>11. LoadFits'
    BY <1>1, <1>2, <1>3, <1>5, <2>1, <2>10 DEF LoadFits
  <2>12. Top \in Nat /\ Top <= load.thunk /\ load.size <= Top /\ Top' = load.thunk + SlotSize
    BY <1>1, <1>2, <1>3, <2>10 DEF Top, EndOfImports
  <2>13. \A c \in Cells : (c \in slot => c < load.size /\ c \notin code) /\ (c < load.thunk => c \notin code)
    BY <1>2, <1>3, <2>1, <2>2 DEF Cells
  <2>14. MemTypes'
    <3>1. Thunk(load.thunk) \in Values /\ Bound(load.thunk) \in Values
      BY <2>2 DEF Values
    <3>2. ASSUME NEW c \in Cells PROVE mem'[c] \in Values /\ moved'[c] \in {0, 1}
      <4>1. CASE c \in code
        BY <2>4, <3>1, <4>1
      <4>2. CASE c \in slot /\ c \notin code
        BY <2>4, <3>1, <4>2
      <4>3. CASE c \notin slot /\ c \notin code
        BY <1>1, <2>4, <4>3 DEF MemTypes
      <4> QED
        BY <4>1, <4>2, <4>3
    <3> QED
      BY <3>2 DEF MemTypes
  <2>15. Untouched' /\ GapsCleared'
    BY <2>10 DEF Untouched, GapsCleared
  <2>16. MovedOnce'
    BY <2>10 DEF MovedOnce
  <2>17. FreshAbove'
    <3>1. \A c \in Cells : c >= Top => mem[c] = Fresh
      BY <1>1 DEF LoadingInv, FreshAbove, Building
    <3>2. ASSUME NEW c \in Cells, c >= load.thunk + SlotSize PROVE mem'[c] = Fresh
      <4>1. c >= Top /\ c \notin code /\ c \notin slot
        BY <1>2, <1>3, <2>2, <2>12, <2>13, <3>2 DEF Cells
      <4> QED
        BY <2>4, <3>1, <4>1
    <3> QED
      BY <2>12, <3>2 DEF FreshAbove
  <2>18. \A p \in parts : PartFits(p)
    BY <1>1 DEF LoadingInv, PartsFit, Building
  <2>19. PartsFit'
    <3>1. \A p \in parts : PartFits(p)'
      BY <2>10, <2>18 DEF PartFits
    <3> QED
      BY <1>5, <3>1 DEF PartsFit
  <2>20. PartsLoaded'
    <3>1. ASSUME NEW p \in parts, NEW c \in Extent(p.vaddr, p.span), c \notin Slots' PROVE CellLoaded(p, c)'
      <4>1. CellLoaded(p, c)
        BY <1>1, <2>9, <3>1 DEF LoadingInv, PartsLoaded, Building
      <4>2. c \in Cells /\ c < load.thunk
        BY <1>3, <2>18, <3>1, SizesAssumption DEF PartFits, Extent, Cells
      <4>3. c \notin code /\ c \notin slot
        BY <2>9, <2>13, <3>1, <4>2
      <4> QED
        BY <1>5, <2>4, <4>1, <4>2, <4>3 DEF CellLoaded
    <3> QED
      BY <1>5, <3>1 DEF PartsLoaded
  <2>21. \A r \in DOMAIN imports : ImportFits(r) /\ ImportLeads(r)
    BY <1>1 DEF LoadingInv, ImportsHold, Building
  <2>22. ASSUME NEW r \in DOMAIN imports PROVE ImportFits(r)' /\ ImportLeads(r)'
    <3>1. /\ r \in Nat /\ r + SlotSize <= load.size /\ imports[r] \in Nat /\ load.size <= imports[r]
          /\ imports[r] + SlotSize <= load.thunk /\ imports'[r] = imports[r]
      <4>1. /\ r \in Nat /\ r + SlotSize <= load.size /\ imports[r] \in Nat /\ load.size <= imports[r]
            /\ imports[r] + SlotSize <= Top
        BY <1>2, <2>21 DEF ImportFits
      <4>2. imports'[r] = imports[r]
        BY <2>7
      <4>3. imports[r] + SlotSize <= load.thunk
        BY <1>2, <1>3, <2>12, <4>1
      <4> QED
        BY <4>1, <4>2, <4>3
    <3>2. ImportFits(r)'
      BY <1>2, <1>3, <2>3, <2>10, <2>12, <3>1 DEF ImportFits
    <3>3. ASSUME NEW c \in Extent(r, SlotSize) PROVE mem'[c] = Bound(imports[r]) /\ moved'[c] = 0
      <4>1. c \in Cells /\ c < load.thunk
        BY <1>2, <1>3, <3>1, <3>3, SizesAssumption DEF Extent, Cells
      <4>2. c \notin slot /\ c \notin code
        BY <2>6, <2>13, <3>3, <4>1
      <4>3. mem[c] = Bound(imports[r]) /\ moved[c] = 0
        BY <2>21, <3>3 DEF ImportLeads
      <4> QED
        BY <2>4, <4>1, <4>2, <4>3
    <3>4. ASSUME NEW c \in Extent(imports[r], THUNK_SIZE) PROVE mem'[c] = Thunk(imports[r])
      <4>1. c \in Cells /\ c < load.thunk /\ ~ c < load.size
        BY <1>2, <1>3, <2>1, <3>1, <3>4, SizesAssumption DEF Extent, Cells
      <4>2. c \notin slot /\ c \notin code
        BY <2>13, <4>1
      <4>3. mem[c] = Thunk(imports[r])
        BY <2>21, <3>4 DEF ImportLeads
      <4> QED
        BY <2>4, <4>1, <4>2, <4>3
    <3>5. ImportLeads(r)'
      BY <2>3, <3>1, <3>3, <3>4 DEF ImportLeads
    <3> QED
      BY <3>2, <3>5
  <2>23. ImportFits(rva)' /\ ImportLeads(rva)'
    <3>1. ImportFits(rva)'
      BY <1>2, <1>3, <2>1, <2>3, <2>7, <2>10, <2>12 DEF ImportFits
    <3>2. \A c \in slot : mem'[c] = Bound(load.thunk) /\ moved'[c] = 0
      BY <2>2, <2>4, <2>13
    <3>3. \A c \in code : mem'[c] = Thunk(load.thunk)
      BY <2>2, <2>4
    <3>4. ImportLeads(rva)'
      BY <2>7, <2>8, <3>2, <3>3 DEF ImportLeads
    <3> QED
      BY <3>1, <3>4
  <2>24. ImportsHold'
    BY <2>7, <2>10, <2>22, <2>23 DEF ImportsHold
  <2> QED
    BY <2>5, <2>11, <2>14, <2>15, <2>16, <2>17, <2>19, <2>20, <2>24 DEF LoadingInv
<1> QED
  BY <1>4, <1>5 DEF resolve_import

------------------------------------------------------------------------------
(* What every image and every program keep *)

LEMMA LoaderStep == ASSUME LoadingInv, LoadOps = {}, LoadNext PROVE LoadingInv'
<1>1. CASE \E format \in {"ELF", "PE", "other"} : run_image(format)
  BY <1>1, run_imageKeeps
<1>2. CASE \E machine \in Architectures : read_ehdr(machine)
  BY <1>2, read_ehdrKeeps
<1>3. CASE \E machine \in Architectures, size \in Fields, delta \in {0, 1} :
             pe32_headers(machine, size, delta) \/ pe64_headers(machine, size, delta)
  BY <1>3, pe_headersKeeps DEF pe32_headers, pe64_headers
<1>4. CASE \E s \in Segment : elf32_segment(s) \/ elf64_segment(s)
  BY <1>4, load_segmentKeeps DEF elf32_segment, elf64_segment
<1>5. CASE elf_loaded
  BY <1>5, elf_loadedKeeps
<1>6. CASE \E s \in Section : pe32_section(s) \/ pe64_section(s)
  BY <1>6, pe_sectionKeeps DEF pe32_section, pe64_section
<1>7. CASE sections_loaded
  BY <1>7, sections_loadedKeeps
<1>8. CASE \E rva \in Entries : pe32_relocation(rva) \/ pe64_relocation(rva)
  BY <1>8, apply_relocationKeeps DEF pe32_relocation, pe64_relocation
<1>9. CASE \E rva \in Entries : pe32_import(rva) \/ pe64_import(rva)
  BY <1>9, resolve_importKeeps DEF pe32_import, pe64_import
<1>10. CASE \E at \in Cells : brk(at)
  BY <1>10, brkKeeps
<1>11. CASE \E well \in BOOLEAN : relocated(well) \/ imported(well) \/ enter_ring3(well)
  BY <1>11, relocatedKeeps, importedKeeps, enter_ring3Keeps
<1>12. CASE main \/ release_space
  BY <1>12, mainKeeps, release_spaceKeeps
<1> QED
  BY <1>1, <1>2, <1>3, <1>4, <1>5, <1>6, <1>7, <1>8, <1>9, <1>10, <1>11, <1>12 DEF LoadNext

LEMMA LoaderStutters == ASSUME LoadingInv, UNCHANGED loaderVars PROVE LoadingInv'
<1>1. /\ UNCHANGED Image /\ load' = load
  BY DEF loaderVars, Image
<1>2. Slots' = Slots /\ SlotSize' = SlotSize /\ THUNK_SIZE' = THUNK_SIZE
  BY <1>1, SlotsStay
<1>3. LoadFits' /\ MemTypes' /\ ~stray' /\ Untouched' /\ GapsCleared' /\ MovedOnce'
  BY <1>1 DEF LoadingInv, LoadFits, MemTypes, Untouched, GapsCleared, MovedOnce, Image, StackBottom, PageUp
<1>4. Top' = Top
  BY <1>1 DEF Top, EndOfImports
<1>5. FreshAbove' /\ PartsFit' /\ PartsLoaded'
  BY <1>1, <1>2, <1>4 DEF LoadingInv, FreshAbove, PartsFit, PartFits, PartsLoaded, CellLoaded, Image
<1>6. ImportsHold'
  BY <1>1, <1>2, <1>4 DEF LoadingInv, ImportsHold, ImportFits, ImportLeads, Image
<1> QED
  BY <1>3, <1>5, <1>6 DEF LoadingInv

LEMMA LoadingAlways == ASSUME LoadOps = {} PROVE LoadSpec => []LoadingInv
<1>1. LoadingInv /\ [LoadNext]_loaderVars => LoadingInv'
  BY LoaderStep, LoaderStutters
<1> QED
  BY <1>1, LoaderStarts, PTL DEF LoadSpec

\* The calls of a program leave the loader's state alone.
LEMMA CallsAreLoads == CallSpec => LoadSpec
<1>1. CallInit => LoadInit
  BY DEF CallInit
<1>2. ASSUME [CallNext]_<<loaderVars, callVars>> PROVE [LoadNext]_loaderVars
  <2>1. CASE load.stage = "called" /\ ended
    BY <2>1 DEF ended, LoadNext
  <2>2. CASE ~(load.stage = "called" /\ ended) /\ CallNext
    BY <2>2 DEF CallNext
  <2>3. CASE UNCHANGED <<loaderVars, callVars>>
    BY <2>3
  <2> QED
    BY <1>2, <2>1, <2>2, <2>3
<1> QED
  BY <1>1, <1>2, PTL DEF CallSpec, LoadSpec

LEMMA LoadingTypes == ASSUME LoadingInv PROVE LoaderTypeOK
<1>1. load.end \in 0 .. USER_MEM_SIZE
  <2>1. load.end \in 0 .. USER_MAP_SIZE
    BY DEF LoadingInv, LoadFits
  <2> QED
    BY <2>1, SizesAssumption
<1>2. load.stage \in Stages
  BY DEF LoadingInv, LoadFits
<1>3. MemTypes
  BY DEF LoadingInv
<1> QED
  BY <1>1, <1>2, <1>3 DEF LoaderTypeOK, MemTypes, Values, Stages

LEMMA LoadingStack == ASSUME LoadingInv PROVE StackClear
<1> SUFFICES ASSUME Running
             PROVE  /\ Extent(load.stack, USER_STACK_SIZE) \subseteq Mapped
                    /\ load.end <= load.brk /\ load.brk <= load.stack
                    /\ \A c \in Extent(load.stack, USER_STACK_SIZE) : mem[c] = Fresh
  BY DEF StackClear
<1>1. load.stage = "running" /\ LoadFits
  BY DEF Running, LoadingInv
<1>2. /\ load.stack + USER_STACK_SIZE <= USER_MAP_SIZE /\ load.end <= load.brk /\ load.brk <= load.stack
      /\ load.stack \in Nat /\ load.brk \in Nat /\ load.end \in Nat
  BY <1>1, SizesAssumption DEF LoadFits
<1>3. Top = load.end
  BY <1>1 DEF Top
<1>4. Extent(load.stack, USER_STACK_SIZE) \subseteq Mapped
  BY <1>2, SizesAssumption DEF Extent, Mapped
<1>5. ASSUME NEW c \in Extent(load.stack, USER_STACK_SIZE) PROVE mem[c] = Fresh
  <2>1. c \in Cells /\ c >= Top
    BY <1>2, <1>3, <1>5, SizesAssumption DEF Extent, Cells
  <2> QED
    BY <1>1, <2>1 DEF LoadingInv, FreshAbove, Building
<1> QED
  BY <1>2, <1>4, <1>5

LEMMA LoadingLinked == ASSUME LoadingInv PROVE ProgramAsLinked
<1>1. ImageAsLinked
  BY DEF LoadingInv, PartsLoaded, CellLoaded, ImageAsLinked, Running, Building
<1>2. ImportsBound
  <2> SUFFICES ASSUME Running, NEW rva \in DOMAIN imports
               PROVE  /\ \A c \in Extent(rva, SlotSize) : mem[c] = Bound(imports[rva]) /\ moved[c] = 0
                      /\ \A c \in Extent(imports[rva], THUNK_SIZE) :
                           mem[c] = Thunk(imports[rva]) /\ c \in load.size .. load.stack - 1
    BY DEF ImportsBound
  <2>1. load.stage = "running" /\ LoadFits /\ ImportFits(rva) /\ ImportLeads(rva)
    BY DEF Running, LoadingInv, ImportsHold, Building
  <2>2. Top = load.end /\ load.end <= load.stack /\ load.size \in Nat /\ load.end \in Nat /\ load.stack \in Nat
    BY <2>1, SizesAssumption DEF Top, LoadFits
  <2>3. /\ THUNK_SIZE \in {1, 2} /\ imports[rva] \in Nat /\ load.size <= imports[rva]
        /\ imports[rva] + THUNK_SIZE <= load.end
    BY <2>1, <2>2, SlotIs DEF ImportFits, LoadFits
  <2>4. \A c \in Extent(imports[rva], THUNK_SIZE) : c \in load.size .. load.stack - 1
    BY <2>2, <2>3 DEF Extent
  <2> QED
    BY <2>1, <2>4 DEF ImportLeads
<1> QED
  BY <1>1, <1>2 DEF ProgramAsLinked

\* WritesInside: whatever the headers of a file say, the loaders write to nothing but
\* the memory the new process has (load, dll.rs), on a kernel whose checks agree with
\* what it maps (the images of LoadOps are the others).
THEOREM LoadersWriteInside ==
  ASSUME LoadOps = {}
  PROVE  (LoadSpec => []WritesInside) /\ (CallSpec => []WritesInside)
<1>1. LoadingInv => WritesInside
  BY DEF LoadingInv, WritesInside
<1> QED
  BY <1>1, LoadingAlways, CallsAreLoads, PTL

\* LoaderInv: beside the types, the stack, the image and the heap of a program that
\* runs are apart and its own (enter_ring3, brk).
THEOREM ProgramsHaveRoom ==
  ASSUME LoadOps = {}
  PROVE  (LoadSpec => []LoaderInv) /\ (CallSpec => []LoaderInv)
<1>1. LoadingInv => LoaderInv
  BY LoadingTypes, LoadingStack DEF LoaderInv
<1> QED
  BY <1>1, LoadingAlways, CallsAreLoads, PTL

\* ProgramAsLinked: a program that runs has its parts, relocated once, and every
\* import leads to a thunk of its own (load, apply_relocations, resolve_imports).
THEOREM ProgramsAreLinked ==
  ASSUME LoadOps = {}
  PROVE  (LoadSpec => []ProgramAsLinked) /\ (CallSpec => []ProgramAsLinked)
<1>1. LoadingInv => ProgramAsLinked
  BY LoadingLinked
<1> QED
  BY <1>1, LoadingAlways, CallsAreLoads, PTL

------------------------------------------------------------------------------
(* Words *)

LEMMA Widths ==
  /\ Half \in Nat /\ Half >= 16 /\ DwordMod \in Nat /\ DwordMod = Half * Half /\ DwordMod >= 256
  /\ DwordMod \div 2 \in Nat /\ DwordMod \div 2 >= 128 /\ DwordMod \div 2 + DwordMod \div 2 <= DwordMod
  /\ MAX_FDS \in Nat /\ MAX_FDS < DwordMod \div 2 /\ MAX_WINDOWS \in Nat /\ MAX_WINDOWS < DwordMod \div 2
  /\ \A n \in Counts : n \in Nat /\ n < DwordMod \div 2
  /\ \A n \in Delays : n \in Nat /\ n < DwordMod
<1>1. Half \in Nat /\ Half >= 16 /\ DwordMod \in Nat /\ DwordMod = Half * Half
  BY CallsAssumption
<1>2. DwordMod >= 256
  BY <1>1
<1>3. DwordMod \div 2 \in Nat /\ DwordMod \div 2 >= 128 /\ DwordMod \div 2 + DwordMod \div 2 <= DwordMod
  BY <1>1, <1>2
<1>4. MAX_FDS \in 0 .. DwordMod \div 2 - 1 /\ MAX_WINDOWS \in 0 .. DwordMod \div 2 - 1
  BY CallsAssumption
<1>5. \A n \in Counts : n \in 0 .. DwordMod \div 2 - 1
  BY CallsAssumption
<1>6. \A n \in Delays : n \in 0 .. DwordMod - 1
  BY CallsAssumption
<1> QED
  BY <1>1, <1>2, <1>3, <1>4, <1>5, <1>6

LEMMA WordIs ==
  ASSUME arch \in Architectures
  PROVE  WordMod \in Nat /\ WordMod >= DwordMod /\ WordMod \in {DwordMod, DwordMod * DwordMod}
<1>1. DwordMod \in Nat /\ DwordMod >= 1
  BY Widths
<1>2. DwordMod * DwordMod \in Nat /\ DwordMod * DwordMod >= DwordMod
  BY <1>1
<1> QED
  BY <1>1, <1>2 DEF WordMod

LEMMA DivMod ==
  ASSUME NEW h \in Nat \ {0}, NEW x \in Nat, NEW y \in 0 .. h - 1
  PROVE  (x * h + y) \div h = x /\ (x * h + y) % h = y
OBVIOUS

LEMMA Small == ASSUME NEW v \in Nat, NEW d \in Nat \ {0}, v < d PROVE v % d = v
OBVIOUS

LEMMA UpperHalf == ASSUME NEW v \in Nat, NEW d \in Nat \ {0}, v < d, NEW r \in {0, 1} PROVE (v + r * d) % d = v
OBVIOUS

LEMMA InSquare ==
  ASSUME NEW h \in Nat \ {0}, NEW x \in 0 .. h - 1, NEW y \in 0 .. h - 1
  PROVE  x * h + y \in 0 .. h * h - 1
OBVIOUS

\* A number below a DWORD's modulus survives the width of a register and a DWORD.
LEMMA Fits ==
  ASSUME arch \in Architectures, NEW v \in Nat, v < DwordMod
  PROVE  v % DwordMod = v /\ v % WordMod = v /\ v < WordMod
<1>1. WordMod \in Nat \ {0} /\ DwordMod \in Nat \ {0} /\ v < WordMod
  BY WordIs, Widths
<1> QED
  BY <1>1, Small

LEMMA Measures ==
  ASSUME arch \in Architectures, NEW x \in 0 .. Half - 1, NEW y \in 0 .. Half - 1
  PROVE  /\ Pack(x, y) = x * Half + y /\ Pack(x, y) \in 0 .. DwordMod - 1
         /\ Unpack(Pack(x, y)) = <<x, y>>
<1>1. Half \in Nat \ {0} /\ DwordMod = Half * Half /\ x \in Nat
  BY Widths
<1>2. y % Half = y
  BY <1>1, Small
<1>3. x * Half + y \in 0 .. DwordMod - 1
  BY <1>1, InSquare
<1>4. (x * Half + y) % WordMod = x * Half + y
  BY <1>3, Fits, Widths
<1>5. Pack(x, y) = x * Half + y
  BY <1>2, <1>4 DEF Pack
<1>6. (x * Half + y) \div Half = x /\ (x * Half + y) % Half = y
  BY <1>1, DivMod
<1> QED
  BY <1>3, <1>5, <1>6 DEF Unpack

LEMMA FourWords == ASSUME NEW a, NEW b, NEW c, NEW d PROVE <<a, b>> \o <<c, d>> = <<a, b, c, d>>
<1> DEFINE S == {a, b, c, d}
           k == <<a, b>> \o <<c, d>>
<1>1. k \in Seq(S)
  OBVIOUS
<1>2. Len(k) = 4
  OBVIOUS
<1>3. k[1] = a /\ k[2] = b /\ k[3] = c /\ k[4] = d
  OBVIOUS
<1> HIDE DEF S, k
<1>4. k \in [1 .. 4 -> S]
  BY <1>1, <1>2
<1>5. k = <<k[1], k[2], k[3], k[4]>>
  BY <1>4
<1>6. k = <<a, b, c, d>>
  BY <1>3, <1>5
<1> QED
  BY <1>6 DEF k

LEMMA ShapeIs ==
  ASSUME NEW s \in Shapes
  PROVE  /\ s[1] \in 0 .. Half - 1 /\ s[2] \in 0 .. Half - 1 /\ s[3] \in 0 .. Half - 1 /\ s[4] \in 0 .. Half - 1
         /\ s = <<s[1], s[2], s[3], s[4]>>
<1>1. s \in [1 .. 4 -> 0 .. Half - 1]
  BY CallsAssumption
<1>2. s[1] \in 0 .. Half - 1 /\ s[2] \in 0 .. Half - 1 /\ s[3] \in 0 .. Half - 1 /\ s[4] \in 0 .. Half - 1
  BY <1>1
<1>3. s = <<s[1], s[2], s[3], s[4]>>
  BY <1>1
<1> QED
  BY <1>2, <1>3

------------------------------------------------------------------------------
(* What programs ask for *)

Ask(op, args) == [op |-> op, args |-> args]

OneArgument == {"bits", "size", "rect", "key"}
NoArguments == {"flush", "yield", "time", "mouse"}

LEMMA AskedIs ==
  ASSUME NEW op, NEW Args, NEW r \in Request(op, Args)
  PROVE  \E args \in Args : r = Ask(op, args)
<1>1. r.args \in Args /\ r = Ask(op, r.args)
  BY DEF Request, Ask
<1> QED
  BY <1>1

LEMMA Triple ==
  ASSUME NEW A, NEW B, NEW C, NEW t \in A \X B \X C
  PROVE  \E a \in A, b \in B, c \in C : t = <<a, b, c>>
OBVIOUS

LEMMA Couple == ASSUME NEW A, NEW B, NEW t \in A \X B PROVE \E a \in A, b \in B : t = <<a, b>>
OBVIOUS

\* Every request, in its own form.
LEMMA RequestForms ==
  ASSUME NEW r \in Requests
  PROVE  \/ \E op \in {"write", "read"}, h \in Handles, b \in {0, 1}, n \in Counts : r = Ask(op, <<h, b, n>>)
         \/ \E n \in {Present, Absent}, c \in BOOLEAN : r = Ask("open", <<n, c>>)
         \/ \E h \in Handles : r = Ask("close", <<h>>)
         \/ \E ms \in Delays : r = Ask("sleep", <<ms>>)
         \/ \E v \in {0, 3} : r = Ask("exit", <<v>>)
         \/ \E s \in Shapes : r = Ask("window", s)
         \/ \E op \in OneArgument, w \in WindowIds : r = Ask(op, <<w>>)
         \/ \E op \in NoArguments : r = Ask(op, <<>>)
<1> DEFINE W == UNION {Request(op, {<<w>> : w \in WindowIds}) : op \in {"bits", "size", "rect", "key"}}
           N == UNION {Request(op, {<<>>}) : op \in {"flush", "yield", "time", "mouse"}}
<1>1. Requests =
        Request("write", Handles \X {0, 1} \X Counts) \union Request("read", Handles \X {0, 1} \X Counts)
        \union Request("open", {Present, Absent} \X BOOLEAN) \union Request("close", {<<h>> : h \in Handles})
        \union Request("sleep", {<<ms>> : ms \in Delays}) \union Request("exit", {<<0>>, <<3>>})
        \union Request("window", Shapes) \union W \union N
  BY Zenon DEF Requests
<1>2. CASE r \in W
  <2>1. PICK op \in OneArgument : r \in Request(op, {<<w>> : w \in WindowIds})
    BY <1>2, Zenon DEF OneArgument
  <2>2. PICK args \in {<<w>> : w \in WindowIds} : r = Ask(op, args)
    BY <2>1, AskedIs
  <2> QED
    BY <2>2
<1>3. CASE r \in N
  <2>1. PICK op \in NoArguments : r \in Request(op, {<<>>})
    BY <1>3, Zenon DEF NoArguments
  <2>2. PICK args \in {<<>>} : r = Ask(op, args)
    BY <2>1, AskedIs
  <2> QED
    BY <2>2
<1> HIDE DEF W, N
<1>4. CASE \E op \in {"write", "read"} : r \in Request(op, Handles \X {0, 1} \X Counts)
  <2>1. PICK op \in {"write", "read"} : r \in Request(op, Handles \X {0, 1} \X Counts)
    BY <1>4
  <2>2. PICK args \in Handles \X {0, 1} \X Counts : r = Ask(op, args)
    BY <2>1, AskedIs, Zenon
  <2>3. PICK h \in Handles, b \in {0, 1}, n \in Counts : args = <<h, b, n>>
    BY <2>2, Triple
  <2> QED
    BY <2>2, <2>3, Zenon
<1>5. CASE r \in Request("open", {Present, Absent} \X BOOLEAN)
  <2>1. PICK args \in {Present, Absent} \X BOOLEAN : r = Ask("open", args)
    BY <1>5, AskedIs, Zenon
  <2>2. PICK n \in {Present, Absent}, c \in BOOLEAN : args = <<n, c>>
    BY <2>1, Couple
  <2> QED
    BY <2>1, <2>2, Zenon
<1>6. CASE r \in Request("close", {<<h>> : h \in Handles})
  <2>1. PICK args \in {<<h>> : h \in Handles} : r = Ask("close", args)
    BY <1>6, AskedIs
  <2> QED
    BY <2>1
<1>7. CASE r \in Request("sleep", {<<ms>> : ms \in Delays})
  <2>1. PICK args \in {<<ms>> : ms \in Delays} : r = Ask("sleep", args)
    BY <1>7, AskedIs
  <2> QED
    BY <2>1
<1>8. CASE r \in Request("exit", {<<0>>, <<3>>})
  <2>1. PICK args \in {<<0>>, <<3>>} : r = Ask("exit", args)
    BY <1>8, AskedIs
  <2> QED
    BY <2>1
<1>9. CASE r \in Request("window", Shapes)
  <2>1. PICK args \in Shapes : r = Ask("window", args)
    BY <1>9, AskedIs
  <2> QED
    BY <2>1
<1> QED
  BY <1>1, <1>2, <1>3, <1>4, <1>5, <1>6, <1>7, <1>8, <1>9, Zenon

------------------------------------------------------------------------------
(* Every library reaches the kernel call that was meant *)

PosixOps == {"exit", "read", "write", "open", "close", "window", "bits", "size", "flush", "key", "mouse", "yield",
             "rect", "sleep"}

LEMMA OneOpPerNumber ==
  ASSUME NEW a \in DOMAIN PosixNumber, NEW b \in DOMAIN PosixNumber, PosixNumber[a] = PosixNumber[b]
  PROVE  a = b
BY DEF PosixNumber, OnMachine

LEMMA PosixOpIs ==
  ASSUME NEW op \in PosixOps, NEW frame, frame.number = SysNumber[op]
  PROVE  PosixOp(frame.number) = op /\ ~(\A o \in DOMAIN PosixNumber : PosixNumber[o] # frame.number)
<1>1. SysNumber = PosixNumber /\ DOMAIN PosixNumber = PosixOps
  BY DEF SysNumber, PosixNumber, PosixOps
<1>2. PosixOp(SysNumber[op]) \in DOMAIN PosixNumber /\ PosixNumber[PosixOp(SysNumber[op])] = SysNumber[op]
  BY <1>1, Zenon DEF PosixOp
<1> QED
  BY <1>1, <1>2, OneOpPerNumber

LEMMA HandleFits == ASSUME NEW h \in Handles PROVE h \in Nat /\ h < DwordMod
<1>1. h \in 0 .. MAX_FDS /\ MAX_FDS \in Nat
  BY Widths DEF Handles
<1> QED
  BY <1>1, Widths

LEMMA WindowFits == ASSUME NEW w \in WindowIds PROVE w \in Nat /\ w < DwordMod
<1>1. w \in 0 .. MAX_WINDOWS /\ MAX_WINDOWS \in Nat
  BY Widths DEF WindowIds
<1> QED
  BY <1>1, Widths

\* sys.rs and the POSIX subsystem.
LEMMA SysTransfers ==
  ASSUME arch \in Architectures, NEW op \in {"write", "read"}, NEW h \in Handles, NEW b, NEW n
  PROVE  PosixCall(SysStub(Ask(op, <<h, b, n>>))) = KernelCall(op, <<h, b, n>>)
<1> DEFINE frame == SysStub(Ask(op, <<h, b, n>>))
<1>1. frame.number = SysNumber[op] /\ frame.regs = <<h, b, n>>
  BY DEF SysStub, Ask
<1> HIDE DEF frame
<1>2. PosixOp(frame.number) = op /\ ~(\A o \in DOMAIN PosixNumber : PosixNumber[o] # frame.number)
  BY <1>1, PosixOpIs DEF PosixOps
<1>3. PosixCall(frame) = KernelCall(op, <<h % DwordMod, b, n>>)
  BY <1>1, <1>2 DEF PosixCall
<1>4. h % DwordMod = h
  BY HandleFits, Fits
<1> QED
  BY <1>3, <1>4, Zenon DEF frame

LEMMA SysOpens ==
  ASSUME NEW n, NEW c \in BOOLEAN
  PROVE  PosixCall(SysStub(Ask("open", <<n, c>>))) = KernelCall("open", <<n, c>>)
<1> DEFINE frame == SysStub(Ask("open", <<n, c>>))
           flags == IF c THEN 64 ELSE 0
<1>1. frame.number = SysNumber["open"] /\ frame.regs = <<n, flags>>
  BY DEF SysStub, Ask, O_CREAT
<1>2. (flags \div 64) % 2 = 1 <=> c
  OBVIOUS
<1> HIDE DEF frame, flags
<1>3. PosixOp(frame.number) = "open" /\ ~(\A o \in DOMAIN PosixNumber : PosixNumber[o] # frame.number)
  BY <1>1, PosixOpIs DEF PosixOps
<1>4. PosixCall(frame) = KernelCall("open", <<n, (flags \div 64) % 2 = 1>>)
  BY <1>1, <1>3 DEF PosixCall, O_CREAT
<1>5. ((flags \div 64) % 2 = 1) = c
  BY <1>2, Zenon
<1>6. PosixCall(frame) = KernelCall("open", <<n, c>>)
  BY <1>4, <1>5, Zenon
<1> QED
  BY <1>6 DEF frame

LEMMA SysCloses ==
  ASSUME arch \in Architectures, NEW h \in Handles
  PROVE  PosixCall(SysStub(Ask("close", <<h>>))) = KernelCall("close", <<h>>)
<1> DEFINE frame == SysStub(Ask("close", <<h>>))
<1>1. frame.number = SysNumber["close"] /\ frame.regs = <<h>>
  BY DEF SysStub, Ask
<1> HIDE DEF frame
<1>2. PosixOp(frame.number) = "close" /\ ~(\A o \in DOMAIN PosixNumber : PosixNumber[o] # frame.number)
  BY <1>1, PosixOpIs DEF PosixOps
<1>3. PosixCall(frame) = KernelCall("close", <<h % DwordMod>>)
  BY <1>1, <1>2 DEF PosixCall
<1>4. h % DwordMod = h
  BY HandleFits, Fits
<1> QED
  BY <1>3, <1>4, Zenon DEF frame

LEMMA SysExits ==
  ASSUME arch \in Architectures, NEW v \in {0, 3}
  PROVE  PosixCall(SysStub(Ask("exit", <<v>>))) = KernelCall("exit", <<v>>)
<1> DEFINE frame == SysStub(Ask("exit", <<v>>))
<1>1. frame.number = SysNumber["exit"] /\ frame.regs = <<v % WordMod>>
  BY DEF SysStub, Ask
<1> HIDE DEF frame
<1>2. PosixOp(frame.number) = "exit" /\ ~(\A o \in DOMAIN PosixNumber : PosixNumber[o] # frame.number)
  BY <1>1, PosixOpIs DEF PosixOps
<1>3. PosixCall(frame) = KernelCall("exit", <<(v % WordMod) % DwordMod>>)
  BY <1>1, <1>2 DEF PosixCall
<1>4. v % WordMod = v /\ v % DwordMod = v
  BY Widths, Fits
<1> QED
  BY <1>3, <1>4, Zenon DEF frame

LEMMA SysSleeps ==
  ASSUME arch \in Architectures, NEW ms \in Delays
  PROVE  PosixCall(SysStub(Ask("sleep", <<ms>>))) =
           IF ms = 0 THEN KernelCall("yield", <<>>) ELSE KernelCall("sleep", <<Ticks(ms)>>)
<1> DEFINE frame == SysStub(Ask("sleep", <<ms>>))
<1>1. frame.number = SysNumber["sleep"] /\ frame.regs = <<ms>>
  BY DEF SysStub, Ask
<1> HIDE DEF frame
<1>2. PosixOp(frame.number) = "sleep" /\ ~(\A o \in DOMAIN PosixNumber : PosixNumber[o] # frame.number)
  BY <1>1, PosixOpIs DEF PosixOps
<1>3. PosixCall(frame) = IF ms = 0 THEN KernelCall("yield", <<>>) ELSE KernelCall("sleep", <<Ticks(ms % DwordMod)>>)
  BY <1>1, <1>2 DEF PosixCall
<1>4. ms % DwordMod = ms
  BY Widths, Fits
<1> QED
  BY <1>3, <1>4, Zenon DEF frame

LEMMA SysWindows ==
  ASSUME arch \in Architectures, NEW s \in Shapes
  PROVE  PosixCall(SysStub(Ask("window", s))) = KernelCall("window", s)
<1> DEFINE frame == SysStub(Ask("window", s))
           place == Pack(s[1], s[2])
           size == Pack(s[3], s[4])
<1>1. frame.number = SysNumber["window"] /\ frame.regs = <<Title, place, size>>
  BY DEF SysStub, Ask
<1>2. Unpack(place) = <<s[1], s[2]>> /\ Unpack(size) = <<s[3], s[4]>>
  BY ShapeIs, Measures
<1> HIDE DEF frame, place, size
<1>3. PosixOp(frame.number) = "window" /\ ~(\A o \in DOMAIN PosixNumber : PosixNumber[o] # frame.number)
  BY <1>1, PosixOpIs DEF PosixOps
<1>4. PosixCall(frame) = KernelCall("window", Unpack(place) \o Unpack(size))
  BY <1>1, <1>3 DEF PosixCall
<1>5. Unpack(place) \o Unpack(size) = s
  BY <1>2, FourWords, ShapeIs
<1> QED
  BY <1>4, <1>5 DEF frame

LEMMA SysOfWindow ==
  ASSUME NEW op \in OneArgument, NEW w
  PROVE  PosixCall(SysStub(Ask(op, <<w>>))) = KernelCall(op, <<w>>)
<1> DEFINE frame == SysStub(Ask(op, <<w>>))
<1>1. frame.number = SysNumber[op] /\ frame.regs = <<w>>
  BY DEF SysStub, Ask, OneArgument
<1> HIDE DEF frame
<1>2. PosixOp(frame.number) = op /\ ~(\A o \in DOMAIN PosixNumber : PosixNumber[o] # frame.number)
  BY <1>1, PosixOpIs DEF PosixOps, OneArgument
<1>3. PosixCall(frame) = KernelCall(op, <<w>>)
  BY <1>1, <1>2 DEF PosixCall, OneArgument
<1> QED
  BY <1>3 DEF frame

LEMMA SysPlain ==
  ASSUME NEW op \in {"flush", "yield", "mouse"}
  PROVE  PosixCall(SysStub(Ask(op, <<>>))) = KernelCall(IF op = "mouse" THEN "mouse" ELSE "yield", <<>>)
<1> DEFINE frame == SysStub(Ask(op, <<>>))
<1>1. frame.number = SysNumber[op]
  BY DEF SysStub, Ask
<1> HIDE DEF frame
<1>2. PosixOp(frame.number) = op /\ ~(\A o \in DOMAIN PosixNumber : PosixNumber[o] # frame.number)
  BY <1>1, PosixOpIs DEF PosixOps
<1>3. PosixCall(frame) = KernelCall(IF op = "mouse" THEN "mouse" ELSE "yield", <<>>)
  BY <1>1, <1>2 DEF PosixCall
<1> QED
  BY <1>3 DEF frame

LEMMA MeansTransfer ==
  ASSUME NEW op \in {"write", "read", "open", "close", "exit", "window", "bits", "size", "rect", "key", "yield", "time",
                     "mouse"}, NEW args
  PROVE  Meanings(Ask(op, args)) = {KernelCall(op, args)}
BY DEF Meanings, Ask

LEMMA MeansSleep ==
  ASSUME NEW ms
  PROVE  Meanings(Ask("sleep", <<ms>>)) =
           (IF ms = 0 THEN {KernelCall("yield", <<>>)} ELSE {}) \union {KernelCall("sleep", <<Ticks(ms)>>)}
BY DEF Meanings, Ask

LEMMA MeansFlush == Meanings(Ask("flush", <<>>)) = {KernelCall("yield", <<>>)}
BY DEF Meanings, Ask

LEMMA OpOf == ASSUME NEW op, NEW args PROVE Ask(op, args).op = op /\ Ask(op, args).args = args
BY DEF Ask

LEMMA SysMeans ==
  ASSUME arch \in Architectures, NEW req \in Requests, req.op \in Offers["sys"]
  PROVE  PosixCall(SysStub(req)) \in Meanings(req)
<1>1. CASE \E op \in {"write", "read"}, h \in Handles, b \in {0, 1}, n \in Counts : req = Ask(op, <<h, b, n>>)
  BY <1>1, SysTransfers, MeansTransfer
<1>2. CASE \E n \in {Present, Absent}, c \in BOOLEAN : req = Ask("open", <<n, c>>)
  <2>1. PICK n \in {Present, Absent}, c \in BOOLEAN : req = Ask("open", <<n, c>>)
    BY <1>2, Zenon
  <2>2. Meanings(Ask("open", <<n, c>>)) = {KernelCall("open", <<n, c>>)}
    BY MeansTransfer
  <2>3. PosixCall(SysStub(Ask("open", <<n, c>>))) = KernelCall("open", <<n, c>>)
    BY SysOpens
  <2> QED
    BY <2>1, <2>2, <2>3, Zenon
<1>3. CASE \E h \in Handles : req = Ask("close", <<h>>)
  BY <1>3, SysCloses, MeansTransfer
<1>4. CASE \E ms \in Delays : req = Ask("sleep", <<ms>>)
  <2>1. PICK ms \in Delays : req = Ask("sleep", <<ms>>)
    BY <1>4
  <2> QED
    BY <2>1, SysSleeps, MeansSleep
<1>5. CASE \E v \in {0, 3} : req = Ask("exit", <<v>>)
  BY <1>5, SysExits, MeansTransfer
<1>6. CASE \E s \in Shapes : req = Ask("window", s)
  BY <1>6, SysWindows, MeansTransfer
<1>7. CASE \E op \in OneArgument, w \in WindowIds : req = Ask(op, <<w>>)
  BY <1>7, SysOfWindow, MeansTransfer DEF OneArgument
<1>8. CASE \E op \in NoArguments : req = Ask(op, <<>>)
  <2>1. PICK op \in {"flush", "yield", "mouse"} : req = Ask(op, <<>>)
    BY <1>8, OpOf DEF NoArguments, Offers
  <2>2. CASE op = "flush"
    BY <2>1, <2>2, SysPlain, MeansFlush
  <2>3. CASE op # "flush"
    BY <2>1, <2>3, SysPlain, MeansTransfer
  <2> QED
    BY <2>2, <2>3
<1> QED
  BY RequestForms, <1>1, <1>2, <1>3, <1>4, <1>5, <1>6, <1>7, <1>8

\* nt.rs, win32.rs and the NT subsystem.
LEMMA NtTransfers ==
  ASSUME arch \in Architectures, NEW op \in {"write", "read"}, NEW h \in Handles, NEW b, NEW n
  PROVE  NtCall(NtStub(Ask(op, <<h, b, n>>))) = KernelCall(op, <<h, b, n>>)
<1> DEFINE frame == NtStub(Ask(op, <<h, b, n>>))
<1>1. frame.number = (IF op = "write" THEN 4097 ELSE 4099) /\ frame.regs = <<h, b, n>>
  BY DEF NtStub, Ask, NtNumber
<1> HIDE DEF frame
<1>2. NtCall(frame) = KernelCall(op, <<h % DwordMod, b, n>>)
  BY <1>1 DEF NtCall, NtRegisterCall
<1>3. h % DwordMod = h
  BY HandleFits, Fits
<1> QED
  BY <1>2, <1>3, Zenon DEF frame

LEMMA NtOpens ==
  ASSUME NEW n, NEW c \in BOOLEAN
  PROVE  NtCall(NtStub(Ask("open", <<n, c>>))) = KernelCall("open", <<n, c>>)
<1> DEFINE frame == NtStub(Ask("open", <<n, c>>))
           disposition == IF c THEN 2 ELSE 1
<1>1. frame.number = 4098 /\ frame.regs = <<n, disposition>>
  BY DEF NtStub, Ask, NtNumber
<1>2. disposition = 2 <=> c
  OBVIOUS
<1> HIDE DEF frame, disposition
<1>3. NtCall(frame) = KernelCall("open", <<n, disposition = 2>>)
  BY <1>1 DEF NtCall, NtRegisterCall
<1>4. (disposition = 2) = c
  BY <1>2, Zenon
<1>5. NtCall(frame) = KernelCall("open", <<n, c>>)
  BY <1>3, <1>4, Zenon
<1> QED
  BY <1>5 DEF frame

LEMMA NtCloses ==
  ASSUME arch \in Architectures, NEW h \in Handles
  PROVE  NtCall(NtStub(Ask("close", <<h>>))) = KernelCall("close", <<h>>)
<1> DEFINE frame == NtStub(Ask("close", <<h>>))
<1>1. frame.number = 4100 /\ frame.regs = <<h>>
  BY DEF NtStub, Ask, NtNumber
<1> HIDE DEF frame
<1>2. NtCall(frame) = KernelCall("close", <<h % DwordMod>>)
  BY <1>1 DEF NtCall, NtRegisterCall
<1>3. h % DwordMod = h
  BY HandleFits, Fits
<1> QED
  BY <1>2, <1>3, Zenon DEF frame

LEMMA NtExits ==
  ASSUME arch \in Architectures, NEW v \in {0, 3}
  PROVE  NtCall(NtStub(Ask("exit", <<v>>))) = KernelCall("exit", <<v>>)
<1> DEFINE frame == NtStub(Ask("exit", <<v>>))
<1>1. frame.number = 4096 /\ frame.regs = <<0, v>>
  BY DEF NtStub, Ask, NtNumber
<1> HIDE DEF frame
<1>2. NtCall(frame) = KernelCall("exit", <<v % DwordMod>>)
  BY <1>1 DEF NtCall, NtRegisterCall
<1>3. v % DwordMod = v
  BY Widths, Fits
<1> QED
  BY <1>2, <1>3, Zenon DEF frame

LEMMA NtSleeps ==
  ASSUME arch \in Architectures, NEW ms \in Delays
  PROVE  NtCall(NtStub(Ask("sleep", <<ms>>))) = KernelCall("sleep", <<Ticks(ms)>>)
<1> DEFINE frame == NtStub(Ask("sleep", <<ms>>))
<1>1. frame.number = 4101 /\ frame.regs = <<0, ms>>
  BY DEF NtStub, Ask, NtNumber
<1> HIDE DEF frame
<1>2. NtCall(frame) = KernelCall("sleep", <<Ticks(ms % DwordMod)>>)
  BY <1>1 DEF NtCall, NtRegisterCall
<1>3. ms % DwordMod = ms
  BY Widths, Fits
<1> QED
  BY <1>2, <1>3, Zenon DEF frame

LEMMA NtWindows ==
  ASSUME arch \in Architectures, NEW s \in Shapes
  PROVE  NtCall(NtStub(Ask("window", s))) = KernelCall("window", s)
<1> DEFINE frame == NtStub(Ask("window", s))
           place == Pack(s[1], s[2])
           size == Pack(s[3], s[4])
<1>1. frame.number = 8192 /\ frame.regs = <<Title, place, size>>
  BY DEF NtStub, Ask, NtNumber
<1>2. Unpack(place) = <<s[1], s[2]>> /\ Unpack(size) = <<s[3], s[4]>>
  BY ShapeIs, Measures
<1> HIDE DEF frame, place, size
<1>3. NtCall(frame) = KernelCall("window", Unpack(place) \o Unpack(size))
  BY <1>1 DEF NtCall, NtRegisterCall
<1>4. Unpack(place) \o Unpack(size) = s
  BY <1>2, FourWords, ShapeIs
<1> QED
  BY <1>3, <1>4 DEF frame

\* A service by its number and its registers.
LEMMA NtService ==
  ASSUME NEW frame, NEW w, frame.regs = <<w>>
  PROVE  /\ frame.number = 8193 => NtCall(frame) = KernelCall("bits", <<w>>)
         /\ frame.number = 8194 => NtCall(frame) = KernelCall("size", <<w>>)
         /\ frame.number = 8195 => NtCall(frame) = KernelCall("rect", <<w>>)
         /\ frame.number = 8197 => NtCall(frame) = KernelCall("key", <<w>>)
<1>1. ASSUME frame.number = 8193 PROVE NtCall(frame) = KernelCall("bits", <<w>>)
  BY <1>1 DEF NtCall, NtRegisterCall
<1>2. ASSUME frame.number = 8194 PROVE NtCall(frame) = KernelCall("size", <<w>>)
  BY <1>2 DEF NtCall, NtRegisterCall
<1>3. ASSUME frame.number = 8195 PROVE NtCall(frame) = KernelCall("rect", <<w>>)
  BY <1>3 DEF NtCall, NtRegisterCall
<1>4. ASSUME frame.number = 8197 PROVE NtCall(frame) = KernelCall("key", <<w>>)
  BY <1>4 DEF NtCall, NtRegisterCall
<1> QED
  BY <1>1, <1>2, <1>3, <1>4

LEMMA NtOfWindow ==
  ASSUME NEW op \in OneArgument, NEW w
  PROVE  NtCall(NtStub(Ask(op, <<w>>))) = KernelCall(op, <<w>>)
<1> DEFINE frame == NtStub(Ask(op, <<w>>))
<1>1. /\ frame.regs = <<w>>
      /\ op = "bits" => frame.number = 8193
      /\ op = "size" => frame.number = 8194
      /\ op = "rect" => frame.number = 8195
      /\ op = "key" => frame.number = 8197
  BY DEF NtStub, Ask, NtNumber, OneArgument
<1> HIDE DEF frame
<1>2. NtCall(frame) = KernelCall(op, <<w>>)
  BY <1>1, NtService DEF OneArgument
<1> QED
  BY <1>2 DEF frame

LEMMA NtPlainService ==
  ASSUME NEW frame, frame.regs = <<>>
  PROVE  /\ frame.number = 8196 => NtCall(frame) = KernelCall("yield", <<>>)
         /\ frame.number = 4103 => NtCall(frame) = KernelCall("yield", <<>>)
         /\ frame.number = 4102 => NtCall(frame) = KernelCall("time", <<>>)
         /\ frame.number = 8198 => NtCall(frame) = KernelCall("mouse", <<>>)
<1>1. ASSUME frame.number = 8196 PROVE NtCall(frame) = KernelCall("yield", <<>>)
  BY <1>1 DEF NtCall, NtRegisterCall
<1>2. ASSUME frame.number = 4103 PROVE NtCall(frame) = KernelCall("yield", <<>>)
  BY <1>2 DEF NtCall, NtRegisterCall
<1>3. ASSUME frame.number = 4102 PROVE NtCall(frame) = KernelCall("time", <<>>)
  BY <1>3 DEF NtCall, NtRegisterCall
<1>4. ASSUME frame.number = 8198 PROVE NtCall(frame) = KernelCall("mouse", <<>>)
  BY <1>4 DEF NtCall, NtRegisterCall
<1> QED
  BY <1>1, <1>2, <1>3, <1>4

LEMMA NtPlain ==
  ASSUME NEW op \in NoArguments
  PROVE  NtCall(NtStub(Ask(op, <<>>))) = KernelCall(IF op \in {"time", "mouse"} THEN op ELSE "yield", <<>>)
<1> DEFINE frame == NtStub(Ask(op, <<>>))
<1>1. /\ frame.regs = <<>>
      /\ op = "flush" => frame.number = 8196
      /\ op = "yield" => frame.number = 4103
      /\ op = "time" => frame.number = 4102
      /\ op = "mouse" => frame.number = 8198
  BY DEF NtStub, Ask, NtNumber, NoArguments
<1> HIDE DEF frame
<1>2. NtCall(frame) = KernelCall(IF op \in {"time", "mouse"} THEN op ELSE "yield", <<>>)
  BY <1>1, NtPlainService DEF NoArguments
<1> QED
  BY <1>2 DEF frame

LEMMA NtMeans ==
  ASSUME arch \in Architectures, NEW req \in Requests
  PROVE  NtCall(NtStub(req)) \in Meanings(req)
<1>1. CASE \E op \in {"write", "read"}, h \in Handles, b \in {0, 1}, n \in Counts : req = Ask(op, <<h, b, n>>)
  BY <1>1, NtTransfers, MeansTransfer
<1>2. CASE \E n \in {Present, Absent}, c \in BOOLEAN : req = Ask("open", <<n, c>>)
  <2>1. PICK n \in {Present, Absent}, c \in BOOLEAN : req = Ask("open", <<n, c>>)
    BY <1>2, Zenon
  <2>2. Meanings(Ask("open", <<n, c>>)) = {KernelCall("open", <<n, c>>)}
    BY MeansTransfer
  <2>3. NtCall(NtStub(Ask("open", <<n, c>>))) = KernelCall("open", <<n, c>>)
    BY NtOpens
  <2> QED
    BY <2>1, <2>2, <2>3, Zenon
<1>3. CASE \E h \in Handles : req = Ask("close", <<h>>)
  BY <1>3, NtCloses, MeansTransfer
<1>4. CASE \E ms \in Delays : req = Ask("sleep", <<ms>>)
  <2>1. PICK ms \in Delays : req = Ask("sleep", <<ms>>)
    BY <1>4
  <2> QED
    BY <2>1, NtSleeps, MeansSleep
<1>5. CASE \E v \in {0, 3} : req = Ask("exit", <<v>>)
  BY <1>5, NtExits, MeansTransfer
<1>6. CASE \E s \in Shapes : req = Ask("window", s)
  BY <1>6, NtWindows, MeansTransfer
<1>7. CASE \E op \in OneArgument, w \in WindowIds : req = Ask(op, <<w>>)
  BY <1>7, NtOfWindow, MeansTransfer DEF OneArgument
<1>8. CASE \E op \in NoArguments : req = Ask(op, <<>>)
  <2>1. PICK op \in NoArguments : req = Ask(op, <<>>)
    BY <1>8
  <2>2. CASE op = "flush"
    BY <2>1, <2>2, NtPlain, MeansFlush
  <2>3. CASE op # "flush"
    BY <2>1, <2>3, NtPlain, MeansTransfer DEF NoArguments
  <2> QED
    BY <2>2, <2>3
<1> QED
  BY RequestForms, <1>1, <1>2, <1>3, <1>4, <1>5, <1>6, <1>7, <1>8

\* winapi.rs, the thunks of dll.rs and the dispatcher of Win32.
LEMMA ExportsNamed ==
  ASSUME NEW e \in DLLS
  PROVE  resolve(e.dll, e.name) = e
<1>1. \A f \in DLLS : f.name = e.name => f = e
  BY DEF DLLS, Export
<1> QED
  BY <1>1, Zenon DEF resolve

LEMMA ImportedTick == resolve_ordinal("KERNEL32", 3) = Export("KERNEL32", "GetTickCount", 3, 12290, 0)
<1> DEFINE e == Export("KERNEL32", "GetTickCount", 3, 12290, 0)
<1>1. e \in DLLS
  BY DEF DLLS
<1>2. e.dll = "KERNEL32" /\ e.ordinal = 3
  BY DEF Export
<1>3. \A f \in DLLS : f.dll = "KERNEL32" /\ f.ordinal = 3 => f = e
  BY DEF DLLS, Export
<1> HIDE DEF e
<1>4. resolve_ordinal("KERNEL32", 3) = e
  BY <1>1, <1>2, <1>3, Zenon DEF resolve_ordinal
<1> QED
  BY <1>4 DEF e

Services ==
  [exit |-> <<12288, 1>>, sleep |-> <<12289, 1>>, time |-> <<12290, 0>>, close |-> <<12291, 1>>, write |-> <<12292, 5>>,
   open |-> <<12293, 7>>, read |-> <<12294, 5>>, window |-> <<12304, 5>>, bits |-> <<12305, 1>>, size |-> <<12306, 1>>,
   rect |-> <<12307, 1>>, flush |-> <<12308, 1>>, key |-> <<12309, 1>>, mouse |-> <<12310, 0>>]

LEMMA ResolvedIs ==
  ASSUME NEW dll, NEW name, NEW ordinal, NEW service, NEW slots, Export(dll, name, ordinal, service, slots) \in DLLS
  PROVE  resolve(dll, name) = Export(dll, name, ordinal, service, slots)
<1> DEFINE e == Export(dll, name, ordinal, service, slots)
<1>1. e.dll = dll /\ e.name = name
  BY DEF Export
<1> HIDE DEF e
<1>2. e \in DLLS
  BY DEF e
<1>3. resolve(dll, name) = e
  BY <1>1, <1>2, ExportsNamed
<1> QED
  BY <1>3 DEF e

LEMMA ImportedIs ==
  ASSUME NEW op \in DOMAIN Services
  PROVE  Imported[op].service = Services[op][1] /\ Imported[op].stack_bytes = 4 * Services[op][2]
<1> DEFINE K(name, ordinal, service, slots) == Export("KERNEL32", name, ordinal, service, slots)
           G(name, ordinal, service, slots) == Export("TCMKGUI", name, ordinal, service, slots)
<1>1. /\ K("ExitProcess", 1, 12288, 1) \in DLLS /\ K("Sleep", 2, 12289, 1) \in DLLS
      /\ K("CloseHandle", 4, 12291, 1) \in DLLS /\ K("WriteConsoleA", 5, 12292, 5) \in DLLS
      /\ K("CreateFileA", 6, 12293, 7) \in DLLS /\ K("ReadFile", 7, 12294, 5) \in DLLS
      /\ G("TcmkCreateWindow", 1, 12304, 5) \in DLLS /\ G("TcmkGetWindowBits", 2, 12305, 1) \in DLLS
      /\ G("TcmkGetClientRect", 3, 12306, 1) \in DLLS /\ G("TcmkGetWindowRect", 4, 12307, 1) \in DLLS
      /\ G("TcmkUpdateWindow", 5, 12308, 1) \in DLLS /\ G("TcmkGetMessage", 6, 12309, 1) \in DLLS
      /\ G("TcmkGetCursorPos", 7, 12310, 0) \in DLLS
  BY DEF DLLS
<1>2. /\ resolve("KERNEL32", "ExitProcess") = K("ExitProcess", 1, 12288, 1)
      /\ resolve("KERNEL32", "Sleep") = K("Sleep", 2, 12289, 1)
      /\ resolve("KERNEL32", "CloseHandle") = K("CloseHandle", 4, 12291, 1)
      /\ resolve("KERNEL32", "WriteConsoleA") = K("WriteConsoleA", 5, 12292, 5)
      /\ resolve("KERNEL32", "CreateFileA") = K("CreateFileA", 6, 12293, 7)
      /\ resolve("KERNEL32", "ReadFile") = K("ReadFile", 7, 12294, 5)
  BY <1>1, ResolvedIs
<1>3. /\ resolve("TCMKGUI", "TcmkCreateWindow") = G("TcmkCreateWindow", 1, 12304, 5)
      /\ resolve("TCMKGUI", "TcmkGetWindowBits") = G("TcmkGetWindowBits", 2, 12305, 1)
      /\ resolve("TCMKGUI", "TcmkGetClientRect") = G("TcmkGetClientRect", 3, 12306, 1)
      /\ resolve("TCMKGUI", "TcmkGetWindowRect") = G("TcmkGetWindowRect", 4, 12307, 1)
      /\ resolve("TCMKGUI", "TcmkUpdateWindow") = G("TcmkUpdateWindow", 5, 12308, 1)
      /\ resolve("TCMKGUI", "TcmkGetMessage") = G("TcmkGetMessage", 6, 12309, 1)
      /\ resolve("TCMKGUI", "TcmkGetCursorPos") = G("TcmkGetCursorPos", 7, 12310, 0)
  BY <1>1, ResolvedIs
<1>4. Imported =
        [exit |-> K("ExitProcess", 1, 12288, 1), sleep |-> K("Sleep", 2, 12289, 1),
         time |-> K("GetTickCount", 3, 12290, 0), close |-> K("CloseHandle", 4, 12291, 1),
         write |-> K("WriteConsoleA", 5, 12292, 5), open |-> K("CreateFileA", 6, 12293, 7),
         read |-> K("ReadFile", 7, 12294, 5), window |-> G("TcmkCreateWindow", 1, 12304, 5),
         bits |-> G("TcmkGetWindowBits", 2, 12305, 1), size |-> G("TcmkGetClientRect", 3, 12306, 1),
         rect |-> G("TcmkGetWindowRect", 4, 12307, 1), flush |-> G("TcmkUpdateWindow", 5, 12308, 1),
         key |-> G("TcmkGetMessage", 6, 12309, 1), mouse |-> G("TcmkGetCursorPos", 7, 12310, 0)]
  BY <1>2, <1>3, ImportedTick DEF Imported
<1> HIDE DEF K, G
<1>5. \A name, ordinal, service, slots :
        /\ K(name, ordinal, service, slots).service = service /\ G(name, ordinal, service, slots).service = service
        /\ K(name, ordinal, service, slots).stack_bytes = 4 * slots
        /\ G(name, ordinal, service, slots).stack_bytes = 4 * slots
  <2>1. \A name, ordinal, service, slots :
          K(name, ordinal, service, slots).service = service /\ K(name, ordinal, service, slots).stack_bytes = 4 * slots
    BY DEF K, Export
  <2>2. \A name, ordinal, service, slots :
          G(name, ordinal, service, slots).service = service /\ G(name, ordinal, service, slots).stack_bytes = 4 * slots
    BY DEF G, Export
  <2> QED
    BY <2>1, <2>2
<1> QED
  BY <1>4, <1>5 DEF Services

\* The thunk hands over what was pushed, on either machine.
LEMMA BlockIs ==
  ASSUME NEW req, NEW rest, NEW pushed, pushed = Pushed(req, rest)
  PROVE  ThunkStub(req, rest) =
           [number |-> Imported[req.op].service, regs |-> <<>>,
            block |-> IF arch = "i386" THEN pushed
                      ELSE (IF Len(pushed) >= 4 THEN SubSeq(pushed, 1, 4) ELSE pushed) \o SubSeq(pushed, 5, Len(pushed))]
BY Zenon DEF ThunkStub

LEMMA FiveWords ==
  ASSUME NEW a, NEW b, NEW c, NEW d, NEW e, NEW s, s = <<a, b, c, d, e>>, NEW block,
         block = IF arch = "i386" THEN s ELSE (IF Len(s) >= 4 THEN SubSeq(s, 1, 4) ELSE s) \o SubSeq(s, 5, Len(s))
  PROVE  block[1] = a /\ block[2] = b /\ block[3] = c /\ block[4] = d /\ block[5] = e
OBVIOUS

LEMMA SevenWords ==
  ASSUME NEW a, NEW b, NEW c, NEW d, NEW e, NEW f, NEW g, NEW s, s = <<a, b, c, d, e, f, g>>, NEW block,
         block = IF arch = "i386" THEN s ELSE (IF Len(s) >= 4 THEN SubSeq(s, 1, 4) ELSE s) \o SubSeq(s, 5, Len(s))
  PROVE  block[1] = a /\ block[5] = e
OBVIOUS

LEMMA OneWord ==
  ASSUME NEW a, NEW s, s = <<a>>, NEW block,
         block = IF arch = "i386" THEN s ELSE (IF Len(s) >= 4 THEN SubSeq(s, 1, 4) ELSE s) \o SubSeq(s, 5, Len(s))
  PROVE  block[1] = a
OBVIOUS

\* What was in the upper half of a slot makes no difference.
LEMMA DwordBack ==
  ASSUME arch \in Architectures, NEW rest \in {0, 1}, NEW v \in Nat, v < DwordMod
  PROVE  Dword(v, rest) % DwordMod = v
<1>1. v % DwordMod = v
  BY Fits
<1>2. (v + rest * DwordMod) % DwordMod = v
  BY Widths, UpperHalf
<1> QED
  BY <1>1, <1>2 DEF Dword

LEMMA Win32Transfer ==
  ASSUME NEW frame, NEW block, block = frame.block
  PROVE  /\ frame.number = 12292 => NtCall(frame) = KernelCall("write", <<block[1] % DwordMod, block[2], block[3] % DwordMod>>)
         /\ frame.number = 12294 => NtCall(frame) = KernelCall("read", <<block[1] % DwordMod, block[2], block[3] % DwordMod>>)
<1>1. ASSUME frame.number = 12292
      PROVE  NtCall(frame) = KernelCall("write", <<block[1] % DwordMod, block[2], block[3] % DwordMod>>)
  BY <1>1 DEF NtCall, Win32Call, DwordOf
<1>2. ASSUME frame.number = 12294
      PROVE  NtCall(frame) = KernelCall("read", <<block[1] % DwordMod, block[2], block[3] % DwordMod>>)
  BY <1>2 DEF NtCall, Win32Call, DwordOf
<1> QED
  BY <1>1, <1>2

LEMMA Win32Open ==
  ASSUME NEW frame, NEW block, block = frame.block, frame.number = 12293
  PROVE  NtCall(frame) = KernelCall("open", <<block[1], block[5] % DwordMod \in {1, 2, 4}>>)
BY DEF NtCall, Win32Call, DwordOf

LEMMA Win32Window ==
  ASSUME NEW frame, NEW block, block = frame.block, frame.number = 12304
  PROVE  NtCall(frame) = KernelCall("window", <<block[2] % DwordMod, block[3] % DwordMod, block[4] % DwordMod, block[5] % DwordMod>>)
BY DEF NtCall, Win32Call, DwordOf

LEMMA Win32Sleep ==
  ASSUME NEW frame, NEW block, block = frame.block, frame.number = 12289
  PROVE  NtCall(frame) = IF block[1] % DwordMod = 0 THEN KernelCall("yield", <<>>)
                         ELSE KernelCall("sleep", <<Ticks(block[1] % DwordMod)>>)
BY DEF NtCall, Win32Call, DwordOf

Win32Op(op) == op \in {"exit", "close", "bits", "size", "rect", "key"}

LEMMA Win32One ==
  ASSUME NEW frame, NEW block, block = frame.block, NEW op, Win32Op(op), frame.number = Services[op][1]
  PROVE  NtCall(frame) = KernelCall(op, <<block[1] % DwordMod>>)
<1>1. ASSUME frame.number = 12288
      PROVE  NtCall(frame) = KernelCall("exit", <<block[1] % DwordMod>>)
  BY <1>1 DEF NtCall, Win32Call, DwordOf
<1>2. ASSUME frame.number = 12291
      PROVE  NtCall(frame) = KernelCall("close", <<block[1] % DwordMod>>)
  BY <1>2 DEF NtCall, Win32Call, DwordOf
<1>3. ASSUME frame.number = 12305
      PROVE  NtCall(frame) = KernelCall("bits", <<block[1] % DwordMod>>)
  BY <1>3 DEF NtCall, Win32Call, DwordOf
<1>4. ASSUME frame.number = 12306
      PROVE  NtCall(frame) = KernelCall("size", <<block[1] % DwordMod>>)
  BY <1>4 DEF NtCall, Win32Call, DwordOf
<1>5. ASSUME frame.number = 12307
      PROVE  NtCall(frame) = KernelCall("rect", <<block[1] % DwordMod>>)
  BY <1>5 DEF NtCall, Win32Call, DwordOf
<1>6. ASSUME frame.number = 12309
      PROVE  NtCall(frame) = KernelCall("key", <<block[1] % DwordMod>>)
  BY <1>6 DEF NtCall, Win32Call, DwordOf
<1>7. /\ Services["exit"][1] = 12288 /\ Services["close"][1] = 12291 /\ Services["bits"][1] = 12305
      /\ Services["size"][1] = 12306 /\ Services["rect"][1] = 12307 /\ Services["key"][1] = 12309
  BY DEF Services
<1>8. op = "exit" \/ op = "close" \/ op = "bits" \/ op = "size" \/ op = "rect" \/ op = "key"
  BY DEF Win32Op
<1>9. CASE op = "exit"
  <2>1. frame.number = Services["exit"][1]
    BY <1>9, Zenon
  <2>2. NtCall(frame) = KernelCall("exit", <<block[1] % DwordMod>>)
    BY <2>1, <1>7, <1>1
  <2> QED
    BY <2>2, <1>9, Zenon
<1>10. CASE op = "close"
  <2>1. frame.number = Services["close"][1]
    BY <1>10, Zenon
  <2>2. NtCall(frame) = KernelCall("close", <<block[1] % DwordMod>>)
    BY <2>1, <1>7, <1>2
  <2> QED
    BY <2>2, <1>10, Zenon
<1>11. CASE op = "bits"
  <2>1. frame.number = Services["bits"][1]
    BY <1>11, Zenon
  <2>2. NtCall(frame) = KernelCall("bits", <<block[1] % DwordMod>>)
    BY <2>1, <1>7, <1>3
  <2> QED
    BY <2>2, <1>11, Zenon
<1>12. CASE op = "size"
  <2>1. frame.number = Services["size"][1]
    BY <1>12, Zenon
  <2>2. NtCall(frame) = KernelCall("size", <<block[1] % DwordMod>>)
    BY <2>1, <1>7, <1>4
  <2> QED
    BY <2>2, <1>12, Zenon
<1>13. CASE op = "rect"
  <2>1. frame.number = Services["rect"][1]
    BY <1>13, Zenon
  <2>2. NtCall(frame) = KernelCall("rect", <<block[1] % DwordMod>>)
    BY <2>1, <1>7, <1>5
  <2> QED
    BY <2>2, <1>13, Zenon
<1>14. CASE op = "key"
  <2>1. frame.number = Services["key"][1]
    BY <1>14, Zenon
  <2>2. NtCall(frame) = KernelCall("key", <<block[1] % DwordMod>>)
    BY <2>1, <1>7, <1>6
  <2> QED
    BY <2>2, <1>14, Zenon
<1> QED
  BY <1>8, <1>9, <1>10, <1>11, <1>12, <1>13, <1>14

LEMMA Win32Plain ==
  ASSUME NEW frame
  PROVE  /\ frame.number = 12308 => NtCall(frame) = KernelCall("yield", <<>>)
         /\ frame.number = 12290 => NtCall(frame) = KernelCall("time", <<>>)
         /\ frame.number = 12310 => NtCall(frame) = KernelCall("mouse", <<>>)
<1> DEFINE block == frame.block
<1>1. ASSUME frame.number = 12308 PROVE NtCall(frame) = KernelCall("yield", <<>>)
  BY <1>1 DEF NtCall, Win32Call, DwordOf
<1>2. ASSUME frame.number = 12290 PROVE NtCall(frame) = KernelCall("time", <<>>)
  BY <1>2 DEF NtCall, Win32Call, DwordOf
<1>3. ASSUME frame.number = 12310 PROVE NtCall(frame) = KernelCall("mouse", <<>>)
  BY <1>3 DEF NtCall, Win32Call, DwordOf
<1> QED
  BY <1>1, <1>2, <1>3

LEMMA ThunkIs ==
  ASSUME NEW op \in DOMAIN Services, NEW args, NEW rest, NEW pushed, pushed = Pushed(Ask(op, args), rest)
  PROVE  /\ ThunkStub(Ask(op, args), rest).number = Services[op][1]
         /\ ThunkStub(Ask(op, args), rest).block =
              IF arch = "i386" THEN pushed
              ELSE (IF Len(pushed) >= 4 THEN SubSeq(pushed, 1, 4) ELSE pushed) \o SubSeq(pushed, 5, Len(pushed))
<1> DEFINE block == IF arch = "i386" THEN pushed
                    ELSE (IF Len(pushed) >= 4 THEN SubSeq(pushed, 1, 4) ELSE pushed) \o SubSeq(pushed, 5, Len(pushed))
           service == Imported[op].service
<1> DEFINE req == Ask(op, args)
<1>0. req.op = op
  BY OpOf
<1> HIDE DEF req
<1>1. ThunkStub(req, rest) = [number |-> service, regs |-> <<>>, block |-> block]
  BY <1>0, BlockIs DEF req
<1>2. service = Services[op][1]
  BY ImportedIs
<1> HIDE DEF block, service
<1>3. ThunkStub(req, rest).number = service /\ ThunkStub(req, rest).block = block
  BY <1>1
<1> QED
  BY <1>2, <1>3 DEF block, req

LEMMA WinTransfers ==
  ASSUME arch \in Architectures, NEW rest \in {0, 1}, NEW op \in {"write", "read"}, NEW h \in Handles, NEW b,
         NEW n \in Counts
  PROVE  NtCall(ThunkStub(Ask(op, <<h, b, n>>), rest)) = KernelCall(op, <<h, b, n>>)
<1> DEFINE frame == ThunkStub(Ask(op, <<h, b, n>>), rest)
           block == frame.block
           pushed == Pushed(Ask(op, <<h, b, n>>), rest)
<1>1. pushed = <<Dword(h, rest), b, Dword(n, rest), Written, 0>>
  BY DEF Pushed, Ask
<1>2. op \in DOMAIN Services
  BY DEF Services
<1> HIDE DEF pushed
<1>3. /\ frame.number = Services[op][1]
      /\ block = IF arch = "i386" THEN pushed
                 ELSE (IF Len(pushed) >= 4 THEN SubSeq(pushed, 1, 4) ELSE pushed) \o SubSeq(pushed, 5, Len(pushed))
  BY <1>2, ThunkIs DEF pushed
<1> HIDE DEF block
<1>4. block[1] = Dword(h, rest) /\ block[2] = b /\ block[3] = Dword(n, rest)
  BY <1>1, <1>3, FiveWords
<1>5. block[1] % DwordMod = h /\ block[3] % DwordMod = n
  BY <1>4, DwordBack, HandleFits, Widths
<1>6. frame.number = IF op = "write" THEN 12292 ELSE 12294
  BY <1>3 DEF Services
<1> HIDE DEF frame
<1>7. NtCall(frame) = KernelCall(op, <<block[1] % DwordMod, block[2], block[3] % DwordMod>>)
  BY <1>6, Win32Transfer DEF block
<1>8. NtCall(frame) = KernelCall(op, <<h, b, n>>)
  BY <1>4, <1>5, <1>7
<1> QED
  BY <1>8 DEF frame

LEMMA WinOpens ==
  ASSUME arch \in Architectures, NEW rest \in {0, 1}, NEW n, NEW c \in BOOLEAN
  PROVE  NtCall(ThunkStub(Ask("open", <<n, c>>), rest)) = KernelCall("open", <<n, c>>)
<1> DEFINE frame == ThunkStub(Ask("open", <<n, c>>), rest)
           block == frame.block
           pushed == Pushed(Ask("open", <<n, c>>), rest)
           disposition == IF c THEN 2 ELSE 3
<1>1. pushed = <<n, Dword(0, rest), Dword(0, rest), 0, Dword(disposition, rest), Dword(0, rest), Dword(0, rest)>>
  BY DEF Pushed, Ask
<1>2. "open" \in DOMAIN Services
  BY DEF Services
<1> HIDE DEF pushed
<1>3. /\ frame.number = Services["open"][1]
      /\ block = IF arch = "i386" THEN pushed
                 ELSE (IF Len(pushed) >= 4 THEN SubSeq(pushed, 1, 4) ELSE pushed) \o SubSeq(pushed, 5, Len(pushed))
  BY <1>2, ThunkIs DEF pushed
<1>4. disposition \in Nat /\ disposition < DwordMod /\ (disposition \in {1, 2, 4} <=> c)
  BY Widths
<1> HIDE DEF block, disposition
<1>5. block[1] = n /\ block[5] = Dword(disposition, rest)
  BY <1>1, <1>3, SevenWords
<1>6. block[5] % DwordMod = disposition
  BY <1>4, <1>5, DwordBack
<1>7. frame.number = 12293
  BY <1>3 DEF Services
<1> HIDE DEF frame
<1>8. NtCall(frame) = KernelCall("open", <<block[1], block[5] % DwordMod \in {1, 2, 4}>>)
  BY <1>7, Win32Open DEF block
<1>9. (disposition \in {1, 2, 4}) = c
  BY <1>4
<1>10. NtCall(frame) = KernelCall("open", <<n, c>>)
  BY <1>5, <1>6, <1>8, <1>9, Zenon
<1> QED
  BY <1>10 DEF frame

LEMMA FiveWordsOf ==
  ASSUME NEW a, NEW b, NEW c, NEW d, NEW e
  PROVE  <<a>> \o <<b, c, d, e>> = <<a, b, c, d, e>>
<1> DEFINE k == <<a>> \o <<b, c, d, e>>
<1>1. k \in Seq({a, b, c, d, e})
  OBVIOUS
<1>2. Len(k) = 5 /\ k[1] = a /\ k[2] = b /\ k[3] = c /\ k[4] = d /\ k[5] = e
  OBVIOUS
<1> HIDE DEF k
<1>3. DOMAIN k = 1 .. 5
  BY <1>1, <1>2
<1>4. k = [i \in 1 .. 5 |-> k[i]]
  BY <1>1, <1>3
<1>5. k = <<a, b, c, d, e>>
  BY <1>2, <1>4
<1> QED
  BY <1>5 DEF k

LEMMA WinWindows ==
  ASSUME arch \in Architectures, NEW rest \in {0, 1}, NEW s \in Shapes
  PROVE  NtCall(ThunkStub(Ask("window", s), rest)) = KernelCall("window", s)
<1> DEFINE frame == ThunkStub(Ask("window", s), rest)
           block == frame.block
           pushed == Pushed(Ask("window", s), rest)
           D(i) == Dword(s[i], rest)
<1>1. pushed = <<Title, D(1), D(2), D(3), D(4)>>
  <2>1. pushed = <<Title>> \o [i \in 1 .. 4 |-> D(i)]
    BY DEF Pushed, Ask
  <2>2. [i \in 1 .. 4 |-> D(i)] = <<D(1), D(2), D(3), D(4)>>
    <3> HIDE DEF D
    <3> QED
      OBVIOUS
  <2>3. <<Title>> \o <<D(1), D(2), D(3), D(4)>> = <<Title, D(1), D(2), D(3), D(4)>>
    <3> HIDE DEF D
    <3> QED
      BY FiveWordsOf
  <2> QED
    BY <2>1, <2>2, <2>3, Zenon
<1>2. "window" \in DOMAIN Services
  BY DEF Services
<1> HIDE DEF pushed
<1>3. /\ frame.number = Services["window"][1]
      /\ block = IF arch = "i386" THEN pushed
                 ELSE (IF Len(pushed) >= 4 THEN SubSeq(pushed, 1, 4) ELSE pushed) \o SubSeq(pushed, 5, Len(pushed))
  BY <1>2, ThunkIs DEF pushed
<1> HIDE DEF block, D
<1>4. block[2] = D(1) /\ block[3] = D(2) /\ block[4] = D(3) /\ block[5] = D(4)
  BY <1>1, <1>3, FiveWords
<1>5. \A i \in 1 .. 4 : D(i) % DwordMod = s[i]
  <2>1. s[1] \in 0 .. Half - 1 /\ s[2] \in 0 .. Half - 1 /\ s[3] \in 0 .. Half - 1 /\ s[4] \in 0 .. Half - 1
    BY ShapeIs
  <2>2. \A v \in 0 .. Half - 1 : v \in Nat /\ v < DwordMod
    BY Widths
  <2>3. \A v \in 0 .. Half - 1 : Dword(v, rest) % DwordMod = v
    BY <2>2, DwordBack
  <2> QED
    BY <2>1, <2>3 DEF D
<1>6. frame.number = 12304
  BY <1>3 DEF Services
<1> HIDE DEF frame
<1>7. NtCall(frame) = KernelCall("window", <<block[2] % DwordMod, block[3] % DwordMod, block[4] % DwordMod, block[5] % DwordMod>>)
  BY <1>6, Win32Window DEF block
<1>8. NtCall(frame) = KernelCall("window", <<s[1], s[2], s[3], s[4]>>)
  BY <1>4, <1>5, <1>7
<1>9. s = <<s[1], s[2], s[3], s[4]>>
  BY ShapeIs
<1>10. NtCall(frame) = KernelCall("window", s)
  BY <1>8, <1>9, Zenon
<1> QED
  BY <1>10 DEF frame

\* The functions of one argument.
LEMMA OnePushed ==
  ASSUME arch \in Architectures, NEW rest \in {0, 1}, NEW op \in {"exit", "close", "sleep", "bits", "size", "rect", "key"},
         NEW v \in Nat, v < DwordMod
  PROVE  /\ ThunkStub(Ask(op, <<v>>), rest).number = Services[op][1]
         /\ ThunkStub(Ask(op, <<v>>), rest).block[1] % DwordMod = v
<1> DEFINE block == ThunkStub(Ask(op, <<v>>), rest).block
           pushed == Pushed(Ask(op, <<v>>), rest)
<1>1. pushed = <<Dword(v, rest)>>
  <2>1. pushed = [i \in DOMAIN <<v>> |-> Dword(<<v>>[i], rest)]
    BY DEF Pushed, Ask
  <2> QED
    BY <2>1
<1>2. op \in DOMAIN Services
  BY DEF Services
<1> HIDE DEF pushed
<1>3. /\ ThunkStub(Ask(op, <<v>>), rest).number = Services[op][1]
      /\ block = IF arch = "i386" THEN pushed
                 ELSE (IF Len(pushed) >= 4 THEN SubSeq(pushed, 1, 4) ELSE pushed) \o SubSeq(pushed, 5, Len(pushed))
  BY <1>2, ThunkIs DEF pushed
<1> HIDE DEF block
<1>4. block[1] = Dword(v, rest)
  BY <1>1, <1>3, OneWord
<1>5. block[1] % DwordMod = v
  BY <1>4, DwordBack
<1> QED
  BY <1>3, <1>5 DEF block

LEMMA WinOne ==
  ASSUME arch \in Architectures, NEW rest \in {0, 1}, NEW op, Win32Op(op), NEW v \in Nat, v < DwordMod
  PROVE  NtCall(ThunkStub(Ask(op, <<v>>), rest)) = KernelCall(op, <<v>>)
<1>1. op \in {"exit", "close", "sleep", "bits", "size", "rect", "key"}
  BY DEF Win32Op
<1>2. /\ ThunkStub(Ask(op, <<v>>), rest).number = Services[op][1]
      /\ ThunkStub(Ask(op, <<v>>), rest).block[1] % DwordMod = v
  BY <1>1, OnePushed
<1> QED
  BY <1>2, Win32One

LEMMA WinSleeps ==
  ASSUME arch \in Architectures, NEW rest \in {0, 1}, NEW ms \in Delays
  PROVE  NtCall(ThunkStub(Ask("sleep", <<ms>>), rest)) =
           IF ms = 0 THEN KernelCall("yield", <<>>) ELSE KernelCall("sleep", <<Ticks(ms)>>)
<1>1. ms \in Nat /\ ms < DwordMod
  BY Widths
<1>2. /\ ThunkStub(Ask("sleep", <<ms>>), rest).number = Services["sleep"][1]
      /\ ThunkStub(Ask("sleep", <<ms>>), rest).block[1] % DwordMod = ms
  BY <1>1, OnePushed
<1>3. Services["sleep"][1] = 12289
  BY DEF Services
<1> QED
  BY <1>2, <1>3, Win32Sleep

LEMMA WinPlain ==
  ASSUME NEW op \in {"flush", "time", "mouse"}, NEW rest
  PROVE  NtCall(ThunkStub(Ask(op, <<>>), rest)) = KernelCall(IF op = "flush" THEN "yield" ELSE op, <<>>)
<1> DEFINE frame == ThunkStub(Ask(op, <<>>), rest)
<1>1. op \in DOMAIN Services
  BY DEF Services
<1>2. frame.number = Services[op][1]
  BY <1>1, ThunkIs
<1>3. frame.number = CASE op = "flush" -> 12308 [] op = "time" -> 12290 [] op = "mouse" -> 12310
  BY <1>2 DEF Services
<1> HIDE DEF frame
<1>4. NtCall(frame) = KernelCall(IF op = "flush" THEN "yield" ELSE op, <<>>)
  BY <1>3, Win32Plain
<1> QED
  BY <1>4 DEF frame

LEMMA WinMeans ==
  ASSUME arch \in Architectures, NEW rest \in {0, 1}, NEW req \in Requests, req.op \in Offers["winapi"]
  PROVE  NtCall(ThunkStub(req, rest)) \in Meanings(req)
<1>1. CASE \E op \in {"write", "read"}, h \in Handles, b \in {0, 1}, n \in Counts : req = Ask(op, <<h, b, n>>)
  BY <1>1, WinTransfers, MeansTransfer
<1>2. CASE \E n \in {Present, Absent}, c \in BOOLEAN : req = Ask("open", <<n, c>>)
  <2>1. PICK n \in {Present, Absent}, c \in BOOLEAN : req = Ask("open", <<n, c>>)
    BY <1>2, Zenon
  <2>2. Meanings(Ask("open", <<n, c>>)) = {KernelCall("open", <<n, c>>)}
    BY MeansTransfer
  <2>3. NtCall(ThunkStub(Ask("open", <<n, c>>), rest)) = KernelCall("open", <<n, c>>)
    BY WinOpens
  <2> QED
    BY <2>1, <2>2, <2>3, Zenon
<1>3. CASE \E h \in Handles : req = Ask("close", <<h>>)
  BY <1>3, HandleFits, WinOne, MeansTransfer DEF Win32Op
<1>4. CASE \E ms \in Delays : req = Ask("sleep", <<ms>>)
  <2>1. PICK ms \in Delays : req = Ask("sleep", <<ms>>)
    BY <1>4
  <2> QED
    BY <2>1, WinSleeps, MeansSleep
<1>5. CASE \E v \in {0, 3} : req = Ask("exit", <<v>>)
  <2>1. \A v \in {0, 3} : v \in Nat /\ v < DwordMod
    BY Widths
  <2> QED
    BY <1>5, <2>1, WinOne, MeansTransfer DEF Win32Op
<1>6. CASE \E s \in Shapes : req = Ask("window", s)
  BY <1>6, WinWindows, MeansTransfer
<1>7. CASE \E op \in OneArgument, w \in WindowIds : req = Ask(op, <<w>>)
  BY <1>7, WindowFits, WinOne, MeansTransfer DEF OneArgument, Win32Op
<1>8. CASE \E op \in NoArguments : req = Ask(op, <<>>)
  <2>1. PICK op \in {"flush", "time", "mouse"} : req = Ask(op, <<>>)
    BY <1>8, OpOf DEF NoArguments, Offers
  <2>2. CASE op = "flush"
    BY <2>1, <2>2, WinPlain, MeansFlush
  <2>3. CASE op # "flush"
    BY <2>1, <2>3, WinPlain, MeansTransfer
  <2> QED
    BY <2>2, <2>3
<1> QED
  BY RequestForms, <1>1, <1>2, <1>3, <1>4, <1>5, <1>6, <1>7, <1>8

------------------------------------------------------------------------------
(* What the kernel API may answer *)

Successes == {Ok(v) : v \in 0 .. DwordMod \div 2 - 1}
Failures == {Error(e) : e \in DOMAIN Errno}

\* The answers to a call, and what they leave open.
Unchanged(answer) == answer.fds = fds /\ answer.windows = windows

LEMMA AnswerIs ==
  ASSUME NEW out, NEW f, NEW w
  PROVE  Answer(out, f, w).out = out /\ Answer(out, f, w).fds = f /\ Answer(out, f, w).windows = w
BY DEF Answer

LEMMA SameIs == ASSUME NEW out PROVE Same(out).out = out /\ Unchanged(Same(out))
BY AnswerIs DEF Same, Unchanged

LEMMA OutIs ==
  ASSUME NEW v
  PROVE  Ok(v).ok = TRUE /\ Ok(v).value = v /\ Error(v).ok = FALSE /\ Error(v).value = v
BY DEF Ok, Error

LEMMA SuccessIs == ASSUME NEW v \in 0 .. DwordMod \div 2 - 1 PROVE Ok(v) \in Successes
BY DEF Successes

LEMMA FailureIs ==
  /\ Error("BadFileDescriptor") \in Failures /\ Error("Fault") \in Failures /\ Error("NotFound") \in Failures
  /\ Error("TooManyOpenFiles") \in Failures /\ Error("NotSupported") \in Failures
<1>1. {"BadFileDescriptor", "Fault", "NotFound", "TooManyOpenFiles", "NotSupported"} \subseteq DOMAIN Errno
  BY DEF Errno
<1>2. \A e \in DOMAIN Errno : Error(e) \in Failures
  BY DEF Failures
<1> QED
  BY <1>1, <1>2

LEMMA TransferAnswers ==
  ASSUME NEW op \in {"write", "read"}, NEW h, NEW b, NEW n \in Counts, NEW a \in Transfers(op, h, b, n)
  PROVE  Unchanged(a) /\ a.out \in Successes \union Failures
<1>1. n \in Nat /\ n < DwordMod \div 2 /\ DwordMod \div 2 \in Nat
  BY Widths
<1>2. \A k \in 0 .. n : Ok(k) \in Successes
  <2>1. \A k \in 0 .. n : k \in 0 .. DwordMod \div 2 - 1
    BY <1>1
  <2> QED
    BY <2>1, SuccessIs
<1>3. n \in 0 .. n
  BY <1>1
<1>4. \E out : a = Same(out) /\ out \in Successes \union Failures
  BY <1>2, <1>3, FailureIs, Zenon DEF Transfers
<1> QED
  BY <1>4, SameIs

LEMMA CloseAnswers ==
  ASSUME NEW h, NEW a \in Answers(KernelCall("close", <<h>>))
  PROVE  \/ a.out = Ok(0) /\ a.fds = fds \ {h} /\ a.windows = windows
         \/ a.out = Error("BadFileDescriptor") /\ Unchanged(a)
<1>1. Answers(KernelCall("close", <<h>>)) =
        {IF h \in fds THEN Answer(Ok(0), fds \ {h}, windows) ELSE Same(Error("BadFileDescriptor"))}
  BY DEF Answers, KernelCall
<1>2. CASE h \in fds
  <2>1. a = Answer(Ok(0), fds \ {h}, windows)
    BY <1>1, <1>2
  <2> QED
    BY <2>1, AnswerIs
<1>3. CASE h \notin fds
  <2>1. a = Same(Error("BadFileDescriptor"))
    BY <1>1, <1>3
  <2> QED
    BY <2>1, SameIs
<1> QED
  BY <1>2, <1>3

LEMMA LeastFreeIs == ASSUME Free # {} PROVE LeastFree \in Free
<1>1. Free \subseteq Nat
  BY CallsAssumption DEF Free
<1>2. \E least \in Free : \A other \in Free : least <= other
  BY <1>1, LeastNatural
<1> QED
  BY <1>2 DEF LeastFree

LEMMA FreeIs == ASSUME NEW h \in Free PROVE h \in FIRST_FREE_FD .. MAX_FDS - 1 /\ h \in 0 .. DwordMod \div 2 - 1
<1>1. h \in FIRST_FREE_FD .. MAX_FDS - 1
  BY DEF Free
<1>2. MAX_FDS \in Nat /\ FIRST_FREE_FD \in Nat /\ MAX_FDS < DwordMod \div 2 /\ DwordMod \div 2 \in Nat
  BY Widths, CallsAssumption
<1> QED
  BY <1>1, <1>2

LEMMA OpenAnswers ==
  ASSUME NEW n, NEW c, NEW a \in Answers(KernelCall("open", <<n, c>>))
  PROVE  \/ a.out \in Failures /\ Unchanged(a)
         \/ \E h \in Free : a.out = Ok(h) /\ a.fds = fds \union {h} /\ a.windows = windows
<1>1. Answers(KernelCall("open", <<n, c>>)) = Opens(n, c)
  BY DEF Answers, KernelCall
<1>2. CASE a = Same(Error("NotFound")) \/ a = Same(Error("TooManyOpenFiles"))
  BY <1>2, SameIs, FailureIs
<1>3. CASE Free # {} /\ a = Answer(Ok(LeastFree), fds \union {LeastFree}, windows)
  BY <1>3, LeastFreeIs, AnswerIs
<1>4. \/ a = Same(Error("NotFound")) \/ a = Same(Error("TooManyOpenFiles"))
      \/ Free # {} /\ a = Answer(Ok(LeastFree), fds \union {LeastFree}, windows)
  BY <1>1, Zenon DEF Opens
<1> QED
  BY <1>2, <1>3, <1>4

LEMMA WindowAnswers ==
  ASSUME NEW s, NEW a \in Answers(KernelCall("window", s))
  PROVE  \/ a.out = Error("TooManyWindows") /\ Unchanged(a)
         \/ \E id \in 0 .. MAX_WINDOWS - 1 :
              /\ a.out = Ok(id) /\ a.fds = fds
              /\ a.windows = [w \in DOMAIN windows \union {id} |-> IF w = id THEN s ELSE windows[w]]
<1>1. Answers(KernelCall("window", s)) = Creates(s)
  BY DEF Answers, KernelCall
<1>2. CASE a = Same(Error("TooManyWindows"))
  BY <1>2, SameIs
<1>3. CASE \E id \in 0 .. MAX_WINDOWS - 1 :
             a = Answer(Ok(id), fds, [w \in DOMAIN windows \union {id} |-> IF w = id THEN s ELSE windows[w]])
  BY <1>3, AnswerIs
<1>4. \/ a = Same(Error("TooManyWindows"))
      \/ \E id \in 0 .. MAX_WINDOWS - 1 :
           a = Answer(Ok(id), fds, [w \in DOMAIN windows \union {id} |-> IF w = id THEN s ELSE windows[w]])
  BY <1>1, Zenon DEF Creates
<1> QED
  BY <1>2, <1>3, <1>4

LEMMA OfWindowAnswers ==
  ASSUME NEW op \in {"bits", "size", "rect"}, NEW w, NEW a \in Answers(KernelCall(op, <<w>>))
  PROVE  /\ Unchanged(a)
         /\ IF w \in DOMAIN windows
            THEN a.out = Ok(CASE op = "bits" -> DwordMod \div 2 + w
                              [] op = "size" -> Pack(windows[w][3], windows[w][4])
                              [] op = "rect" -> Pack(windows[w][1], windows[w][2]))
            ELSE a.out = Error("BadWindow")
<1> DEFINE value == CASE op = "bits" -> DwordMod \div 2 + w
                      [] op = "size" -> Pack(windows[w][3], windows[w][4])
                      [] op = "rect" -> Pack(windows[w][1], windows[w][2])
<1>1. Answers(KernelCall(op, <<w>>)) = OfWindow(w, value)
  BY DEF Answers, KernelCall
<1> HIDE DEF value
<1>2. a = Same(IF w \in DOMAIN windows THEN Ok(value) ELSE Error("BadWindow"))
  BY <1>1 DEF OfWindow
<1>3. Unchanged(a) /\ a.out = IF w \in DOMAIN windows THEN Ok(value) ELSE Error("BadWindow")
  BY <1>2, SameIs
<1> QED
  BY <1>3 DEF value

LEMMA PlainAnswers ==
  ASSUME NEW op \in {"key", "time", "mouse", "yield", "sleep", "exit"}, NEW args, NEW a \in Answers(KernelCall(op, args))
  PROVE  /\ Unchanged(a) /\ a.out \in Successes
         /\ op \in {"yield", "sleep", "exit"} => a.out = Ok(0)
<1>1. 0 \in 0 .. DwordMod \div 2 - 1 /\ 7 \in 0 .. DwordMod \div 2 - 1
  BY Widths
<1>2. Half + 1 \in 0 .. DwordMod \div 2 - 1
  <2>1. Half * Half >= 16 * Half
    BY Widths
  <2>2. DwordMod >= 16 * Half /\ DwordMod \in Nat /\ Half \in Nat /\ Half >= 16
    BY <2>1, Widths
  <2> QED
    BY <2>2
<1>3. Ok(0) \in Successes /\ Ok(7) \in Successes /\ Ok(Half + 1) \in Successes
  BY <1>1, <1>2, SuccessIs
<1>4. CASE op = "key"
  <2>1. a \in {Same(Ok(0))} \union {Same(Ok(k)) : k \in (IF args[1] < MAX_WINDOWS THEN {7} ELSE {})}
    BY <1>4 DEF Answers, KernelCall
  <2>2. a = Same(Ok(0)) \/ a = Same(Ok(7))
    BY <2>1, Zenon
  <2> QED
    BY <1>3, <1>4, <2>2, SameIs
<1>5. CASE op \in {"time", "mouse"}
  <2>1. a \in {Same(Ok(v)) : v \in {0, Half + 1}}
    BY <1>5 DEF Answers, KernelCall
  <2>2. a = Same(Ok(0)) \/ a = Same(Ok(Half + 1))
    BY <2>1, Zenon
  <2> QED
    BY <1>3, <1>5, <2>2, SameIs
<1>6. CASE op \in {"yield", "sleep", "exit"}
  <2>1. a = Same(Ok(0))
    BY <1>6 DEF Answers, KernelCall
  <2> QED
    BY <1>3, <2>1, SameIs
<1> QED
  BY <1>4, <1>5, <1>6

------------------------------------------------------------------------------
(* The way of a result back to the program *)

Register(lib, frame, c, out) ==
  CASE lib = "sys" -> PosixReturn(c, out)
    [] lib = "nt" -> NtReturn(frame, c, out)
    [] lib = "winapi" -> Win32Return(c, out)

Second(out) == IF out.ok THEN out.value ELSE 0

Learned(lib, op, v, second) ==
  CASE lib = "sys" -> SysResult(op, v)
    [] lib = "nt" -> NtResult(op, v, second)
    [] lib = "winapi" -> WinapiResult(op, v, second)

\* What a program may conclude from what it learns.
Heard(op, learned, out) ==
  /\ op \in Fallible => learned.ok = out.ok
  /\ out.ok /\ learned.value # Unknown => learned.value = out.value
  /\ out.ok /\ op \in {"open", "window"} => learned.value = out.value

\* The result of a call c arrives at the caller of op, within the width of a word.
Arrives(lib, op, frame, c, out) ==
  /\ Register(lib, frame, c, out) \in 0 .. WordMod - 1
  /\ Second(out) \in 0 .. WordMod - 1
  /\ Heard(op, Learned(lib, op, Register(lib, frame, c, out), Second(out)), out)

NegativeWord(w, n) == (-n) % w

LEMMA Negative ==
  ASSUME NEW w \in Nat, NEW n \in Nat, 0 < n, n < w
  PROVE  NegativeWord(w, n) = w - n
BY DEF NegativeWord

LEMMA WordHalf ==
  ASSUME arch \in Architectures
  PROVE  WordMod \div 2 \in Nat /\ WordMod \div 2 >= DwordMod \div 2 /\ WordMod \div 2 + 128 <= WordMod /\ WordMod \in Nat
<1>1. WordMod \in Nat /\ WordMod >= DwordMod /\ DwordMod \in Nat /\ DwordMod >= 256
  BY WordIs, Widths
<1> QED
  BY <1>1

\* A small result passes through the registers of every machine.
LEMMA SmallResult ==
  ASSUME arch \in Architectures, NEW v \in 0 .. DwordMod \div 2 - 1
  PROVE  /\ v \in Nat /\ v < DwordMod /\ v \in 0 .. WordMod - 1 /\ v # Invalid /\ v # INVALID_HANDLE
         /\ v % DwordMod = v /\ Signed(v % DwordMod, DwordMod) % WordMod = v
         /\ Signed(v, WordMod) = v /\ v >= 0
<1>1. /\ v \in Nat /\ v < DwordMod \div 2 /\ DwordMod \in Nat /\ DwordMod \div 2 \in Nat
      /\ DwordMod \div 2 + DwordMod \div 2 <= DwordMod /\ DwordMod \div 2 >= 128
  BY Widths
<1>2. WordMod \in Nat /\ WordMod >= DwordMod /\ WordMod \div 2 >= DwordMod \div 2 /\ WordMod \div 2 \in Nat
  BY WordIs, WordHalf
<1>3. v < DwordMod
  BY <1>1
<1>4. v % DwordMod = v /\ v % WordMod = v
  BY <1>1, <1>3, Fits
<1>5. Signed(v, DwordMod) = v
  BY <1>1 DEF Signed
<1>6. Signed(v, WordMod) = v
  BY <1>1, <1>2 DEF Signed
<1>7. v # Invalid /\ v # INVALID_HANDLE /\ v \in 0 .. WordMod - 1
  BY <1>1, <1>2 DEF Invalid, INVALID_HANDLE
<1>8. v >= 0
  BY <1>1
<1> QED
  BY <1>1, <1>3, <1>4, <1>5, <1>6, <1>7, <1>8

\* An error number is negative on every machine.
LEMMA ErrorResult ==
  ASSUME arch \in Architectures, NEW e \in DOMAIN Errno
  PROVE  errno_of(e) \in 0 .. WordMod - 1 /\ ~(Signed(errno_of(e), WordMod) >= 0)
<1>1. Errno[e] \in Nat /\ 0 < Errno[e] /\ Errno[e] < 100
  BY DEF Errno
<1>2. WordMod \in Nat /\ WordMod \div 2 \in Nat /\ WordMod \div 2 + 128 <= WordMod
  BY WordHalf
<1> DEFINE n == Errno[e]
           w == WordMod
           h == WordMod \div 2
<1>3. errno_of(e) = NegativeWord(w, n)
  BY DEF errno_of, NegativeWord
<1>4. n \in Nat /\ 0 < n /\ n < 100 /\ w \in Nat /\ h \in Nat /\ h + 128 <= w
  BY <1>1, <1>2
<1>5. Signed(errno_of(e), w) = IF errno_of(e) >= h THEN errno_of(e) - w ELSE errno_of(e)
  BY DEF Signed
<1> HIDE DEF n, w, h
<1>6. NegativeWord(w, n) = w - n
  BY <1>4, Negative
<1>7. errno_of(e) = w - n
  BY <1>3, <1>6
<1>8. errno_of(e) \in 0 .. w - 1 /\ ~(Signed(errno_of(e), w) >= 0)
  BY <1>4, <1>5, <1>7
<1> QED
  BY <1>8 DEF w

\* The invalid values are the largest words.
LEMMA InvalidIs ==
  ASSUME arch \in Architectures
  PROVE  /\ Invalid \in 0 .. WordMod - 1 /\ Invalid % DwordMod = INVALID_HANDLE
         /\ arch = "i386" => Invalid = INVALID_HANDLE
<1>1. DwordMod \in Nat /\ DwordMod >= 256
  BY Widths
<1>2. WordMod \in Nat /\ WordMod >= DwordMod
  BY <1>1, WordIs
<1>3. Invalid \in 0 .. WordMod - 1
  BY <1>1, <1>2 DEF Invalid
<1> DEFINE d == DwordMod
           last == d - 1
<1>4. d \in Nat \ {0} /\ last \in 0 .. d - 1 /\ last \in Nat /\ last < d /\ d * d - 1 = last * d + last
  BY <1>1
<1>5. Invalid = last \/ Invalid = d * d - 1
  BY DEF Invalid, WordMod
<1>6. INVALID_HANDLE = last
  BY DEF INVALID_HANDLE
<1> HIDE DEF d, last
<1>7. last % d = last /\ (last * d + last) % d = last
  BY <1>4, Small, DivMod
<1>8. Invalid % d = INVALID_HANDLE
  BY <1>4, <1>5, <1>6, <1>7
<1>9. arch = "i386" => Invalid = INVALID_HANDLE
  BY DEF Invalid, WordMod, INVALID_HANDLE
<1> QED
  BY <1>3, <1>8, <1>9 DEF d

\* An NTSTATUS that is not zero stays so in a DWORD.
LEMMA StatusIs ==
  ASSUME arch \in Architectures, NEW e \in DOMAIN Errno
  PROVE  /\ STATUS_ERROR + NtStatus[e] \in 0 .. WordMod - 1 /\ STATUS_ERROR + NtStatus[e] # 0
         /\ (STATUS_ERROR + NtStatus[e]) % DwordMod # 0
<1>1. NtStatus[e] \in Nat /\ NtStatus[e] < 64
  BY DEF Errno, NtStatus
<1>2. DwordMod \in Nat /\ DwordMod >= 256 /\ DwordMod \div 4 \in Nat /\ DwordMod \div 4 >= 64 /\ DwordMod \div 4 < DwordMod
  BY Widths
<1> DEFINE s == STATUS_ERROR + NtStatus[e]
<1>3. s \in Nat /\ s < DwordMod /\ s # 0
  BY <1>1, <1>2 DEF STATUS_ERROR
<1>4. s % DwordMod = s /\ s < WordMod /\ WordMod \in Nat
  BY <1>3, Fits, WordIs
<1> QED
  BY <1>3, <1>4

LEMMA OneBit ==
  ASSUME arch \in Architectures
  PROVE  0 % DwordMod = 0 /\ 1 % DwordMod = 1 /\ 0 \in 0 .. WordMod - 1 /\ 1 \in 0 .. WordMod - 1
<1>1. DwordMod \in Nat /\ DwordMod >= 256 /\ WordMod \in Nat /\ WordMod >= DwordMod
  BY Widths, WordIs
<1> QED
  BY <1>1, Small

LEMMA ToldIs == ASSUME NEW ok \in BOOLEAN, NEW v PROVE Told(ok, v) = IF ok THEN Ok(v) ELSE Error(Unknown)
BY DEF Told

LEMMA HeardAll == ASSUME NEW op, NEW v PROVE Heard(op, Ok(v), Ok(v))
BY OutIs DEF Heard

LEMMA HeardFailure == ASSUME NEW op, NEW e PROVE Heard(op, Error(Unknown), Error(e))
BY OutIs DEF Heard

LEMMA HeardStatus == ASSUME NEW v PROVE Heard("write", Ok(Unknown), Ok(v))
BY OutIs DEF Heard

LEMMA SecondIs == ASSUME NEW v PROVE Second(Ok(v)) = v /\ Second(Error(v)) = 0
BY OutIs DEF Second

\* write, read, open and close, with the error numbers of Linux.
LEMMA SysTransferArrives ==
  ASSUME arch \in Architectures, NEW op \in {"write", "read", "open", "close"}, NEW args, NEW frame,
         NEW out \in Successes \union Failures
  PROVE  Arrives("sys", op, frame, KernelCall(op, args), out)
<1> DEFINE c == KernelCall(op, args)
<1>1. /\ Register("sys", frame, c, out) =
           IF out.ok THEN Signed(out.value % DwordMod, DwordMod) % WordMod ELSE errno_of(out.value)
      /\ \A v : Learned("sys", op, v, Second(out)) = Told(Signed(v, WordMod) >= 0, v)
  BY DEF Register, Learned, PosixReturn, KernelCall, SysResult
<1> HIDE DEF c
<1>2. ASSUME NEW v \in 0 .. DwordMod \div 2 - 1, out = Ok(v)
      PROVE  Arrives("sys", op, frame, c, out)
  <2>1. Register("sys", frame, c, out) = v
    BY <1>1, <1>2, OutIs, SmallResult
  <2>2. Learned("sys", op, v, Second(out)) = Ok(v)
    BY <1>1, <1>2, SmallResult, ToldIs
  <2>3. v \in 0 .. WordMod - 1 /\ Second(out) = v
    BY <1>2, SmallResult, SecondIs
  <2> QED
    BY <1>2, <2>1, <2>2, <2>3, HeardAll DEF Arrives
<1>3. ASSUME NEW e \in DOMAIN Errno, out = Error(e)
      PROVE  Arrives("sys", op, frame, c, out)
  <2>1. Register("sys", frame, c, out) = errno_of(e)
    BY <1>1, <1>3, OutIs
  <2>2. Learned("sys", op, errno_of(e), Second(out)) = Error(Unknown)
    <3>1. Learned("sys", op, errno_of(e), Second(out)) = Told(Signed(errno_of(e), WordMod) >= 0, errno_of(e))
      BY <1>1
    <3>2. ~(Signed(errno_of(e), WordMod) >= 0)
      BY <1>3, ErrorResult
    <3> QED
      BY <3>1, <3>2 DEF Told
  <2>3. errno_of(e) \in 0 .. WordMod - 1 /\ Second(out) = 0 /\ 0 \in 0 .. WordMod - 1
    BY <1>3, ErrorResult, SecondIs, OneBit
  <2> QED
    BY <1>3, <2>1, <2>2, <2>3, HeardFailure DEF Arrives
<1> QED
  BY <1>2, <1>3 DEF Successes, Failures, c

LEMMA NtTransferArrives ==
  ASSUME arch \in Architectures, NEW op \in {"write", "read", "open", "close"}, NEW args, NEW frame,
         frame.number = NtNumber[op], NEW out \in Successes \union Failures
  PROVE  Arrives("nt", op, frame, KernelCall(op, args), out)
<1> DEFINE c == KernelCall(op, args)
           second == Second(out)
<1>0. frame.number < 8192
  BY DEF NtNumber
<1>1. /\ Register("nt", frame, c, out) = IF out.ok THEN 0 ELSE STATUS_ERROR + NtStatus[out.value]
      /\ \A v : Learned("nt", op, v, second) = IF op = "write" THEN Told(v % DwordMod = 0, Unknown) ELSE Told(v = 0, second)
  <2>1. Register("nt", frame, c, out) = IF out.ok THEN 0 ELSE STATUS_ERROR + NtStatus[out.value]
    <3>1. Register("nt", frame, c, out) = NtReturn(frame, c, out)
      BY DEF Register
    <3>2. c.op = op
      BY DEF KernelCall
    <3> HIDE DEF c
    <3>3. NtReturn(frame, c, out) = IF out.ok THEN 0 ELSE STATUS_ERROR + NtStatus[out.value]
      BY <1>0, <3>2 DEF NtReturn
    <3> QED
      BY <3>1, <3>3
  <2>2. ASSUME NEW v
        PROVE  Learned("nt", op, v, second) = IF op = "write" THEN Told(v % DwordMod = 0, Unknown) ELSE Told(v = 0, second)
    <3> HIDE DEF second
    <3> QED
      BY DEF Learned, NtResult
  <2> QED
    BY <2>1, <2>2
<1> HIDE DEF c, second
<1>2. ASSUME NEW v \in 0 .. DwordMod \div 2 - 1, out = Ok(v)
      PROVE  Arrives("nt", op, frame, c, out)
  <2>1. Register("nt", frame, c, out) = 0
    BY <1>1, <1>2, OutIs
  <2>2. second = v /\ v \in 0 .. WordMod - 1
    BY <1>2, SmallResult, SecondIs DEF second
  <2>3. Learned("nt", op, 0, second) = IF op = "write" THEN Ok(Unknown) ELSE Ok(v)
    BY <1>1, <2>2, OneBit, ToldIs
  <2>4. Heard(op, Learned("nt", op, 0, second), out)
    BY <1>2, <2>3, HeardAll, HeardStatus
  <2> QED
    BY <2>1, <2>2, <2>4, OneBit DEF Arrives, second
<1>3. ASSUME NEW e \in DOMAIN Errno, out = Error(e)
      PROVE  Arrives("nt", op, frame, c, out)
  <2> DEFINE s == STATUS_ERROR + NtStatus[e]
  <2>1. Register("nt", frame, c, out) = s
    BY <1>1, <1>3, OutIs
  <2>2. s \in 0 .. WordMod - 1 /\ s # 0 /\ s % DwordMod # 0
    BY <1>3, StatusIs
  <2> HIDE DEF s
  <2>3. Learned("nt", op, s, second) = Error(Unknown)
    BY <1>1, <2>2, ToldIs
  <2>4. second = 0
    BY <1>3, SecondIs DEF second
  <2> QED
    BY <1>3, <2>1, <2>2, <2>3, <2>4, HeardFailure, OneBit DEF Arrives, second
<1> QED
  BY <1>2, <1>3 DEF Successes, Failures, c

LEMMA WinTransferArrives ==
  ASSUME arch \in Architectures, NEW op \in {"write", "read", "close"}, NEW args, NEW frame,
         NEW out \in Successes \union Failures, op = "close" /\ out.ok => out.value = 0
  PROVE  Arrives("winapi", op, frame, KernelCall(op, args), out)
<1> DEFINE c == KernelCall(op, args)
           second == Second(out)
<1>1. /\ Register("winapi", frame, c, out) = IF out.ok THEN 1 ELSE 0
      /\ \A v : Learned("winapi", op, v, second) = Told(v % DwordMod # 0, IF op = "close" THEN 0 ELSE second % DwordMod)
  BY DEF Register, Learned, Win32Return, KernelCall, WinapiResult
<1> HIDE DEF c, second
<1>2. ASSUME NEW v \in 0 .. DwordMod \div 2 - 1, out = Ok(v)
      PROVE  Arrives("winapi", op, frame, c, out)
  <2>1. Register("winapi", frame, c, out) = 1
    BY <1>1, <1>2, OutIs
  <2>2. second = v /\ v \in 0 .. WordMod - 1 /\ v % DwordMod = v
    BY <1>2, SmallResult, SecondIs DEF second
  <2>3. op = "close" => v = 0
    BY <1>2, OutIs
  <2>4. Learned("winapi", op, 1, second) = Ok(v)
    <3>1. Learned("winapi", op, 1, second) = Told(1 % DwordMod # 0, IF op = "close" THEN 0 ELSE second % DwordMod)
      BY <1>1
    <3>2. (IF op = "close" THEN 0 ELSE second % DwordMod) = v
      BY <2>2, <2>3
    <3>3. Learned("winapi", op, 1, second) = Told(1 % DwordMod # 0, v)
      BY <3>1, <3>2
    <3> QED
      BY <3>3, OneBit DEF Told
  <2> QED
    BY <1>2, <2>1, <2>2, <2>4, HeardAll, OneBit DEF Arrives, second
<1>3. ASSUME NEW e \in DOMAIN Errno, out = Error(e)
      PROVE  Arrives("winapi", op, frame, c, out)
  <2>1. Register("winapi", frame, c, out) = 0
    BY <1>1, <1>3, OutIs
  <2>2. Learned("winapi", op, 0, second) = Error(Unknown)
    BY <1>1, OneBit, ToldIs
  <2>3. second = 0
    BY <1>3, SecondIs DEF second
  <2> QED
    BY <1>3, <2>1, <2>2, <2>3, HeardFailure, OneBit DEF Arrives, second
<1> QED
  BY <1>2, <1>3 DEF Successes, Failures, c

\* The handle or the window of CreateFileA and TcmkCreateWindow.
LEMMA WinHandleArrives ==
  ASSUME arch \in Architectures, NEW op \in {"open", "window"}, NEW args, NEW frame, NEW out,
         out \in Successes \/ \E e : out = Error(e)
  PROVE  Arrives("winapi", op, frame, KernelCall(op, args), out)
<1> DEFINE c == KernelCall(op, args)
           second == Second(out)
<1>1. /\ Register("winapi", frame, c, out) = IF out.ok THEN out.value ELSE Invalid
      /\ \A v : Learned("winapi", op, v, second) = Told(v % DwordMod # INVALID_HANDLE, v % DwordMod)
  BY DEF Register, Learned, Win32Return, KernelCall, WinapiResult, InvalidOr
<1> HIDE DEF c, second
<1>2. ASSUME NEW v \in 0 .. DwordMod \div 2 - 1, out = Ok(v)
      PROVE  Arrives("winapi", op, frame, c, out)
  <2>1. Register("winapi", frame, c, out) = v
    BY <1>1, <1>2, OutIs
  <2>2. second = v /\ v \in 0 .. WordMod - 1
    BY <1>2, SmallResult, SecondIs DEF second
  <2>3. Learned("winapi", op, v, second) = Ok(v)
    BY <1>1, SmallResult, ToldIs
  <2> QED
    BY <1>2, <2>1, <2>2, <2>3, HeardAll DEF Arrives, second
<1>3. ASSUME NEW e, out = Error(e)
      PROVE  Arrives("winapi", op, frame, c, out)
  <2>1. Register("winapi", frame, c, out) = Invalid
    BY <1>1, <1>3, OutIs
  <2>2. Learned("winapi", op, Invalid, second) = Error(Unknown)
    BY <1>1, InvalidIs, ToldIs
  <2>3. second = 0
    BY <1>3, SecondIs DEF second
  <2> QED
    BY <1>3, <2>1, <2>2, <2>3, HeardFailure, OneBit, InvalidIs DEF Arrives, second
<1> QED
  BY <1>2, <1>3 DEF Successes, c

\* The windows of gui.rs and win32.rs.
LEMMA WindowRegister ==
  ASSUME NEW lib \in {"sys", "nt"}, NEW op \in {"window", "bits", "size", "rect"}, NEW args, NEW frame,
         lib = "nt" => frame.number = NtNumber[op], NEW out
  PROVE  Register(lib, frame, KernelCall(op, args), out) =
           IF out.ok THEN out.value ELSE IF op \in {"window", "rect"} THEN Invalid ELSE 0
<1> DEFINE c == KernelCall(op, args)
<1>1. c.op = op
  BY DEF KernelCall
<1>2. lib = "nt" => ~(frame.number < 8192)
  BY DEF NtNumber
<1> HIDE DEF c
<1>3. PosixReturn(c, out) = IF out.ok THEN out.value ELSE IF op \in {"window", "rect"} THEN Invalid ELSE 0
  BY <1>1 DEF PosixReturn, InvalidOr
<1>4. lib = "nt" => NtReturn(frame, c, out) = IF out.ok THEN out.value ELSE IF op \in {"window", "rect"} THEN Invalid ELSE 0
  BY <1>1, <1>2 DEF NtReturn, InvalidOr
<1>5. Register(lib, frame, c, out) = IF lib = "sys" THEN PosixReturn(c, out) ELSE NtReturn(frame, c, out)
  BY DEF Register
<1> QED
  BY <1>3, <1>4, <1>5 DEF c

LEMMA WinRegister ==
  ASSUME NEW op \in {"window", "bits", "size", "rect"}, NEW args, NEW frame, NEW out
  PROVE  Register("winapi", frame, KernelCall(op, args), out) =
           IF out.ok THEN out.value ELSE IF op \in {"window", "rect"} THEN Invalid ELSE 0
<1> DEFINE c == KernelCall(op, args)
<1>1. c.op = op
  BY DEF KernelCall
<1> HIDE DEF c
<1>2. Win32Return(c, out) = IF out.ok THEN out.value ELSE IF op \in {"window", "rect"} THEN Invalid ELSE 0
  BY <1>1 DEF Win32Return, InvalidOr
<1>3. Register("winapi", frame, c, out) = Win32Return(c, out)
  BY DEF Register
<1> QED
  BY <1>2, <1>3 DEF c

LEMMA WindowLearned ==
  ASSUME NEW lib \in {"sys", "nt"}, NEW op \in {"window", "bits", "size", "rect"}, NEW v, NEW second
  PROVE  Learned(lib, op, v, second) = WindowResult(op, v)
BY DEF Learned, SysResult, NtResult

LEMMA WindowArrives ==
  ASSUME arch \in Architectures, NEW lib \in {"sys", "nt"}, NEW args, NEW frame, lib = "nt" => frame.number = NtNumber["window"],
         NEW out, out \in Successes \/ \E e : out = Error(e)
  PROVE  Arrives(lib, "window", frame, KernelCall("window", args), out)
<1> DEFINE c == KernelCall("window", args)
           second == Second(out)
<1>1. Register(lib, frame, c, out) = IF out.ok THEN out.value ELSE Invalid
  BY WindowRegister
<1>2. \A v : Learned(lib, "window", v, second) = Told(v # Invalid, v)
  BY WindowLearned DEF WindowResult
<1> HIDE DEF c, second
<1>3. ASSUME NEW v \in 0 .. DwordMod \div 2 - 1, out = Ok(v)
      PROVE  Arrives(lib, "window", frame, c, out)
  <2>1. Register(lib, frame, c, out) = v
    BY <1>1, <1>3, OutIs
  <2>2. second = v /\ v \in 0 .. WordMod - 1
    BY <1>3, SmallResult, SecondIs DEF second
  <2>3. Learned(lib, "window", v, second) = Ok(v)
    BY <1>2, SmallResult, ToldIs
  <2> QED
    BY <1>3, <2>1, <2>2, <2>3, HeardAll DEF Arrives, second
<1>4. ASSUME NEW e, out = Error(e)
      PROVE  Arrives(lib, "window", frame, c, out)
  <2>1. Register(lib, frame, c, out) = Invalid
    BY <1>1, <1>4, OutIs
  <2>2. Learned(lib, "window", Invalid, second) = Error(Unknown)
    BY <1>2, InvalidIs, ToldIs
  <2>3. second = 0
    BY <1>4, SecondIs DEF second
  <2> QED
    BY <1>4, <2>1, <2>2, <2>3, HeardFailure, OneBit, InvalidIs DEF Arrives, second
<1> QED
  BY <1>3, <1>4 DEF Successes, c

\* A word that a window's call returns: below 2^32 on either machine.
LEMMA DwordResult ==
  ASSUME arch \in Architectures, NEW v \in 0 .. DwordMod - 1
  PROVE  v \in 0 .. WordMod - 1 /\ v % DwordMod = v
<1>1. v \in Nat /\ v < DwordMod /\ DwordMod \in Nat
  BY Widths
<1>2. v % DwordMod = v /\ v < WordMod /\ WordMod \in Nat
  BY <1>1, Fits, WordIs
<1> QED
  BY <1>1, <1>2

LEMMA BitsArrive ==
  ASSUME arch \in Architectures, NEW lib \in {"sys", "nt", "winapi"}, NEW args, NEW frame,
         lib = "nt" => frame.number = NtNumber["bits"],
         NEW out, (\E v \in 0 .. DwordMod - 1 : v # 0 /\ out = Ok(v)) \/ \E e : out = Error(e)
  PROVE  Arrives(lib, "bits", frame, KernelCall("bits", args), out)
<1> DEFINE c == KernelCall("bits", args)
           second == Second(out)
<1>1. Register(lib, frame, c, out) = IF out.ok THEN out.value ELSE 0
  BY WindowRegister, WinRegister
<1>2. \A v : Learned(lib, "bits", v, second) = Told(v # 0, v)
  <2>1. \A v : lib # "winapi" => Learned(lib, "bits", v, second) = Told(v # 0, v)
    BY WindowLearned DEF WindowResult
  <2>2. \A v : Learned("winapi", "bits", v, second) = Told(v # 0, v)
    BY DEF Learned, WinapiResult
  <2> QED
    BY <2>1, <2>2
<1> HIDE DEF c, second
<1>3. ASSUME NEW v \in 0 .. DwordMod - 1, v # 0, out = Ok(v)
      PROVE  Arrives(lib, "bits", frame, c, out)
  <2>1. Register(lib, frame, c, out) = v
    BY <1>1, <1>3, OutIs
  <2>2. second = v /\ v \in 0 .. WordMod - 1
    BY <1>3, DwordResult, SecondIs DEF second
  <2>3. Learned(lib, "bits", v, second) = Ok(v)
    BY <1>2, <1>3, ToldIs
  <2> QED
    BY <1>3, <2>1, <2>2, <2>3, HeardAll DEF Arrives, second
<1>4. ASSUME NEW e, out = Error(e)
      PROVE  Arrives(lib, "bits", frame, c, out)
  <2>1. Register(lib, frame, c, out) = 0
    BY <1>1, <1>4, OutIs
  <2>2. Learned(lib, "bits", 0, second) = Error(Unknown)
    BY <1>2, ToldIs
  <2>3. second = 0
    BY <1>4, SecondIs DEF second
  <2> QED
    BY <1>4, <2>1, <2>2, <2>3, HeardFailure, OneBit DEF Arrives, second
<1> QED
  BY <1>3, <1>4 DEF c

LEMMA SizeArrives ==
  ASSUME arch \in Architectures, NEW lib \in {"sys", "nt", "winapi"}, NEW args, NEW frame,
         lib = "nt" => frame.number = NtNumber["size"],
         NEW out, (\E v \in 0 .. DwordMod - 1 : out = Ok(v)) \/ \E e : out = Error(e)
  PROVE  Arrives(lib, "size", frame, KernelCall("size", args), out)
<1> DEFINE c == KernelCall("size", args)
           second == Second(out)
<1>1. Register(lib, frame, c, out) = IF out.ok THEN out.value ELSE 0
  BY WindowRegister, WinRegister
<1>2. \A v : Learned(lib, "size", v, second) = IF lib = "winapi" THEN Ok(v % DwordMod) ELSE Ok(v)
  <2>1. \A v : lib # "winapi" => Learned(lib, "size", v, second) = Ok(v)
    BY WindowLearned DEF WindowResult
  <2>2. \A v : Learned("winapi", "size", v, second) = Ok(v % DwordMod)
    BY DEF Learned, WinapiResult
  <2> QED
    BY <2>1, <2>2
<1> HIDE DEF c, second
<1>3. ASSUME NEW v \in 0 .. DwordMod - 1, out = Ok(v)
      PROVE  Arrives(lib, "size", frame, c, out)
  <2>1. Register(lib, frame, c, out) = v
    BY <1>1, <1>3, OutIs
  <2>2. second = v /\ v \in 0 .. WordMod - 1 /\ v % DwordMod = v
    BY <1>3, DwordResult, SecondIs DEF second
  <2>3. Learned(lib, "size", v, second) = Ok(v)
    BY <1>2, <2>2
  <2> QED
    BY <1>3, <2>1, <2>2, <2>3, HeardAll DEF Arrives, second
<1>4. ASSUME NEW e, out = Error(e)
      PROVE  Arrives(lib, "size", frame, c, out)
  <2>1. Register(lib, frame, c, out) = 0 /\ second = 0 /\ ~out.ok
    BY <1>1, <1>4, OutIs, SecondIs DEF second
  <2>2. \A learned : Heard("size", learned, out)
    BY <2>1 DEF Heard, Fallible
  <2> QED
    BY <2>1, <2>2, OneBit DEF Arrives, second
<1> QED
  BY <1>3, <1>4 DEF c

\* The place of a window is a word, and all but the last one can be told from the
\* value for a window that is not there.
LEMMA RectFits ==
  ASSUME arch \in Architectures, NEW lib \in {"sys", "nt", "winapi"}, NEW args, NEW frame,
         lib = "nt" => frame.number = NtNumber["rect"],
         NEW out, (\E v \in 0 .. DwordMod - 1 : out = Ok(v)) \/ \E e : out = Error(e)
  PROVE  /\ Register(lib, frame, KernelCall("rect", args), out) \in 0 .. WordMod - 1
         /\ Second(out) \in 0 .. WordMod - 1
<1> DEFINE c == KernelCall("rect", args)
           second == Second(out)
<1>1. Register(lib, frame, c, out) = IF out.ok THEN out.value ELSE Invalid
  BY WindowRegister, WinRegister
<1> HIDE DEF c, second
<1>2. ASSUME NEW v \in 0 .. DwordMod - 1, out = Ok(v)
      PROVE  Register(lib, frame, c, out) \in 0 .. WordMod - 1 /\ second \in 0 .. WordMod - 1
  BY <1>1, <1>2, OutIs, SecondIs, DwordResult DEF second
<1>3. ASSUME NEW e, out = Error(e)
      PROVE  Register(lib, frame, c, out) \in 0 .. WordMod - 1 /\ second \in 0 .. WordMod - 1
  BY <1>1, <1>3, OutIs, SecondIs, InvalidIs, OneBit DEF second
<1> QED
  BY <1>2, <1>3 DEF c, second

LEMMA RectHeard ==
  ASSUME arch \in Architectures, NEW lib \in {"sys", "nt", "winapi"}, NEW args, NEW frame,
         lib = "nt" => frame.number = NtNumber["rect"],
         NEW v \in 0 .. DwordMod - 1, v # INVALID_HANDLE, NEW out, out = Ok(v)
  PROVE  Heard("rect", Learned(lib, "rect", Register(lib, frame, KernelCall("rect", args), out), Second(out)), out)
<1> DEFINE c == KernelCall("rect", args)
           second == Second(out)
<1>1. Register(lib, frame, c, out) = v
  <2>1. Register(lib, frame, c, out) = IF out.ok THEN out.value ELSE Invalid
    BY WindowRegister, WinRegister
  <2> HIDE DEF c
  <2> QED
    BY <2>1, OutIs
<1>2. v % DwordMod = v /\ v # Invalid
  <2>1. v % DwordMod = v /\ Invalid % DwordMod = INVALID_HANDLE
    BY DwordResult, InvalidIs
  <2> QED
    BY <2>1
<1>3. Learned(lib, "rect", v, second) = Ok(v)
  <2>1. CASE lib # "winapi"
    <3>1. Learned(lib, "rect", v, second) = Told(v # Invalid, v)
      BY <2>1, WindowLearned DEF WindowResult
    <3> QED
      BY <3>1, <1>2, ToldIs
  <2>2. CASE lib = "winapi"
    <3>1. Learned(lib, "rect", v, second) = Told(v % DwordMod # Invalid, v % DwordMod)
      BY <2>2 DEF Learned, WinapiResult
    <3> QED
      BY <3>1, <1>2, ToldIs
  <2> QED
    BY <2>1, <2>2
<1> QED
  BY <1>1, <1>3, HeardAll DEF c, second

\* The calls that cannot fail.
PlainOp(op, kernelOp) ==
  \/ op \in {"key", "time", "mouse", "exit", "yield"} /\ kernelOp = op
  \/ op = "flush" /\ kernelOp = "yield"
  \/ op = "sleep" /\ kernelOp \in {"yield", "sleep"}

PlainWord(lib, op, kernelOp, out) ==
  CASE lib = "sys" -> Signed(out.value % DwordMod, DwordMod) % WordMod
    [] lib = "nt" -> IF op \in {"exit", "sleep", "time", "yield"} THEN 0 ELSE out.value
    [] lib = "winapi" -> IF kernelOp = "sleep" THEN 0 ELSE out.value

LEMMA PlainReply ==
  ASSUME NEW lib \in {"sys", "nt", "winapi"}, NEW op, NEW kernelOp, PlainOp(op, kernelOp), NEW args, NEW frame,
         lib = "nt" => frame.number = NtNumber[op], NEW v, NEW out, out = Ok(v)
  PROVE  Register(lib, frame, KernelCall(kernelOp, args), out) =
           PlainWord(lib, op, kernelOp, out)
<1> DEFINE c == KernelCall(kernelOp, args)
<1>0. out.ok = TRUE
  BY OutIs
<1>1. c.op = kernelOp
  BY DEF KernelCall
<1>2. kernelOp \in {"key", "time", "mouse", "exit", "yield", "sleep"} /\ op \in {"key", "time", "mouse", "exit", "yield", "flush", "sleep"}
  BY DEF PlainOp
<1>3. lib = "nt" => (frame.number < 8192 <=> op \in {"exit", "sleep", "time", "yield"})
  BY <1>2 DEF NtNumber
<1> HIDE DEF c
<1>4. PosixReturn(c, out) = Signed(out.value % DwordMod, DwordMod) % WordMod
  BY <1>0, <1>1, <1>2 DEF PosixReturn
<1>5. lib = "nt" => NtReturn(frame, c, out) = IF op \in {"exit", "sleep", "time", "yield"} THEN 0 ELSE out.value
  BY <1>0, <1>1, <1>2, <1>3 DEF NtReturn
<1>6. Win32Return(c, out) = IF kernelOp = "sleep" THEN 0 ELSE out.value
  BY <1>1, <1>2 DEF Win32Return
<1>7. CASE lib = "sys"
  BY <1>4, <1>7 DEF Register, PlainWord, c
<1>8. CASE lib = "nt"
  BY <1>5, <1>8 DEF Register, PlainWord, c
<1>9. CASE lib = "winapi"
  BY <1>6, <1>9 DEF Register, PlainWord, c
<1> QED
  BY <1>7, <1>8, <1>9

LEMMA PlainLearned ==
  ASSUME NEW lib \in {"sys", "nt", "winapi"}, NEW op \in {"key", "time", "mouse", "exit", "yield", "flush", "sleep"}, NEW v, NEW second
  PROVE  Learned(lib, op, v, second) =
           CASE lib = "sys" -> Ok(v)
             [] lib = "nt" -> IF op = "time" THEN Ok(second % DwordMod) ELSE Ok(v)
             [] lib = "winapi" -> Ok(v % DwordMod)
<1>1. SysResult(op, v) = Ok(v)
  BY DEF SysResult, WindowResult
<1>2. NtResult(op, v, second) = IF op = "time" THEN Ok(second % DwordMod) ELSE Ok(v)
  BY DEF NtResult, WindowResult
<1>3. WinapiResult(op, v, second) = Ok(v % DwordMod)
  BY DEF WinapiResult
<1>4. CASE lib = "sys"
  BY <1>1, <1>4 DEF Learned
<1>5. CASE lib = "nt"
  BY <1>2, <1>5 DEF Learned
<1>6. CASE lib = "winapi"
  BY <1>3, <1>6 DEF Learned
<1> QED
  BY <1>4, <1>5, <1>6

LEMMA PlainArrives ==
  ASSUME arch \in Architectures, NEW lib \in {"sys", "nt", "winapi"}, NEW op, NEW kernelOp, PlainOp(op, kernelOp), NEW args,
         NEW frame, lib = "nt" => frame.number = NtNumber[op], NEW out \in Successes,
         kernelOp \in {"yield", "sleep", "exit"} => out = Ok(0)
  PROVE  Arrives(lib, op, frame, KernelCall(kernelOp, args), out)
<1> DEFINE c == KernelCall(kernelOp, args)
           second == Second(out)
<1>1. PICK v \in 0 .. DwordMod \div 2 - 1 : out = Ok(v)
  BY DEF Successes
<1>2. out.ok = TRUE /\ out.value = v
  BY <1>1, OutIs
<1>3. kernelOp \in {"yield", "sleep", "exit"} => v = 0
  BY <1>2, OutIs
<1>4. op \in {"key", "time", "mouse", "exit", "yield", "flush", "sleep"} /\ (op \in {"exit", "sleep", "yield"} => kernelOp \in {"yield", "sleep", "exit"})
  BY DEF PlainOp
<1>5. v % DwordMod = v /\ Signed(v % DwordMod, DwordMod) % WordMod = v /\ v \in 0 .. WordMod - 1 /\ second = v
  BY <1>1, SmallResult, SecondIs
<1> DEFINE r == Register(lib, frame, c, out)
<1>6. r = CASE lib = "sys" -> v
            [] lib = "nt" -> IF op \in {"exit", "sleep", "time", "yield"} THEN 0 ELSE v
            [] lib = "winapi" -> IF kernelOp = "sleep" THEN 0 ELSE v
  <2>1. r = PlainWord(lib, op, kernelOp, out)
    BY <1>1, PlainReply
  <2> HIDE DEF r
  <2> QED
    BY <2>1, <1>2, <1>5 DEF PlainWord
<1>7. Learned(lib, op, r, second) =
        CASE lib = "sys" -> Ok(r)
          [] lib = "nt" -> IF op = "time" THEN Ok(second % DwordMod) ELSE Ok(r)
          [] lib = "winapi" -> Ok(r % DwordMod)
  BY <1>4, PlainLearned
<1> HIDE DEF c, second, r
<1>8. r \in {0, v} /\ (op # "time" => r = v)
  BY <1>3, <1>4, <1>6
<1>9. Learned(lib, op, r, second) = Ok(v)
  <2>1. CASE op = "time"
    <3>1. lib # "nt" => r = v
      BY <2>1, <1>6 DEF PlainOp
    <3> QED
      BY <2>1, <3>1, <1>5, <1>7
  <2>2. CASE op # "time"
    BY <2>2, <1>5, <1>7, <1>8
  <2> QED
    BY <2>1, <2>2
<1>10. Heard(op, Ok(v), out)
  BY <1>1, HeardAll
<1> QED
  BY <1>5, <1>8, <1>9, <1>10, OneBit DEF Arrives, c, second, r

------------------------------------------------------------------------------
(* One call *)

\* What a request comes to in the kernel, by its form.
LEMMA MeaningForms ==
  ASSUME NEW req \in Requests, NEW c \in Meanings(req)
  PROVE  \/ \E op \in {"write", "read"}, h \in Handles, b \in {0, 1}, n \in Counts :
              req = Ask(op, <<h, b, n>>) /\ c = KernelCall(op, <<h, b, n>>)
         \/ \E n \in {Present, Absent}, create \in BOOLEAN :
              req = Ask("open", <<n, create>>) /\ c = KernelCall("open", <<n, create>>)
         \/ \E h \in Handles : req = Ask("close", <<h>>) /\ c = KernelCall("close", <<h>>)
         \/ \E s \in Shapes : req = Ask("window", s) /\ c = KernelCall("window", s)
         \/ \E op \in {"bits", "size", "rect"}, w \in WindowIds : req = Ask(op, <<w>>) /\ c = KernelCall(op, <<w>>)
         \/ \E op, args, kernelOp, kernelArgs :
              req = Ask(op, args) /\ c = KernelCall(kernelOp, kernelArgs) /\ PlainOp(op, kernelOp)
<1>1. CASE \E op \in {"write", "read"}, h \in Handles, b \in {0, 1}, n \in Counts : req = Ask(op, <<h, b, n>>)
  BY <1>1, MeansTransfer
<1>2. CASE \E n \in {Present, Absent}, create \in BOOLEAN : req = Ask("open", <<n, create>>)
  <2>1. PICK n \in {Present, Absent}, create \in BOOLEAN : req = Ask("open", <<n, create>>)
    BY <1>2, Zenon
  <2>2. Meanings(Ask("open", <<n, create>>)) = {KernelCall("open", <<n, create>>)}
    BY MeansTransfer
  <2>3. c = KernelCall("open", <<n, create>>)
    BY <2>1, <2>2, Zenon
  <2> QED
    BY <2>1, <2>3, Zenon
<1>3. CASE \E h \in Handles : req = Ask("close", <<h>>)
  BY <1>3, MeansTransfer
<1>4. CASE \E ms \in Delays : req = Ask("sleep", <<ms>>)
  <2>1. PICK ms \in Delays : req = Ask("sleep", <<ms>>)
    BY <1>4
  <2>2. c = KernelCall("yield", <<>>) \/ c = KernelCall("sleep", <<Ticks(ms)>>)
    BY <2>1, MeansSleep
  <2>3. PlainOp("sleep", "yield") /\ PlainOp("sleep", "sleep")
    BY DEF PlainOp
  <2> QED
    BY <2>1, <2>2, <2>3, Zenon
<1>5. CASE \E v \in {0, 3} : req = Ask("exit", <<v>>)
  <2>1. PICK v \in {0, 3} : req = Ask("exit", <<v>>)
    BY <1>5
  <2>2. c = KernelCall("exit", <<v>>)
    BY <2>1, MeansTransfer
  <2>3. PlainOp("exit", "exit")
    BY DEF PlainOp
  <2> QED
    BY <2>1, <2>2, <2>3, Zenon
<1>6. CASE \E s \in Shapes : req = Ask("window", s)
  BY <1>6, MeansTransfer
<1>7. CASE \E op \in OneArgument, w \in WindowIds : req = Ask(op, <<w>>)
  <2>1. PICK op \in OneArgument, w \in WindowIds : req = Ask(op, <<w>>)
    BY <1>7
  <2>2. op \in {"bits", "size", "rect", "key"} /\ c = KernelCall(op, <<w>>)
    BY <2>1, MeansTransfer DEF OneArgument
  <2>3. PlainOp("key", "key")
    BY DEF PlainOp
  <2>4. CASE op = "key"
    BY <2>1, <2>2, <2>3, <2>4, Zenon
  <2>5. CASE op # "key"
    <3>1. op \in {"bits", "size", "rect"}
      BY <2>2, <2>5
    <3> QED
      BY <2>1, <2>2, <3>1, Zenon
  <2> QED
    BY <2>4, <2>5
<1>8. CASE \E op \in NoArguments : req = Ask(op, <<>>)
  <2>1. PICK op \in NoArguments : req = Ask(op, <<>>)
    BY <1>8
  <2>2. c = KernelCall(IF op = "flush" THEN "yield" ELSE op, <<>>)
    BY <2>1, MeansTransfer, MeansFlush DEF NoArguments
  <2>3. PlainOp(op, IF op = "flush" THEN "yield" ELSE op)
    BY <2>1 DEF PlainOp, NoArguments
  <2> QED
    BY <2>1, <2>2, <2>3, Zenon
<1> QED
  BY RequestForms, <1>1, <1>2, <1>3, <1>4, <1>5, <1>6, <1>7, <1>8, Zenon

\* What is open after a call, as its caller works it out from the result.
FdsAfter(req, out, open) ==
  IF out.ok /\ req.op = "open" THEN open \union {out.value}
  ELSE IF out.ok /\ req.op = "close" THEN open \ {req.args[1]} ELSE open
WindowsAfter(req, out, open) == IF out.ok /\ req.op = "window" THEN open \union {out.value} ELSE open

OpenTypes ==
  /\ fds \subseteq FIRST_FREE_FD .. MAX_FDS - 1
  /\ DOMAIN windows \subseteq 0 .. MAX_WINDOWS - 1 /\ \A w \in DOMAIN windows : windows[w] \in Shapes

AnswerTypes(a) ==
  /\ a.fds \subseteq FIRST_FREE_FD .. MAX_FDS - 1
  /\ DOMAIN a.windows \subseteq 0 .. MAX_WINDOWS - 1 /\ \A w \in DOMAIN a.windows : a.windows[w] \in Shapes

Effect(req, a) ==
  /\ AnswerTypes(a)
  /\ a.fds = FdsAfter(req, a.out, fds)
  /\ DOMAIN a.windows = WindowsAfter(req, a.out, DOMAIN windows)

LEMMA NoEffect ==
  ASSUME OpenTypes, NEW req, NEW a, Unchanged(a), a.out.ok => req.op \notin {"open", "close", "window"}
  PROVE  Effect(req, a)
BY DEF Effect, AnswerTypes, OpenTypes, Unchanged, FdsAfter, WindowsAfter

LEMMA Effects ==
  ASSUME OpenTypes, NEW req \in Requests, NEW c \in Meanings(req), NEW a \in Answers(c)
  PROVE  Effect(req, a)
<1>1. ASSUME NEW op \in {"write", "read"}, NEW h \in Handles, NEW b \in {0, 1}, NEW n \in Counts,
             req = Ask(op, <<h, b, n>>), c = KernelCall(op, <<h, b, n>>)
      PROVE  Effect(req, a)
  <2>1. Answers(KernelCall(op, <<h, b, n>>)) = Transfers(op, h, b, n)
    BY DEF Answers, KernelCall
  <2>2. Unchanged(a)
    BY <1>1, <2>1, TransferAnswers
  <2>3. req.op \notin {"open", "close", "window"}
    BY <1>1, OpOf
  <2> QED
    BY <2>2, <2>3, NoEffect
<1>2. ASSUME NEW n, NEW create, req = Ask("open", <<n, create>>), c = KernelCall("open", <<n, create>>)
      PROVE  Effect(req, a)
  <2>1. req.op = "open"
    BY <1>2, OpOf
  <2>2. CASE a.out \in Failures /\ Unchanged(a)
    <3>1. ~a.out.ok
      <4>1. PICK e \in DOMAIN Errno : a.out = Error(e)
        BY <2>2 DEF Failures
      <4> QED
        BY <4>1, OutIs
    <3> QED
      BY <2>2, <3>1, NoEffect
  <2>3. CASE \E h \in Free : a.out = Ok(h) /\ a.fds = fds \union {h} /\ a.windows = windows
    <3>1. PICK h \in Free : a.out = Ok(h) /\ a.fds = fds \union {h} /\ a.windows = windows
      BY <2>3
    <3>2. h \in FIRST_FREE_FD .. MAX_FDS - 1 /\ a.out.ok = TRUE /\ a.out.value = h
      BY <3>1, FreeIs, OutIs
    <3> QED
      BY <2>1, <3>1, <3>2 DEF Effect, AnswerTypes, OpenTypes, FdsAfter, WindowsAfter
  <2> QED
    BY <1>2, <2>2, <2>3, OpenAnswers
<1>3. ASSUME NEW h \in Handles, req = Ask("close", <<h>>), c = KernelCall("close", <<h>>)
      PROVE  Effect(req, a)
  <2>1. req.op = "close" /\ req.args[1] = h
    BY <1>3, OpOf
  <2>2. CASE a.out = Error("BadFileDescriptor") /\ Unchanged(a)
    BY <2>2, OutIs, NoEffect
  <2>3. CASE a.out = Ok(0) /\ a.fds = fds \ {h} /\ a.windows = windows
    <3>1. a.out.ok = TRUE
      BY <2>3, OutIs
    <3> QED
      BY <2>1, <2>3, <3>1 DEF Effect, AnswerTypes, OpenTypes, FdsAfter, WindowsAfter
  <2> QED
    BY <1>3, <2>2, <2>3, CloseAnswers
<1>4. ASSUME NEW s \in Shapes, req = Ask("window", s), c = KernelCall("window", s)
      PROVE  Effect(req, a)
  <2>1. req.op = "window"
    BY <1>4, OpOf
  <2>2. CASE a.out = Error("TooManyWindows") /\ Unchanged(a)
    BY <2>2, OutIs, NoEffect
  <2>3. ASSUME NEW id \in 0 .. MAX_WINDOWS - 1, a.out = Ok(id), a.fds = fds,
               a.windows = [w \in DOMAIN windows \union {id} |-> IF w = id THEN s ELSE windows[w]]
        PROVE  Effect(req, a)
    <3>1. a.out.ok = TRUE /\ a.out.value = id
      BY <2>3, OutIs
    <3>2. DOMAIN a.windows = DOMAIN windows \union {id}
      BY <2>3
    <3>3. \A w \in DOMAIN a.windows : a.windows[w] \in Shapes
      BY <2>3 DEF OpenTypes
    <3> QED
      BY <2>1, <2>3, <3>1, <3>2, <3>3 DEF Effect, AnswerTypes, OpenTypes, FdsAfter, WindowsAfter
  <2>4. \/ a.out = Error("TooManyWindows") /\ Unchanged(a)
        \/ \E id \in 0 .. MAX_WINDOWS - 1 :
             /\ a.out = Ok(id) /\ a.fds = fds
             /\ a.windows = [w \in DOMAIN windows \union {id} |-> IF w = id THEN s ELSE windows[w]]
    BY <1>4, WindowAnswers
  <2> QED
    BY <2>2, <2>3, <2>4, Zenon
<1>5. ASSUME NEW op \in {"bits", "size", "rect"}, NEW w, req = Ask(op, <<w>>), c = KernelCall(op, <<w>>)
      PROVE  Effect(req, a)
  <2>1. Unchanged(a)
    BY <1>5, OfWindowAnswers
  <2>2. req.op \notin {"open", "close", "window"}
    BY <1>5, OpOf
  <2> QED
    BY <2>1, <2>2, NoEffect
<1>6. ASSUME NEW op, NEW args, NEW kernelOp, NEW kernelArgs, req = Ask(op, args), c = KernelCall(kernelOp, kernelArgs),
             PlainOp(op, kernelOp)
      PROVE  Effect(req, a)
  <2>1. kernelOp \in {"key", "time", "mouse", "yield", "sleep", "exit"} /\ op \notin {"open", "close", "window"}
    BY <1>6 DEF PlainOp
  <2>2. Unchanged(a)
    BY <1>6, <2>1, PlainAnswers
  <2>3. req.op \notin {"open", "close", "window"}
    BY <1>6, <2>1, OpOf
  <2> QED
    BY <2>2, <2>3, NoEffect
<1>7. CASE \E op \in {"write", "read"}, h \in Handles, b \in {0, 1}, n \in Counts :
             req = Ask(op, <<h, b, n>>) /\ c = KernelCall(op, <<h, b, n>>)
  BY <1>7, <1>1, Zenon
<1>8. CASE \E n \in {Present, Absent}, create \in BOOLEAN :
             req = Ask("open", <<n, create>>) /\ c = KernelCall("open", <<n, create>>)
  BY <1>8, <1>2, Zenon
<1>9. CASE \E h \in Handles : req = Ask("close", <<h>>) /\ c = KernelCall("close", <<h>>)
  BY <1>9, <1>3, Zenon
<1>10. CASE \E s \in Shapes : req = Ask("window", s) /\ c = KernelCall("window", s)
  BY <1>10, <1>4, Zenon
<1>11. CASE \E op \in {"bits", "size", "rect"}, w \in WindowIds : req = Ask(op, <<w>>) /\ c = KernelCall(op, <<w>>)
  BY <1>11, <1>5, Zenon
<1>12. CASE \E op, args, kernelOp, kernelArgs :
             req = Ask(op, args) /\ c = KernelCall(kernelOp, kernelArgs) /\ PlainOp(op, kernelOp)
  BY <1>12, <1>6, Zenon
<1> QED
  BY MeaningForms, <1>7, <1>8, <1>9, <1>10, <1>11, <1>12, Zenon

\* On i386 the place of a window whose left and upper edges are the largest there are is
\* the value for a window that is not there.
PlacesDiffer == CallOps = {} /\ \A s \in Shapes : s[1] < Half - 1 \/ s[2] < Half - 1

Owned(req) == req.args[1] \in DOMAIN windows

Delivered(lib, req, frame, c, out) ==
  /\ Register(lib, frame, c, out) \in 0 .. WordMod - 1
  /\ Second(out) \in 0 .. WordMod - 1
  /\ (req.op = "rect" => PlacesDiffer /\ Owned(req)) =>
       Heard(req.op, Learned(lib, req.op, Register(lib, frame, c, out), Second(out)), out)

LEMMA ArrivesDelivered ==
  ASSUME NEW lib, NEW req, NEW frame, NEW c, NEW out, Arrives(lib, req.op, frame, c, out)
  PROVE  Delivered(lib, req, frame, c, out)
BY DEF Arrives, Delivered

LEMMA TransferDelivered ==
  ASSUME arch \in Architectures, NEW lib \in {"sys", "nt", "winapi"}, NEW op \in {"write", "read", "open", "close"}, NEW args,
         NEW frame, lib = "nt" => frame.number = NtNumber[op],
         NEW out \in Successes \union Failures, op = "close" /\ out.ok => out.value = 0
  PROVE  Arrives(lib, op, frame, KernelCall(op, args), out)
<1>1. CASE lib = "sys"
  BY <1>1, SysTransferArrives
<1>2. CASE lib = "nt"
  BY <1>2, NtTransferArrives
<1>3. CASE lib = "winapi" /\ op # "open"
  BY <1>3, WinTransferArrives
<1>4. CASE lib = "winapi" /\ op = "open"
  <2>1. out \in Successes \/ \E e : out = Error(e)
    BY DEF Failures
  <2> QED
    BY <1>4, <2>1, WinHandleArrives
<1> QED
  BY <1>1, <1>2, <1>3, <1>4

LEMMA LastInSquare ==
  ASSUME NEW h \in Nat, h >= 16, NEW x \in 0 .. h - 1, NEW y \in 0 .. h - 1, x * h + y = h * h - 1
  PROVE  x = h - 1 /\ y = h - 1
<1> DEFINE p == x * h
           q == h * h
<1>1. p <= (h - 1) * h /\ (h - 1) * h = q - h
  OBVIOUS
<1>2. x < h - 1 => p <= (h - 2) * h
  OBVIOUS
<1>3. (h - 2) * h = q - 2 * h
  OBVIOUS
<1>4. p \in Nat /\ q \in Nat /\ p + y = q - 1
  OBVIOUS
<1> HIDE DEF p, q
<1>5. p <= q - h /\ (x < h - 1 => p <= q - 2 * h)
  BY <1>1, <1>2, <1>3
<1> QED
  BY <1>4, <1>5

LEMMA PlaceIs ==
  ASSUME arch \in Architectures, OpenTypes, NEW w \in DOMAIN windows, NEW i \in {1, 3}
  PROVE  /\ Pack(windows[w][i], windows[w][i + 1]) \in 0 .. DwordMod - 1
         /\ i = 1 /\ PlacesDiffer => Pack(windows[w][1], windows[w][2]) # INVALID_HANDLE
<1> DEFINE s == windows[w]
<1>1. s \in Shapes
  BY DEF OpenTypes
<1>2. s[1] \in 0 .. Half - 1 /\ s[2] \in 0 .. Half - 1 /\ s[3] \in 0 .. Half - 1 /\ s[4] \in 0 .. Half - 1
  BY <1>1, ShapeIs
<1>3. PlacesDiffer => s[1] < Half - 1 \/ s[2] < Half - 1
  BY <1>1 DEF PlacesDiffer
<1> HIDE DEF s
<1>4. Pack(s[1], s[2]) \in 0 .. DwordMod - 1 /\ Pack(s[3], s[4]) \in 0 .. DwordMod - 1 /\ Pack(s[1], s[2]) = s[1] * Half + s[2]
  BY <1>2, Measures
<1>5. Pack(s[i], s[i + 1]) \in 0 .. DwordMod - 1
  <2>1. CASE i = 1
    BY <2>1, <1>4
  <2>2. CASE i = 3
    BY <2>2, <1>4
  <2> QED
    BY <2>1, <2>2
<1>6. ASSUME s[1] < Half - 1 \/ s[2] < Half - 1
      PROVE  s[1] * Half + s[2] # INVALID_HANDLE
  <2>1. s[1] # Half - 1 \/ s[2] # Half - 1
    BY <1>2, <1>6, Widths
  <2>2. INVALID_HANDLE = Half * Half - 1 /\ Half \in Nat /\ Half >= 16
    BY Widths DEF INVALID_HANDLE
  <2> QED
    BY <1>2, <2>1, <2>2, LastInSquare
<1> QED
  BY <1>3, <1>4, <1>5, <1>6 DEF s

LEMMA OfWindowDelivered ==
  ASSUME arch \in Architectures, OpenTypes, NEW lib \in {"sys", "nt", "winapi"}, NEW op \in {"bits", "size", "rect"}, NEW w,
         NEW frame, lib = "nt" => frame.number = NtNumber[op], NEW req, req = Ask(op, <<w>>),
         NEW c, c = KernelCall(op, <<w>>), NEW a \in Answers(c)
  PROVE  Delivered(lib, req, frame, c, a.out)
<1> DEFINE out == a.out
<1>0. req.op = op /\ req.args[1] = w
  BY OpOf
<1>1. w \notin DOMAIN windows => out = Error("BadWindow")
  BY OfWindowAnswers
<1>2. CASE op = "bits"
  <2>1. w \in DOMAIN windows => out = Ok(DwordMod \div 2 + w)
    BY <1>2, OfWindowAnswers
  <2>2. w \in DOMAIN windows => DwordMod \div 2 + w \in 0 .. DwordMod - 1 /\ DwordMod \div 2 + w # 0
    BY Widths DEF OpenTypes
  <2>3. (\E v \in 0 .. DwordMod - 1 : v # 0 /\ out = Ok(v)) \/ \E e : out = Error(e)
    BY <1>1, <2>1, <2>2
  <2> QED
    BY <1>0, <1>2, <2>3, BitsArrive, ArrivesDelivered
<1>3. CASE op = "size"
  <2>1. w \in DOMAIN windows => out = Ok(Pack(windows[w][3], windows[w][4]))
    BY <1>3, OfWindowAnswers
  <2>2. w \in DOMAIN windows => Pack(windows[w][3], windows[w][3 + 1]) \in 0 .. DwordMod - 1
    BY PlaceIs
  <2>3. (\E v \in 0 .. DwordMod - 1 : out = Ok(v)) \/ \E e : out = Error(e)
    BY <1>1, <2>1, <2>2
  <2> QED
    BY <1>0, <1>3, <2>3, SizeArrives, ArrivesDelivered
<1>4. CASE op = "rect"
  <2> DEFINE place == Pack(windows[w][1], windows[w][2])
  <2>1. w \in DOMAIN windows => out = Ok(place)
    BY <1>4, OfWindowAnswers
  <2>2. w \in DOMAIN windows => place \in 0 .. DwordMod - 1 /\ (PlacesDiffer => place # INVALID_HANDLE)
    <3>1. w \in DOMAIN windows => Pack(windows[w][1], windows[w][1 + 1]) \in 0 .. DwordMod - 1 /\ (PlacesDiffer => place # INVALID_HANDLE)
      BY PlaceIs
    <3> QED
      BY <3>1
  <2> HIDE DEF place
  <2>3. (\E v \in 0 .. DwordMod - 1 : out = Ok(v)) \/ \E e : out = Error(e)
    BY <1>1, <2>1, <2>2
  <2>4. Register(lib, frame, c, out) \in 0 .. WordMod - 1 /\ Second(out) \in 0 .. WordMod - 1
    BY <1>4, <2>3, RectFits
  <2>5. ASSUME PlacesDiffer, w \in DOMAIN windows
        PROVE  Heard("rect", Learned(lib, "rect", Register(lib, frame, c, out), Second(out)), out)
    BY <1>4, <2>1, <2>2, <2>5, RectHeard
  <2> QED
    BY <1>0, <1>4, <2>4, <2>5 DEF Delivered, Owned
<1> QED
  BY <1>2, <1>3, <1>4

LEMMA Deliveries ==
  ASSUME arch \in Architectures, OpenTypes, NEW lib \in {"sys", "nt", "winapi"}, NEW req \in Requests, NEW frame,
         lib = "nt" => frame.number = NtNumber[req.op], NEW c \in Meanings(req), NEW a \in Answers(c)
  PROVE  Delivered(lib, req, frame, c, a.out)
<1>1. ASSUME NEW op \in {"write", "read"}, NEW h \in Handles, NEW b \in {0, 1}, NEW n \in Counts,
             req = Ask(op, <<h, b, n>>), c = KernelCall(op, <<h, b, n>>)
      PROVE  Delivered(lib, req, frame, c, a.out)
  <2>1. Answers(KernelCall(op, <<h, b, n>>)) = Transfers(op, h, b, n)
    BY DEF Answers, KernelCall
  <2>2. a.out \in Successes \union Failures
    BY <1>1, <2>1, TransferAnswers
  <2>3. req.op = op
    BY <1>1, OpOf
  <2>4. Arrives(lib, op, frame, c, a.out)
    BY <1>1, <2>2, <2>3, TransferDelivered
  <2> QED
    BY <2>3, <2>4, ArrivesDelivered
<1>2. ASSUME NEW n, NEW create, req = Ask("open", <<n, create>>), c = KernelCall("open", <<n, create>>)
      PROVE  Delivered(lib, req, frame, c, a.out)
  <2>1. req.op = "open"
    BY <1>2, OpOf
  <2>2. a.out \in Failures \/ \E h \in Free : a.out = Ok(h)
    BY <1>2, OpenAnswers
  <2>3. a.out \in Successes \union Failures
    BY <2>2, FreeIs, SuccessIs
  <2>4. Arrives(lib, "open", frame, c, a.out)
    BY <1>2, <2>1, <2>3, TransferDelivered
  <2> QED
    BY <2>1, <2>4, ArrivesDelivered
<1>3. ASSUME NEW h \in Handles, req = Ask("close", <<h>>), c = KernelCall("close", <<h>>)
      PROVE  Delivered(lib, req, frame, c, a.out)
  <2>1. req.op = "close"
    BY <1>3, OpOf
  <2>2. a.out = Ok(0) \/ a.out = Error("BadFileDescriptor")
    BY <1>3, CloseAnswers
  <2>3. 0 \in 0 .. DwordMod \div 2 - 1
    BY Widths
  <2>4. a.out \in Successes \union Failures /\ (a.out.ok => a.out.value = 0)
    BY <2>2, <2>3, FailureIs, SuccessIs, OutIs
  <2>5. Arrives(lib, "close", frame, c, a.out)
    BY <1>3, <2>1, <2>4, TransferDelivered
  <2> QED
    BY <2>1, <2>5, ArrivesDelivered
<1>4. ASSUME NEW s \in Shapes, req = Ask("window", s), c = KernelCall("window", s)
      PROVE  Delivered(lib, req, frame, c, a.out)
  <2>1. req.op = "window"
    BY <1>4, OpOf
  <2>2. a.out = Error("TooManyWindows") \/ \E id \in 0 .. MAX_WINDOWS - 1 : a.out = Ok(id)
    <3>1. \/ a.out = Error("TooManyWindows") /\ Unchanged(a)
          \/ \E id \in 0 .. MAX_WINDOWS - 1 :
               /\ a.out = Ok(id) /\ a.fds = fds
               /\ a.windows = [w \in DOMAIN windows \union {id} |-> IF w = id THEN s ELSE windows[w]]
      BY <1>4, WindowAnswers
    <3> QED
      BY <3>1, Zenon
  <2>3. \A id \in 0 .. MAX_WINDOWS - 1 : id \in 0 .. DwordMod \div 2 - 1
    BY Widths
  <2>4. a.out \in Successes \/ \E e : a.out = Error(e)
    BY <2>2, <2>3, SuccessIs
  <2>5. Arrives(lib, "window", frame, c, a.out)
    <3>1. CASE lib = "winapi"
      BY <1>4, <2>4, <3>1, WinHandleArrives
    <3>2. CASE lib # "winapi"
      BY <1>4, <2>1, <2>4, <3>2, WindowArrives
    <3> QED
      BY <3>1, <3>2
  <2> QED
    BY <2>1, <2>5, ArrivesDelivered
<1>5. ASSUME NEW op \in {"bits", "size", "rect"}, NEW w, req = Ask(op, <<w>>), c = KernelCall(op, <<w>>)
      PROVE  Delivered(lib, req, frame, c, a.out)
  <2>1. req.op = op
    BY <1>5, OpOf
  <2> QED
    BY <1>5, <2>1, OfWindowDelivered
<1>6. ASSUME NEW op, NEW args, NEW kernelOp, NEW kernelArgs, req = Ask(op, args), c = KernelCall(kernelOp, kernelArgs),
             PlainOp(op, kernelOp)
      PROVE  Delivered(lib, req, frame, c, a.out)
  <2>1. kernelOp \in {"key", "time", "mouse", "yield", "sleep", "exit"}
    BY <1>6 DEF PlainOp
  <2>2. a.out \in Successes /\ (kernelOp \in {"yield", "sleep", "exit"} => a.out = Ok(0))
    BY <1>6, <2>1, PlainAnswers
  <2>3. req.op = op
    BY <1>6, OpOf
  <2>4. Arrives(lib, op, frame, c, a.out)
    BY <1>6, <2>2, <2>3, PlainArrives
  <2> QED
    BY <2>3, <2>4, ArrivesDelivered
<1>7. CASE \E op \in {"write", "read"}, h \in Handles, b \in {0, 1}, n \in Counts :
             req = Ask(op, <<h, b, n>>) /\ c = KernelCall(op, <<h, b, n>>)
  BY <1>7, <1>1, Zenon
<1>8. CASE \E n \in {Present, Absent}, create \in BOOLEAN :
             req = Ask("open", <<n, create>>) /\ c = KernelCall("open", <<n, create>>)
  BY <1>8, <1>2, Zenon
<1>9. CASE \E h \in Handles : req = Ask("close", <<h>>) /\ c = KernelCall("close", <<h>>)
  BY <1>9, <1>3, Zenon
<1>10. CASE \E s \in Shapes : req = Ask("window", s) /\ c = KernelCall("window", s)
  BY <1>10, <1>4, Zenon
<1>11. CASE \E op \in {"bits", "size", "rect"}, w \in WindowIds : req = Ask(op, <<w>>) /\ c = KernelCall(op, <<w>>)
  BY <1>11, <1>5, Zenon
<1>12. CASE \E op, args, kernelOp, kernelArgs :
             req = Ask(op, args) /\ c = KernelCall(kernelOp, kernelArgs) /\ PlainOp(op, kernelOp)
  BY <1>12, <1>6, Zenon
<1> QED
  BY MeaningForms, <1>7, <1>8, <1>9, <1>10, <1>11, <1>12, Zenon

\* The arguments of an imported function that are on the stack are those it removes.
LEMMA StackIs ==
  ASSUME arch \in Architectures, NEW req \in Requests, req.op \in Offers["winapi"]
  PROVE  StackAfter(req) = 0
<1> DEFINE slots == Services[req.op][2]
           left == Len(Pushed(req, 0))
<1>1. req.op \in DOMAIN Services
  BY DEF Offers, Services
<1>2. Imported[req.op].stack_bytes = 4 * slots
  BY <1>1, ImportedIs
<1>3. slots \in Nat /\ (4 * slots) \div 4 = slots
  BY <1>1 DEF Services
<1>4. left = slots
  <2>1. ASSUME NEW op \in {"write", "read"}, NEW h, NEW b, NEW n, req = Ask(op, <<h, b, n>>)
        PROVE  left = slots
    <3>1. Pushed(req, 0) = <<Dword(h, 0), b, Dword(n, 0), Written, 0>>
      BY <2>1 DEF Pushed, Ask
    <3>2. slots = 5
      BY <2>1, OpOf DEF Services
    <3> QED
      BY <3>1, <3>2
  <2>2. ASSUME NEW n, NEW c \in BOOLEAN, req = Ask("open", <<n, c>>)
        PROVE  left = slots
    <3>1. Pushed(req, 0) = <<n, Dword(0, 0), Dword(0, 0), 0, Dword(IF c THEN 2 ELSE 3, 0), Dword(0, 0), Dword(0, 0)>>
      BY <2>2 DEF Pushed, Ask
    <3>2. slots = 7
      BY <2>2, OpOf DEF Services
    <3> QED
      BY <3>1, <3>2
  <2>3. ASSUME NEW s \in Shapes, req = Ask("window", s)
        PROVE  left = slots
    <3> DEFINE D(i) == Dword(s[i], 0)
    <3>1. Pushed(req, 0) = <<Title>> \o [i \in 1 .. 4 |-> D(i)]
      BY <2>3 DEF Pushed, Ask
    <3>2. [i \in 1 .. 4 |-> D(i)] = <<D(1), D(2), D(3), D(4)>>
      <4> HIDE DEF D
      <4> QED
        OBVIOUS
    <3>3. Len(<<Title>> \o <<D(1), D(2), D(3), D(4)>>) = 5
      <4> HIDE DEF D
      <4> QED
        BY FiveWordsOf
    <3>4. slots = 5
      BY <2>3, OpOf DEF Services
    <3> QED
      BY <3>1, <3>2, <3>3, <3>4, Zenon
  <2>4. ASSUME NEW op \in {"close", "sleep", "exit", "bits", "size", "rect", "key"}, NEW v, req = Ask(op, <<v>>)
        PROVE  left = slots
    <3>1. Pushed(req, 0) = <<Dword(v, 0)>>
      <4>1. Pushed(req, 0) = [i \in DOMAIN <<v>> |-> Dword(<<v>>[i], 0)]
        BY <2>4 DEF Pushed, Ask
      <4> QED
        BY <4>1
    <3>2. slots = 1
      BY <2>4, OpOf DEF Services
    <3> QED
      BY <3>1, <3>2
  <2>5. ASSUME NEW op \in {"flush", "time", "mouse"}, req = Ask(op, <<>>)
        PROVE  left = slots
    <3>1. CASE op = "flush"
      <4>1. Pushed(req, 0) = <<Dword(0, 0)>>
        BY <2>5, <3>1 DEF Pushed, Ask
      <4>2. slots = 1
        BY <2>5, <3>1, OpOf DEF Services
      <4> QED
        BY <4>1, <4>2
    <3>2. CASE op # "flush"
      <4>1. Pushed(req, 0) = [i \in DOMAIN <<>> |-> Dword(<<>>[i], 0)]
        BY <2>5, <3>2 DEF Pushed, Ask
      <4>2. slots = 0
        BY <2>5, <3>2, OpOf DEF Services
      <4>3. Pushed(req, 0) = <<>>
        BY <4>1
      <4> QED
        BY <4>2, <4>3
    <3> QED
      BY <3>1, <3>2
  <2>6. CASE \E op \in OneArgument, w \in WindowIds : req = Ask(op, <<w>>)
    <3>1. PICK op \in OneArgument, w \in WindowIds : req = Ask(op, <<w>>)
      BY <2>6
    <3>2. op \in {"close", "sleep", "exit", "bits", "size", "rect", "key"}
      BY <3>1 DEF OneArgument
    <3> QED
      BY <3>1, <3>2, <2>4
  <2>7. CASE \E op \in NoArguments : req = Ask(op, <<>>)
    <3>1. PICK op \in {"flush", "time", "mouse"} : req = Ask(op, <<>>)
      BY <2>7, OpOf DEF NoArguments, Offers
    <3> QED
      BY <3>1, <2>5
  <2>8. CASE \E op \in {"write", "read"}, h \in Handles, b \in {0, 1}, n \in Counts : req = Ask(op, <<h, b, n>>)
    BY <2>8, <2>1, Zenon
  <2>9. CASE \E n \in {Present, Absent}, c \in BOOLEAN : req = Ask("open", <<n, c>>)
    BY <2>9, <2>2, Zenon
  <2> QED
    BY RequestForms, <2>3, <2>4, <2>6, <2>7, <2>8, <2>9
<1> HIDE DEF slots, left
<1>5. left - Imported[req.op].stack_bytes \div 4 = 0
  BY <1>2, <1>3, <1>4
<1> QED
  BY <1>5 DEF StackAfter, left

------------------------------------------------------------------------------
(* The inductive invariant of the calls *)

TrapOf(lib, req, frame) == [stage |-> "trap", lib |-> lib, req |-> req, frame |-> frame]
BackOf(stage, lib, req, did, out, register, second) ==
  [stage |-> stage, lib |-> lib, req |-> req, did |-> did, out |-> out, register |-> register, second |-> second]
ReturnedOf(lib, req, did, out, learned, stack) ==
  [stage |-> "returned", lib |-> lib, req |-> req, did |-> did, out |-> out, learned |-> learned, stack |-> stack]

Libraries == {"sys", "nt", "winapi"}
Agreed == believes = [fds |-> fds, windows |-> DOMAIN windows]
Reached(lib, frame) == IF lib = "sys" THEN PosixCall(frame) ELSE NtCall(frame)

\* A call on its way into the kernel will be understood there.
GoesIn(lib, req, frame) ==
  /\ call = TrapOf(lib, req, frame) /\ Agreed
  /\ lib \in Libraries /\ req \in Requests
  /\ Reached(lib, frame) \in Meanings(req)
  /\ lib = "nt" => frame.number = NtNumber[req.op]
  /\ lib = "winapi" => StackAfter(req) = 0
  /\ req.op = "rect" /\ CallOps = {} => Owned(req)

\* A call on its way out has done what was asked for, and what the program will learn
\* from its registers makes it believe what is so.
WorksOut(lib, req, out, register, second, f, w) ==
  /\ fds = FdsAfter(req, out, f) /\ DOMAIN windows = WindowsAfter(req, out, w)
  /\ register \in 0 .. WordMod - 1 /\ second \in 0 .. WordMod - 1
  /\ (req.op = "rect" => PlacesDiffer) => Heard(req.op, Learned(lib, req.op, register, second), out)
  /\ lib = "winapi" => StackAfter(req) = 0

GoesOut(stage, lib, req, did, out, register, second, f, w) ==
  /\ stage \in {"back", "exited"} /\ call = BackOf(stage, lib, req, did, out, register, second)
  /\ believes = [fds |-> f, windows |-> w]
  /\ lib \in Libraries /\ did \in Meanings(req)
  /\ WorksOut(lib, req, out, register, second, f, w)

IsDone(lib, req, did, out, learned) ==
  /\ call = ReturnedOf(lib, req, did, out, learned, 0) /\ Agreed
  /\ did \in Meanings(req)
  /\ (req.op = "rect" => PlacesDiffer) => Heard(req.op, learned, out)

Flow ==
  \/ call = Idle /\ Agreed
  \/ \E lib, req, frame : GoesIn(lib, req, frame)
  \/ \E stage, lib, req, did, out, register, second, f, w : GoesOut(stage, lib, req, did, out, register, second, f, w)
  \/ \E lib, req, did, out, learned : IsDone(lib, req, did, out, learned)

CallFlow ==
  /\ arch \in Architectures /\ OpenTypes
  /\ load.stage # "called" => call = Idle
  /\ Flow

LEMMA StageIs ==
  /\ Idle.stage = "idle"
  /\ \A lib, req, frame : TrapOf(lib, req, frame).stage = "trap"
  /\ \A stage, lib, req, did, out, register, second : BackOf(stage, lib, req, did, out, register, second).stage = stage
  /\ \A lib, req, did, out, learned, stack : ReturnedOf(lib, req, did, out, learned, stack).stage = "returned"
BY DEF Idle, TrapOf, BackOf, ReturnedOf

LEMMA FlowTrap == ASSUME Flow, call.stage = "trap" PROVE \E lib, req, frame : GoesIn(lib, req, frame)
BY StageIs DEF Flow, GoesOut, IsDone

LEMMA FlowBack ==
  ASSUME Flow, call.stage = "back"
  PROVE  \E lib, req, did, out, register, second, f, w : GoesOut("back", lib, req, did, out, register, second, f, w)
BY StageIs DEF Flow, GoesIn, GoesOut, IsDone

LEMMA FlowRest == ASSUME Flow, call.stage \in {"idle", "returned"} PROVE Agreed
BY StageIs DEF Flow, GoesIn, GoesOut, IsDone

LEMMA ArchStays == ASSUME LoadNext PROVE arch' = arch
<1>1. Fails => arch' = arch
  BY DEF Fails, Image
<1>2. Forget => arch' = arch
  BY DEF Forget
<1>3. CASE \E format \in {"ELF", "PE", "other"} : run_image(format)
  BY <1>2, <1>3 DEF run_image
<1>4. CASE \E machine \in Architectures : read_ehdr(machine)
  BY <1>1, <1>4 DEF read_ehdr, Image
<1>5. CASE \E machine \in Architectures, size \in Fields, delta \in {0, 1} : pe32_headers(machine, size, delta) \/ pe64_headers(machine, size, delta)
  BY <1>1, <1>5 DEF pe32_headers, pe64_headers, pe_headers
<1>6. CASE \E s \in Segment : elf32_segment(s) \/ elf64_segment(s)
  BY <1>1, <1>6 DEF elf32_segment, elf64_segment, load_segment, Image
<1>7. CASE elf_loaded
  BY <1>1, <1>7 DEF elf_loaded, Image
<1>8. CASE \E s \in Section : pe32_section(s) \/ pe64_section(s)
  BY <1>1, <1>8 DEF pe32_section, pe64_section, pe_section
<1>9. CASE sections_loaded
  BY <1>9 DEF sections_loaded, Image
<1>10. CASE \E rva \in Entries : pe32_relocation(rva) \/ pe64_relocation(rva)
  BY <1>1, <1>10 DEF pe32_relocation, pe64_relocation, apply_relocation
<1>11. CASE \E rva \in Entries : pe32_import(rva) \/ pe64_import(rva)
  BY <1>1, <1>11 DEF pe32_import, pe64_import, resolve_import
<1>12. CASE \E at \in Cells : brk(at)
  BY <1>12 DEF brk, Image
<1>13. CASE \E well \in BOOLEAN : relocated(well)
  BY <1>1, <1>13 DEF relocated, Image
<1>14. CASE \E well \in BOOLEAN : imported(well)
  BY <1>1, <1>14 DEF imported, Image
<1>15. CASE \E well \in BOOLEAN : enter_ring3(well)
  BY <1>1, <1>15 DEF enter_ring3, Image
<1>16. CASE main
  BY <1>2, <1>16 DEF main
<1>17. CASE release_space
  BY <1>2, <1>17 DEF release_space
<1> QED
  BY <1>3, <1>4, <1>5, <1>6, <1>7, <1>8, <1>9, <1>10, <1>11, <1>12, <1>13, <1>14, <1>15, <1>16, <1>17, Zenon DEF LoadNext

LEMMA PosixSame == ASSUME arch' = arch, NEW frame PROVE PosixCall(frame)' = PosixCall(frame)
<1>1. PosixNumber' = PosixNumber
  BY DEF PosixNumber, OnMachine
<1>2. PosixOp(frame.number)' = PosixOp(frame.number)
  BY <1>1 DEF PosixOp
<1> QED
  BY <1>1, <1>2 DEF PosixCall

LEMMA WordsSame == ASSUME arch' = arch PROVE WordMod' = WordMod /\ Invalid' = Invalid
BY DEF WordMod, Invalid

LEMMA LearnedSame ==
  ASSUME arch' = arch, NEW lib, NEW op, NEW v, NEW second
  PROVE  Learned(lib, op, v, second)' = Learned(lib, op, v, second)
<1>1. WordMod' = WordMod /\ Invalid' = Invalid
  BY WordsSame
<1>2. WindowResult(op, v)' = WindowResult(op, v)
  BY <1>1 DEF WindowResult
<1>3. SysResult(op, v)' = SysResult(op, v)
  BY <1>1, <1>2 DEF SysResult, Signed
<1>4. NtResult(op, v, second)' = NtResult(op, v, second)
  BY <1>2 DEF NtResult
<1>5. WinapiResult(op, v, second)' = WinapiResult(op, v, second)
  BY <1>1 DEF WinapiResult
<1> QED
  BY <1>3, <1>4, <1>5 DEF Learned

LEMMA StackSame == ASSUME arch' = arch, NEW req PROVE StackAfter(req)' = StackAfter(req)
<1>1. \A v, rest : Dword(v, rest)' = Dword(v, rest)
  BY DEF Dword
<1>2. Pushed(req, 0)' = Pushed(req, 0)
  BY <1>1 DEF Pushed
<1> QED
  BY <1>2 DEF StackAfter

LEMMA FlowInit == ASSUME CallInit PROVE CallFlow
<1>1. arch \in Architectures /\ OpenTypes /\ call = Idle
  BY DEF CallInit, LoadInit, OpenTypes
<1>2. Agreed
  BY DEF CallInit, Agreed
<1> QED
  BY <1>1, <1>2 DEF CallFlow, Flow

\* The program starts, or another one does: no call is under way.
LEMMA FlowLoads ==
  ASSUME CallFlow, load.stage # "called", LoadNext, UNCHANGED callVars
  PROVE  CallFlow'
<1>1. arch' = arch
  BY ArchStays
<1>2. call = Idle /\ call' = Idle /\ fds' = fds /\ windows' = windows /\ believes' = believes
  BY DEF CallFlow, callVars
<1>3. Agreed
  BY <1>2, FlowRest, StageIs DEF CallFlow
<1>4. Agreed' /\ OpenTypes'
  BY <1>2, <1>3 DEF CallFlow, Agreed, OpenTypes
<1> QED
  BY <1>1, <1>2, <1>4 DEF CallFlow, Flow, Architectures

LEMMA FlowInvoke ==
  ASSUME CallFlow, load.stage = "called", NEW lib \in DOMAIN Offers, NEW req \in Requests, NEW rest \in {0, 1},
         invoke(lib, req, rest), UNCHANGED loaderVars
  PROVE  CallFlow'
<1> DEFINE frame == CASE lib = "sys" -> SysStub(req) [] lib = "nt" -> NtStub(req) [] lib = "winapi" -> ThunkStub(req, rest)
<1>1. lib \in Libraries
  BY DEF Offers, Libraries
<1>2. /\ arch' = arch /\ load' = load /\ fds' = fds /\ windows' = windows /\ believes' = believes
      /\ call' = TrapOf(lib, req, frame) /\ call.stage \in {"idle", "returned"} /\ req.op \in Offers[lib]
      /\ req.op = "rect" => req.args[1] \in DOMAIN windows \/ "foreign_rect" \in CallOps
  BY DEF invoke, loaderVars, TrapOf
<1>3. arch \in Architectures
  BY DEF CallFlow
<1>4. Reached(lib, frame) \in Meanings(req)
  <2>1. CASE lib = "sys"
    BY <2>1, <1>2, <1>3, SysMeans DEF Reached
  <2>2. CASE lib = "nt"
    BY <2>2, <1>2, <1>3, NtMeans DEF Reached
  <2>3. CASE lib = "winapi"
    BY <2>3, <1>2, <1>3, WinMeans DEF Reached
  <2> QED
    BY <1>1, <2>1, <2>2, <2>3 DEF Libraries
<1>5. lib = "nt" => frame.number = NtNumber[req.op]
  BY DEF NtStub
<1>6. lib = "winapi" => StackAfter(req) = 0
  BY <1>2, <1>3, StackIs
<1>7. Agreed
  BY <1>2, FlowRest DEF CallFlow
<1>8. req.op = "rect" /\ CallOps = {} => Owned(req)
  BY <1>2 DEF Owned
<1> HIDE DEF frame
<1>9. Agreed' /\ OpenTypes'
  BY <1>2, <1>7 DEF CallFlow, Agreed, OpenTypes
<1>10. PICK f : f = frame
  OBVIOUS
<1>11. Reached(lib, f)' = Reached(lib, f)
  BY <1>2, PosixSame DEF Reached
<1>12. Owned(req)' = Owned(req) /\ StackAfter(req)' = StackAfter(req)
  BY <1>2, StackSame DEF Owned
<1>14. Reached(lib, f)' \in Meanings(req)
  BY <1>4, <1>10, <1>11
<1>15. GoesIn(lib, req, f)'
  BY <1>1, <1>2, <1>5, <1>6, <1>8, <1>9, <1>10, <1>12, <1>14 DEF GoesIn
<1>13. Flow'
  BY <1>15 DEF Flow
<1> QED
  BY <1>2, <1>3, <1>9, <1>13 DEF CallFlow, Architectures

LEMMA FlowDispatch ==
  ASSUME CallFlow, load.stage = "called", dispatch, UNCHANGED loaderVars
  PROVE  CallFlow'
<1>1. call.stage = "trap"
  BY DEF dispatch
<1>2. PICK lib, req, frame : GoesIn(lib, req, frame)
  BY <1>1, FlowTrap DEF CallFlow
<1>3. call.lib = lib /\ call.req = req /\ call.frame = frame
  BY <1>2 DEF GoesIn, TrapOf
<1>4. arch' = arch /\ load' = load /\ believes' = believes
  BY DEF dispatch, loaderVars
<1>5. PICK c : c = Reached(lib, frame)
  OBVIOUS
<1>6. PICK a \in Answers(c) :
        /\ fds' = a.fds /\ windows' = a.windows
        /\ call' = BackOf(IF c.op = "exit" THEN "exited" ELSE "back", lib, req, c, a.out,
                          Register(lib, frame, c, a.out), Second(a.out))
  BY <1>3, <1>5 DEF dispatch, Reached, BackOf, Register, Second
<1>7. arch \in Architectures /\ OpenTypes
  BY DEF CallFlow
<1>8. lib \in {"sys", "nt", "winapi"} /\ req \in Requests /\ c \in Meanings(req)
  BY <1>2, <1>5 DEF GoesIn, Libraries
<1>9. Effect(req, a)
  BY <1>7, <1>8, Effects
<1>10. Delivered(lib, req, frame, c, a.out)
  BY <1>2, <1>7, <1>8, Deliveries DEF GoesIn
<1>11. PICK stage, out, register, second :
         /\ stage = IF c.op = "exit" THEN "exited" ELSE "back"
         /\ out = a.out /\ register = Register(lib, frame, c, a.out) /\ second = Second(a.out)
  OBVIOUS
<1>12. PICK f, w : f = fds /\ w = DOMAIN windows
  OBVIOUS
<1>13. call' = BackOf(stage, lib, req, c, out, register, second) /\ stage \in {"back", "exited"}
  BY <1>6, <1>11
<1>14. believes' = [fds |-> f, windows |-> w]
  BY <1>2, <1>4, <1>12 DEF GoesIn, Agreed
<1>15. fds' = FdsAfter(req, out, f) /\ (DOMAIN windows)' = WindowsAfter(req, out, w) /\ OpenTypes'
  BY <1>6, <1>9, <1>11, <1>12 DEF Effect, AnswerTypes, OpenTypes
<1>16. /\ register \in 0 .. WordMod - 1 /\ second \in 0 .. WordMod - 1
       /\ (req.op = "rect" => PlacesDiffer) => Heard(req.op, Learned(lib, req.op, register, second), out)
  <2>1. req.op = "rect" /\ PlacesDiffer => Owned(req)
    BY <1>2 DEF GoesIn, PlacesDiffer
  <2> QED
    BY <1>10, <1>11, <2>1 DEF Delivered
<1>17. lib = "winapi" => StackAfter(req) = 0
  BY <1>2 DEF GoesIn
<1>18. WordMod' = WordMod /\ Learned(lib, req.op, register, second)' = Learned(lib, req.op, register, second)
       /\ StackAfter(req)' = StackAfter(req)
  BY <1>4, WordsSame, LearnedSame, StackSame
<1>19. WorksOut(lib, req, out, register, second, f, w)'
  BY <1>15, <1>16, <1>17, <1>18 DEF WorksOut
<1>20. GoesOut(stage, lib, req, c, out, register, second, f, w)'
  BY <1>8, <1>13, <1>14, <1>19 DEF GoesOut, Libraries
<1>21. Flow'
  BY <1>20 DEF Flow
<1> QED
  BY <1>4, <1>7, <1>15, <1>21 DEF CallFlow, Architectures

LEMMA FlowReturn ==
  ASSUME CallFlow, load.stage = "called", return, UNCHANGED loaderVars
  PROVE  CallFlow'
<1>1. call.stage = "back"
  BY DEF return
<1>2. PICK lib, req, did, out, register, second, f, w : GoesOut("back", lib, req, did, out, register, second, f, w)
  BY <1>1, FlowBack DEF CallFlow
<1>3. /\ call.lib = lib /\ call.req = req /\ call.did = did /\ call.out = out /\ call.register = register
      /\ call.second = second
  BY <1>2 DEF GoesOut, BackOf
<1>4. lib \in Libraries /\ did \in Meanings(req) /\ WorksOut(lib, req, out, register, second, f, w)
  BY <1>2 DEF GoesOut
<1>5. arch' = arch /\ load' = load /\ fds' = fds /\ windows' = windows
  BY DEF return, loaderVars
<1>6. PICK learned : learned = Learned(lib, req.op, register, second)
  OBVIOUS
<1>7. /\ call' = ReturnedOf(lib, req, did, out, learned, IF lib = "winapi" THEN StackAfter(req) ELSE 0)
      /\ believes' = CASE learned.ok /\ req.op = "open" -> [believes EXCEPT !.fds = @ \union {learned.value}]
                       [] learned.ok /\ req.op = "close" -> [believes EXCEPT !.fds = @ \ {req.args[1]}]
                       [] learned.ok /\ req.op = "window" -> [believes EXCEPT !.windows = @ \union {learned.value}]
                       [] OTHER -> believes
  BY <1>3, <1>6 DEF return, Learned, ReturnedOf
<1>8. call' = ReturnedOf(lib, req, did, out, learned, 0)
  BY <1>4, <1>7 DEF WorksOut
<1>9. (req.op = "rect" => PlacesDiffer) => Heard(req.op, learned, out)
  BY <1>4, <1>6 DEF WorksOut
<1>10. believes = [fds |-> f, windows |-> w]
  BY <1>2 DEF GoesOut
<1>11. believes' = [fds |-> FdsAfter(req, out, f), windows |-> WindowsAfter(req, out, w)]
  <2>1. CASE req.op = "open"
    <3>1. learned.ok = out.ok /\ (out.ok => learned.value = out.value)
      BY <1>9, <2>1 DEF Heard, Fallible
    <3>2. CASE out.ok
      BY <1>7, <1>10, <2>1, <3>1, <3>2 DEF FdsAfter, WindowsAfter
    <3>3. CASE ~out.ok
      BY <1>7, <1>10, <2>1, <3>1, <3>3 DEF FdsAfter, WindowsAfter
    <3> QED
      BY <3>2, <3>3
  <2>2. CASE req.op = "close"
    <3>1. learned.ok = out.ok
      BY <1>9, <2>2 DEF Heard, Fallible
    <3>2. CASE out.ok
      BY <1>7, <1>10, <2>2, <3>1, <3>2 DEF FdsAfter, WindowsAfter
    <3>3. CASE ~out.ok
      BY <1>7, <1>10, <2>2, <3>1, <3>3 DEF FdsAfter, WindowsAfter
    <3> QED
      BY <3>2, <3>3
  <2>3. CASE req.op = "window"
    <3>1. learned.ok = out.ok /\ (out.ok => learned.value = out.value)
      BY <1>9, <2>3 DEF Heard, Fallible
    <3>2. CASE out.ok
      BY <1>7, <1>10, <2>3, <3>1, <3>2 DEF FdsAfter, WindowsAfter
    <3>3. CASE ~out.ok
      BY <1>7, <1>10, <2>3, <3>1, <3>3 DEF FdsAfter, WindowsAfter
    <3> QED
      BY <3>2, <3>3
  <2>4. CASE req.op \notin {"open", "close", "window"}
    <3>1. believes' = believes
      BY <1>7, <2>4
    <3> QED
      BY <1>10, <2>4, <3>1 DEF FdsAfter, WindowsAfter
  <2> QED
    BY <2>1, <2>2, <2>3, <2>4
<1>12. Agreed' /\ OpenTypes'
  BY <1>4, <1>5, <1>11 DEF WorksOut, Agreed, OpenTypes, CallFlow
<1>13. IsDone(lib, req, did, out, learned)'
  BY <1>4, <1>8, <1>9, <1>12 DEF IsDone
<1>14. Flow'
  BY <1>13 DEF Flow
<1> QED
  BY <1>5, <1>12, <1>14 DEF CallFlow, Architectures

LEMMA FlowEnded == ASSUME CallFlow, ended PROVE CallFlow'
<1>1. arch' = arch
  BY DEF ended, release_space, Forget
<1>2. call' = Idle /\ OpenTypes'
  BY DEF ended, OpenTypes
<1>3. Agreed'
  BY DEF ended, Agreed
<1> QED
  BY <1>1, <1>2, <1>3 DEF CallFlow, Flow, Architectures

LEMMA FlowSame == ASSUME CallFlow, arch' = arch, load' = load, UNCHANGED callVars PROVE CallFlow'
<1>1. call' = call /\ fds' = fds /\ windows' = windows /\ believes' = believes
  BY DEF callVars
<1>2. (Agreed => Agreed') /\ OpenTypes' /\ WordMod' = WordMod
  BY <1>1, WordsSame DEF Agreed, OpenTypes, CallFlow
<1>3. ASSUME call = Idle, Agreed PROVE Flow'
  BY <1>1, <1>2, <1>3 DEF Flow
<1>4. ASSUME NEW lib, NEW req, NEW frame, GoesIn(lib, req, frame) PROVE Flow'
  <2>1. /\ PosixCall(frame)' = PosixCall(frame) /\ StackAfter(req)' = StackAfter(req) /\ Owned(req)' = Owned(req)
    BY <1>1, PosixSame, StackSame DEF Owned
  <2>2. Reached(lib, frame)' = Reached(lib, frame)
    BY <2>1 DEF Reached
  <2>3. GoesIn(lib, req, frame)'
    BY <1>1, <1>2, <1>4, <2>1, <2>2 DEF GoesIn
  <2> QED
    BY <2>3 DEF Flow
<1>5. ASSUME NEW stage, NEW lib, NEW req, NEW did, NEW out, NEW register, NEW second, NEW f, NEW w,
             GoesOut(stage, lib, req, did, out, register, second, f, w)
      PROVE  Flow'
  <2>1. Learned(lib, req.op, register, second)' = Learned(lib, req.op, register, second) /\ StackAfter(req)' = StackAfter(req)
    BY LearnedSame, StackSame
  <2>2. WorksOut(lib, req, out, register, second, f, w)'
    BY <1>1, <1>2, <1>5, <2>1 DEF GoesOut, WorksOut
  <2>3. GoesOut(stage, lib, req, did, out, register, second, f, w)'
    BY <1>1, <1>5, <2>2 DEF GoesOut
  <2> QED
    BY <2>3 DEF Flow
<1>6. ASSUME NEW lib, NEW req, NEW did, NEW out, NEW learned, IsDone(lib, req, did, out, learned) PROVE Flow'
  <2>1. IsDone(lib, req, did, out, learned)'
    BY <1>1, <1>2, <1>6 DEF IsDone
  <2> QED
    BY <2>1 DEF Flow
<1>7. Flow'
  BY <1>3, <1>4, <1>5, <1>6 DEF CallFlow, Flow
<1> QED
  BY <1>1, <1>2, <1>7 DEF CallFlow, Architectures

LEMMA FlowStep == ASSUME CallFlow, [CallNext]_<<loaderVars, callVars>> PROVE CallFlow'
<1>1. CASE load.stage # "called" /\ LoadNext /\ UNCHANGED callVars
  BY <1>1, FlowLoads
<1>2. ASSUME load.stage = "called", UNCHANGED loaderVars, NEW lib \in DOMAIN Offers, NEW req \in Requests,
             NEW rest \in {0, 1}, invoke(lib, req, rest)
      PROVE  CallFlow'
  BY <1>2, FlowInvoke
<1>3. CASE load.stage = "called" /\ dispatch /\ UNCHANGED loaderVars
  BY <1>3, FlowDispatch
<1>4. CASE load.stage = "called" /\ return /\ UNCHANGED loaderVars
  BY <1>4, FlowReturn
<1>5. CASE ended
  BY <1>5, FlowEnded
<1>6. CASE UNCHANGED <<loaderVars, callVars>>
  <2>1. arch' = arch /\ load' = load /\ UNCHANGED callVars
    BY <1>6 DEF loaderVars
  <2> QED
    BY <2>1, FlowSame
<1> QED
  BY <1>1, <1>2, <1>3, <1>4, <1>5, <1>6, Zenon DEF CallNext

LEMMA FlowAlways == CallSpec => []CallFlow
<1>1. CallInit => CallFlow
  BY FlowInit
<1>2. CallFlow /\ [CallNext]_<<loaderVars, callVars>> => CallFlow'
  BY FlowStep
<1> QED
  BY <1>1, <1>2, PTL DEF CallSpec

LEMMA FlowDone == ASSUME CallFlow PROVE DoneAsAsked
<1> SUFFICES ASSUME call.stage \in {"exited", "returned"}
             PROVE  call.did \in Meanings(call.req)
  BY DEF DoneAsAsked, Done
<1>1. CASE \E lib, req, did, out, learned : IsDone(lib, req, did, out, learned)
  BY <1>1 DEF IsDone, ReturnedOf
<1>2. CASE \E stage, lib, req, did, out, register, second, f, w : GoesOut(stage, lib, req, did, out, register, second, f, w)
  BY <1>2 DEF GoesOut, BackOf
<1>3. CASE call = Idle \/ \E lib, req, frame : GoesIn(lib, req, frame)
  BY <1>3, StageIs DEF GoesIn
<1> QED
  BY <1>1, <1>2, <1>3 DEF CallFlow, Flow

LEMMA FlowTypes == ASSUME CallFlow PROVE CallsTypeOK
<1>1. call.stage \in {"idle", "trap", "back", "exited", "returned"}
  BY StageIs DEF CallFlow, Flow, GoesIn, GoesOut, IsDone
<1>2. ASSUME call.stage = "back"
      PROVE  {call.register, call.second} \subseteq 0 .. WordMod - 1
  <2>1. PICK lib, req, did, out, register, second, f, w : GoesOut("back", lib, req, did, out, register, second, f, w)
    BY <1>2, FlowBack DEF CallFlow
  <2>2. call.register = register /\ call.second = second
    BY <2>1 DEF GoesOut, BackOf
  <2> QED
    BY <2>1, <2>2 DEF GoesOut, WorksOut
<1> QED
  BY <1>1, <1>2 DEF CallFlow, OpenTypes, CallsTypeOK

LEMMA FlowReturned ==
  ASSUME CallFlow, call.stage = "returned"
  PROVE  \E lib, req, did, out, learned : IsDone(lib, req, did, out, learned)
BY StageIs DEF CallFlow, Flow, GoesIn, GoesOut, IsDone

LEMMA FlowCalls == ASSUME CallFlow PROVE CallsInv
<1>1. CallsTypeOK
  BY FlowTypes
<1>2. ViewsAgree
  BY FlowRest DEF CallFlow, ViewsAgree, Agreed
<1>3. StackBalanced
  BY FlowReturned DEF StackBalanced, IsDone, ReturnedOf
<1> QED
  BY <1>1, <1>2, <1>3 DEF CallsInv

LEMMA FlowResults == ASSUME CallFlow, PlacesDiffer PROVE ResultsArrive
<1> SUFFICES ASSUME call.stage = "returned"
             PROVE  /\ call.req.op \in Fallible => call.learned.ok = call.out.ok
                    /\ call.out.ok /\ call.learned.value # Unknown => call.learned.value = call.out.value
  BY DEF ResultsArrive
<1>1. PICK lib, req, did, out, learned : IsDone(lib, req, did, out, learned)
  BY FlowReturned
<1>2. call.req = req /\ call.out = out /\ call.learned = learned
  BY <1>1 DEF IsDone, ReturnedOf
<1> QED
  BY <1>1, <1>2 DEF IsDone, Heard

\* DoneAsAsked: whichever library a program calls, with whatever arguments, and on
\* either machine, the kernel does what was asked for (SysStub, NtStub, emit_thunk
\* against the dispatchers).
THEOREM CallsMeanTheSame == CallSpec => []DoneAsAsked
<1>1. CallFlow => DoneAsAsked
  BY FlowDone
<1> QED
  BY <1>1, FlowAlways, PTL

\* CallsInv: between two calls the program has open exactly what it takes to be open,
\* and every imported function leaves the stack as it was (open, close,
\* create_window, emit_thunk).
THEOREM ProgramsKnowWhatTheyHave == CallSpec => []CallsInv
<1>1. CallFlow => CallsInv
  BY FlowCalls
<1> QED
  BY <1>1, FlowAlways, PTL

\* ResultsArrive: a program is told of a failure exactly when there was one, and
\* otherwise gets the result.  It asks for the place of windows that exist, and none
\* of them has its upper left corner at the largest coordinates there are: on i386
\* that place is the value for a failure (sys_window_rect, PosixReturn, Win32Return).
THEOREM ResultsReachPrograms ==
  ASSUME CallOps = {}, \A s \in Shapes : s[1] < Half - 1 \/ s[2] < Half - 1
  PROVE  CallSpec => []ResultsArrive
<1>1. PlacesDiffer
  BY DEF PlacesDiffer
<1>2. CallFlow => ResultsArrive
  BY <1>1, FlowResults
<1> QED
  BY <1>2, FlowAlways, PTL

------------------------------------------------------------------------------
(* Processes: signals, and the requests to run a program *)

USE TasksAssumption, SignalsAssumption

\* In a slot that has entered ring 3 or is about to continue in it:
Entered(l) == l \in {"child", "user"}

\* no signal is pending from before, and the handlers are of this program;
Own(s, old, p) ==
  old = {} /\ \A signo \in Signal : s.handler[signo] \in {Default, Ignore, p}

\* a handler has interrupted the program itself and not another handler.
CanReturn(s, i) ==
  IF s.context = NoSignal
  THEN i = <<>> /\ ~s.IN_HANDLER
  ELSE i = <<s.SAVED>> /\ s.IN_HANDLER /\ s.SAVED = NoSignal

AllOwn == \A t \in Tasks : Entered(life[t]) => Own(sigs[t], stale[t], program[t])

AllCanReturn == \A t \in Tasks : Entered(life[t]) => CanReturn(sigs[t], interrupted[t])

\* The types of the four functions Return changes.
WorldOK(w) ==
  /\ w.sigs \in [Tasks -> SlotSignals]
  /\ w.life \in [Tasks -> Lives]
  /\ w.interrupted \in [Tasks -> Seq(Context)]
  /\ w.stale \in [Tasks -> SUBSET Signal]

------------------------------------------------------------------------------
(* Delivery *)

LEMMA LowestDueIsDue ==
  ASSUME NEW s \in SlotSignals, Due(s) # {}
  PROVE  LowestDue(s) \in Due(s) /\ LowestDue(s) \in Signal
<1>1. Due(s) \in SUBSET Nat /\ Due(s) \subseteq Signal
  BY DEF Due, SlotSignals
<1>2. \E m \in Due(s) : \A k \in Due(s) : m <= k
  BY <1>1, LeastNatural
<1>3. QED
  BY <1>1, <1>2 DEF LowestDue

\* What the delivery leaves as it is, and what it may change.
LEMMA DeliveryKeeps ==
  ASSUME NEW s \in SlotSignals, NEW i \in Seq(Context), NEW stack_valid \in BOOLEAN,
         NEW d, d = deliver_pending([s |-> s, life |-> "user", interrupted |-> i], stack_valid)
  PROVE  /\ d.s \in SlotSignals /\ d.life \in {"user", "left"} /\ d.interrupted \in Seq(Context)
         /\ d.s.handler = s.handler
         /\ CanReturn(s, i) /\ d.life = "user" => CanReturn(d.s, d.interrupted)
<1> DEFINE c == [s |-> s, life |-> "user", interrupted |-> i]
           r == [s EXCEPT !.PENDING = @ \ TakenOff(s)]
           signo == LowestDue(s)
<1>1. /\ r \in SlotSignals /\ r.handler = s.handler /\ r.context = s.context
      /\ r.SAVED = s.SAVED /\ r.IN_HANDLER = s.IN_HANDLER
  BY DEF SlotSignals
<1>2. CASE s.IN_HANDLER
  <2>1. d = c
    BY <1>2 DEF deliver_pending
  <2>2. QED
    BY <2>1
<1>3. CASE ~s.IN_HANDLER /\ Due(s) = {}
  <2>1. d = [c EXCEPT !.s = r]
    BY <1>3 DEF deliver_pending
  <2>2. d.s = r /\ d.life = "user" /\ d.interrupted = i
    BY <2>1
  <2>3. QED
    BY <2>2, <1>1 DEF CanReturn
<1>4. CASE ~s.IN_HANDLER /\ Due(s) # {} /\ (s.handler[signo] = Default \/ ~stack_valid)
  <2>1. d = [c EXCEPT !.s = r, !.life = "left"]
    BY <1>4 DEF deliver_pending
  <2>2. d.s = r /\ d.life = "left" /\ d.interrupted = i
    BY <2>1
  <2>3. QED
    BY <2>2, <1>1
<1>5. CASE ~s.IN_HANDLER /\ Due(s) # {} /\ ~(s.handler[signo] = Default \/ ~stack_valid)
  <2> DEFINE h == [r EXCEPT !.SAVED = r.context, !.context = signo, !.IN_HANDLER = TRUE]
  <2>1. d = [c EXCEPT !.s = h, !.interrupted = Append(i, r.context)]
    BY <1>5 DEF deliver_pending
  <2>2. d.s = h /\ d.life = "user" /\ d.interrupted = Append(i, r.context)
    BY <2>1
  <2>3. signo \in Signal /\ signo # NoSignal
    BY <1>5, LowestDueIsDue DEF NoSignal
  <2>4. /\ h \in SlotSignals /\ h.handler = s.handler /\ h.context = signo
        /\ h.SAVED = s.context /\ h.IN_HANDLER
    BY <1>1, <2>3 DEF SlotSignals, Context
  <2>5. s.context \in Context
    BY DEF SlotSignals
  <2>6. Append(i, r.context) \in Seq(Context)
    BY <2>5, <1>1
  <2>7. CanReturn(s, i) => i = <<>> /\ s.context = NoSignal
    BY <1>5 DEF CanReturn
  <2>8. CanReturn(s, i) => Append(i, r.context) = <<s.context>> /\ s.context = NoSignal
    BY <2>7, <1>1
  <2>9. CanReturn(s, i) => CanReturn(h, Append(i, r.context))
    BY <2>8, <2>4, <2>3 DEF CanReturn
  <2>10. QED
    BY <2>2, <2>4, <2>6, <2>9
<1>6. QED
  BY <1>2, <1>3, <1>4, <1>5

\* The end of a system call changes the slot of its task only.
LEMMA ReturnKeeps ==
  ASSUME NEW t \in Tasks, NEW w, WorldOK(w), w.life[t] = "user", Return(t, w)
  PROVE  /\ sigs' \in [Tasks -> SlotSignals] /\ life' \in [Tasks -> Lives]
         /\ interrupted' \in [Tasks -> Seq(Context)] /\ stale' \in [Tasks -> SUBSET Signal]
         /\ \A u \in Tasks \ {t} : /\ sigs'[u] = w.sigs[u] /\ life'[u] = w.life[u]
                                   /\ interrupted'[u] = w.interrupted[u] /\ stale'[u] = w.stale[u]
         /\ life'[t] \in {"user", "left"}
         /\ sigs'[t].handler = w.sigs[t].handler
         /\ stale'[t] \subseteq w.stale[t]
         /\ CanReturn(w.sigs[t], w.interrupted[t]) /\ life'[t] = "user"
              => CanReturn(sigs'[t], interrupted'[t])
<1> PICK stack_valid \in BOOLEAN :
      LET d == deliver_pending([s |-> w.sigs[t], life |-> w.life[t], interrupted |-> w.interrupted[t]],
                               stack_valid)
      IN  /\ sigs' = [w.sigs EXCEPT ![t] = d.s]
          /\ life' = [w.life EXCEPT ![t] = d.life]
          /\ interrupted' = [w.interrupted EXCEPT ![t] = d.interrupted]
          /\ stale' = [w.stale EXCEPT ![t] = @ \intersect d.s.PENDING]
  BY Zenon DEF Return
<1> DEFINE d == deliver_pending([s |-> w.sigs[t], life |-> "user", interrupted |-> w.interrupted[t]],
                                stack_valid)
<1>1. /\ sigs' = [w.sigs EXCEPT ![t] = d.s]
      /\ life' = [w.life EXCEPT ![t] = d.life]
      /\ interrupted' = [w.interrupted EXCEPT ![t] = d.interrupted]
      /\ stale' = [w.stale EXCEPT ![t] = w.stale[t] \intersect d.s.PENDING]
  BY Zenon
<1>2. w.sigs[t] \in SlotSignals /\ w.interrupted[t] \in Seq(Context)
  BY DEF WorldOK
<1>3. /\ d.s \in SlotSignals /\ d.life \in {"user", "left"} /\ d.interrupted \in Seq(Context)
      /\ d.s.handler = w.sigs[t].handler
      /\ CanReturn(w.sigs[t], w.interrupted[t]) /\ d.life = "user" => CanReturn(d.s, d.interrupted)
  BY <1>2, DeliveryKeeps
<1> HIDE DEF d
<1>4. QED
  BY <1>1, <1>3 DEF WorldOK, Lives

------------------------------------------------------------------------------
(* Types, and what is the program's own, for all that may happen *)

Named == \A t \in Tasks : life[t] \in {"image", "child", "user", "left"} => program[t] \in Program

SigInv == ProcTypeOK /\ AllOwn /\ Named

LEMMA WorldTyped == ASSUME ProcTypeOK PROVE WorldOK(World)
BY DEF ProcTypeOK, WorldOK, World

\* A call that has made w of the signals and returns to its task.
LEMMA CallKeeps ==
  ASSUME SigInv, NEW t \in Tasks, NEW w, WorldOK(w), w.life = life, life[t] = "user",
         Return(t, w), UNCHANGED launchVars,
         \A u \in Tasks : /\ w.stale[u] \subseteq stale[u]
                          /\ Entered(life[u]) => Own(w.sigs[u], w.stale[u], program[u])
  PROVE  SigInv'
<1>1. /\ sigs' \in [Tasks -> SlotSignals] /\ life' \in [Tasks -> Lives]
      /\ interrupted' \in [Tasks -> Seq(Context)] /\ stale' \in [Tasks -> SUBSET Signal]
      /\ \A u \in Tasks \ {t} : sigs'[u] = w.sigs[u] /\ life'[u] = life[u] /\ stale'[u] = w.stale[u]
      /\ life'[t] \in {"user", "left"}
      /\ sigs'[t].handler = w.sigs[t].handler /\ stale'[t] \subseteq w.stale[t]
  <2>1. w.life[t] = "user"
    OBVIOUS
  <2>2. QED
    BY <2>1, ReturnKeeps
<1>2. ProcTypeOK'
  BY <1>1 DEF SigInv, ProcTypeOK, launchVars
<1>3. ASSUME NEW u \in Tasks, Entered(life'[u])
      PROVE  Own(sigs'[u], stale'[u], program'[u])
  <2>1. program' = program
    BY DEF launchVars
  <2>2. CASE u = t
    <3>1. Own(w.sigs[t], w.stale[t], program[t])
      BY DEF Entered
    <3>2. QED
      BY <3>1, <2>1, <2>2, <1>1 DEF Own
  <2>3. CASE u # t
    BY <1>1, <1>3, <2>1, <2>3
  <2>4. QED
    BY <2>2, <2>3
<1>4. Named'
  BY <1>1 DEF SigInv, Named, launchVars
<1>5. QED
  BY <1>2, <1>3, <1>4 DEF SigInv, AllOwn

\* The steps on behalf of a task that is not in ring 3.
LEMMA KernelKeeps ==
  ASSUME SigInv, NEW t \in Tasks, Kernel(t)
  PROVE  SigInv'
<1> USE DEF SigInv, AllOwn, Named, Entered, Own
<1>1. CASE TakePending(t)
  <2>1. CASE queue = <<>>
    BY <1>1, <2>1 DEF TakePending, ProcTypeOK, signalVars, Lives
  <2>2. CASE queue # <<>>
    <3>1. /\ life' = [life EXCEPT ![t] = "image"] /\ queue' = Tail(queue)
          /\ program' = [program EXCEPT ![t] = Head(queue)]
          /\ stale' = [stale EXCEPT ![t] = sigs[t].PENDING]
          /\ UNCHANGED <<sigs, interrupted, forked, launching, EXEC_PATH>>
      BY <1>1, <2>2 DEF TakePending, Runs
    <3>2. Head(queue) \in Program /\ Tail(queue) \in Seq(Program) /\ Len(Tail(queue)) < MAX_PENDING
      BY <2>2, QueueAssumption, HeadTailProperties DEF ProcTypeOK
    <3>3. sigs[t].PENDING \in SUBSET Signal
      BY DEF ProcTypeOK, SlotSignals
    <3>4. QED
      BY <3>1, <3>2, <3>3 DEF ProcTypeOK, Lives
  <2>3. QED
    BY <2>1, <2>2
<1>2. CASE LoadFails(t)
  BY <1>2 DEF LoadFails, ProcTypeOK, signalVars, Lives
<1>3. CASE EnterRing3(t)
  <2> DEFINE s == [reset(sigs[t]) EXCEPT !.context = NoSignal]
  <2>1. /\ life' = [life EXCEPT ![t] = "user"]
        /\ sigs' = [sigs EXCEPT ![t] = s]
        /\ interrupted' = [interrupted EXCEPT ![t] = <<>>]
        /\ stale' = [stale EXCEPT ![t] = @ \intersect sigs'[t].PENDING]
        /\ UNCHANGED <<forked, program, queue, launching, EXEC_PATH>>
    BY <1>3 DEF EnterRing3
  <2>2. s \in SlotSignals /\ s.PENDING = {} /\ \A signo \in Signal : s.handler[signo] = Default
    <3> DEFINE none == [signo \in Signal |-> Default]
    <3>1. none \in [Signal -> Handlers]
      BY DEF Handlers
    <3>2. Blank.handler = none
      BY DEF Blank
    <3> HIDE DEF none
    <3>3. s = [sigs[t] EXCEPT !.handler = none, !.IN_HANDLER = FALSE, !.PENDING = {},
                              !.context = NoSignal]
      BY <3>2 DEF reset, ProcTypeOK, SlotSignals
    <3> HIDE DEF s
    <3>4. sigs[t] \in SlotSignals
      BY DEF ProcTypeOK
    <3>5. s \in SlotSignals /\ s.PENDING = {} /\ s.handler = none
      BY <3>1, <3>3, <3>4 DEF SlotSignals, Context
    <3>6. QED
      BY <3>5 DEF none
  <2>3. sigs'[t] = s /\ \A u \in Tasks \ {t} : sigs'[u] = sigs[u]
    BY <2>1 DEF ProcTypeOK
  <2>4. stale'[t] = {} /\ \A u \in Tasks \ {t} : stale'[u] = stale[u]
    BY <2>1, <2>2, <2>3 DEF ProcTypeOK
  <2> HIDE DEF s
  <2>5. ProcTypeOK'
    BY <2>1, <2>2, <2>4 DEF ProcTypeOK, Lives
  <2>6. AllOwn'
    BY <2>1, <2>2, <2>3, <2>4 DEF ProcTypeOK
  <2>7. Named'
    BY <1>3, <2>1 DEF ProcTypeOK, EnterRing3
  <2>8. QED
    BY <2>5, <2>6, <2>7
<1>4. CASE NextProgram(t)
  <2>1. /\ life' = [life EXCEPT ![t] = "image"]
        /\ program' = [program EXCEPT ![t] = EXEC_PATH[t]]
        /\ EXEC_PATH' = [EXEC_PATH EXCEPT ![t] = NoProgram]
        /\ stale' = [stale EXCEPT ![t] = sigs[t].PENDING]
        /\ UNCHANGED <<sigs, interrupted, forked, queue, launching>>
    BY <1>4 DEF NextProgram, Runs, take_exec
  <2>2. sigs[t].PENDING \in SUBSET Signal /\ EXEC_PATH[t] \in Program
    BY <1>4 DEF NextProgram, ProcTypeOK, SlotSignals
  <2>3. QED
    BY <2>1, <2>2 DEF ProcTypeOK, Lives
<1>5. CASE Ends(t)
  BY <1>5 DEF Ends, ProcTypeOK, signalVars, Lives
<1>6. CASE ChildRuns(t)
  BY <1>6 DEF ChildRuns, ProcTypeOK, signalVars, launchVars, Lives
<1>7. QED
  BY <1>1, <1>2, <1>3, <1>4, <1>5, <1>6 DEF Kernel

\* The shell makes a task, and a task is killed.
LEMMA ShellKeeps ==
  ASSUME SigInv,
         \/ spawn
         \/ \E p \in Program : spawn_user_app(p)
         \/ \E u \in Tasks : Killed(u)
  PROVE  SigInv'
<1> USE DEF SigInv, AllOwn, Named, Entered, Own
<1>1. CASE spawn
  BY <1>1 DEF spawn, ProcTypeOK, signalVars, Lives, FreeTasks, NewTask
<1>2. ASSUME NEW p \in Program, spawn_user_app(p)
      PROVE  SigInv'
  <2>1. queue' = Append(queue, p) /\ launching' = TRUE
        /\ UNCHANGED <<life, forked, program, EXEC_PATH, signalVars>>
    BY <1>2 DEF spawn_user_app
  <2>2. queue' \in Seq(Program) /\ Len(queue') < MAX_PENDING
    BY <1>2, <2>1, QueueAssumption DEF spawn_user_app, ProcTypeOK
  <2>3. QED
    BY <2>1, <2>2 DEF ProcTypeOK, signalVars
<1>3. ASSUME NEW u \in Tasks, Killed(u)
      PROVE  SigInv'
  BY <1>3 DEF Killed, ProcTypeOK, signalVars, launchVars, Lives
<1>4. QED
  BY <1>1, <1>2, <1>3

------------------------------------------------------------------------------
(* System calls *)

\* The worlds the calls return from.
HandlerWorld(t, signo, h) == [World EXCEPT !.sigs[t].handler[signo] = h]
RaisedWorld(u, signo) == [World EXCEPT !.sigs[u].PENDING = @ \union {signo}, !.stale[u] = @ \ {signo}]
ReturnedWorld(t) ==
  [World EXCEPT !.sigs[t] = sigreturn(@), !.interrupted[t] = SubSeq(@, 1, Len(@) - 1)]
ForkChild(t) == [clone_into(sigs[t], sigs[NewTask]) EXCEPT !.context = sigs[t].context]
ForkedWorld(t) ==
  [sigs |-> [sigs EXCEPT ![NewTask] = ForkChild(t)],
   life |-> [life EXCEPT ![NewTask] = "child"],
   interrupted |-> [interrupted EXCEPT ![NewTask] = interrupted[t]],
   stale |-> [stale EXCEPT ![NewTask] = ForkChild(t).PENDING]]

LEMMA SetHandlerWorld ==
  ASSUME SigInv, NEW t \in Tasks, NEW signo \in Signal, NEW h \in Handlers
  PROVE  LET w == HandlerWorld(t, signo, h) IN
         /\ WorldOK(w) /\ w.life = life /\ w.interrupted = interrupted /\ w.stale = stale
         /\ \A u \in Tasks \ {t} : w.sigs[u] = sigs[u]
         /\ w.sigs[t].handler = [sigs[t].handler EXCEPT ![signo] = h]
         /\ w.sigs[t].context = sigs[t].context /\ w.sigs[t].SAVED = sigs[t].SAVED
         /\ w.sigs[t].IN_HANDLER = sigs[t].IN_HANDLER
<1> DEFINE s == [sigs[t] EXCEPT !.handler[signo] = h]
           w == HandlerWorld(t, signo, h)
<1>1. w.life = life /\ w.interrupted = interrupted /\ w.stale = stale
      /\ w.sigs = [sigs EXCEPT ![t] = s]
  BY DEF HandlerWorld, World
<1>2. sigs[t] \in SlotSignals /\ interrupted[t] \in Seq(Context) /\ stale[t] \in SUBSET Signal
      /\ ProcTypeOK
  BY <1>1 DEF SigInv, ProcTypeOK
<1>3. /\ s \in SlotSignals /\ s.handler = [sigs[t].handler EXCEPT ![signo] = h]
      /\ s.context = sigs[t].context /\ s.SAVED = sigs[t].SAVED
      /\ s.IN_HANDLER = sigs[t].IN_HANDLER
  BY <1>2 DEF SlotSignals
<1> HIDE DEF s, w
<1>4. WorldOK(w) /\ w.sigs[t] = s /\ \A u \in Tasks \ {t} : w.sigs[u] = sigs[u]
  BY <1>1, <1>2, <1>3 DEF ProcTypeOK, WorldOK
<1>5. QED
  BY <1>1, <1>3, <1>4 DEF w

LEMMA RaiseWorld ==
  ASSUME SigInv, NEW u \in Tasks, NEW signo \in Signal
  PROVE  LET w == RaisedWorld(u, signo) IN
         /\ WorldOK(w) /\ w.life = life /\ w.interrupted = interrupted
         /\ \A v \in Tasks : /\ w.sigs[v].handler = sigs[v].handler
                              /\ w.sigs[v].context = sigs[v].context
                              /\ w.sigs[v].IN_HANDLER = sigs[v].IN_HANDLER
                              /\ w.sigs[v].SAVED = sigs[v].SAVED
                              /\ w.stale[v] \subseteq stale[v]
<1> DEFINE s == [sigs[u] EXCEPT !.PENDING = @ \union {signo}]
           old == stale[u] \ {signo}
           w == RaisedWorld(u, signo)
<1>1. w.life = life /\ w.interrupted = interrupted
      /\ w.sigs = [sigs EXCEPT ![u] = s] /\ w.stale = [stale EXCEPT ![u] = old]
  BY DEF RaisedWorld, World
<1>2. sigs[u] \in SlotSignals /\ interrupted[u] \in Seq(Context) /\ old \in SUBSET Signal
      /\ ProcTypeOK
  BY <1>1 DEF SigInv, ProcTypeOK
<1>3. /\ s \in SlotSignals /\ s.handler = sigs[u].handler /\ s.context = sigs[u].context
      /\ s.IN_HANDLER = sigs[u].IN_HANDLER /\ s.SAVED = sigs[u].SAVED
  BY <1>2 DEF SlotSignals
<1>4. old \subseteq stale[u]
  OBVIOUS
<1> HIDE DEF s, old, w
<1>5. WorldOK(w)
  <2>1. w.stale \in [Tasks -> SUBSET Signal]
    BY <1>1, <1>2 DEF ProcTypeOK
  <2>2. w.sigs \in [Tasks -> SlotSignals]
    BY <1>1, <1>2, <1>3 DEF ProcTypeOK
  <2>3. QED
    BY <1>1, <1>2, <2>1, <2>2 DEF ProcTypeOK, WorldOK
<1>6. w.sigs[u] = s /\ w.stale[u] = old
      /\ \A v \in Tasks \ {u} : w.sigs[v] = sigs[v] /\ w.stale[v] = stale[v]
  BY <1>1, <1>2, <1>3 DEF ProcTypeOK, WorldOK
<1>7. QED
  BY <1>1, <1>3, <1>4, <1>5, <1>6 DEF w

LEMMA SigreturnWorld ==
  ASSUME SigInv, NEW t \in Tasks
  PROVE  LET w == ReturnedWorld(t) IN
         /\ WorldOK(w) /\ w.life = life /\ w.stale = stale
         /\ \A u \in Tasks \ {t} : w.sigs[u] = sigs[u] /\ w.interrupted[u] = interrupted[u]
         /\ w.sigs[t] = sigreturn(sigs[t])
         /\ w.interrupted[t] = SubSeq(interrupted[t], 1, Len(interrupted[t]) - 1)
<1> DEFINE s == sigreturn(sigs[t])
           i == SubSeq(interrupted[t], 1, Len(interrupted[t]) - 1)
           w == ReturnedWorld(t)
<1>1. w.life = life /\ w.stale = stale
      /\ w.sigs = [sigs EXCEPT ![t] = s] /\ w.interrupted = [interrupted EXCEPT ![t] = i]
  BY DEF ReturnedWorld, World
<1>2. sigs[t] \in SlotSignals /\ interrupted[t] \in Seq(Context) /\ stale[t] \in SUBSET Signal
      /\ ProcTypeOK
  BY <1>1 DEF SigInv, ProcTypeOK
<1>3. s \in SlotSignals
  BY <1>2 DEF SlotSignals, sigreturn
<1>4. i \in Seq(Context)
  BY <1>2, SubSeqProperties
<1> HIDE DEF s, i, w
<1>5. WorldOK(w) /\ w.sigs[t] = s /\ w.interrupted[t] = i
      /\ \A u \in Tasks \ {t} : w.sigs[u] = sigs[u] /\ w.interrupted[u] = interrupted[u]
  BY <1>1, <1>2, <1>3, <1>4 DEF ProcTypeOK, WorldOK
<1>6. QED
  BY <1>1, <1>5 DEF s, i, w

LEMMA NewTaskIsFree ==
  ASSUME FreeTasks # {}
  PROVE  NewTask \in Tasks /\ life[NewTask] = "free"
<1>1. FreeTasks \in SUBSET Nat /\ FreeTasks \subseteq Tasks
  BY DEF FreeTasks, Tasks
<1>2. \E m \in FreeTasks : \A k \in FreeTasks : m <= k
  BY <1>1, LeastNatural
<1>3. NewTask \in FreeTasks
  BY <1>2 DEF NewTask
<1>4. QED
  BY <1>3 DEF FreeTasks

LEMMA ForkWorld ==
  ASSUME SigInv, NEW t \in Tasks, life[t] = "user", FreeTasks # {}
  PROVE  LET w == ForkedWorld(t)
             child == ForkChild(t) IN
         /\ NewTask \in Tasks \ {t} /\ life[NewTask] = "free" /\ WorldOK(w)
         /\ \A u \in Tasks \ {NewTask} : /\ w.sigs[u] = sigs[u] /\ w.life[u] = life[u]
                                          /\ w.interrupted[u] = interrupted[u] /\ w.stale[u] = stale[u]
         /\ w.life[NewTask] = "child"
         /\ w.sigs[NewTask] = child /\ w.stale[NewTask] = {} /\ w.interrupted[NewTask] = interrupted[t]
         /\ child.handler = sigs[t].handler /\ child.context = sigs[t].context /\ ~child.IN_HANDLER
<1> DEFINE child == ForkChild(t)
<1>1. NewTask \in Tasks \ {t} /\ life[NewTask] = "free"
  BY NewTaskIsFree
<1>2. sigs[t] \in SlotSignals /\ sigs[NewTask] \in SlotSignals
  BY <1>1 DEF SigInv, ProcTypeOK
<1>3. /\ child \in SlotSignals /\ child.handler = sigs[t].handler /\ child.PENDING = {}
      /\ child.context = sigs[t].context /\ ~child.IN_HANDLER
  BY <1>2 DEF ForkChild, clone_into, SlotSignals
<1>4. QED
  BY <1>1, <1>3 DEF SigInv, ProcTypeOK, WorldOK, ForkedWorld, Lives

LEMMA ForkKeeps ==
  ASSUME SigInv, NEW t \in Tasks, fork(t)
  PROVE  SigInv'
<1> DEFINE child == ForkChild(t)
           w == ForkedWorld(t)
<1>1. /\ life[t] = "user" /\ FreeTasks # {}
      /\ Return(t, w)
      /\ forked' = [forked EXCEPT ![NewTask] = TRUE]
      /\ program' = [program EXCEPT ![NewTask] = program[t]]
      /\ UNCHANGED <<queue, launching, EXEC_PATH>>
  BY DEF fork, InRing3, ForkedWorld, ForkChild
<1>2. /\ NewTask \in Tasks \ {t} /\ life[NewTask] = "free" /\ WorldOK(w)
      /\ \A u \in Tasks \ {NewTask} : /\ w.sigs[u] = sigs[u] /\ w.life[u] = life[u]
                                      /\ w.interrupted[u] = interrupted[u] /\ w.stale[u] = stale[u]
      /\ w.life[NewTask] = "child"
      /\ w.sigs[NewTask] = child /\ w.stale[NewTask] = {} /\ w.interrupted[NewTask] = interrupted[t]
      /\ child.handler = sigs[t].handler /\ child.context = sigs[t].context /\ ~child.IN_HANDLER
  BY <1>1, ForkWorld
<1> HIDE DEF child, w
<1>3. w.life[t] = "user"
  BY <1>1, <1>2
<1>4. /\ sigs' \in [Tasks -> SlotSignals] /\ life' \in [Tasks -> Lives]
      /\ interrupted' \in [Tasks -> Seq(Context)] /\ stale' \in [Tasks -> SUBSET Signal]
      /\ \A u \in Tasks \ {t} : sigs'[u] = w.sigs[u] /\ life'[u] = w.life[u] /\ stale'[u] = w.stale[u]
      /\ life'[t] \in {"user", "left"}
      /\ sigs'[t].handler = w.sigs[t].handler /\ stale'[t] \subseteq w.stale[t]
  BY <1>1, <1>2, <1>3, ReturnKeeps
<1>5. /\ \A u \in Tasks \ {t, NewTask} : sigs'[u] = sigs[u] /\ life'[u] = life[u] /\ stale'[u] = stale[u]
      /\ sigs'[NewTask] = child /\ life'[NewTask] = "child" /\ stale'[NewTask] = {}
      /\ sigs'[t].handler = sigs[t].handler /\ stale'[t] \subseteq stale[t]
  BY <1>2, <1>4
<1>6. ProcTypeOK'
  BY <1>1, <1>2, <1>4 DEF SigInv, ProcTypeOK
<1>7. Named'
  BY <1>1, <1>2, <1>4, <1>5 DEF SigInv, Named, ProcTypeOK
<1>8. Own(sigs[t], stale[t], program[t])
  BY <1>1 DEF SigInv, AllOwn, Entered
<1>9. ASSUME NEW u \in Tasks, Entered(life'[u])
      PROVE  Own(sigs'[u], stale'[u], program'[u])
  <2>1. program'[NewTask] = program[t] /\ \A v \in Tasks \ {NewTask} : program'[v] = program[v]
    BY <1>1, <1>2 DEF SigInv, ProcTypeOK
  <2>2. CASE u \in {t, NewTask}
    BY <2>1, <2>2, <1>2, <1>5, <1>8 DEF Own
  <2>3. CASE u \notin {t, NewTask}
    BY <2>1, <2>3, <1>5, <1>9 DEF SigInv, AllOwn
  <2>4. QED
    BY <2>2, <2>3
<1>10. QED
  BY <1>6, <1>7, <1>9 DEF SigInv, AllOwn

LEMMA SystemCallKeeps ==
  ASSUME SigInv, NEW t \in Tasks, SystemCall(t)
  PROVE  SigInv'
<1>1. \A u \in Tasks : Entered(life[u]) => Own(sigs[u], stale[u], program[u])
  BY DEF SigInv, AllOwn
<1>2. WorldOK(World) /\ World.life = life /\ World.sigs = sigs /\ World.stale = stale
  BY WorldTyped DEF SigInv, World
<1>3. CASE Call(t)
  BY <1>1, <1>2, <1>3, CallKeeps DEF Call, InRing3
<1>4. CASE Exit(t)
  BY <1>4 DEF Exit, launchVars, signalVars, SigInv, AllOwn, Named, Entered, ProcTypeOK, Lives, InRing3
<1>5. CASE fork(t)
  BY <1>5, ForkKeeps
<1>6. CASE Sigreturn(t)
  <2> DEFINE w == ReturnedWorld(t)
  <2>1. CASE ~sigs[t].IN_HANDLER
    <3>1. Return(t, World) /\ life[t] = "user" /\ UNCHANGED launchVars
      BY <1>6, <2>1 DEF Sigreturn, InRing3
    <3>2. QED
      BY <1>1, <1>2, <3>1, CallKeeps
  <2>2. CASE sigs[t].IN_HANDLER
    <3>1. Return(t, w) /\ life[t] = "user" /\ UNCHANGED launchVars
      BY <1>6, <2>2 DEF Sigreturn, InRing3, ReturnedWorld
    <3>2. w.life = life /\ w.stale = stale
      BY SigreturnWorld
    <3>3. WorldOK(w) /\ w.sigs[t] = sigreturn(sigs[t]) /\ \A u \in Tasks \ {t} : w.sigs[u] = sigs[u]
      BY SigreturnWorld
    <3> HIDE DEF w
    <3>4. sigs[t] \in SlotSignals
      BY DEF SigInv, ProcTypeOK
    <3>5. sigreturn(sigs[t]).handler = sigs[t].handler
      BY <3>4 DEF sigreturn, SlotSignals
    <3>6. \A u \in Tasks : Entered(life[u]) => Own(w.sigs[u], w.stale[u], program[u])
      BY <1>1, <3>2, <3>3, <3>5 DEF Own
    <3>7. QED
      BY <3>1, <3>2, <3>3, <3>6, CallKeeps
  <2>3. QED
    BY <2>1, <2>2
<1>7. ASSUME NEW p \in Program, execve(t, p)
      PROVE  SigInv'
  BY <1>7 DEF execve, signalVars, SigInv, AllOwn, Named, Entered, ProcTypeOK, Lives, InRing3
<1>8. ASSUME NEW signo \in Signal, NEW h \in {Default, Ignore, program[t]}, set_handler(t, signo, h)
      PROVE  SigInv'
  <2> DEFINE w == HandlerWorld(t, signo, h)
  <2>1. Return(t, w) /\ life[t] = "user" /\ UNCHANGED launchVars
    BY <1>8 DEF set_handler, InRing3, HandlerWorld
  <2>2. h \in Handlers
    BY <2>1 DEF SigInv, Named, Handlers
  <2>3. /\ WorldOK(w) /\ w.life = life /\ w.stale = stale
        /\ \A u \in Tasks \ {t} : w.sigs[u] = sigs[u]
        /\ w.sigs[t].handler = [sigs[t].handler EXCEPT ![signo] = h]
    BY <2>2, SetHandlerWorld
  <2> HIDE DEF w
  <2>4. sigs[t].handler \in [Signal -> Handlers]
    BY DEF SigInv, ProcTypeOK, SlotSignals
  <2>5. \A other \in Signal :
          w.sigs[t].handler[other] = IF other = signo THEN h ELSE sigs[t].handler[other]
    BY <2>3, <2>4
  <2>6. Own(w.sigs[t], w.stale[t], program[t])
    BY <1>1, <2>1, <2>3, <2>5 DEF Own, Entered
  <2>7. \A u \in Tasks : Entered(life[u]) => Own(w.sigs[u], w.stale[u], program[u])
    BY <1>1, <2>3, <2>6
  <2>8. QED
    BY <2>1, <2>3, <2>7, CallKeeps
<1>9. ASSUME NEW signo \in Signal, NEW u \in Tasks, raise(t, u, signo)
      PROVE  SigInv'
  <2> DEFINE w == RaisedWorld(u, signo)
  <2>1. Return(t, w) /\ life[t] = "user" /\ UNCHANGED launchVars
    BY <1>9 DEF raise, InRing3, RaisedWorld
  <2>2. w.life = life
    BY RaiseWorld
  <2>3. /\ WorldOK(w)
        /\ \A v \in Tasks : w.sigs[v].handler = sigs[v].handler /\ w.stale[v] \subseteq stale[v]
    BY RaiseWorld
  <2> HIDE DEF w
  <2>4. \A v \in Tasks : Entered(life[v]) => Own(w.sigs[v], w.stale[v], program[v])
    BY <1>1, <2>3 DEF Own
  <2>5. QED
    BY <2>1, <2>2, <2>3, <2>4, CallKeeps
<1>10. QED
  BY <1>3, <1>4, <1>5, <1>6, <1>7, <1>8, <1>9 DEF SystemCall

LEMMA InitKeeps == Init => SigInv /\ AllCanReturn /\ RequestsAnswered
<1> SUFFICES ASSUME Init PROVE SigInv /\ AllCanReturn /\ RequestsAnswered
  OBVIOUS
<1>1. Blank \in SlotSignals
  <2>1. [s \in Signal |-> Default] \in [Signal -> Handlers]
    BY DEF Handlers
  <2>2. QED
    BY <2>1, Zenon DEF Blank, SlotSignals, Context
<1>2. ProcTypeOK
  <2>1. queue \in Seq(Program) /\ Len(queue) < MAX_PENDING
    BY QueueAssumption DEF Init
  <2>2. interrupted \in [Tasks -> Seq(Context)] /\ stale \in [Tasks -> SUBSET Signal]
    BY DEF Init
  <2>3. sigs \in [Tasks -> SlotSignals]
    BY <1>1 DEF Init
  <2>4. QED
    BY <2>1, <2>2, <2>3 DEF Init, ProcTypeOK, Lives
<1>3. QED
  BY <1>2 DEF Init, SigInv, AllOwn, Named, AllCanReturn, RequestsAnswered, Entered

LEMMA SigStep ==
  ASSUME SigInv, [Next]_vars
  PROVE  SigInv'
<1>1. CASE Next
  BY <1>1, ShellKeeps, SystemCallKeeps, KernelKeeps DEF Next
<1>2. CASE UNCHANGED vars
  BY <1>2 DEF vars, launchVars, signalVars, SigInv, AllOwn, Named, Entered, Own, ProcTypeOK
<1>3. QED
  BY <1>1, <1>2

\* What the proofs rest on, whatever an instance lets happen.
LEMMA SignalsConsistent == Spec => []SigInv
BY InitKeeps, SigStep, PTL DEF Spec

\* Programs, handlers, pending signals, contexts and the queue keep their types
\* through every system call, delivery and start of a program.
THEOREM ProcessTypes == Spec => []ProcTypeOK
BY SignalsConsistent, PTL DEF SigInv

\* No program finds a signal or a handler of the last program in its slot
\* (signal::reset, clone_into): for any number of tasks and signals, also when
\* tasks are killed at any point and fork children call execve.
THEOREM NothingIsInherited == Spec => []NothingInherited
<1>1. SigInv => NothingInherited
  BY DEF SigInv, AllOwn, Entered, Own, NothingInherited
<1>2. QED
  BY <1>1, SignalsConsistent, PTL

------------------------------------------------------------------------------
(* Requests of execve *)

\* The end of a system call leaves every life but its task's.
LEMMA CallLives ==
  ASSUME SigInv, NEW t \in Tasks, SystemCall(t)
  PROVE  /\ life[t] = "user" /\ life' \in [Tasks -> Lives] /\ life'[t] \in {"user", "left"}
         /\ \A u \in Tasks \ {t} :
              life'[u] = life[u] \/ (life[u] = "free" /\ life'[u] = "child" /\ forked'[u])
<1>1. WorldOK(World) /\ World.life = life
  BY WorldTyped DEF SigInv, World
<1>2. life[t] = "user"
  BY DEF SystemCall, Call, Exit, execve, fork, set_handler, raise, Sigreturn, InRing3
<1>3. life' \in [Tasks -> Lives]
  BY SystemCallKeeps DEF SigInv, ProcTypeOK
<1>4. ASSUME NEW w, WorldOK(w), w.life = life, Return(t, w)
      PROVE  life'[t] \in {"user", "left"} /\ \A u \in Tasks \ {t} : life'[u] = life[u]
  <2>1. w.life[t] = "user"
    BY <1>2, <1>4
  <2>2. QED
    BY <1>4, <2>1, ReturnKeeps
<1>5. CASE Call(t)
  BY <1>1, <1>2, <1>3, <1>4, <1>5 DEF Call
<1>6. CASE Exit(t) \/ \E p \in Program : execve(t, p)
  BY <1>2, <1>3, <1>6 DEF Exit, execve, SigInv, ProcTypeOK
<1>7. CASE fork(t)
  <2> DEFINE w == ForkedWorld(t)
  <2>1. Return(t, w) /\ FreeTasks # {} /\ forked' = [forked EXCEPT ![NewTask] = TRUE]
    BY <1>7 DEF fork, ForkedWorld, ForkChild
  <2>2. /\ NewTask \in Tasks \ {t} /\ life[NewTask] = "free" /\ WorldOK(w)
        /\ \A u \in Tasks \ {NewTask} : w.life[u] = life[u]
        /\ w.life[NewTask] = "child"
    BY <1>2, <2>1, ForkWorld
  <2> HIDE DEF w
  <2>3. life'[t] \in {"user", "left"} /\ \A u \in Tasks \ {t} : life'[u] = w.life[u]
    <3>1. w.life[t] = "user"
      BY <1>2, <2>2
    <3>2. QED
      BY <2>1, <2>2, <3>1, ReturnKeeps
  <2>4. forked'[NewTask]
    BY <2>1, <2>2 DEF SigInv, ProcTypeOK
  <2>5. QED
    BY <1>2, <1>3, <2>2, <2>3, <2>4
<1>8. CASE Sigreturn(t)
  <2>1. Return(t, ReturnedWorld(t)) \/ Return(t, World)
    BY <1>8 DEF Sigreturn, ReturnedWorld
  <2>2. WorldOK(ReturnedWorld(t)) /\ ReturnedWorld(t).life = life
    BY SigreturnWorld
  <2>3. QED
    BY <1>1, <1>2, <1>3, <1>4, <2>1, <2>2
<1>9. ASSUME NEW signo \in Signal, NEW h \in {Default, Ignore, program[t]}, set_handler(t, signo, h)
      PROVE  life'[t] \in {"user", "left"} /\ \A u \in Tasks \ {t} : life'[u] = life[u]
  <2>1. Return(t, HandlerWorld(t, signo, h)) /\ h \in Handlers
    BY <1>2, <1>9 DEF set_handler, HandlerWorld, SigInv, Named, Handlers
  <2>2. WorldOK(HandlerWorld(t, signo, h)) /\ HandlerWorld(t, signo, h).life = life
    BY <2>1, SetHandlerWorld
  <2>3. QED
    BY <1>4, <2>1, <2>2
<1>10. ASSUME NEW signo \in Signal, NEW u \in Tasks, raise(t, u, signo)
       PROVE  life'[t] \in {"user", "left"} /\ \A v \in Tasks \ {t} : life'[v] = life[v]
  <2>1. Return(t, RaisedWorld(u, signo))
    BY <1>10 DEF raise, RaisedWorld
  <2>2. WorldOK(RaisedWorld(u, signo)) /\ RaisedWorld(u, signo).life = life
    BY RaiseWorld
  <2>3. QED
    BY <1>4, <2>1, <2>2
<1>11. QED
  BY <1>2, <1>3, <1>5, <1>6, <1>7, <1>8, <1>9, <1>10 DEF SystemCall

LEMMA RequestsStep ==
  ASSUME {"child_exec", "kill_exec"} \intersect Ops = {}, SigInv, RequestsAnswered, [Next]_vars
  PROVE  RequestsAnswered'
<1> USE DEF RequestsAnswered
<1>1. ASSUME NEW t \in Tasks, SystemCall(t)
      PROVE  RequestsAnswered'
  <2>1. /\ life[t] = "user" /\ EXEC_PATH[t] = NoProgram
        /\ \A u \in Tasks \ {t} : life'[u] = life[u] \/ (life[u] = "free" /\ life'[u] = "child")
    BY <1>1, CallLives
  <2>2. CASE \E p \in Program : execve(t, p)
    BY <2>2 DEF execve, SigInv, ProcTypeOK
  <2>3. CASE fork(t)
    <3>1. NewTask \in Tasks /\ life[NewTask] = "free"
      BY <2>1, <2>3, ForkWorld DEF fork
    <3>2. /\ EXEC_PATH' = EXEC_PATH
          /\ \A u \in Tasks \ {NewTask} : forked'[u] = forked[u]
      BY <2>3, <3>1 DEF fork, SigInv, ProcTypeOK
    <3>3. \A u \in Tasks : EXEC_PATH[u] # NoProgram => life'[u] = life[u] /\ forked'[u] = forked[u]
      BY <2>1, <3>1, <3>2
    <3>4. QED
      BY <3>2, <3>3
  <2>4. CASE UNCHANGED launchVars
    BY <2>1, <2>4 DEF launchVars
  <2>5. QED
    BY <1>1, <2>2, <2>3, <2>4 DEF SystemCall, Call, Exit, set_handler, raise, Sigreturn
<1>2. ASSUME NEW t \in Tasks, Kernel(t)
      PROVE  RequestsAnswered'
  <2>1. CASE TakePending(t)
    BY <2>1 DEF TakePending, SigInv, ProcTypeOK
  <2>2. CASE LoadFails(t)
    BY <2>2 DEF LoadFails, SigInv, ProcTypeOK
  <2>3. CASE EnterRing3(t)
    BY <2>3 DEF EnterRing3, SigInv, ProcTypeOK
  <2>4. CASE NextProgram(t)
    BY <2>4 DEF NextProgram, take_exec, SigInv, ProcTypeOK
  <2>5. CASE Ends(t)
    BY <2>5 DEF Ends, SigInv, ProcTypeOK
  <2>6. CASE ChildRuns(t)
    BY <2>6 DEF ChildRuns, launchVars, SigInv, ProcTypeOK
  <2>7. QED
    BY <1>2, <2>1, <2>2, <2>3, <2>4, <2>5, <2>6 DEF Kernel
<1>3. CASE spawn
  <2>1. /\ EXEC_PATH' = EXEC_PATH
        /\ \A u \in Tasks : life[u] # "free" => life'[u] = life[u] /\ forked'[u] = forked[u]
    <3>1. CASE FreeTasks = {}
      BY <1>3, <3>1 DEF spawn
    <3>2. CASE FreeTasks # {}
      BY <1>3, <3>2, NewTaskIsFree DEF spawn, SigInv, ProcTypeOK
    <3>3. QED
      BY <3>1, <3>2
  <2>2. QED
    BY <2>1
<1>4. CASE \E p \in Program : spawn_user_app(p)
  BY <1>4 DEF spawn_user_app
<1>5. ASSUME NEW u \in Tasks, Killed(u)
      PROVE  RequestsAnswered'
  BY <1>5 DEF Killed, Killable, launchVars, SigInv, ProcTypeOK
<1>6. CASE UNCHANGED vars
  BY <1>6 DEF vars, launchVars
<1>7. QED
  BY <1>1, <1>2, <1>3, <1>4, <1>5, <1>6 DEF Next

\* Every request of execve is answered by the loop of its own task, for any
\* number of tasks: a fork child that asks (child_exec) and a kill before the
\* answer (kill_exec) are the only ways to leave one behind.
THEOREM RequestsAreAnswered ==
  ASSUME {"child_exec", "kill_exec"} \intersect Ops = {}
  PROVE  Spec => []RequestsAnswered
<1>1. SigInv /\ RequestsAnswered /\ [Next]_vars => RequestsAnswered'
  BY RequestsStep
<1>2. QED
  BY <1>1, InitKeeps, SignalsConsistent, PTL DEF Spec

------------------------------------------------------------------------------
(* Handlers *)

LEMMA CallReturns ==
  ASSUME SigInv, NEW t \in Tasks, NEW w, WorldOK(w), w.life[t] = "user", Return(t, w),
         \A u \in Tasks : Entered(w.life[u]) => CanReturn(w.sigs[u], w.interrupted[u])
  PROVE  AllCanReturn'
<1>1. /\ \A u \in Tasks \ {t} : /\ sigs'[u] = w.sigs[u] /\ life'[u] = w.life[u]
                                /\ interrupted'[u] = w.interrupted[u]
      /\ life'[t] \in {"user", "left"}
      /\ CanReturn(w.sigs[t], w.interrupted[t]) /\ life'[t] = "user"
           => CanReturn(sigs'[t], interrupted'[t])
  BY ReturnKeeps
<1>2. CanReturn(w.sigs[t], w.interrupted[t])
  BY DEF Entered
<1>3. ASSUME NEW u \in Tasks, Entered(life'[u])
      PROVE  CanReturn(sigs'[u], interrupted'[u])
  <2>1. CASE u = t
    BY <1>1, <1>2, <1>3, <2>1 DEF Entered
  <2>2. CASE u # t
    BY <1>1, <1>3, <2>2
  <2>3. QED
    BY <2>1, <2>2
<1>4. QED
  BY <1>3 DEF AllCanReturn

LEMMA HandlersStep ==
  ASSUME "handler_fork" \notin Ops, SigInv, AllCanReturn, [Next]_vars
  PROVE  AllCanReturn'
<1>1. ASSUME NEW t \in Tasks, SystemCall(t)
      PROVE  AllCanReturn'
  <2>1. life[t] = "user"
    BY <1>1, CallLives
  <2>2. CanReturn(sigs[t], interrupted[t]) /\ sigs[t] \in SlotSignals
    BY <2>1 DEF AllCanReturn, Entered, SigInv, ProcTypeOK
  <2>3. WorldOK(World) /\ World.life = life /\ World.sigs = sigs /\ World.interrupted = interrupted
    BY WorldTyped DEF SigInv, World
  <2>4. Return(t, World) => AllCanReturn'
    BY <2>1, <2>3, CallReturns DEF AllCanReturn
  <2>5. CASE Exit(t) \/ \E p \in Program : execve(t, p)
    BY <2>5 DEF Exit, execve, signalVars, AllCanReturn, Entered, SigInv, ProcTypeOK
  <2>6. CASE fork(t)
    <3> DEFINE w == ForkedWorld(t)
               child == ForkChild(t)
    <3>1. Return(t, w) /\ FreeTasks # {} /\ sigs[t].context = NoSignal
      BY <2>6 DEF fork, ForkedWorld, ForkChild
    <3>2. /\ NewTask \in Tasks \ {t} /\ WorldOK(w)
          /\ \A u \in Tasks \ {NewTask} : /\ w.sigs[u] = sigs[u] /\ w.life[u] = life[u]
                                          /\ w.interrupted[u] = interrupted[u]
          /\ w.sigs[NewTask] = child /\ w.interrupted[NewTask] = interrupted[t]
          /\ child.context = sigs[t].context /\ ~child.IN_HANDLER
      BY <2>1, <3>1, ForkWorld
    <3> HIDE DEF w, child
    <3>3. CanReturn(child, interrupted[t])
      BY <2>2, <3>1, <3>2 DEF CanReturn
    <3>4. \A u \in Tasks : Entered(w.life[u]) => CanReturn(w.sigs[u], w.interrupted[u])
      BY <3>2, <3>3 DEF AllCanReturn
    <3>5. w.life[t] = "user"
      BY <2>1, <3>2
    <3>6. QED
      BY <3>1, <3>2, <3>4, <3>5, CallReturns
  <2>7. CASE Sigreturn(t)
    <3> DEFINE w == ReturnedWorld(t)
    <3>1. CASE ~sigs[t].IN_HANDLER
      BY <2>4, <2>7, <3>1 DEF Sigreturn
    <3>2. CASE sigs[t].IN_HANDLER
      <4>1. Return(t, w) /\ sigs[t].context # NoSignal
        BY <2>7, <3>2 DEF Sigreturn, ReturnedWorld
      <4>2. /\ WorldOK(w) /\ w.life = life
            /\ \A u \in Tasks \ {t} : w.sigs[u] = sigs[u] /\ w.interrupted[u] = interrupted[u]
            /\ w.sigs[t] = sigreturn(sigs[t])
            /\ w.interrupted[t] = SubSeq(interrupted[t], 1, Len(interrupted[t]) - 1)
        BY SigreturnWorld
      <4> HIDE DEF w
      <4>3. interrupted[t] = <<sigs[t].SAVED>> /\ sigs[t].SAVED = NoSignal
        BY <2>2, <4>1 DEF CanReturn
      <4>4. w.interrupted[t] = <<>>
        BY <4>2, <4>3
      <4>5. w.sigs[t].context = NoSignal /\ ~w.sigs[t].IN_HANDLER
        BY <2>2, <4>2, <4>3 DEF sigreturn, SlotSignals
      <4>6. CanReturn(w.sigs[t], w.interrupted[t])
        BY <4>4, <4>5 DEF CanReturn
      <4>7. \A u \in Tasks : Entered(w.life[u]) => CanReturn(w.sigs[u], w.interrupted[u])
        BY <4>2, <4>6 DEF AllCanReturn
      <4>8. QED
        BY <2>1, <4>1, <4>2, <4>7, CallReturns
    <3>3. QED
      BY <3>1, <3>2
  <2>8. ASSUME NEW signo \in Signal, NEW h \in Handlers, set_handler(t, signo, h)
        PROVE  AllCanReturn'
    <3> DEFINE w == HandlerWorld(t, signo, h)
    <3>1. Return(t, w)
      BY <2>8 DEF set_handler, HandlerWorld
    <3>2. /\ WorldOK(w) /\ w.life = life /\ w.interrupted = interrupted
          /\ \A u \in Tasks \ {t} : w.sigs[u] = sigs[u]
          /\ w.sigs[t].context = sigs[t].context /\ w.sigs[t].SAVED = sigs[t].SAVED
          /\ w.sigs[t].IN_HANDLER = sigs[t].IN_HANDLER
      BY SetHandlerWorld
    <3> HIDE DEF w
    <3>3. \A u \in Tasks : Entered(w.life[u]) => CanReturn(w.sigs[u], w.interrupted[u])
      BY <3>2 DEF AllCanReturn, CanReturn
    <3>4. QED
      BY <2>1, <3>1, <3>2, <3>3, CallReturns
  <2>9. ASSUME NEW signo \in Signal, NEW u \in Tasks, raise(t, u, signo)
        PROVE  AllCanReturn'
    <3> DEFINE w == RaisedWorld(u, signo)
    <3>1. Return(t, w)
      BY <2>9 DEF raise, RaisedWorld
    <3>2. /\ WorldOK(w) /\ w.life = life /\ w.interrupted = interrupted
          /\ \A v \in Tasks : /\ w.sigs[v].context = sigs[v].context
                               /\ w.sigs[v].IN_HANDLER = sigs[v].IN_HANDLER
                               /\ w.sigs[v].SAVED = sigs[v].SAVED
      BY RaiseWorld
    <3> HIDE DEF w
    <3>3. \A v \in Tasks : Entered(w.life[v]) => CanReturn(w.sigs[v], w.interrupted[v])
      BY <3>2 DEF AllCanReturn, CanReturn
    <3>4. QED
      BY <2>1, <3>1, <3>2, <3>3, CallReturns
  <2>10. {Default, Ignore, program[t]} \subseteq Handlers
    BY <2>1 DEF SigInv, Named, Handlers
  <2>11. QED
    BY <1>1, <2>10, <2>4, <2>5, <2>6, <2>7, <2>8, <2>9 DEF SystemCall, Call
<1>2. ASSUME NEW t \in Tasks, Kernel(t)
      PROVE  AllCanReturn'
  <2> USE DEF AllCanReturn, Entered
  <2>1. CASE TakePending(t) \/ LoadFails(t) \/ NextProgram(t) \/ Ends(t)
    BY <2>1 DEF TakePending, LoadFails, NextProgram, Ends, Runs, signalVars, SigInv, ProcTypeOK
  <2>2. CASE EnterRing3(t)
    <3>1. sigs[t] \in SlotSignals
      BY DEF SigInv, ProcTypeOK
    <3>2. /\ sigs'[t] = [reset(sigs[t]) EXCEPT !.context = NoSignal] /\ interrupted'[t] = <<>>
          /\ \A u \in Tasks \ {t} : /\ sigs'[u] = sigs[u] /\ interrupted'[u] = interrupted[u]
                                    /\ life'[u] = life[u]
      BY <2>2 DEF EnterRing3, SigInv, ProcTypeOK
    <3>3. sigs'[t].context = NoSignal /\ ~sigs'[t].IN_HANDLER
      BY <3>1, <3>2 DEF reset, SlotSignals
    <3>4. CanReturn(sigs'[t], interrupted'[t])
      BY <3>2, <3>3 DEF CanReturn
    <3>5. QED
      BY <3>2, <3>4
  <2>3. CASE ChildRuns(t)
    BY <2>3 DEF ChildRuns, signalVars, SigInv, ProcTypeOK
  <2>4. QED
    BY <1>2, <2>1, <2>2, <2>3 DEF Kernel
<1>3. CASE spawn
  BY <1>3 DEF spawn, signalVars, AllCanReturn, Entered, SigInv, ProcTypeOK
<1>4. CASE \E p \in Program : spawn_user_app(p)
  BY <1>4 DEF spawn_user_app, signalVars, AllCanReturn
<1>5. CASE \E u \in Tasks : Killed(u)
  BY <1>5 DEF Killed, signalVars, AllCanReturn, Entered, SigInv, ProcTypeOK
<1>6. CASE UNCHANGED vars
  BY <1>6 DEF vars, signalVars, AllCanReturn
<1>7. QED
  BY <1>1, <1>2, <1>3, <1>4, <1>5, <1>6 DEF Next

\* A process is in at most one handler and returns from it to where it was, for
\* any number of signals: only a fork inside a handler (handler_fork) makes a
\* child that cannot.
THEOREM HandlersCanReturn ==
  ASSUME "handler_fork" \notin Ops
  PROVE  Spec => []HandlerCanReturn
<1>1. SigInv /\ AllCanReturn /\ [Next]_vars => AllCanReturn'
  BY HandlersStep
<1>2. AllCanReturn => HandlerCanReturn
  BY DEF AllCanReturn, HandlerCanReturn, CanReturn, Entered
<1>3. QED
  BY <1>1, <1>2, InitKeeps, SignalsConsistent, PTL DEF Spec

------------------------------------------------------------------------------
(* The paths in the launcher's queue *)

Starting == {t \in Tasks : life[t] = "starting"}

LEMMA StartingFinite ==
  /\ IsFiniteSet(Starting) /\ Cardinality(Starting) \in Nat
  /\ \A t \in Starting : Cardinality(Starting) >= 1
<1>1. IsFiniteSet(Tasks)
  BY FS_Interval DEF Tasks
<1>2. IsFiniteSet(Starting)
  BY <1>1, FS_Subset DEF Starting
<1>3. Cardinality(Starting) \in Nat
  BY <1>2, FS_CardinalityType
<1>4. ASSUME NEW t \in Starting
      PROVE  Cardinality(Starting) >= 1
  <2>1. Cardinality(Starting \ {t}) = Cardinality(Starting) - 1 /\ IsFiniteSet(Starting \ {t})
    BY <1>2, FS_RemoveElement
  <2>2. Cardinality(Starting \ {t}) \in Nat
    BY <2>1, FS_CardinalityType
  <2>3. QED
    BY <1>3, <2>1, <2>2
<1>5. QED
  BY <1>2, <1>3, <1>4

LEMMA QueueStep ==
  ASSUME {"kill_starting", "full"} \intersect Ops = {}, SigInv, QueueServesStarts, [Next]_vars
  PROVE  QueueServesStarts'
<1>1. Len(queue) = Cardinality(Starting) + (IF launching THEN 1 ELSE 0)
  BY DEF QueueServesStarts, Starting
<1>2. (Len(queue) = Cardinality(Starting) + (IF launching THEN 1 ELSE 0))' => QueueServesStarts'
  BY DEF QueueServesStarts, Starting
<1>3. ASSUME Starting' = Starting, UNCHANGED <<queue, launching>>
      PROVE  QueueServesStarts'
  BY <1>1, <1>2, <1>3
<1>4. ASSUME NEW t \in Tasks, SystemCall(t)
      PROVE  QueueServesStarts'
  <2>1. UNCHANGED <<queue, launching>>
    BY <1>4 DEF SystemCall, Call, Exit, execve, fork, set_handler, raise, Sigreturn, launchVars
  <2>2. life[t] = "user" /\ life'[t] # "starting"
        /\ \A u \in Tasks \ {t} : life'[u] = life[u] \/ (life[u] = "free" /\ life'[u] = "child")
    BY <1>4, CallLives
  <2>3. Starting' = Starting
    BY <2>2 DEF Starting
  <2>4. QED
    BY <1>3, <2>1, <2>3
<1>5. ASSUME NEW t \in Tasks, Kernel(t)
      PROVE  QueueServesStarts'
  <2>1. CASE TakePending(t)
    <3>1. t \in Starting /\ life[t] = "starting"
      BY <2>1 DEF TakePending, Starting
    <3>2. queue \in Seq(Program) /\ Len(queue) >= 1
      BY <1>1, <3>1, StartingFinite DEF SigInv, ProcTypeOK
    <3>3. queue' = Tail(queue) /\ launching' = launching /\ life' = [life EXCEPT ![t] = "image"]
      BY <2>1, <3>2 DEF TakePending
    <3>4. Starting' = Starting \ {t}
      BY <3>3 DEF Starting, SigInv, ProcTypeOK
    <3>5. Cardinality(Starting') = Cardinality(Starting) - 1
      BY <3>1, <3>4, StartingFinite, FS_RemoveElement
    <3>6. Len(queue') = Len(queue) - 1
      BY <3>2, <3>3, HeadTailProperties
    <3>7. QED
      BY <1>1, <1>2, <3>2, <3>3, <3>5, <3>6, StartingFinite
  <2>2. CASE LoadFails(t) \/ EnterRing3(t) \/ NextProgram(t) \/ Ends(t) \/ ChildRuns(t)
    <3>1. /\ UNCHANGED <<queue, launching>> /\ life[t] # "starting" /\ life'[t] # "starting"
          /\ \A u \in Tasks \ {t} : life'[u] = life[u]
      BY <2>2 DEF LoadFails, EnterRing3, NextProgram, Ends, ChildRuns, launchVars, SigInv, ProcTypeOK
    <3>2. Starting' = Starting
      BY <3>1 DEF Starting
    <3>3. QED
      BY <1>3, <3>1, <3>2
  <2>3. QED
    BY <1>5, <2>1, <2>2 DEF Kernel
<1>6. CASE spawn
  <2>1. FreeTasks # {} /\ launching /\ ~launching' /\ queue' = queue
        /\ life' = [life EXCEPT ![NewTask] = "starting"]
    BY <1>6 DEF spawn
  <2>2. NewTask \in Tasks /\ life[NewTask] = "free"
    BY <2>1, NewTaskIsFree
  <2>3. Starting' = Starting \union {NewTask} /\ NewTask \notin Starting
    BY <2>1, <2>2 DEF Starting, SigInv, ProcTypeOK
  <2>4. Cardinality(Starting') = Cardinality(Starting) + 1
    BY <2>3, StartingFinite, FS_AddElement
  <2>5. QED
    BY <1>1, <1>2, <2>1, <2>4, StartingFinite
<1>7. ASSUME NEW p \in Program, spawn_user_app(p)
      PROVE  QueueServesStarts'
  <2>1. ~launching /\ launching' /\ queue' = Append(queue, p) /\ life' = life
    BY <1>7 DEF spawn_user_app
  <2>2. Len(queue') = Len(queue) + 1
    BY <2>1 DEF SigInv, ProcTypeOK
  <2>3. Starting' = Starting
    BY <2>1 DEF Starting
  <2>4. QED
    BY <1>1, <1>2, <2>1, <2>2, <2>3, StartingFinite
<1>8. ASSUME NEW u \in Tasks, Killed(u)
      PROVE  QueueServesStarts'
  <2>1. life[u] # "starting" /\ life' = [life EXCEPT ![u] = "free"] /\ UNCHANGED <<queue, launching>>
    BY <1>8 DEF Killed, Killable, launchVars
  <2>2. Starting' = Starting
    BY <2>1 DEF Starting, SigInv, ProcTypeOK
  <2>3. QED
    BY <1>3, <2>1, <2>2
<1>9. CASE UNCHANGED vars
  BY <1>3, <1>9 DEF vars, launchVars, Starting
<1>10. QED
  BY <1>4, <1>5, <1>6, <1>7, <1>8, <1>9 DEF Next

\* The launcher's queue and its tasks stay in step, for any number of slots and
\* of cells: only a kill before the path is taken (kill_starting) or a launch
\* without a free slot (full) leaves a path to a task it was not meant for.
THEOREM QueueInStep ==
  ASSUME {"kill_starting", "full"} \intersect Ops = {}
  PROVE  Spec => []ProcInv
<1>1. ASSUME Init PROVE QueueServesStarts
  <2>1. Cardinality({}) = 0
    BY FS_EmptySet
  <2>2. Starting = {}
    BY <1>1 DEF Init, Starting
  <2>3. Len(queue) = Cardinality(Starting) + (IF launching THEN 1 ELSE 0)
    BY <1>1, <2>1, <2>2 DEF Init
  <2>4. QED
    BY <2>3 DEF QueueServesStarts, Starting
<1>2. SigInv /\ QueueServesStarts /\ [Next]_vars => QueueServesStarts'
  BY QueueStep
<1>3. SigInv /\ QueueServesStarts => ProcInv
  BY DEF SigInv, ProcInv
<1>4. QED
  BY <1>1, <1>2, <1>3, SignalsConsistent, PTL DEF Spec
====
