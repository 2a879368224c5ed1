------------------------------- MODULE Loader -------------------------------
(***************************************************************************)
(* The loaders of ELF and PE programs (level0b1/binary_loader/elf32.rs,    *)
(* elf64.rs, pe32.rs, pe64.rs) between the new address space and the jump  *)
(* to user mode (level0b1/process.rs).                                     *)
(*                                                                         *)
(* A file is arbitrary: each header is chosen when the loader reads it.    *)
(* Addresses count from USER_MEM_START in cells, a cell being four bytes.  *)
(* The loaders of the two machines take the same steps; what a relocation, *)
(* an entry of the import table and a thunk take differs.  Sums of header  *)
(* fields that do not fit the machine word are left out.  Faulty_x is a    *)
(* mistake in x that a run has to find.                                    *)
(***************************************************************************)
EXTENDS Integers, FiniteSets

CONSTANTS
  USER_MEM_SIZE,         \* what the checks of the loaders allow
  USER_MAP_SIZE,         \* what a process really has
  PAGE_SIZE, USER_STACK_SIZE,
  FileLength,
  Fields,                \* bound: the values of the sizes and offsets in a header
  Entries,               \* bound: the addresses in relocations and import tables
  MaxHeaders,            \* bound: segments or sections; relocations; imports
  LoadOps                \* images that lead to states the README describes

\* "wide": an image that the checks allow but the process has no room for;
\* "long_data": a segment with more data in the file than room in memory.
ASSUME LoadOpsAssumption == LoadOps \subseteq {"wide", "long_data"}
ASSUME SizesAssumption ==
  /\ {USER_MEM_SIZE, USER_MAP_SIZE, USER_STACK_SIZE, FileLength, MaxHeaders} \subseteq Nat
  /\ PAGE_SIZE \in Nat \ {0}
  /\ USER_MAP_SIZE <= USER_MEM_SIZE
  /\ Fields \subseteq Nat /\ Entries \subseteq Nat

VARIABLES
  arch,      \* the machine the kernel was built for, "i386" or "x86_64"
  mem,       \* what each cell holds: see Fresh, Cleared, Byte, Thunk and Bound
  moved,     \* how often the loader added the difference of the bases to it
  load,      \* the load in progress
  parts,     \* history: the segments or sections that were loaded
  patches,   \* history: the cells that were relocated
  imports,   \* history: per entry of the import table, the address of its thunk
  stray      \* history: something was written outside of the process

loaderVars == <<arch, mem, moved, load, parts, patches, imports, stray>>

Architectures == {"i386", "x86_64"}

\* An address of the machine, and a thunk, in cells.  A thunk takes 16 and 48
\* bytes; here it takes as many cells as an address.
SlotSize == IF arch = "i386" THEN 1 ELSE 2
THUNK_SIZE == SlotSize

Cells == 0 .. USER_MEM_SIZE - 1
Mapped == 0 .. USER_MAP_SIZE - 1
Unmapped == USER_MAP_SIZE + 1 .. USER_MEM_SIZE
Extent(from, len) == from .. from + len - 1

Fresh == <<"fresh">>
Cleared == <<"zero">>
Byte(k) == <<"file", k>>
Thunk(at) == <<"thunk", at>>
Bound(at) == <<"bound", at>>

PageUp(a) == ((a + PAGE_SIZE - 1) \div PAGE_SIZE) * PAGE_SIZE
LargerOf(a, b) == IF a > b THEN a ELSE b

NoLoad == [stage |-> "none", size |-> 0, delta |-> 0, end |-> 0, thunk |-> 0, headers |-> 0,
           entries |-> 0, stack |-> 0, brk |-> 0]

Image == <<arch, mem, moved, parts, patches, imports, stray>>

\* The cells of a range get new values.
Write(range, Value(_)) ==
  /\ mem' = [c \in Cells |-> IF c \in range THEN Value(c) ELSE mem[c]]
  /\ moved' = [c \in Cells |-> IF c \in range THEN 0 ELSE moved[c]]
  /\ stray' = (stray \/ ~range \subseteq Mapped)

\* Nothing is left of a program, or nothing is there yet.
Forget ==
  /\ mem' = [c \in Cells |-> Fresh] /\ moved' = [c \in Cells |-> 0]
  /\ parts' = {} /\ patches' = {} /\ imports' = <<>>
  /\ UNCHANGED <<arch, stray>>

Fails == load' = [NoLoad EXCEPT !.stage = "failed"] /\ UNCHANGED Image

------------------------------------------------------------------------------
(* detect_and_load *)

\* run_image: a new address space; then the first bytes of the file decide.
\* What begins as PE is not an ELF file, so the way back from a PE file that
\* cannot be loaded to ELF ends at the magic number.
run_image(format) ==
  /\ load.stage = "none"
  /\ load' = [NoLoad EXCEPT !.stage = CASE format = "PE" -> "pe" [] format = "ELF" -> "elf" [] OTHER -> "failed"]
  /\ Forget

\* The header of an ELF file is refused unless it is one of this machine.
read_ehdr(class) ==
  /\ load.stage = "elf"
  /\ IF class # arch THEN Fails
     ELSE load' = [load EXCEPT !.stage = "segments"] /\ UNCHANGED Image

Segment == [offset : Fields, vaddr : Fields \union {-1}, filesz : Fields, memsz : Fields]

Inside(vaddr, memsz) == vaddr >= 0 /\ vaddr + memsz <= USER_MEM_SIZE

\* Two parts that overlap are no program a linker makes.
Apart(from, len) == \A p \in parts : Extent(p.vaddr, p.span) \intersect Extent(from, len) = {}

SegmentCell(s, c) == IF c < s.vaddr + s.filesz THEN Byte(s.offset + c - s.vaddr) ELSE Cleared

\* One segment of an ELF file; one that is not to be loaded, or is empty, is
\* passed over.
load_segment(s) ==
  /\ load.stage = "segments" /\ load.headers < MaxHeaders
  /\ IF s.memsz = 0 THEN load' = [load EXCEPT !.headers = @ + 1] /\ UNCHANGED Image
     ELSE IF s.offset + s.filesz > FileLength \/ ~Inside(s.vaddr, s.memsz) THEN Fails
     ELSE /\ s.filesz <= s.memsz \/ "long_data" \in LoadOps
          /\ s.vaddr + s.memsz \in Unmapped => "wide" \in LoadOps
          /\ Apart(s.vaddr, s.memsz)
          /\ Write(Extent(s.vaddr, LargerOf(s.memsz, s.filesz)), LAMBDA c : SegmentCell(s, c))
          /\ load' = [load EXCEPT !.headers = @ + 1, !.end = LargerOf(@, s.vaddr + s.memsz)]
          /\ parts' = parts \union {[vaddr |-> s.vaddr, span |-> s.memsz, offset |-> s.offset, data |-> s.filesz]}
          /\ UNCHANGED <<arch, patches, imports>>

\* A file without anything to load is refused.
elf_loaded ==
  /\ load.stage = "segments"
  /\ IF load.end = 0 THEN Fails
     ELSE load' = [load EXCEPT !.stage = "enter"] /\ UNCHANGED Image

------------------------------------------------------------------------------
(* PE *)

\* The headers of a PE file: it is always loaded at USER_MEM_START, its cells are
\* cleared first.  delta tells whether it was linked for another address.
pe_headers(machine, size, delta) ==
  /\ load.stage = "pe"
  /\ IF machine # arch \/ size > USER_MEM_SIZE THEN Fails
     ELSE /\ size \in Unmapped => "wide" \in LoadOps
          /\ Write(Extent(0, size), LAMBDA c : Cleared)
          /\ load' = [load EXCEPT !.stage = "sections", !.size = size, !.delta = delta, !.end = size]
          /\ UNCHANGED <<arch, parts, patches, imports>>

Section == [virtual_size : Fields, virtual_addr : Fields, raw_size : Fields, raw_ptr : Fields]

pe_section(s) ==
  LET span == LargerOf(s.virtual_size, s.raw_size)
  IN  /\ load.stage = "sections" /\ load.headers < MaxHeaders
      /\ IF s.virtual_addr + span > load.size \/ (s.raw_size > 0 /\ s.raw_ptr + s.raw_size > FileLength) THEN Fails
         ELSE /\ Apart(s.virtual_addr, span)
              /\ Write(Extent(s.virtual_addr, s.raw_size), LAMBDA c : Byte(s.raw_ptr + c - s.virtual_addr))
              /\ load' = [load EXCEPT !.headers = @ + 1]
              /\ parts' = parts \union {[vaddr |-> s.virtual_addr, span |-> span, offset |-> s.raw_ptr, data |-> s.raw_size]}
              /\ UNCHANGED <<arch, patches, imports>>

\* Without a difference of the bases there is nothing to relocate.
AfterSections ==
  IF load.delta # 0 THEN [load EXCEPT !.stage = "relocations"]
  ELSE [load EXCEPT !.stage = "imports", !.thunk = PageUp(load.end)]

sections_loaded ==
  /\ load.stage = "sections"
  /\ load' = AfterSections
  /\ UNCHANGED Image

\* One address of the relocation table; a linker lists nothing twice.
apply_relocation(rva) ==
  LET slot == Extent(rva, SlotSize)
  IN  /\ load.stage = "relocations" /\ load.entries < MaxHeaders
      /\ slot \intersect patches = {}
      /\ IF rva + SlotSize > load.size THEN Fails
         ELSE /\ moved' = [c \in Cells |-> moved[c] + (IF c \in slot THEN 1 ELSE 0)]
              /\ patches' = patches \union slot
              /\ stray' = (stray \/ ~slot \subseteq Mapped)
              /\ load' = [load EXCEPT !.entries = @ + 1]
              /\ UNCHANGED <<arch, mem, parts, imports>>

\* Fault: the thunks follow the image without a check of their own.
Faulty_ThunkFits == TRUE

ThunkFits == load.thunk + THUNK_SIZE <= USER_MAP_SIZE

\* The end of the table, or what is wrong with it (its place, an unknown type).
relocated(well) ==
  /\ load.stage = "relocations"
  /\ IF ~well THEN Fails
     ELSE /\ load' = [load EXCEPT !.stage = "imports", !.entries = 0, !.thunk = PageUp(load.end)]
          /\ UNCHANGED Image

\* The entries of the import table; imports names them by their first cell.
Slots == UNION {Extent(rva, SlotSize) : rva \in DOMAIN imports}

\* emit_thunk behind the image, and its address into the import table at the rva.
resolve_import(rva) ==
  LET slot == Extent(rva, SlotSize)
      code == Extent(load.thunk, THUNK_SIZE)
  IN  /\ load.stage = "imports" /\ load.entries < MaxHeaders
      /\ slot \intersect Slots = {}
      /\ IF ~ThunkFits \/ rva + SlotSize > load.size THEN Fails
         ELSE /\ Write(code \union slot, LAMBDA c : IF c \in code THEN Thunk(load.thunk) ELSE Bound(load.thunk))
              /\ imports' = [r \in DOMAIN imports \union {rva} |-> IF r = rva THEN load.thunk ELSE imports[r]]
              /\ load' = [load EXCEPT !.entries = @ + 1, !.thunk = @ + THUNK_SIZE]
              /\ UNCHANGED <<arch, parts, patches>>

\* Fault: the stack begins behind the image.
Faulty_EndOfImports == load.end

EndOfImports == IF load.entries = 0 THEN load.end ELSE load.thunk

\* The end of the import table, or a name that is not there.
imported(well) ==
  /\ load.stage = "imports"
  /\ IF ~well THEN Fails
     ELSE load' = [load EXCEPT !.stage = "enter", !.end = EndOfImports] /\ UNCHANGED Image

------------------------------------------------------------------------------
(* The loader of the kernel that was built: one file of the sources each *)

elf32_segment(s) == arch = "i386" /\ load_segment(s)
elf64_segment(s) == arch = "x86_64" /\ load_segment(s)

pe32_headers(machine, size, delta) == arch = "i386" /\ pe_headers(machine, size, delta)
pe64_headers(machine, size, delta) == arch = "x86_64" /\ pe_headers(machine, size, delta)

pe32_section(s) == arch = "i386" /\ pe_section(s)
pe64_section(s) == arch = "x86_64" /\ pe_section(s)

pe32_relocation(rva) == arch = "i386" /\ apply_relocation(rva)
pe64_relocation(rva) == arch = "x86_64" /\ apply_relocation(rva)

pe32_import(rva) == arch = "i386" /\ resolve_import(rva)
pe64_import(rva) == arch = "x86_64" /\ resolve_import(rva)

------------------------------------------------------------------------------
(* enter_ring3 *)

\* Fault: the stack begins where the image ends, in the page of its end.
Faulty_StackBottom == load.end - (load.end % PAGE_SIZE)

StackBottom == PageUp(load.end)

\* The stack behind the image, the heap between the two; the kernel's own stack
\* for the program may be more than there is room for.
enter_ring3(room) ==
  /\ load.stage = "enter"
  /\ IF StackBottom + USER_STACK_SIZE > USER_MAP_SIZE \/ ~room THEN Fails
     ELSE /\ load' = [load EXCEPT !.stage = "running", !.stack = StackBottom, !.brk = load.end]
          /\ UNCHANGED Image

\* The program moves the end of its heap; what is refused changes nothing.
brk(requested) ==
  /\ load.stage = "running"
  /\ load' = IF requested < load.end \/ requested > load.stack THEN load
           ELSE [load EXCEPT !.brk = requested]
  /\ UNCHANGED Image

\* From its first instruction on the memory is the program's own business.
main ==
  /\ load.stage = "running"
  /\ load' = [NoLoad EXCEPT !.stage = "called"]
  /\ Forget

\* The program ends or could not be loaded: its address space goes.
release_space ==
  /\ load.stage \in {"called", "failed"}
  /\ load' = NoLoad
  /\ Forget

LoadInit ==
  /\ arch \in Architectures
  /\ mem = [c \in Cells |-> Fresh] /\ moved = [c \in Cells |-> 0]
  /\ load = NoLoad
  /\ parts = {} /\ patches = {} /\ imports = <<>>
  /\ stray = FALSE

LoadNext ==
  \/ \E format \in {"ELF", "PE", "other"} : run_image(format)
  \/ \E machine \in Architectures :
       \/ read_ehdr(machine)
       \/ \E size \in Fields, delta \in {0, 1} : pe32_headers(machine, size, delta) \/ pe64_headers(machine, size, delta)
  \/ \E s \in Segment : elf32_segment(s) \/ elf64_segment(s)
  \/ elf_loaded
  \/ \E s \in Section : pe32_section(s) \/ pe64_section(s)
  \/ sections_loaded
  \/ \E rva \in Entries :
       pe32_relocation(rva) \/ pe64_relocation(rva) \/ pe32_import(rva) \/ pe64_import(rva)
  \/ \E at \in Cells : brk(at)
  \/ \E well \in BOOLEAN : relocated(well) \/ imported(well) \/ enter_ring3(well)
  \/ main \/ release_space


LoadSpec == LoadInit /\ [][LoadNext]_loaderVars

------------------------------------------------------------------------------
(* Properties *)

\* Type invariant.
LoaderTypeOK ==
  /\ \A c \in Cells : mem[c] \in {Fresh, Cleared} \union {Byte(k) : k \in Extent(0, FileLength)}
                                \union {Thunk(a) : a \in Cells} \union {Bound(a) : a \in Cells}
  /\ \A c \in Cells : moved[c] \in {0, 1}
  /\ load.stage \in {"none", "elf", "segments", "pe", "sections", "relocations", "imports", "enter",
                     "running", "called", "failed"}
  /\ load.end \in 0 .. USER_MEM_SIZE

\* "Yalnizca ... araligina yazmaya izin verilir" (elf32.rs): whatever the headers
\* say, the loader writes only to the memory of the new process (load, dll.rs).
WritesInside == ~stray

Running == load.stage = "running"

\* A program that runs has its file in memory: the data of every part, zeros in
\* the rest of it, each cell moved once if the relocations name it and never
\* otherwise, but for the import table (load, apply_relocations).
ImageAsLinked ==
  Running =>
    \A p \in parts : \A c \in Extent(p.vaddr, p.span) \ Slots :
      /\ mem[c] = IF c < p.vaddr + p.data THEN Byte(p.offset + c - p.vaddr) ELSE Cleared
      /\ moved[c] = IF c \in patches THEN 1 ELSE 0

\* Every import of a program that runs leads to a thunk of its own, which the
\* relocations have not touched and which lies behind the image and below the
\* stack (resolve_imports, emit_thunk, enter_ring3).
ImportsBound ==
  Running =>
    \A rva \in DOMAIN imports :
      /\ \A c \in Extent(rva, SlotSize) : mem[c] = Bound(imports[rva]) /\ moved[c] = 0
      /\ \A c \in Extent(imports[rva], THUNK_SIZE) :
           mem[c] = Thunk(imports[rva]) /\ c \in load.size .. load.stack - 1

\* The stack of a program that runs is its own memory, and neither the image nor
\* what brk may add to it reaches it (enter_ring3, brk).
StackClear ==
  Running =>
    /\ Extent(load.stack, USER_STACK_SIZE) \subseteq Mapped
    /\ load.end <= load.brk /\ load.brk <= load.stack
    /\ \A c \in Extent(load.stack, USER_STACK_SIZE) : mem[c] = Fresh
\* The load is consistent: beside the types, stack, image and heap of a program that
\* runs are apart and its own, whatever its headers say (enter_ring3, brk).
LoaderInv == LoaderTypeOK /\ StackClear

\* What runs is what was linked: beside the parts of the image, with each relocation
\* applied once, every import leads to its own thunk, which no later step of the
\* loading has overwritten (load, apply_relocations, resolve_imports).
ProgramAsLinked == ImageAsLinked /\ ImportsBound
====
