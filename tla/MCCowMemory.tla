----------------------------- MODULE MCCowMemory -----------------------------
(* Instances of CowMemory for TLC. *)
EXTENDS CowMemory

TwoValues == {0, 1}
Settled   == {}

\* Room for three processes on i386, with a page whose count is at its limit and
\* a copy of it; for two processes and a copy on x86_64.
TwoMachines == [machine \in {"i386", "x86_64"} |-> IF machine = "i386" THEN 8 ELSE 12]

\* Frames differ in their numbers only, and the free ones not even in content:
\* which of them alloc takes does not matter.  States are told apart by what the
\* page tables of the tasks say, by who shares a frame with whom, and by how many
\* frames are free.
UpToFrameNumbers ==
  LET entry == [x \in Apps \X Pages |-> IF space[x[1]] = NoSpace THEN Absent ELSE spaces[space[x[1]]].pte[x[2]]]
      Sharers(f) == {x \in DOMAIN entry : entry[x].frame = f}
      Unnumbered(e) ==
        IF Present(e) THEN <<e.writable, e.cow, frames[e.frame], Sharers(e.frame)>> ELSE <<e.state>>
  IN  << arch, pc, current, halted, Cardinality(FreeFrames(Mem)), cr3 = kernel_cr3,
         [t \in Apps |-> <<space[t] = NoSpace, address_space[t] = space[t], space[t] = cr3>>],
         [x \in DOMAIN entry |-> Unnumbered(entry[x])],
         [p \in Pages |-> Unnumbered(tlb[p])] >>
====
