---------------------------- MODULE PrivateMemory ----------------------------
(***************************************************************************)
(* What the address spaces of src/kernel/src/level0a/core/mmu_i386.rs      *)
(* promise to processes: each has a memory of its own, zero at first, that *)
(* only its own stores change; fork makes a second memory with the same    *)
(* content ("iki ayri bellek", mmu_i386.rs:443).                           *)
(***************************************************************************)
CONSTANTS Process, Page, Value, Zero

VARIABLE memory  \* from the processes that have one to what their pages hold

Has(t) == t \in DOMAIN memory

\* The memories with one more process.
With(t, content) ==
  [u \in DOMAIN memory \union {t} |-> IF u = t THEN content ELSE memory[u]]

Init == memory = [t \in {} |-> [p \in Page |-> Zero]]

Start(t) ==
  /\ ~Has(t)
  /\ memory' = With(t, [p \in Page |-> Zero])

Store(t, p, v) ==
  /\ Has(t)
  /\ memory' = [memory EXCEPT ![t][p] = v]

Fork(t, child) ==
  /\ Has(t) /\ ~Has(child)
  /\ memory' = With(child, memory[t])

End(t) ==
  /\ Has(t)
  /\ memory' = [u \in DOMAIN memory \ {t} |-> memory[u]]

Next ==
  \E t \in Process :
    \/ Start(t)
    \/ \E p \in Page, v \in Value : Store(t, p, v)
    \/ \E child \in Process : Fork(t, child)
    \/ End(t)

Spec == Init /\ [][Next]_memory
====
