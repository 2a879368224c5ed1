----------------------------- MODULE MCWindows -----------------------------
(* Instances of Windows for TLC. *)
EXTENDS Windows, TLC

CONSTANTS t1, t2

TwoTasks == {t1, t2}
Symmetry == Permutations(TwoTasks)
Nothing == {}
====
