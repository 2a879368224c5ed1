--------------------------- MODULE MCSystemCalls ---------------------------
(* Instances of SystemCalls for TLC. *)
EXTENDS SystemCalls

Lengths == {0, 2, 4, 8}
Places == {0, 3}
Sane == {}
FewBytes == {0, 2}
SomeDelays == {0, 3, 25}
TwoShapes == {<<7, 0, 3, 2>>, <<1, 5, 4, 0>>}
====
