------------------------------ MODULE MCStorage ------------------------------
(* Instances of Storage for TLC. *)
EXTENDS Storage, TLC

Paths == {<<"home">>, <<"f">>, <<"home", "f">>}
None == <<>>
Home == << <<"home">> >>
Lengths == {1, 3}
TwoFiles == {<<"f">>, <<"g">>}
Careful == {}
Symmetry == Permutations(Data)
====
