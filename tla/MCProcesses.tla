----------------------------- MODULE MCProcesses -----------------------------
(* Instances of Processes for TLC. *)
EXTENDS Processes

OneSignal == {10}
Orderly == {}
====
