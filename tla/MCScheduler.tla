----------------------------- MODULE MCScheduler -----------------------------
(* Instances of Scheduler for TLC; the sets of calls name what each run is about. *)
EXTENDS Scheduler

NoValues == {}
OneNice  == {5}
SomeSleeps == {1, 4}

Families    == {"fork", "waitany", "nohang", "exit", "kill"}
Timing      == {"nice", "sleep", "wait"}
DiskIo      == {"fork", "io", "exit"}
====
