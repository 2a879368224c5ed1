------------------------------- MODULE MCFiles -------------------------------
(* The instance of Files for TLC. *)
EXTENDS Files

OneByte == {0}

\* Every call but "takeover", whose consequence the README describes.
EveryCall == {"open", "io", "poll", "kill", "shellkill"}
====
