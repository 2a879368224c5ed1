----------------------------- MODULE FileStore -----------------------------
(***************************************************************************)
(* What the file system promises its callers: files are sequences of       *)
(* cells under paths, a call changes at most the file it names, and of     *)
(* that file only what the call says.  A loss of power ends all calls; a   *)
(* file no call was about is afterwards what it was.                       *)
(***************************************************************************)
EXTENDS Integers, Sequences

CONSTANTS User, Path, Absent, Idle

VARIABLES
  files,   \* per path, its content or Absent
  call     \* per user, the call in progress with the content its file had

storeVars == <<files, call>>

LongerOf(a, b) == IF a > b THEN a ELSE b

\* Cell k of the file lies in the range the call writes.
InRange(c, k) == k \in c.offset + 1 .. c.offset + Len(c.data)

\* g is f with some of the data written: cells of f are overwritten one block
\* at a time, the file grows when all its data is there.  What lies between the
\* old end and the offset is not said.
Written(c, f, g) ==
  /\ f # Absent /\ g # Absent
  /\ Len(g) \in {Len(f), LongerOf(Len(f), c.offset + Len(c.data))}
  /\ \A k \in 1 .. Len(g) :
       \/ InRange(c, k) /\ g[k] = c.data[k - c.offset]
       \/ k <= Len(f) /\ g[k] = f[k]
       \/ k > Len(f) /\ ~InRange(c, k)

\* One step of a call turns its file from f into g.
Changed(c, f, g) ==
  CASE c.op = "create_file" -> f = Absent /\ g = <<>>
    [] c.op = "remove_file" -> f # Absent /\ g = Absent
    [] c.op = "write_at"    -> Written(c, f, g)
    [] c.op = "write_file"  -> \/ g \in {Absent, <<>>}
                               \/ f = <<>> /\ Written(c, f, g)
    [] OTHER                -> FALSE

\* What the file of a call may be after a loss of power besides what it was in
\* the moment: what it was when the call began, with some of the data.
Reverted(c, f, g) ==
  /\ c.op \in {"create_file", "remove_file", "write_at", "write_file"}
  /\ \/ g = c.was
     \/ c.op = "write_at" /\ Written(c, c.was, g)
     \/ c.op = "write_file" /\ g \in {Absent, <<>>}

StoreInit ==
  /\ files = [p \in Path |-> Absent]
  /\ call = [u \in User |-> Idle]

\* In what follows f is what the files are before a step and g after it.
Begin(u, f, g) ==
  /\ call[u] = Idle /\ call'[u] # Idle
  /\ call' = [call EXCEPT ![u] = call'[u]]
  /\ call'[u].path \in Path => call'[u].was = f[call'[u].path]
  /\ g = f

\* The last step of a call may be one that changes the file.
Step(u, f, g) ==
  /\ call[u] # Idle
  /\ call' \in {call, [call EXCEPT ![u] = Idle]}
  /\ \/ g = f
     \/ LET p == call[u].path
        IN  p \in Path /\ g = [f EXCEPT ![p] = g[p]] /\ Changed(call[u], f[p], g[p])

Restart(f, g) ==
  /\ call' = [u \in User |-> Idle]
  /\ DOMAIN g = Path
  /\ \A p \in Path : g[p] = f[p] \/ \E u \in User : call[u].path = p /\ Reverted(call[u], f[p], g[p])

StoreNext ==
  \E f \in {files}, g \in {files'} :
    Restart(f, g) \/ \E u \in User : Begin(u, f, g) \/ Step(u, f, g)

StoreSpec == StoreInit /\ [][StoreNext]_storeVars
====
