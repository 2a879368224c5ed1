-------------------------------- MODULE Pipe --------------------------------
(***************************************************************************)
(* The pipes of src/kernel/src/level0a/core/pipe.rs: a ring buffer in the  *)
(* kernel with a count of the descriptors that hold each of its ends.      *)
(*                                                                         *)
(* Positions run from 0 to PIPE_CAPACITY, one more than the buffer has     *)
(* cells: a full ring and an empty one differ, but the positions 0 and     *)
(* PIPE_CAPACITY share a cell.                                             *)
(*                                                                         *)
(* Every operation runs with interrupts off, inside a system call, so each *)
(* is one action.  The holders of the ends are the descriptor tables       *)
(* (Files); here they are any client that only uses an end it holds.       *)
(*                                                                         *)
(* sent is a history variable: the bytes write has accepted and read has   *)
(* not returned yet, in order.                                             *)
(*                                                                         *)
(* An operator named Faulty_x is a plausible mistake in x, which a run has *)
(* to find; nothing in the specification uses it.                          *)
(***************************************************************************)
EXTENDS Integers, Sequences

CONSTANTS
  MAX_PIPES, PIPE_CAPACITY,
  UsizeMod,   \* 2^32 or 2^64: usize subtraction wraps
  Byte,       \* the bytes written; 0 is what the buffers start with
  MaxWrite,   \* bound: the longest write or read
  MaxRefs     \* bound: descriptors holding one end

ASSUME PipesAssumption    == MAX_PIPES \in Nat \ {0}
ASSUME CapacityAssumption == PIPE_CAPACITY \in Nat \ {0}
ASSUME UsizeAssumption    == UsizeMod \in Nat /\ UsizeMod > PIPE_CAPACITY
ASSUME ByteAssumption     == 0 \in Byte
ASSUME MaxWriteAssumption == MaxWrite \in Nat

VARIABLES PIPES, BUFFERS, sent
pipeVars == <<PIPES, BUFFERS, sent>>

PipeIndex == 0 .. MAX_PIPES - 1
Positions == 0 .. PIPE_CAPACITY
Cells == 0 .. PIPE_CAPACITY - 1

Pipe == [used : BOOLEAN, head : Positions, tail : Positions, writers : Nat, readers : Nat]

\* The next position, n steps on, and the cell a position is stored in.
Forward(pos, n) == (pos + n) % (PIPE_CAPACITY + 1)
Cell(pos) == pos % PIPE_CAPACITY

\* Bytes between tail and head: what read can return.
Unread(p) == (p.head - p.tail + PIPE_CAPACITY + 1) % (PIPE_CAPACITY + 1)

\* The pending count of info: head.wrapping_sub(tail) % (PIPE_CAPACITY + 1).
Pending(p) == ((p.head - p.tail + UsizeMod) % UsizeMod) % (PIPE_CAPACITY + 1)

\* The position of the k-th unread byte.
UnreadAt(p, k) == Forward(p.tail, k - 1)

Smaller(a, b) == IF a <= b THEN a ELSE b

------------------------------------------------------------------------------
(* The operations, as functions of the pipes *)

FreePipes(ps) == {i \in PipeIndex : ~ps[i].used}

\* create takes the first free pipe ...
NewPipe(ps) == CHOOSE i \in FreePipes(ps) : \A j \in FreePipes(ps) : i <= j

\* ... empties it and gives both ends to the caller.
created(ps) ==
  [ps EXCEPT ![NewPipe(ps)] = [used |-> TRUE, head |-> 0, tail |-> 0, writers |-> 1, readers |-> 1]]

\* close_end: one holder less; with the last of both ends the pipe is free.
close_end(ps, i, writer) ==
  LET p == ps[i]
      w == IF writer /\ p.writers > 0 THEN p.writers - 1 ELSE p.writers
      r == IF ~writer /\ p.readers > 0 THEN p.readers - 1 ELSE p.readers
  IN  IF p.used
        THEN [ps EXCEPT ![i] = [@ EXCEPT !.writers = w, !.readers = r, !.used = w > 0 \/ r > 0]]
        ELSE ps

\* add_ref: one holder more.
add_ref(ps, i, writer) ==
  IF ~ps[i].used THEN ps
  ELSE IF writer THEN [ps EXCEPT ![i].writers = @ + 1]
  ELSE [ps EXCEPT ![i].readers = @ + 1]

\* Fault: room for one byte too many.
Faulty_Accepted(p, n) ==
  IF ~p.used \/ p.readers = 0 THEN 0 ELSE Smaller(n, PIPE_CAPACITY + 1 - Unread(p))

\* How many of n bytes the ring accepts: up to the position before tail, and
\* none once nobody reads.
Accepted(p, n) ==
  IF ~p.used \/ p.readers = 0 THEN 0 ELSE Smaller(n, PIPE_CAPACITY - Unread(p))

\* write: byte k goes to the k-th position after head; a later byte of the same
\* call overwrites an earlier one in the cell they share.
write(i, bytes) ==
  LET p    == PIPES[i]
      n    == Accepted(p, Len(bytes))
      At(k) == Forward(p.head, k - 1)
      last(c) == {k \in 1..n : Cell(At(k)) = c /\ \A l \in k+1..n : Cell(At(l)) # c}
  IN  /\ PIPES' = [PIPES EXCEPT ![i].head = Forward(p.head, n)]
      /\ BUFFERS' = [BUFFERS EXCEPT ![i] =
           [c \in Cells |-> IF last(c) = {} THEN @[c] ELSE bytes[CHOOSE k \in last(c) : TRUE]]]
      /\ sent' = [sent EXCEPT ![i] = @ \o SubSeq(bytes, 1, n)]

\* read: at most n bytes leave the ring from its tail.
read(i, n) ==
  LET taken == IF PIPES[i].used THEN Smaller(n, Unread(PIPES[i])) ELSE 0
  IN  /\ PIPES' = [PIPES EXCEPT ![i].tail = Forward(@, taken)]
      /\ sent' = [sent EXCEPT ![i] = SubSeq(@, taken + 1, Len(@))]
      /\ UNCHANGED BUFFERS

------------------------------------------------------------------------------
(* The specification: a client that only uses ends it holds *)

Messages == UNION {[1..n -> Byte] : n \in 1..MaxWrite}

PipeInit ==
  /\ PIPES = [i \in PipeIndex |-> [used |-> FALSE, head |-> 0, tail |-> 0,
                                   writers |-> 0, readers |-> 0]]
  /\ BUFFERS = [i \in PipeIndex |-> [c \in Cells |-> 0]]
  /\ sent = [i \in PipeIndex |-> <<>>]

\* A new pipe is emptied by its head and tail; its buffer keeps the old bytes.
Create ==
  /\ FreePipes(PIPES) # {}
  /\ PIPES' = created(PIPES)
  /\ sent' = [sent EXCEPT ![NewPipe(PIPES)] = <<>>]
  /\ UNCHANGED BUFFERS

Write == \E i \in PipeIndex, bytes \in Messages : PIPES[i].writers > 0 /\ write(i, bytes)
Read  == \E i \in PipeIndex, n \in 1..MaxWrite : PIPES[i].readers > 0 /\ read(i, n)

Holders(i, writer) == IF writer THEN PIPES[i].writers ELSE PIPES[i].readers

CloseEnd == \E i \in PipeIndex, writer \in BOOLEAN :
  /\ Holders(i, writer) > 0
  /\ PIPES' = close_end(PIPES, i, writer)
  /\ UNCHANGED <<BUFFERS, sent>>

AddRef == \E i \in PipeIndex, writer \in BOOLEAN :
  /\ Holders(i, writer) \in 1..MaxRefs - 1
  /\ PIPES' = add_ref(PIPES, i, writer)
  /\ UNCHANGED <<BUFFERS, sent>>

PipeNext == Create \/ Write \/ Read \/ CloseEnd \/ AddRef
PipeSpec == PipeInit /\ [][PipeNext]_pipeVars

------------------------------------------------------------------------------
(* Properties *)

\* Type invariant of the pipes and their buffers.
PipeTypeOK ==
  /\ PIPES \in [PipeIndex -> Pipe]
  /\ BUFFERS \in [PipeIndex -> [Cells -> Byte]]
  /\ sent \in [PipeIndex -> Seq(Byte)]

\* The ring between tail and head is as long as what is still to be read, and
\* every byte of it is at its place in the buffer, but for one at the last
\* position: the writes of a full, wrapped or reused ring never overwrite an
\* unread byte anywhere else.
Intact(i, k) == BUFFERS[i][Cell(UnreadAt(PIPES[i], k))] = sent[i][k]
OnlyTheSeamIsLost ==
  \A i \in PipeIndex :
    /\ Len(sent[i]) = Unread(PIPES[i])
    /\ \A k \in 1..Len(sent[i]) : UnreadAt(PIPES[i], k) # PIPE_CAPACITY => Intact(i, k)
====
