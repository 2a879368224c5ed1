----------------------------- MODULE FilesProofs -----------------------------
(***************************************************************************)
(* Proofs for Pipe and Files, for any capacity, word size and number of    *)
(* pipes, tasks and descriptors.  Between tail and head a ring holds       *)
(* exactly what was accepted and not yet read, and every byte of it but    *)
(* one at the last position is intact.  No descriptor outlives its task,   *)
(* in whatever order tasks fork, exit, kill each other and are killed by   *)
(* the shell, whose kill closes the table only after the slot is free; and *)
(* each pipe counts exactly the descriptors on its ends.                   *)
(***************************************************************************)
EXTENDS Files, Induction, SequenceTheorems, FiniteSetTheorems, TLAPS

(* The arithmetic of positions *)

\* Going n steps on from a position, at most once round the ring.
LEMMA ForwardCases ==
  ASSUME NEW pos \in Positions, NEW n \in 0 .. PIPE_CAPACITY + 1
  PROVE  /\ Forward(pos, n) \in Positions
         /\ pos + n <= PIPE_CAPACITY => Forward(pos, n) = pos + n
         /\ pos + n > PIPE_CAPACITY /\ n <= PIPE_CAPACITY
              => Forward(pos, n) = pos + n - PIPE_CAPACITY - 1
<1> USE CapacityAssumption DEF Positions, Forward
<1>1. PIPE_CAPACITY + 1 \in Nat /\ pos + n \in Nat
  OBVIOUS
<1>2. (pos + n) % (PIPE_CAPACITY + 1) \in 0 .. PIPE_CAPACITY
  BY <1>1
<1>3. pos + n <= PIPE_CAPACITY => (pos + n) % (PIPE_CAPACITY + 1) = pos + n
  BY <1>1
<1>4. ASSUME pos + n > PIPE_CAPACITY, n <= PIPE_CAPACITY
      PROVE  (pos + n) % (PIPE_CAPACITY + 1) = pos + n - PIPE_CAPACITY - 1
  BY <1>1, <1>4
<1>5. QED
  BY <1>2, <1>3, <1>4

\* The number of unread bytes, without the remainder.
LEMMA UnreadCases ==
  ASSUME NEW p \in Pipe
  PROVE  /\ Unread(p) \in 0 .. PIPE_CAPACITY
         /\ p.head >= p.tail => Unread(p) = p.head - p.tail
         /\ p.head < p.tail => Unread(p) = p.head - p.tail + PIPE_CAPACITY + 1
<1> USE CapacityAssumption DEF Positions, Unread
<1>1. p.head \in 0 .. PIPE_CAPACITY /\ p.tail \in 0 .. PIPE_CAPACITY
  BY DEF Pipe
<1>2. p.head - p.tail + PIPE_CAPACITY + 1 \in Nat /\ PIPE_CAPACITY + 1 \in Nat
  BY <1>1
<1>3. Unread(p) \in 0 .. PIPE_CAPACITY
  BY <1>2
<1>4. p.head >= p.tail => Unread(p) = p.head - p.tail
  BY <1>1
<1>5. p.head < p.tail => Unread(p) = p.head - p.tail + PIPE_CAPACITY + 1
  BY <1>1
<1>6. QED
  BY <1>3, <1>4, <1>5

\* The cell of a position: its own, but for the last one.
LEMMA CellCases ==
  ASSUME NEW pos \in Positions
  PROVE  Cell(pos) = IF pos = PIPE_CAPACITY THEN 0 ELSE pos
<1> USE CapacityAssumption DEF Positions, Cell
<1>1. PIPE_CAPACITY % PIPE_CAPACITY = 0
  OBVIOUS
<1>2. pos # PIPE_CAPACITY => pos % PIPE_CAPACITY = pos
  OBVIOUS
<1>3. QED
  BY <1>1, <1>2

\* Seen from tail, the position j steps after head is that of the byte after
\* the unread ones.
LEMMA AfterHead ==
  ASSUME NEW p \in Pipe, NEW j \in 0 .. PIPE_CAPACITY, Unread(p) + j <= PIPE_CAPACITY
  PROVE  Forward(p.head, j) = Forward(p.tail, Unread(p) + j)
<1>1. p.head \in Positions /\ p.tail \in Positions
  BY DEF Pipe
<1>2. Unread(p) \in 0 .. PIPE_CAPACITY
  BY UnreadCases
<1>3. /\ p.head + j <= PIPE_CAPACITY => Forward(p.head, j) = p.head + j
      /\ p.head + j > PIPE_CAPACITY => Forward(p.head, j) = p.head + j - PIPE_CAPACITY - 1
  BY <1>1, ForwardCases, CapacityAssumption
<1>4. Unread(p) + j \in 0 .. PIPE_CAPACITY
  BY <1>2, CapacityAssumption
<1>5. /\ p.tail + (Unread(p) + j) <= PIPE_CAPACITY
           => Forward(p.tail, Unread(p) + j) = p.tail + (Unread(p) + j)
      /\ p.tail + (Unread(p) + j) > PIPE_CAPACITY
           => Forward(p.tail, Unread(p) + j) = p.tail + (Unread(p) + j) - PIPE_CAPACITY - 1
  BY <1>1, <1>4, ForwardCases, CapacityAssumption
<1>6. CASE p.head >= p.tail
  BY <1>1, <1>3, <1>5, <1>6, UnreadCases, CapacityAssumption DEF Positions
<1>7. CASE p.head < p.tail
  BY <1>1, <1>3, <1>5, <1>7, UnreadCases, CapacityAssumption DEF Positions
<1>8. QED
  BY <1>1, <1>6, <1>7, CapacityAssumption DEF Positions

\* Two of PIPE_CAPACITY consecutive positions share a cell only if the earlier
\* one is the last position: the byte there is the one that is lost.
LEMMA CellsApart ==
  ASSUME NEW pos \in Positions, NEW a \in Nat, NEW b \in Nat,
         a < b, b < PIPE_CAPACITY, Forward(pos, a) # PIPE_CAPACITY
  PROVE  Cell(Forward(pos, a)) # Cell(Forward(pos, b))
<1>1. a \in 0 .. PIPE_CAPACITY /\ b \in 0 .. PIPE_CAPACITY
  BY CapacityAssumption
<1>2. /\ Forward(pos, a) \in Positions /\ Forward(pos, b) \in Positions
      /\ pos + a <= PIPE_CAPACITY => Forward(pos, a) = pos + a
      /\ pos + a > PIPE_CAPACITY => Forward(pos, a) = pos + a - PIPE_CAPACITY - 1
      /\ pos + b <= PIPE_CAPACITY => Forward(pos, b) = pos + b
      /\ pos + b > PIPE_CAPACITY => Forward(pos, b) = pos + b - PIPE_CAPACITY - 1
  BY <1>1, ForwardCases, CapacityAssumption
<1>3. /\ Cell(Forward(pos, a)) = Forward(pos, a)
      /\ Cell(Forward(pos, b)) = IF Forward(pos, b) = PIPE_CAPACITY THEN 0 ELSE Forward(pos, b)
  BY <1>2, CellCases
<1>4. QED
  BY <1>2, <1>3, CapacityAssumption DEF Positions

(* The invariant *)

\* Ring i holds what has been accepted and not read, but for the seam.
Sound(i) ==
  /\ Len(sent[i]) = Unread(PIPES[i])
  /\ \A k \in 1..Len(sent[i]) : UnreadAt(PIPES[i], k) # PIPE_CAPACITY => Intact(i, k)

PipeInv == PipeTypeOK /\ OnlyTheSeamIsLost

LEMMA PipeInitInv == PipeInit => PipeInv
<1> SUFFICES ASSUME PipeInit PROVE PipeInv
  OBVIOUS
<1> USE PipesAssumption, CapacityAssumption, ByteAssumption
<1>1. PipeTypeOK
  BY DEF PipeInit, PipeTypeOK, PipeIndex, Pipe, Positions, Cells
<1>2. ASSUME NEW i \in PipeIndex
      PROVE  Sound(i)
  <2>1. PIPES[i] \in Pipe /\ PIPES[i].head = PIPES[i].tail /\ sent[i] = <<>>
    BY <1>1 DEF PipeInit, PipeTypeOK
  <2>2. Unread(PIPES[i]) = 0
    BY <2>1, UnreadCases DEF Pipe, Positions
  <2>3. QED
    BY <2>1, <2>2 DEF Sound
<1>3. QED
  BY <1>1, <1>2 DEF PipeInv, OnlyTheSeamIsLost, Sound

\* Changing who holds a pipe leaves its contents alone.
LEMMA HoldersKeep ==
  ASSUME PipeInv, UNCHANGED <<BUFFERS, sent>>, PIPES' \in [PipeIndex -> Pipe],
         \A i \in PipeIndex : PIPES'[i].head = PIPES[i].head /\ PIPES'[i].tail = PIPES[i].tail
  PROVE  PipeInv'
<1>1. PipeTypeOK'
  BY DEF PipeInv, PipeTypeOK
<1>2. ASSUME NEW i \in PipeIndex
      PROVE  Unread(PIPES[i])' = Unread(PIPES[i])
             /\ \A k : UnreadAt(PIPES[i], k)' = UnreadAt(PIPES[i], k)
  BY DEF Unread, UnreadAt
<1>3. QED
  BY <1>1, <1>2 DEF PipeInv, OnlyTheSeamIsLost, Intact

LEMMA CloseEndStep == ASSUME PipeInv, CloseEnd PROVE PipeInv'
<1>1. PICK i \in PipeIndex, writer \in BOOLEAN : PIPES' = close_end(PIPES, i, writer)
  BY DEF CloseEnd
<1>2. PIPES \in [PipeIndex -> Pipe]
  BY DEF PipeInv, PipeTypeOK
<1> DEFINE w == IF writer /\ PIPES[i].writers > 0 THEN PIPES[i].writers - 1 ELSE PIPES[i].writers
           r == IF ~writer /\ PIPES[i].readers > 0 THEN PIPES[i].readers - 1 ELSE PIPES[i].readers
<1>3. w \in Nat /\ r \in Nat /\ (w > 0 \/ r > 0) \in BOOLEAN
  BY <1>2 DEF Pipe
<1>4. PIPES' = IF PIPES[i].used
                 THEN [PIPES EXCEPT ![i] = [@ EXCEPT !.writers = w, !.readers = r, !.used = w > 0 \/ r > 0]]
                 ELSE PIPES
  BY <1>1 DEF close_end
<1> HIDE DEF w, r
<1>5. /\ PIPES' \in [PipeIndex -> Pipe]
      /\ \A j \in PipeIndex : PIPES'[j].head = PIPES[j].head /\ PIPES'[j].tail = PIPES[j].tail
  BY <1>2, <1>3, <1>4 DEF Pipe
<1>6. QED
  BY <1>5, HoldersKeep DEF CloseEnd

LEMMA AddRefStep == ASSUME PipeInv, AddRef PROVE PipeInv'
<1>1. PICK i \in PipeIndex, writer \in BOOLEAN : PIPES' = add_ref(PIPES, i, writer)
  BY DEF AddRef
<1>2. PIPES \in [PipeIndex -> Pipe]
  BY DEF PipeInv, PipeTypeOK
<1>3. /\ PIPES' \in [PipeIndex -> Pipe]
      /\ \A j \in PipeIndex : PIPES'[j].head = PIPES[j].head /\ PIPES'[j].tail = PIPES[j].tail
  BY <1>1, <1>2 DEF add_ref, Pipe
<1>4. QED
  BY <1>3, HoldersKeep DEF AddRef

\* A pipe may be emptied, whatever its buffer holds.
LEMMA EmptyPipeStep ==
  ASSUME PipeInv, NEW i \in PipeIndex, NEW new \in Pipe, new.head = 0, new.tail = 0,
         PIPES' = [PIPES EXCEPT ![i] = new], sent' = [sent EXCEPT ![i] = <<>>], UNCHANGED BUFFERS
  PROVE  PipeInv'
<1>1. PipeTypeOK'
  BY DEF PipeInv, PipeTypeOK
<1>2. ASSUME NEW j \in PipeIndex
      PROVE  Sound(j)'
  <2>1. CASE j = i
    <3>1. PIPES'[j] = new /\ sent'[j] = <<>>
      BY <2>1 DEF PipeInv, PipeTypeOK
    <3>2. Unread(new) = 0
      BY UnreadCases
    <3>3. QED
      BY <3>1, <3>2 DEF Sound
  <2>2. CASE j # i
    BY <2>2 DEF Sound, PipeInv, PipeTypeOK, OnlyTheSeamIsLost, Unread, UnreadAt, Intact
  <2>3. QED
    BY <2>1, <2>2
<1>3. QED
  BY <1>1, <1>2 DEF PipeInv, OnlyTheSeamIsLost, Sound

\* create takes a pipe that is not in use.
LEMMA NewPipeIsFree ==
  ASSUME FreePipes(PIPES) # {}
  PROVE  NewPipe(PIPES) \in PipeIndex /\ ~PIPES[NewPipe(PIPES)].used
<1>1. FreePipes(PIPES) \in SUBSET Nat
  BY PipesAssumption DEF FreePipes, PipeIndex
<1>2. \E j \in FreePipes(PIPES) : \A k \in FreePipes(PIPES) : j <= k
  BY <1>1, LeastNatural
<1>3. NewPipe(PIPES) \in FreePipes(PIPES)
  BY <1>2, Zenon DEF NewPipe
<1>4. QED
  BY <1>3 DEF FreePipes

\* What create leaves in it.
Fresh == [used |-> TRUE, head |-> 0, tail |-> 0, writers |-> 1, readers |-> 1]

LEMMA FreshIsEmpty == Fresh \in Pipe /\ Fresh.head = 0 /\ Fresh.tail = 0
BY CapacityAssumption DEF Fresh, Pipe, Positions

LEMMA CreateStep == ASSUME PipeInv, Create PROVE PipeInv'
<1> DEFINE i == NewPipe(PIPES)
<1>1. i \in PipeIndex
  BY NewPipeIsFree DEF Create
<1>2. /\ PIPES' = [PIPES EXCEPT ![i] = Fresh] /\ sent' = [sent EXCEPT ![i] = <<>>]
      /\ UNCHANGED BUFFERS
  BY DEF Create, created, Fresh
<1> HIDE DEF i
<1>3. QED
  BY <1>1, <1>2, FreshIsEmpty, EmptyPipeStep

\* Reading n bytes moves tail past them: byte k of the rest was byte n + k.
LEMMA ReadStep ==
  ASSUME PipeInv, NEW i \in PipeIndex, NEW m \in Nat, read(i, m)
  PROVE  PipeInv'
<1> DEFINE p == PIPES[i]
           n == IF p.used THEN Smaller(m, Unread(p)) ELSE 0
           q == [p EXCEPT !.tail = Forward(p.tail, n)]
<1> USE CapacityAssumption
<1>1. p \in Pipe /\ sent[i] \in Seq(Byte) /\ Sound(i)
  BY DEF PipeInv, PipeTypeOK, OnlyTheSeamIsLost, Sound
<1>2. Unread(p) \in 0 .. PIPE_CAPACITY /\ n \in 0 .. Unread(p) /\ n \in 0 .. PIPE_CAPACITY
  BY <1>1, UnreadCases DEF Smaller
<1>3. /\ PIPES' = [PIPES EXCEPT ![i] = q]
      /\ sent' = [sent EXCEPT ![i] = SubSeq(sent[i], n + 1, Len(sent[i]))]
      /\ UNCHANGED BUFFERS
  BY DEF read, PipeInv, PipeTypeOK
<1>4. /\ p.head \in Positions /\ p.tail \in Positions /\ Forward(p.tail, n) \in Positions
      /\ p.tail + n <= PIPE_CAPACITY => Forward(p.tail, n) = p.tail + n
      /\ p.tail + n > PIPE_CAPACITY => Forward(p.tail, n) = p.tail + n - PIPE_CAPACITY - 1
  BY <1>1, <1>2, ForwardCases DEF Pipe
<1>5. q \in Pipe /\ q.head = p.head /\ q.tail = Forward(p.tail, n)
  BY <1>1, <1>4 DEF Pipe
<1>6. Len(sent[i]) = Unread(p) /\ n \in Nat /\ n <= Len(sent[i])
  BY <1>1, <1>2 DEF Sound
<1> DEFINE rest == SubSeq(sent[i], n + 1, Len(sent[i]))
<1>7. /\ rest \in Seq(Byte) /\ Len(rest) = Unread(p) - n
      /\ \A k \in 1 .. Len(rest) : rest[k] = sent[i][n + k]
  BY <1>1, <1>2, <1>6
<1> HIDE DEF n, q, rest, p
<1>8. Unread(q) = Unread(p) - n
  <2>1. /\ q.head >= q.tail => Unread(q) = q.head - q.tail
        /\ q.head < q.tail => Unread(q) = q.head - q.tail + PIPE_CAPACITY + 1
    BY <1>5, UnreadCases
  <2>2. CASE p.head >= p.tail
    <3>1. Unread(p) = p.head - p.tail /\ n <= p.head - p.tail
      BY <1>1, <1>2, <2>2, UnreadCases
    <3>2. q.tail = p.tail + n
      BY <1>2, <1>4, <1>5, <3>1 DEF Positions
    <3>3. QED
      BY <1>2, <1>4, <1>5, <2>1, <3>1, <3>2 DEF Positions
  <2>3. CASE p.head < p.tail
    <3>1. Unread(p) = p.head - p.tail + PIPE_CAPACITY + 1
      BY <1>1, <2>3, UnreadCases
    <3>2. CASE p.tail + n <= PIPE_CAPACITY
      BY <1>2, <1>4, <1>5, <2>1, <2>3, <3>1, <3>2 DEF Positions
    <3>3. CASE p.tail + n > PIPE_CAPACITY
      BY <1>2, <1>4, <1>5, <2>1, <2>3, <3>1, <3>3 DEF Positions
    <3>4. QED
      BY <1>2, <1>4, <3>2, <3>3 DEF Positions
  <2>4. QED
    BY <1>4, <2>2, <2>3 DEF Positions
<1>9. ASSUME NEW k \in 1 .. Len(rest)
      PROVE  UnreadAt(q, k) = UnreadAt(p, n + k)
  <2>1. n + k - 1 \in 0 .. PIPE_CAPACITY /\ k - 1 \in 0 .. PIPE_CAPACITY
    BY <1>2, <1>7
  <2>1a. ASSUME NEW pos \in Positions, NEW a \in 0 .. PIPE_CAPACITY
        PROVE  /\ pos + a <= PIPE_CAPACITY => Forward(pos, a) = pos + a
               /\ pos + a > PIPE_CAPACITY => Forward(pos, a) = (pos + a) - PIPE_CAPACITY - 1
    <3>1. a \in 0 .. PIPE_CAPACITY + 1 /\ a <= PIPE_CAPACITY
      BY CapacityAssumption
    <3>2. pos \in Nat /\ a \in Nat /\ PIPE_CAPACITY \in Nat
      BY CapacityAssumption DEF Positions
    <3>3. pos + a - PIPE_CAPACITY - 1 = (pos + a) - PIPE_CAPACITY - 1
      BY <3>2
    <3>4. QED
      BY <3>1, <3>3, ForwardCases
  <2>2. /\ p.tail + (n + k - 1) <= PIPE_CAPACITY => Forward(p.tail, n + k - 1) = p.tail + (n + k - 1)
        /\ p.tail + (n + k - 1) > PIPE_CAPACITY
             => Forward(p.tail, n + k - 1) = (p.tail + (n + k - 1)) - PIPE_CAPACITY - 1
    BY <1>4, <2>1, <2>1a, Zenon
  <2>3. /\ q.tail + (k - 1) <= PIPE_CAPACITY => Forward(q.tail, k - 1) = q.tail + (k - 1)
        /\ q.tail + (k - 1) > PIPE_CAPACITY
             => Forward(q.tail, k - 1) = (q.tail + (k - 1)) - PIPE_CAPACITY - 1
    BY <1>4, <1>5, <2>1, <2>1a, Zenon
  <2>4. Forward(q.tail, k - 1) = Forward(p.tail, n + k - 1)
    <3>1. /\ p.tail \in 0 .. PIPE_CAPACITY /\ n \in Nat /\ k \in Nat /\ k >= 1
          /\ PIPE_CAPACITY \in Nat /\ n + k - 1 <= PIPE_CAPACITY
      BY <1>2, <1>4, <1>7, <2>1 DEF Positions
    <3>2. CASE p.tail + n <= PIPE_CAPACITY
      <4>1. q.tail + (k - 1) = p.tail + (n + k - 1)
        BY <1>4, <1>5, <3>1, <3>2
      <4>2. p.tail + (n + k - 1) \in Nat
        BY <3>1
      <4>3. CASE p.tail + (n + k - 1) <= PIPE_CAPACITY
        BY <2>2, <2>3, <4>1, <4>3, Zenon
      <4>4. CASE p.tail + (n + k - 1) > PIPE_CAPACITY
        <5>1. q.tail + (k - 1) > PIPE_CAPACITY
          BY <4>1, <4>4
        <5>2. Forward(q.tail, k - 1) = (q.tail + (k - 1)) - PIPE_CAPACITY - 1
          BY <2>3, <5>1, Zenon
        <5>3. Forward(p.tail, n + k - 1) = (p.tail + (n + k - 1)) - PIPE_CAPACITY - 1
          BY <2>2, <4>4, Zenon
        <5>4. QED
          BY <4>1, <5>2, <5>3, Zenon
      <4>5. QED
        BY <3>1, <4>2, <4>3, <4>4
    <3>3. CASE p.tail + n > PIPE_CAPACITY
      <4>1. q.tail = p.tail + n - PIPE_CAPACITY - 1
        BY <1>4, <1>5, <3>3
      <4>2. /\ q.tail + (k - 1) = (p.tail + (n + k - 1)) - PIPE_CAPACITY - 1
            /\ q.tail + (k - 1) <= PIPE_CAPACITY
            /\ p.tail + (n + k - 1) > PIPE_CAPACITY
        BY <3>1, <3>3, <4>1
      <4>3. QED
        BY <2>2, <2>3, <4>2
    <3>4. QED
      BY <3>1, <3>2, <3>3
  <2>5. UnreadAt(q, k) = Forward(q.tail, k - 1) /\ UnreadAt(p, n + k) = Forward(p.tail, (n + k) - 1)
    BY DEF UnreadAt
  <2>6. (n + k) - 1 = n + k - 1
    BY <1>2
  <2>7. QED
    BY <2>4, <2>5, <2>6
<1>10. PipeTypeOK'
  BY <1>3, <1>5, <1>7 DEF PipeInv, PipeTypeOK, rest
<1>11. ASSUME NEW j \in PipeIndex
       PROVE  Sound(j)'
  <2>1. CASE j = i
    <3>1. PIPES'[j] = q /\ sent'[j] = rest /\ BUFFERS' = BUFFERS
      BY <1>3, <2>1 DEF PipeInv, PipeTypeOK, rest
    <3>2. ASSUME NEW k \in 1 .. Len(rest), UnreadAt(q, k) # PIPE_CAPACITY
          PROVE  BUFFERS[i][Cell(UnreadAt(q, k))] = rest[k]
      <4>1. n + k \in 1 .. Len(sent[i])
        BY <1>2, <1>6, <1>7
      <4>2. UnreadAt(q, k) = UnreadAt(p, n + k)
        BY <1>9
      <4>3. BUFFERS[i][Cell(UnreadAt(p, n + k))] = sent[i][n + k]
        BY <1>1, <3>2, <4>1, <4>2 DEF Sound, Intact, p
      <4>4. QED
        BY <1>7, <4>2, <4>3
    <3>3. QED
      BY <1>7, <1>8, <2>1, <3>1, <3>2 DEF Sound, Intact
  <2>2. CASE j # i
    BY <1>3, <2>2 DEF Sound, PipeInv, PipeTypeOK, OnlyTheSeamIsLost, Unread, UnreadAt, Intact
  <2>3. QED
    BY <2>1, <2>2
<1>12. QED
  BY <1>10, <1>11 DEF PipeInv, OnlyTheSeamIsLost, Sound

\* Writing n bytes moves head past them: they follow the unread ones, and of
\* those only the one at the last position can share a cell with them.
LEMMA WriteStep ==
  ASSUME PipeInv, NEW i \in PipeIndex, NEW bytes \in Seq(Byte), write(i, bytes)
  PROVE  PipeInv'
<1> DEFINE p == PIPES[i]
           n == Accepted(p, Len(bytes))
           q == [p EXCEPT !.head = Forward(p.head, n)]
           At(k) == Forward(p.head, k - 1)
           last(c) == {k \in 1..n : Cell(At(k)) = c /\ \A l \in k+1..n : Cell(At(l)) # c}
           buffer == [c \in Cells |-> IF last(c) = {} THEN BUFFERS[i][c]
                                      ELSE bytes[CHOOSE k \in last(c) : TRUE]]
           added == SubSeq(bytes, 1, n)
<1> USE CapacityAssumption
<1>1. p \in Pipe /\ sent[i] \in Seq(Byte) /\ Sound(i)
  BY DEF PipeInv, PipeTypeOK, OnlyTheSeamIsLost, Sound
<1>2. /\ Unread(p) \in 0 .. PIPE_CAPACITY /\ Len(bytes) \in Nat
      /\ n \in 0 .. PIPE_CAPACITY - Unread(p) /\ n \in 0 .. PIPE_CAPACITY /\ n <= Len(bytes)
  BY <1>1, UnreadCases DEF Accepted, Smaller
<1>3. /\ PIPES' = [PIPES EXCEPT ![i] = q]
      /\ BUFFERS' = [BUFFERS EXCEPT ![i] = buffer]
      /\ sent' = [sent EXCEPT ![i] = sent[i] \o added]
  BY DEF write, PipeInv, PipeTypeOK
<1>4. /\ p.head \in Positions /\ p.tail \in Positions /\ Forward(p.head, n) \in Positions
      /\ p.head + n <= PIPE_CAPACITY => Forward(p.head, n) = p.head + n
      /\ p.head + n > PIPE_CAPACITY => Forward(p.head, n) = p.head + n - PIPE_CAPACITY - 1
  BY <1>1, <1>2, ForwardCases DEF Pipe
<1>5. q \in Pipe /\ q.tail = p.tail /\ q.head = Forward(p.head, n)
  BY <1>1, <1>4 DEF Pipe
<1>6. /\ added \in Seq(Byte) /\ Len(added) = n
      /\ \A k \in 1 .. n : added[k] = bytes[k]
  BY <1>2
<1>7. buffer \in [Cells -> Byte]
  <2>1. ASSUME NEW c \in Cells, last(c) # {}
        PROVE  bytes[CHOOSE k \in last(c) : TRUE] \in Byte
    <3>1. (CHOOSE k \in last(c) : TRUE) \in last(c)
      BY <2>1
    <3>2. (CHOOSE k \in last(c) : TRUE) \in 1 .. n
      BY <3>1
    <3>3. QED
      BY <1>2, <3>2
  <2>2. BUFFERS[i] \in [Cells -> Byte]
    BY DEF PipeInv, PipeTypeOK
  <2>3. QED
    BY <2>1, <2>2
<1>8. PipeTypeOK'
  <2>1. sent[i] \o added \in Seq(Byte)
    BY <1>1, <1>6
  <2>2. QED
    BY <1>3, <1>5, <1>7, <2>1 DEF PipeInv, PipeTypeOK
<1>9. Len(sent[i]) = Unread(p)
  BY <1>1 DEF Sound
<1>10. ASSUME NEW k \in 1 .. n
       PROVE  At(k) = Forward(p.tail, Unread(p) + (k - 1)) /\ At(k) \in Positions
  <2>1. k - 1 \in 0 .. PIPE_CAPACITY /\ k - 1 \in 0 .. PIPE_CAPACITY + 1 /\ Unread(p) + (k - 1) <= PIPE_CAPACITY
    BY <1>2
  <2>2. QED
    BY <1>1, <1>4, <2>1, AfterHead, ForwardCases
<1>11. Unread(q) = Unread(p) + n
  <2> HIDE DEF p, n, q, At, last, buffer, added
  <2>1. /\ q.head >= q.tail => Unread(q) = q.head - q.tail
        /\ q.head < q.tail => Unread(q) = q.head - q.tail + PIPE_CAPACITY + 1
    BY <1>5, UnreadCases
  <2>2. CASE p.head >= p.tail
    <3>1. Unread(p) = p.head - p.tail
      BY <1>1, <2>2, UnreadCases
    <3>2. CASE p.head + n <= PIPE_CAPACITY
      BY <1>2, <1>4, <1>5, <2>1, <2>2, <3>1, <3>2 DEF Positions
    <3>3. CASE p.head + n > PIPE_CAPACITY
      <4>1. q.head = p.head + n - PIPE_CAPACITY - 1 /\ q.tail = p.tail
        BY <1>2, <1>4, <1>5, <3>3
      <4>2. q.head < q.tail
        BY <1>2, <1>4, <3>1, <4>1 DEF Positions
      <4>3. Unread(q) = q.head - q.tail + PIPE_CAPACITY + 1
        BY <2>1, <4>2
      <4>4. QED
        BY <1>2, <1>4, <3>1, <4>1, <4>3 DEF Positions
    <3>4. QED
      BY <1>2, <1>4, <3>2, <3>3 DEF Positions
  <2>3. CASE p.head < p.tail
    <3>1. Unread(p) = p.head - p.tail + PIPE_CAPACITY + 1
      BY <1>1, <2>3, UnreadCases
    <3>2. p.head + n < p.tail
      BY <1>2, <1>4, <3>1 DEF Positions
    <3>3. q.head = p.head + n /\ q.tail = p.tail
      BY <1>2, <1>4, <1>5, <3>2 DEF Positions
    <3>4. Unread(q) = q.head - q.tail + PIPE_CAPACITY + 1
      BY <2>1, <3>2, <3>3
    <3>5. QED
      BY <1>2, <1>4, <3>1, <3>3, <3>4 DEF Positions
  <2>4. QED
    BY <1>4, <2>2, <2>3 DEF Positions
\* A later position holds another cell, unless the earlier one is the last.
<1>12. ASSUME NEW a \in Nat, NEW l \in 1 .. n, a < Unread(p) + (l - 1),
              Forward(p.tail, a) # PIPE_CAPACITY
       PROVE  Cell(At(l)) # Cell(Forward(p.tail, a))
  <2> DEFINE b == Unread(p) + (l - 1)
  <2>1. b \in Nat /\ a < b /\ b < PIPE_CAPACITY
    BY <1>2, <1>12
  <2>2. At(l) = Forward(p.tail, b)
    BY <1>10
  <2> HIDE DEF b
  <2>3. QED
    BY <1>4, <1>12, <2>1, <2>2, CellsApart
<1>13. ASSUME NEW k \in 1 .. Unread(p), UnreadAt(p, k) # PIPE_CAPACITY
       PROVE  buffer[Cell(UnreadAt(p, k))] = sent[i][k]
  <2>1. k - 1 \in Nat /\ UnreadAt(p, k) = Forward(p.tail, k - 1) /\ \A l \in 1 .. n : k - 1 < Unread(p) + (l - 1)
    BY <1>2 DEF UnreadAt
  <2>2. last(Cell(UnreadAt(p, k))) = {}
    BY <1>12, <1>13, <2>1
  <2>3. Cell(UnreadAt(p, k)) \in Cells
    <3>1. UnreadAt(p, k) \in Positions
      <4>1. k - 1 \in 0 .. PIPE_CAPACITY + 1
        BY <1>2
      <4>2. QED
        BY <1>4, <2>1, <4>1, ForwardCases
    <3>2. QED
      BY <1>13, <3>1, CellCases DEF Cells, Positions
  <2>4. BUFFERS[i][Cell(UnreadAt(p, k))] = sent[i][k]
    BY <1>1, <1>9, <1>13 DEF Sound, Intact
  <2>5. QED
    BY <2>2, <2>3, <2>4
<1>14. ASSUME NEW j \in 1 .. n, At(j) # PIPE_CAPACITY
       PROVE  buffer[Cell(At(j))] = bytes[j]
  <2>1. At(j) \in Positions /\ At(j) = Forward(p.tail, Unread(p) + (j - 1))
    BY <1>10
  <2>2. Cell(At(j)) \in Cells
    BY <1>14, <2>1, CellCases DEF Cells, Positions
  <2>3. Unread(p) + (j - 1) \in Nat /\ \A l \in j+1 .. n : l \in 1 .. n /\ Unread(p) + (j - 1) < Unread(p) + (l - 1)
    BY <1>2
  <2>4. \A l \in j+1 .. n : Cell(At(l)) # Cell(At(j))
    BY <1>12, <1>14, <2>1, <2>3
  <2>5. j \in last(Cell(At(j)))
    BY <2>4
  <2>6. \A k \in last(Cell(At(j))) : k = j
    <3> SUFFICES ASSUME NEW k \in 1 .. n, Cell(At(k)) = Cell(At(j)),
                        \A l \in k+1 .. n : Cell(At(l)) # Cell(At(j))
                 PROVE  k = j
      OBVIOUS
    <3> HIDE DEF At, n
    <3>1. ~(j \in k+1 .. n) /\ ~(k \in j+1 .. n)
      BY <2>4
    <3>2. QED
      BY <1>2, <3>1
  <2> HIDE DEF last
  <2>7. (CHOOSE k \in last(Cell(At(j))) : TRUE) = j
    BY <2>5, <2>6
  <2>8. QED
    BY <2>2, <2>5, <2>7
<1>15. ASSUME NEW k \in 1 .. Unread(p) + n, UnreadAt(q, k) # PIPE_CAPACITY
       PROVE  buffer[Cell(UnreadAt(q, k))] = (sent[i] \o added)[k]
  <2>1. UnreadAt(q, k) = UnreadAt(p, k)
    BY <1>5 DEF UnreadAt
  <2>2. CASE k <= Unread(p)
    <3>1. k \in 1 .. Unread(p)
      BY <1>2, <2>2
    <3>2. (sent[i] \o added)[k] = sent[i][k]
      BY <1>1, <1>6, <1>9, <3>1
    <3>3. QED
      BY <1>13, <1>15, <2>1, <3>1, <3>2
  <2>3. CASE k > Unread(p)
    <3> DEFINE j == k - Unread(p)
    <3>1. j \in 1 .. n /\ Unread(p) + (j - 1) = k - 1
      BY <1>2, <2>3
    <3> HIDE DEF j, n, added, p, buffer, q, At, last
    <3>2. (sent[i] \o added)[k] = added[j]
      <4>1. k \in 1 .. Len(sent[i]) + Len(added) /\ k > Len(sent[i])
        BY <1>2, <1>6, <1>9, <2>3
      <4>2. (sent[i] \o added)[k] = added[k - Len(sent[i])]
        BY <1>1, <1>6, <4>1
      <4>3. QED
        BY <1>9, <4>2 DEF j
    <3>3. At(j) = Forward(p.tail, k - 1)
      BY <1>10, <3>1
    <3>4. UnreadAt(p, k) = At(j)
      BY <3>3 DEF UnreadAt
    <3>5. At(j) # PIPE_CAPACITY
      BY <1>15, <2>1, <3>4
    <3>6. buffer[Cell(At(j))] = bytes[j]
      BY <1>14, <3>1, <3>5
    <3>7. QED
      BY <1>6, <2>1, <3>1, <3>2, <3>4, <3>6
  <2>4. QED
    <3> HIDE DEF n, added, p, buffer, q, At, last
    <3>1. k \in Nat /\ Unread(p) \in Nat
      BY <1>2
    <3>2. k <= Unread(p) \/ k > Unread(p)
      BY <3>1
    <3>3. QED
      BY <2>2, <2>3, <3>2, Zenon
<1> HIDE DEF p, n, q, At, last, buffer
<1>16. ASSUME NEW j \in PipeIndex
       PROVE  Sound(j)'
  <2>1. CASE j = i
    <3>1. PIPES'[j] = q /\ sent'[j] = sent[i] \o added /\ BUFFERS'[j] = buffer
      BY <1>3, <2>1 DEF PipeInv, PipeTypeOK
    <3>2. Len(sent[i] \o added) = Unread(p) + n
      BY <1>1, <1>6, <1>9
    <3> HIDE DEF added
    <3>3. QED
      BY <1>11, <1>15, <3>1, <3>2 DEF Sound, Intact
  <2>2. CASE j # i
    BY <1>3, <2>2 DEF Sound, PipeInv, PipeTypeOK, OnlyTheSeamIsLost, Unread, UnreadAt, Intact
  <2>3. QED
    BY <2>1, <2>2
<1>17. QED
  BY <1>8, <1>16 DEF PipeInv, OnlyTheSeamIsLost, Sound

(* The theorems *)

LEMMA PipeStep == ASSUME PipeInv, [PipeNext]_pipeVars PROVE PipeInv'
<1>1. CASE Create
  BY <1>1, CreateStep
<1>2. CASE Write
  <2>1. PICK i \in PipeIndex, bytes \in Messages : write(i, bytes)
    BY <1>2 DEF Write
  <2>2. PICK n \in 1 .. MaxWrite : bytes \in [1..n -> Byte]
    BY DEF Messages
  <2>3. bytes \in Seq(Byte)
    BY <2>2, MaxWriteAssumption
  <2>4. QED
    BY <2>1, <2>3, WriteStep
<1>3. CASE Read
  <2>1. PICK i \in PipeIndex, n \in 1 .. MaxWrite : read(i, n)
    BY <1>3 DEF Read
  <2>2. n \in Nat
    BY MaxWriteAssumption
  <2>3. QED
    BY <2>1, <2>2, ReadStep
<1>4. CASE CloseEnd
  BY <1>4, CloseEndStep
<1>5. CASE AddRef
  BY <1>5, AddRefStep
<1>6. CASE UNCHANGED pipeVars
  BY <1>6 DEF pipeVars, PipeInv, PipeTypeOK, OnlyTheSeamIsLost, Intact
<1>7. QED
  BY <1>1, <1>2, <1>3, <1>4, <1>5, <1>6 DEF PipeNext

\* The pipes and buffers keep their types, so that no operation of pipe.rs
\* indexes a buffer outside its cells, and between tail and head a ring holds
\* what write accepted and read has not returned, but for the byte at the last
\* position.
THEOREM PipesSound == PipeSpec => []PipeInv
<1>1. PipeInit => PipeInv
  BY PipeInitInv
<1>2. PipeInv /\ [PipeNext]_pipeVars => PipeInv'
  BY PipeStep
<1>3. QED
  BY <1>1, <1>2, PTL DEF PipeSpec

\* Type correctness of the pipes.
THEOREM PipeTypes == PipeSpec => []PipeTypeOK
<1>1. PipeInv => PipeTypeOK
  BY DEF PipeInv
<1>2. QED
  BY <1>1, PipesSound, PTL

\* A write never overwrites an unread byte, but for the one at the last
\* position, however full, wrapped or reused the ring is.
THEOREM WritesKeepUnread == PipeSpec => []OnlyTheSeamIsLost
<1>1. PipeInv => OnlyTheSeamIsLost
  BY DEF PipeInv
<1>2. QED
  BY <1>1, PipesSound, PTL

------------------------------------------------------------------------------
(* Descriptors of the dead *)

\* What the steps need of the types: tables and lives belong to the slots.
Tables ==
  /\ fds = [t \in Tasks |-> fds[t]]
  /\ life \in [Tasks -> {"free", "live", "leaving", "zombie"}]
  /\ killing \in Tasks \union {NoTask}

LEMMA TasksAreNaturals == Tasks \subseteq Nat /\ NoTask \notin Tasks
BY TaskAssumption DEF Tasks, NoTask

\* spawn_inner and fork take a free slot.
LEMMA NewTaskIsFree ==
  ASSUME FreeTasks # {}
  PROVE  NewTask \in Tasks /\ life[NewTask] = "free"
<1>1. FreeTasks \subseteq Nat
  BY TasksAreNaturals DEF FreeTasks
<1>2. \E t \in FreeTasks : \A u \in FreeTasks : t <= u
  BY <1>1, LeastNatural
<1>3. NewTask \in FreeTasks
  BY <1>2, Zenon DEF NewTask
<1>4. QED
  BY <1>3 DEF FreeTasks

\* A step on the table of a living task, or on none.
LEMMA LiveTableStep ==
  ASSUME Tables, DeadHoldNothing, NEW t \in Tasks, life[t] = "live",
         UNCHANGED <<life, killing>>, fds' = [t2 \in Tasks |-> fds'[t2]],
         \A u \in Tasks : u # t => fds'[u] = fds[u]
  PROVE  Tables' /\ DeadHoldNothing'
BY DEF Tables, DeadHoldNothing

\* The calls on descriptors change the caller's table only.
LEMMA CallStep ==
  ASSUME Tables, DeadHoldNothing, NEW t \in Tasks,
         \/ open(t) \/ create_pipe(t)
         \/ \E fd \in Fds : dup(t, fd) \/ close(t, fd) \/ \E newfd \in Fds : dup2(t, fd, newfd)
  PROVE  Tables' /\ DeadHoldNothing'
<1>1. life[t] = "live" /\ UNCHANGED <<life, killing>>
  BY DEF open, create_pipe, dup, close, dup2, InUserMode
<1>2. CASE open(t)
  BY <1>1, <1>2, LiveTableStep DEF open, SetFd, Tables
<1>3. CASE create_pipe(t)
  BY <1>1, <1>3, LiveTableStep DEF create_pipe, Tables
<1>4. CASE \E fd \in Fds : dup(t, fd) \/ close(t, fd) \/ \E newfd \in Fds : dup2(t, fd, newfd)
  BY <1>1, <1>4, LiveTableStep DEF dup, close, dup2, SetFd, Tables
<1>5. QED
  BY <1>2, <1>3, <1>4

\* The end of a task, or of the shell's kill, empties one table.
LEMMA EmptiedTableStep ==
  ASSUME Tables, DeadHoldNothing, NEW t \in Tasks, fds' = [fds EXCEPT ![t] = EmptyTable],
         life' \in [Tasks -> {"free", "live", "leaving", "zombie"}],
         killing' \in Tasks \union {NoTask},
         \A u \in Tasks \ {t} : life'[u] = life[u],
         killing' = killing \/ killing = t
  PROVE  Tables' /\ DeadHoldNothing'
BY DEF Tables, DeadHoldNothing

\* fork and the start of an application: the slot is alive with its table.
LEMMA NewTaskStep ==
  ASSUME Tables, DeadHoldNothing, Start \/ \E t \in Tasks : fork(t)
  PROVE  Tables' /\ DeadHoldNothing'
<1>1. NewTask \in Tasks /\ life[NewTask] = "free"
  BY NewTaskIsFree DEF Start, fork
<1>2. /\ life' = [life EXCEPT ![NewTask] = "live"]
      /\ fds' = fds \/ \E t \in Tasks : fds' = [fds EXCEPT ![NewTask] = fds[t]]
      /\ killing' = killing
  BY DEF Start, fork
<1>3. QED
  BY <1>1, <1>2 DEF Tables, DeadHoldNothing

\* exit, kill, and the two halves of the shell's kill.
LEMMA EndStep ==
  ASSUME Tables, DeadHoldNothing,
         \/ ShellKillEnds
         \/ \E t \in Tasks : \/ TerminateCurrent(t) \/ ShellKill(t) \/ Reaped(t) \/ Exit(t)
                             \/ \E victim \in Tasks : Kill(t, victim)
  PROVE  Tables' /\ DeadHoldNothing'
<1>1. CASE ShellKillEnds
  BY <1>1, EmptiedTableStep DEF ShellKillEnds, close_all, Tables
<1>2. ASSUME NEW t \in Tasks, close_all(t), Dies(t), killing' = killing
      PROVE  Tables' /\ DeadHoldNothing'
  BY <1>2, EmptiedTableStep DEF close_all, Dies, Tables
<1>3. CASE \E t \in Tasks : TerminateCurrent(t) \/ \E victim \in Tasks : Kill(t, victim)
  BY <1>2, <1>3 DEF TerminateCurrent, Kill
<1>4. CASE \E t \in Tasks : ShellKill(t)
  BY <1>4, TasksAreNaturals DEF ShellKill, Dies, Tables, DeadHoldNothing
<1>5. CASE \E t \in Tasks : Reaped(t) \/ Exit(t)
  BY <1>5 DEF Reaped, Exit, InUserMode, Tables, DeadHoldNothing
<1>6. QED
  BY <1>1, <1>3, <1>4, <1>5

\* A task that has ended holds no descriptor but while the shell's kill is still
\* about to close them (close_all, clone_into, terminate): for any number of
\* tasks, descriptors and pipes, also when a fork takes the slot in between.
THEOREM TheDeadHoldNothing == Spec => []DeadHoldNothing
<1>1. Init => Tables /\ DeadHoldNothing
  BY DEF Init, Tables, DeadHoldNothing
<1>2. ASSUME Tables, DeadHoldNothing, [Next]_vars
      PROVE  Tables' /\ DeadHoldNothing'
  <2>1. CASE Start \/ \E t \in Tasks : fork(t)
    BY <1>2, <2>1, NewTaskStep
  <2>2. CASE \/ ShellKillEnds
             \/ \E t \in Tasks : \/ TerminateCurrent(t) \/ ShellKill(t) \/ Reaped(t) \/ Exit(t)
                                 \/ \E victim \in Tasks : Kill(t, victim)
    BY <1>2, <2>2, EndStep
  <2>3. CASE \E t \in Tasks :
               \/ open(t) \/ create_pipe(t)
               \/ \E fd \in Fds : dup(t, fd) \/ close(t, fd) \/ \E newfd \in Fds : dup2(t, fd, newfd)
    BY <1>2, <2>3, CallStep
  <2>4. CASE UNCHANGED <<life, fds, killing>>
    BY <1>2, <2>4 DEF Tables, DeadHoldNothing
  <2>5. CASE \E t \in Tasks :
               \/ PollEnds(t)
               \/ \E fd \in Fds :
                    \/ \E n \in 1..MaxWrite : ReadFd(t, fd, n)
                    \/ \E bytes \in Messages : WriteFd(t, fd, bytes)
                    \/ \E ev \in {"POLLIN", "POLLOUT"}, timed \in BOOLEAN : poll(t, fd, {ev}, timed)
    BY <2>4, <2>5 DEF PollEnds, ReadFd, WriteFd, poll, fileVars
  <2>6. QED
    BY <1>2, <2>1, <2>2, <2>3, <2>4, <2>5 DEF Next, Call, vars, fileVars
<1>3. QED
  BY <1>1, <1>2, PTL DEF Spec

------------------------------------------------------------------------------
(* The loops over a descriptor table *)

Pipes == [PipeIndex -> Pipe]

\* The end of pipe i that a descriptor may be, and whether it is that.
End(i, k) == [kind |-> k, node |-> i]
One(e, i, k) == IF e = End(i, k) THEN 1 ELSE 0

\* No ring is touched.
SameRings(ps, qs) == \A i \in PipeIndex : qs[i].head = ps[i].head /\ qs[i].tail = ps[i].tail

InUse(p) == p.used <=> (p.writers > 0 \/ p.readers > 0)

\* The end a pipe descriptor is.
LEMMA EntryCases ==
  ASSUME NEW e \in Entry
  PROVE  \/ ~IsPipe(e) /\ \A i \in PipeIndex, k \in {"PipeRead", "PipeWrite"} : One(e, i, k) = 0
         \/ /\ e = End(e.node, "PipeRead") /\ e.node \in PipeIndex /\ e.kind = "PipeRead"
            /\ \A i \in PipeIndex : /\ One(e, i, "PipeWrite") = 0
                                    /\ One(e, i, "PipeRead") = IF i = e.node THEN 1 ELSE 0
         \/ /\ e = End(e.node, "PipeWrite") /\ e.node \in PipeIndex /\ e.kind = "PipeWrite"
            /\ \A i \in PipeIndex : /\ One(e, i, "PipeRead") = 0
                                    /\ One(e, i, "PipeWrite") = IF i = e.node THEN 1 ELSE 0
<1>1. CASE e = Empty
  BY <1>1 DEF Empty, IsPipe, One, End
<1>2. CASE e \in [kind : {"File"}, node : {0}]
  BY <1>2 DEF IsPipe, One, End
<1>3. ASSUME NEW i \in PipeIndex, e = End(i, "PipeRead")
      PROVE  /\ e.node = i /\ e.kind = "PipeRead"
             /\ \A j \in PipeIndex : /\ One(e, j, "PipeWrite") = 0
                                     /\ One(e, j, "PipeRead") = IF j = i THEN 1 ELSE 0
  BY <1>3 DEF One, End
<1>4. ASSUME NEW i \in PipeIndex, e = End(i, "PipeWrite")
      PROVE  /\ e.node = i /\ e.kind = "PipeWrite"
             /\ \A j \in PipeIndex : /\ One(e, j, "PipeRead") = 0
                                     /\ One(e, j, "PipeWrite") = IF j = i THEN 1 ELSE 0
  BY <1>4 DEF One, End
<1>5. CASE \E i \in PipeIndex : e = End(i, "PipeRead")
  BY <1>3, <1>5
<1>6. CASE \E i \in PipeIndex : e = End(i, "PipeWrite")
  BY <1>4, <1>6
<1>7. QED
  BY <1>1, <1>2, <1>5, <1>6 DEF Entry, End

\* retain adds a holder to the end it names, if that pipe is in use.
LEMMA RetainOne ==
  ASSUME NEW ps \in Pipes, NEW e \in Entry
  PROVE  /\ retain(ps, e) \in Pipes /\ SameRings(ps, retain(ps, e))
         /\ \A i \in PipeIndex :
              /\ retain(ps, e)[i].used = ps[i].used
              /\ retain(ps, e)[i].writers = ps[i].writers + (IF ps[i].used THEN One(e, i, "PipeWrite") ELSE 0)
              /\ retain(ps, e)[i].readers = ps[i].readers + (IF ps[i].used THEN One(e, i, "PipeRead") ELSE 0)
<1> USE DEF Pipes, Pipe, SameRings
<1>1. CASE ~IsPipe(e)
  BY <1>1, EntryCases DEF retain, IsPipe
<1>2. CASE IsPipe(e) /\ ~ps[e.node].used
  BY <1>2, EntryCases DEF retain, add_ref
<1>3. CASE e.kind = "PipeRead" /\ ps[e.node].used
  <2>1. /\ e.node \in PipeIndex /\ IsPipe(e)
        /\ \A i \in PipeIndex : /\ One(e, i, "PipeWrite") = 0
                                /\ One(e, i, "PipeRead") = IF i = e.node THEN 1 ELSE 0
    BY <1>3, EntryCases DEF IsPipe
  <2>2. retain(ps, e) = [ps EXCEPT ![e.node].readers = @ + 1]
    BY <1>3, <2>1 DEF retain, add_ref
  <2>3. QED
    BY <1>3, <2>1, <2>2
<1>4. CASE e.kind = "PipeWrite" /\ ps[e.node].used
  <2>1. /\ e.node \in PipeIndex /\ IsPipe(e)
        /\ \A i \in PipeIndex : /\ One(e, i, "PipeRead") = 0
                                /\ One(e, i, "PipeWrite") = IF i = e.node THEN 1 ELSE 0
    BY <1>4, EntryCases DEF IsPipe
  <2>2. retain(ps, e) = [ps EXCEPT ![e.node].writers = @ + 1]
    BY <1>4, <2>1 DEF retain, add_ref
  <2>3. QED
    BY <1>4, <2>1, <2>2
<1>5. QED
  BY <1>1, <1>2, <1>3, <1>4 DEF IsPipe

\* release takes a holder from the end it names; a pipe that counts its holders goes
\* on doing so, and is free with the last of them.
LEMMA ReleaseOne ==
  ASSUME NEW ps \in Pipes, NEW e \in Entry
  PROVE  /\ release(ps, e) \in Pipes /\ SameRings(ps, release(ps, e))
         /\ \A i \in PipeIndex :
              InUse(ps[i]) /\ ps[i].writers >= One(e, i, "PipeWrite") /\ ps[i].readers >= One(e, i, "PipeRead") =>
                /\ InUse(release(ps, e)[i])
                /\ release(ps, e)[i].writers = ps[i].writers - One(e, i, "PipeWrite")
                /\ release(ps, e)[i].readers = ps[i].readers - One(e, i, "PipeRead")
<1> USE DEF Pipes, Pipe, SameRings, InUse
<1>1. CASE ~IsPipe(e)
  BY <1>1, EntryCases DEF release, IsPipe
<1>2. CASE IsPipe(e) /\ ~ps[e.node].used
  BY <1>2, EntryCases DEF release, close_end, IsPipe
<1>3. CASE e.kind = "PipeRead" /\ ps[e.node].used
  <2> DEFINE r == IF ps[e.node].readers > 0 THEN ps[e.node].readers - 1 ELSE ps[e.node].readers
             u == ps[e.node].writers > 0 \/ r > 0
             new == [ps EXCEPT ![e.node] = [@ EXCEPT !.writers = ps[e.node].writers, !.readers = r,
                                                  !.used = u]]
  <2>1. /\ e.node \in PipeIndex /\ IsPipe(e)
        /\ \A i \in PipeIndex : /\ One(e, i, "PipeWrite") = 0
                                /\ One(e, i, "PipeRead") = IF i = e.node THEN 1 ELSE 0
    BY <1>3, EntryCases DEF IsPipe
  <2>2. release(ps, e) = new
    BY <1>3, <2>1 DEF release, close_end
  <2>3. r \in Nat /\ u \in BOOLEAN /\ (u <=> ps[e.node].writers > 0 \/ r > 0) /\ (ps[e.node].readers > 0 => r = ps[e.node].readers - 1)
    BY <2>1
  <2> HIDE DEF r, u
  <2>4. /\ new \in Pipes /\ SameRings(ps, new)
        /\ new[e.node].writers = ps[e.node].writers /\ new[e.node].readers = r
        /\ new[e.node].used = u
        /\ \A i \in PipeIndex : i # e.node => new[i] = ps[i]
    BY <2>1, <2>3
  <2> HIDE DEF new
  <2>5. QED
    BY <1>3, <2>1, <2>2, <2>3, <2>4
<1>4. CASE e.kind = "PipeWrite" /\ ps[e.node].used
  <2> DEFINE w == IF ps[e.node].writers > 0 THEN ps[e.node].writers - 1 ELSE ps[e.node].writers
             u == w > 0 \/ ps[e.node].readers > 0
             new == [ps EXCEPT ![e.node] = [@ EXCEPT !.writers = w, !.readers = ps[e.node].readers,
                                                  !.used = u]]
  <2>1. /\ e.node \in PipeIndex /\ IsPipe(e)
        /\ \A i \in PipeIndex : /\ One(e, i, "PipeRead") = 0
                                /\ One(e, i, "PipeWrite") = IF i = e.node THEN 1 ELSE 0
    BY <1>4, EntryCases DEF IsPipe
  <2>2. release(ps, e) = new
    BY <1>4, <2>1 DEF release, close_end
  <2>3. w \in Nat /\ u \in BOOLEAN /\ (u <=> w > 0 \/ ps[e.node].readers > 0) /\ (ps[e.node].writers > 0 => w = ps[e.node].writers - 1)
    BY <2>1
  <2> HIDE DEF w, u
  <2>4. /\ new \in Pipes /\ SameRings(ps, new)
        /\ new[e.node].writers = w /\ new[e.node].readers = ps[e.node].readers
        /\ new[e.node].used = u
        /\ \A i \in PipeIndex : i # e.node => new[i] = ps[i]
    BY <2>1, <2>3
  <2> HIDE DEF new
  <2>5. QED
    BY <1>4, <2>1, <2>2, <2>3, <2>4
<1>5. QED
  BY <1>1, <1>2, <1>3, <1>4 DEF IsPipe

\* The loop of clone_into, turn by turn.
LEMMA RetainAllLoop ==
  ASSUME NEW ps \in Pipes, NEW table \in [Fds -> Entry]
  PROVE  \E f \in [0..MAX_FDS -> Pipes] :
           /\ f[0] = ps /\ RetainAll(ps, table) = f[MAX_FDS]
           /\ \A n \in 1..MAX_FDS : f[n] = retain(f[n - 1], table[n - 1])
<1> DEFINE after[n \in 0..MAX_FDS] == IF n = 0 THEN ps ELSE retain(after[n - 1], table[n - 1])
           G == [n \in 1..MAX_FDS |-> [v \in Pipes |-> retain(v, table[n - 1])]]
<1>1. MAX_FDS \in Nat /\ \A n \in 1..MAX_FDS : n - 1 \in Fds /\ table[n - 1] \in Entry
  BY FdAssumption DEF Fds
<1>2. G \in [1..MAX_FDS -> [Pipes -> Pipes]]
  BY <1>1, RetainOne
<1>3. PICK f : Follows(f, MAX_FDS, Pipes, ps, G)
  <2> HIDE DEF G
  <2> QED
    BY <1>1, <1>2, RecursiveFunction, Zenon
<1>4. \A n \in 1..MAX_FDS : f[n] = retain(f[n - 1], table[n - 1])
  <2>1. \A n \in 1..MAX_FDS : n - 1 \in 0..MAX_FDS /\ f[n - 1] \in Pipes
    BY <1>1, <1>3 DEF Follows
  <2>2. QED
    BY <1>3, <2>1 DEF Follows
<1>5. f = [n \in 0..MAX_FDS |-> IF n = 0 THEN ps ELSE retain(f[n - 1], table[n - 1])]
  BY <1>1, <1>3, <1>4 DEF Follows
<1>6. after = [n \in 0..MAX_FDS |-> IF n = 0 THEN ps ELSE retain(after[n - 1], table[n - 1])]
  BY <1>5, Zenon
<1>7. RetainAll(ps, table) = after[MAX_FDS]
  BY DEF RetainAll
<1> HIDE DEF after
<1>8. after[0] = ps /\ \A n \in 1..MAX_FDS : after[n] = retain(after[n - 1], table[n - 1])
  BY <1>1, <1>6
<1>9. \A n \in 0..MAX_FDS : after[n] \in Pipes
  <2> DEFINE S == {n \in 0..MAX_FDS : after[n] \in Pipes}
  <2>1. 0 \in S
    BY <1>1, <1>8
  <2>2. \A n \in 1..MAX_FDS : n - 1 \in S => n \in S
    BY <1>1, <1>8, RetainOne
  <2> HIDE DEF S
  <2>3. \A n \in 0..MAX_FDS : n \in S
    BY <1>1, <2>1, <2>2, InductionUpTo
  <2> QED
    BY <2>3 DEF S
<1>10. after \in [0..MAX_FDS -> Pipes]
  BY <1>6, <1>9
<1>11. QED
  BY <1>7, <1>8, <1>10

\* The same of close_all.
LEMMA ReleaseAllLoop ==
  ASSUME NEW ps \in Pipes, NEW table \in [Fds -> Entry]
  PROVE  \E f \in [0..MAX_FDS -> Pipes] :
           /\ f[0] = ps /\ ReleaseAll(ps, table) = f[MAX_FDS]
           /\ \A n \in 1..MAX_FDS : f[n] = release(f[n - 1], table[n - 1])
<1> DEFINE after[n \in 0..MAX_FDS] == IF n = 0 THEN ps ELSE release(after[n - 1], table[n - 1])
           G == [n \in 1..MAX_FDS |-> [v \in Pipes |-> release(v, table[n - 1])]]
<1>1. MAX_FDS \in Nat /\ \A n \in 1..MAX_FDS : n - 1 \in Fds /\ table[n - 1] \in Entry
  BY FdAssumption DEF Fds
<1>2. G \in [1..MAX_FDS -> [Pipes -> Pipes]]
  BY <1>1, ReleaseOne
<1>3. PICK f : Follows(f, MAX_FDS, Pipes, ps, G)
  <2> HIDE DEF G
  <2> QED
    BY <1>1, <1>2, RecursiveFunction, Zenon
<1>4. \A n \in 1..MAX_FDS : f[n] = release(f[n - 1], table[n - 1])
  <2>1. \A n \in 1..MAX_FDS : n - 1 \in 0..MAX_FDS /\ f[n - 1] \in Pipes
    BY <1>1, <1>3 DEF Follows
  <2>2. QED
    BY <1>3, <2>1 DEF Follows
<1>5. f = [n \in 0..MAX_FDS |-> IF n = 0 THEN ps ELSE release(f[n - 1], table[n - 1])]
  BY <1>1, <1>3, <1>4 DEF Follows
<1>6. after = [n \in 0..MAX_FDS |-> IF n = 0 THEN ps ELSE release(after[n - 1], table[n - 1])]
  BY <1>5, Zenon
<1>7. ReleaseAll(ps, table) = after[MAX_FDS]
  BY DEF ReleaseAll
<1> HIDE DEF after
<1>8. after[0] = ps /\ \A n \in 1..MAX_FDS : after[n] = release(after[n - 1], table[n - 1])
  BY <1>1, <1>6
<1>9. \A n \in 0..MAX_FDS : after[n] \in Pipes
  <2> DEFINE S == {n \in 0..MAX_FDS : after[n] \in Pipes}
  <2>1. 0 \in S
    BY <1>1, <1>8
  <2>2. \A n \in 1..MAX_FDS : n - 1 \in S => n \in S
    BY <1>1, <1>8, ReleaseOne
  <2> HIDE DEF S
  <2>3. \A n \in 0..MAX_FDS : n \in S
    BY <1>1, <2>1, <2>2, InductionUpTo
  <2> QED
    BY <2>3 DEF S
<1>10. after \in [0..MAX_FDS -> Pipes]
  BY <1>6, <1>9
<1>11. QED
  BY <1>7, <1>8, <1>10

\* How many descriptors of a table are end k of pipe i: of the first n, and of all.
HitsBelow(table, i, k, n) == {fd \in 0..n - 1 : table[fd] = End(i, k)}
CountBelow(table, i, k, n) == Cardinality(HitsBelow(table, i, k, n))
Count(table, i, k) == CountBelow(table, i, k, MAX_FDS)

LEMMA CountSteps ==
  ASSUME NEW table, NEW i, NEW k, NEW n \in Nat
  PROVE  /\ CountBelow(table, i, k, n) \in Nat
         /\ CountBelow(table, i, k, 0) = 0
         /\ CountBelow(table, i, k, n + 1) = CountBelow(table, i, k, n) + One(table[n], i, k)
         /\ \A m \in 0..n : CountBelow(table, i, k, m) <= CountBelow(table, i, k, n)
<1>1. \A m \in Nat : IsFiniteSet(HitsBelow(table, i, k, m))
  <2>1. ASSUME NEW m \in Nat PROVE IsFiniteSet(HitsBelow(table, i, k, m))
    <3>1. IsFiniteSet(0..m - 1)
      BY FS_Interval
    <3>2. HitsBelow(table, i, k, m) \in SUBSET (0..m - 1)
      BY DEF HitsBelow
    <3>3. QED
      BY <3>1, <3>2, FS_Subset
  <2>2. QED
    BY <2>1
<1>2. CountBelow(table, i, k, n) \in Nat
  BY <1>1, FS_CardinalityType DEF CountBelow
<1>3. CountBelow(table, i, k, 0) = 0
  <2>1. HitsBelow(table, i, k, 0) = {}
    BY DEF HitsBelow
  <2>2. QED
    BY <2>1, FS_EmptySet DEF CountBelow
<1>4. CountBelow(table, i, k, n + 1) = CountBelow(table, i, k, n) + One(table[n], i, k)
  <2>1. n \notin HitsBelow(table, i, k, n) /\ 0..(n + 1) - 1 = (0..n - 1) \union {n}
    BY DEF HitsBelow
  <2>2. CASE table[n] = End(i, k)
    <3>1. HitsBelow(table, i, k, n + 1) = HitsBelow(table, i, k, n) \union {n}
      BY <2>1, <2>2 DEF HitsBelow
    <3>2. QED
      BY <1>1, <2>1, <2>2, <3>1, FS_AddElement DEF CountBelow, One
  <2>3. CASE table[n] # End(i, k)
    <3>1. HitsBelow(table, i, k, n + 1) = HitsBelow(table, i, k, n)
      BY <2>1, <2>3 DEF HitsBelow
    <3>2. QED
      BY <1>2, <2>3, <3>1 DEF CountBelow, One
  <2>4. QED
    BY <2>2, <2>3
<1>5. ASSUME NEW m \in 0..n
      PROVE  CountBelow(table, i, k, m) <= CountBelow(table, i, k, n)
  <2>1. HitsBelow(table, i, k, m) \in SUBSET HitsBelow(table, i, k, n)
    BY DEF HitsBelow
  <2>2. QED
    BY <1>1, <2>1, FS_Subset DEF CountBelow
<1>6. QED
  BY <1>2, <1>3, <1>4, <1>5

\* One more turn of a loop over a table.
LEMMA CountTurn ==
  ASSUME NEW table, NEW i, NEW k, NEW n \in 1..MAX_FDS
  PROVE  /\ CountBelow(table, i, k, n) = CountBelow(table, i, k, n - 1) + One(table[n - 1], i, k)
         /\ CountBelow(table, i, k, n - 1) \in Nat /\ One(table[n - 1], i, k) \in Nat
         /\ CountBelow(table, i, k, n) <= Count(table, i, k)
<1>1. n - 1 \in Nat /\ (n - 1) + 1 = n /\ MAX_FDS \in Nat /\ n \in 0..MAX_FDS
  BY FdAssumption
<1>2. /\ CountBelow(table, i, k, (n - 1) + 1) = CountBelow(table, i, k, n - 1) + One(table[n - 1], i, k)
      /\ CountBelow(table, i, k, n - 1) \in Nat
  BY <1>1, CountSteps, Zenon
<1>3. \A m \in 0..MAX_FDS : CountBelow(table, i, k, m) <= CountBelow(table, i, k, MAX_FDS)
  BY <1>1, CountSteps
<1>4. One(table[n - 1], i, k) \in Nat
  BY DEF One
<1>5. QED
  BY <1>1, <1>2, <1>3, <1>4 DEF Count

LEMMA CountType == ASSUME NEW table, NEW i, NEW k PROVE Count(table, i, k) \in Nat
BY CountSteps, FdAssumption DEF Count

\* clone_into adds what the table has to each pipe in use.
LEMMA RetainAllCounts ==
  ASSUME NEW ps \in Pipes, NEW table \in [Fds -> Entry]
  PROVE  /\ RetainAll(ps, table) \in Pipes /\ SameRings(ps, RetainAll(ps, table))
         /\ \A i \in PipeIndex :
              /\ RetainAll(ps, table)[i].used = ps[i].used
              /\ ps[i].used =>
                   /\ RetainAll(ps, table)[i].writers = ps[i].writers + Count(table, i, "PipeWrite")
                   /\ RetainAll(ps, table)[i].readers = ps[i].readers + Count(table, i, "PipeRead")
              /\ ~ps[i].used => /\ RetainAll(ps, table)[i].writers = ps[i].writers
                                /\ RetainAll(ps, table)[i].readers = ps[i].readers
<1>1. PICK f \in [0..MAX_FDS -> Pipes] :
        /\ f[0] = ps /\ RetainAll(ps, table) = f[MAX_FDS]
        /\ \A n \in 1..MAX_FDS : f[n] = retain(f[n - 1], table[n - 1])
  BY RetainAllLoop
<1> DEFINE Right(n) ==
      /\ SameRings(ps, f[n])
      /\ \A i \in PipeIndex :
           /\ f[n][i].used = ps[i].used
           /\ ps[i].used => /\ f[n][i].writers = ps[i].writers + CountBelow(table, i, "PipeWrite", n)
                            /\ f[n][i].readers = ps[i].readers + CountBelow(table, i, "PipeRead", n)
           /\ ~ps[i].used => f[n][i].writers = ps[i].writers /\ f[n][i].readers = ps[i].readers
    S == {n \in 0..MAX_FDS : Right(n)}
<1>2. MAX_FDS \in Nat /\ MAX_FDS \in 0..MAX_FDS
  BY FdAssumption
<1>3. 0 \in S
  <2>1. \A i, k : CountBelow(table, i, k, 0) = 0
    BY CountSteps
  <2>2. QED
    BY <1>1, <1>2, <2>1 DEF Pipes, Pipe, SameRings
<1>4. ASSUME NEW n \in 1..MAX_FDS, n - 1 \in S PROVE n \in S
  <2>1. n - 1 \in Fds /\ n - 1 \in 0..MAX_FDS /\ n \in 0..MAX_FDS
    BY <1>2 DEF Fds
  <2>2. f[n - 1] \in Pipes /\ table[n - 1] \in Entry /\ f[n] = retain(f[n - 1], table[n - 1])
    BY <1>1, <2>1
  <2>4. /\ SameRings(f[n - 1], f[n])
        /\ \A i \in PipeIndex :
              /\ f[n][i].used = f[n - 1][i].used
              /\ f[n][i].writers = f[n - 1][i].writers + (IF f[n - 1][i].used THEN One(table[n - 1], i, "PipeWrite") ELSE 0)
              /\ f[n][i].readers = f[n - 1][i].readers + (IF f[n - 1][i].used THEN One(table[n - 1], i, "PipeRead") ELSE 0)
    BY <2>2, RetainOne
  <2>5. Right(n - 1)
    BY <1>4
  <2>6. SameRings(ps, f[n])
    BY <2>4, <2>5 DEF SameRings
  <2>7. ASSUME NEW i \in PipeIndex, ps[i].used
        PROVE  /\ f[n][i].writers = ps[i].writers + CountBelow(table, i, "PipeWrite", n)
               /\ f[n][i].readers = ps[i].readers + CountBelow(table, i, "PipeRead", n)
    <3>1. ps[i].writers \in Nat /\ ps[i].readers \in Nat
      BY DEF Pipes, Pipe
    <3>2. /\ CountBelow(table, i, "PipeWrite", n) = CountBelow(table, i, "PipeWrite", n - 1) + One(table[n - 1], i, "PipeWrite")
          /\ CountBelow(table, i, "PipeWrite", n - 1) \in Nat /\ One(table[n - 1], i, "PipeWrite") \in Nat
          /\ CountBelow(table, i, "PipeRead", n) = CountBelow(table, i, "PipeRead", n - 1) + One(table[n - 1], i, "PipeRead")
          /\ CountBelow(table, i, "PipeRead", n - 1) \in Nat /\ One(table[n - 1], i, "PipeRead") \in Nat
      BY CountTurn
    <3>3. /\ f[n - 1][i].used
          /\ f[n - 1][i].writers = ps[i].writers + CountBelow(table, i, "PipeWrite", n - 1)
          /\ f[n - 1][i].readers = ps[i].readers + CountBelow(table, i, "PipeRead", n - 1)
      BY <2>5, <2>7
    <3>4. /\ f[n][i].writers = f[n - 1][i].writers + One(table[n - 1], i, "PipeWrite")
          /\ f[n][i].readers = f[n - 1][i].readers + One(table[n - 1], i, "PipeRead")
      BY <2>4, <3>3
    <3>5. QED
      BY <3>1, <3>2, <3>3, <3>4
  <2>8. ASSUME NEW i \in PipeIndex
        PROVE  /\ f[n][i].used = ps[i].used
               /\ ~ps[i].used => f[n][i].writers = ps[i].writers /\ f[n][i].readers = ps[i].readers
    <3>1. ps[i].writers \in Nat /\ ps[i].readers \in Nat
      BY DEF Pipes, Pipe
    <3>2. QED
      BY <2>4, <2>5, <3>1
  <2>9. QED
    BY <2>1, <2>6, <2>7, <2>8
<1>5. \A n \in 0..MAX_FDS : n \in S
  <2> HIDE DEF S
  <2> QED
    BY <1>2, <1>3, <1>4, InductionUpTo
<1>6. MAX_FDS \in S
  BY <1>2, <1>5
<1>7. QED
  BY <1>1, <1>6 DEF Count

\* close_all takes what the table has from each pipe that counts it.
LEMMA ReleaseAllCounts ==
  ASSUME NEW ps \in Pipes, NEW table \in [Fds -> Entry]
  PROVE  /\ ReleaseAll(ps, table) \in Pipes /\ SameRings(ps, ReleaseAll(ps, table))
         /\ \A i \in PipeIndex :
              (/\ InUse(ps[i])
               /\ ps[i].writers >= Count(table, i, "PipeWrite")
               /\ ps[i].readers >= Count(table, i, "PipeRead")) =>
                   /\ InUse(ReleaseAll(ps, table)[i])
                   /\ ReleaseAll(ps, table)[i].writers = ps[i].writers - Count(table, i, "PipeWrite")
                   /\ ReleaseAll(ps, table)[i].readers = ps[i].readers - Count(table, i, "PipeRead")
<1>1. PICK f \in [0..MAX_FDS -> Pipes] :
        /\ f[0] = ps /\ ReleaseAll(ps, table) = f[MAX_FDS]
        /\ \A n \in 1..MAX_FDS : f[n] = release(f[n - 1], table[n - 1])
  BY ReleaseAllLoop
<1> DEFINE Counted(i) == /\ InUse(ps[i])
                         /\ ps[i].writers >= Count(table, i, "PipeWrite")
                         /\ ps[i].readers >= Count(table, i, "PipeRead")
           Right(n) ==
             /\ SameRings(ps, f[n])
             /\ \A i \in PipeIndex :
                  Counted(i) => /\ InUse(f[n][i])
                                /\ f[n][i].writers = ps[i].writers - CountBelow(table, i, "PipeWrite", n)
                                /\ f[n][i].readers = ps[i].readers - CountBelow(table, i, "PipeRead", n)
    S == {n \in 0..MAX_FDS : Right(n)}
<1>2. MAX_FDS \in Nat /\ MAX_FDS \in 0..MAX_FDS
  BY FdAssumption
<1>3. 0 \in S
  <2>1. \A i, k : CountBelow(table, i, k, 0) = 0
    BY CountSteps
  <2>2. QED
    BY <1>1, <1>2, <2>1 DEF Pipes, Pipe, SameRings
<1>4. ASSUME NEW n \in 1..MAX_FDS, n - 1 \in S PROVE n \in S
  <2>1. n - 1 \in Fds /\ n - 1 \in 0..MAX_FDS /\ n \in 0..MAX_FDS
    BY <1>2 DEF Fds
  <2>2. f[n - 1] \in Pipes /\ table[n - 1] \in Entry /\ f[n] = release(f[n - 1], table[n - 1])
    BY <1>1, <2>1
  <2> DEFINE e == table[n - 1]
             p(i) == f[n - 1][i]
             q(i) == f[n][i]
  <2>4. /\ SameRings(f[n - 1], f[n])
        /\ \A i \in PipeIndex :
             InUse(p(i)) /\ p(i).writers >= One(e, i, "PipeWrite") /\ p(i).readers >= One(e, i, "PipeRead") =>
                /\ InUse(q(i))
                /\ q(i).writers = p(i).writers - One(e, i, "PipeWrite")
                /\ q(i).readers = p(i).readers - One(e, i, "PipeRead")
    BY <2>2, ReleaseOne
  <2>5. Right(n - 1)
    BY <1>4
  <2>6. SameRings(ps, f[n])
    BY <2>4, <2>5 DEF SameRings
  <2>7. ASSUME NEW i \in PipeIndex, Counted(i)
        PROVE  /\ InUse(f[n][i])
               /\ f[n][i].writers = ps[i].writers - CountBelow(table, i, "PipeWrite", n)
               /\ f[n][i].readers = ps[i].readers - CountBelow(table, i, "PipeRead", n)
    <3> DEFINE w == CountBelow(table, i, "PipeWrite", n - 1)
               r == CountBelow(table, i, "PipeRead", n - 1)
               w1 == One(e, i, "PipeWrite")
               r1 == One(e, i, "PipeRead")
    <3>1. ps[i].writers \in Nat /\ ps[i].readers \in Nat
      BY DEF Pipes, Pipe
    <3>2. /\ CountBelow(table, i, "PipeWrite", n) = w + w1 /\ w \in Nat /\ w1 \in Nat
          /\ CountBelow(table, i, "PipeRead", n) = r + r1 /\ r \in Nat /\ r1 \in Nat
          /\ CountBelow(table, i, "PipeWrite", n) <= Count(table, i, "PipeWrite")
          /\ CountBelow(table, i, "PipeRead", n) <= Count(table, i, "PipeRead")
      BY CountTurn
    <3>3. InUse(p(i)) /\ p(i).writers = ps[i].writers - w /\ p(i).readers = ps[i].readers - r
      BY <2>5, <2>7
    <3>4. ps[i].writers >= w + w1 /\ ps[i].readers >= r + r1
      <4>1. Count(table, i, "PipeWrite") \in Nat /\ Count(table, i, "PipeRead") \in Nat
        BY CountType
      <4>2. ps[i].writers >= Count(table, i, "PipeWrite") /\ ps[i].readers >= Count(table, i, "PipeRead")
        BY <2>7
      <4> HIDE DEF w, r, w1, r1
      <4>3. QED
        BY <3>1, <3>2, <4>1, <4>2
    <3> HIDE DEF w, r, w1, r1, p, q
    <3>5. p(i).writers >= w1 /\ p(i).readers >= r1
      BY <3>1, <3>2, <3>3, <3>4
    <3>6. InUse(q(i)) /\ q(i).writers = p(i).writers - w1 /\ q(i).readers = p(i).readers - r1
      BY <2>4, <3>3, <3>5 DEF w1, r1
    <3>7. q(i).writers = ps[i].writers - (w + w1) /\ q(i).readers = ps[i].readers - (r + r1)
      BY <3>1, <3>2, <3>3, <3>6
    <3>8. QED
      BY <3>2, <3>6, <3>7 DEF q
  <2>9. QED
    BY <2>1, <2>6, <2>7
<1>5. \A n \in 0..MAX_FDS : n \in S
  <2> HIDE DEF S
  <2> QED
    BY <1>2, <1>3, <1>4, InductionUpTo
<1>6. MAX_FDS \in S
  BY <1>2, <1>5
<1>7. QED
  BY <1>1, <1>6 DEF Count

------------------------------------------------------------------------------
(* The holders of an end, over all tables *)

AllTables == [Tasks -> [Fds -> Entry]]
HeldOf(F, i, k) == {tf \in Tasks \X Fds : F[tf[1]][tf[2]] = End(i, k)}
Held(F, i, k) == Cardinality(HeldOf(F, i, k))

\* The tables with another one for task t, and with another descriptor fd in it.
PutTable(F, t, table) == [F EXCEPT ![t] = table]
PutFd(F, t, fd, e) == [F EXCEPT ![t][fd] = e]

LEMMA HoldersAreHeld == \A i, k : Cardinality(HoldersOf(i, k)) = Held(fds, i, k)
BY DEF HoldersOf, Held, HeldOf, End

LEMMA HeldIsFinite == \A F, i, k : IsFiniteSet(HeldOf(F, i, k))
<1>1. IsFiniteSet(Tasks) /\ IsFiniteSet(Fds)
  BY TaskAssumption, FdAssumption, FS_Interval DEF Tasks, Fds
<1>2. IsFiniteSet(Tasks \X Fds)
  BY <1>1, FS_Product
<1>3. \A F, i, k : HeldOf(F, i, k) \in SUBSET (Tasks \X Fds)
  BY DEF HeldOf
<1>4. QED
  BY <1>2, <1>3, FS_Subset

LEMMA PutTypes ==
  ASSUME NEW F \in AllTables, NEW t \in Tasks
  PROVE  /\ \A table \in [Fds -> Entry] : PutTable(F, t, table) \in AllTables
         /\ \A fd \in Fds, e \in Entry : PutFd(F, t, fd, e) \in AllTables
BY DEF AllTables, PutTable, PutFd

\* The holders of an end are those in one table and those in the others.
Others(H, t, i, k) == {tf \in HeldOf(H, i, k) : tf[1] # t}
Mine(H, t, i, k) == {tf \in HeldOf(H, i, k) : tf[1] = t}

LEMMA HeldParts ==
  ASSUME NEW F \in AllTables, NEW t \in Tasks, NEW i, NEW k
  PROVE  /\ Cardinality(Others(F, t, i, k)) \in Nat
         /\ Count(F[t], i, k) \in Nat
         /\ Held(F, i, k) = Cardinality(Others(F, t, i, k)) + Count(F[t], i, k)
<1> DEFINE O == Others(F, t, i, k)
           M == Mine(F, t, i, k)
           Hits == HitsBelow(F[t], i, k, MAX_FDS)
           second == [tf \in M |-> tf[2]]
<1>1. IsFiniteSet(O) /\ IsFiniteSet(M)
  BY HeldIsFinite, FS_Subset DEF Others, Mine
<1>2. Cardinality(O) \in Nat /\ Cardinality(M) \in Nat
  BY <1>1, FS_CardinalityType
<1>3. HeldOf(F, i, k) = O \union M /\ O \intersect M = {}
  BY DEF Others, Mine
<1>4. Held(F, i, k) = Cardinality(O) + Cardinality(M)
  <2> HIDE DEF O, M
  <2>1. Cardinality(O \union M) = Cardinality(O) + Cardinality(M) - Cardinality({})
    BY <1>1, <1>3, FS_Union
  <2>2. QED
    BY <1>2, <1>3, <2>1, FS_EmptySet DEF Held
<1>5. second \in Bijection(M, Hits)
  <2>1. \A tf \in M : tf = <<t, tf[2]>> /\ tf[2] \in Hits
    BY DEF Mine, HeldOf, HitsBelow, Fds
  <2>2. \A fd \in Hits : <<t, fd>> \in M
    BY DEF Mine, HeldOf, HitsBelow, Fds
  <2> HIDE DEF M, Hits
  <2>3. second \in [M -> Hits]
    BY <2>1
  <2>4. \A a, b \in M : second[a] = second[b] => a = b
    BY <2>1
  <2>5. \A fd \in Hits : \E tf \in M : second[tf] = fd
    <3> SUFFICES ASSUME NEW fd \in Hits PROVE \E tf \in M : second[tf] = fd
      OBVIOUS
    <3>1. <<t, fd>> \in M /\ second[<<t, fd>>] = fd
      BY <2>2
    <3>2. QED
      BY <3>1
  <2>6. QED
    BY <2>3, <2>4, <2>5 DEF Bijection, Injection, Surjection, IsInjective
<1>6. Cardinality(M) = Count(F[t], i, k)
  <2> HIDE DEF M, Hits, second
  <2>1. ExistsBijection(M, Hits)
    BY <1>5 DEF ExistsBijection
  <2>2. QED
    BY <1>1, <2>1, FS_Bijection DEF Hits, Count, CountBelow
<1>7. QED
  BY <1>2, <1>4, <1>6

\* Another table for a task.
LEMMA HeldTable ==
  ASSUME NEW F \in AllTables, NEW t \in Tasks, NEW table \in [Fds -> Entry], NEW i, NEW k
  PROVE  Held(PutTable(F, t, table), i, k) = (Held(F, i, k) - Count(F[t], i, k)) + Count(table, i, k)
<1> DEFINE G == PutTable(F, t, table)
<1>1. G \in AllTables /\ G[t] = table
  BY PutTypes DEF AllTables, PutTable
<1>2. Others(F, t, i, k) = Others(G, t, i, k)
  BY DEF Others, HeldOf, AllTables, PutTable
<1> HIDE DEF G
<1>3. /\ Cardinality(Others(F, t, i, k)) \in Nat /\ Count(F[t], i, k) \in Nat
      /\ Held(F, i, k) = Cardinality(Others(F, t, i, k)) + Count(F[t], i, k)
  BY HeldParts
<1>4. /\ Count(G[t], i, k) \in Nat
      /\ Held(G, i, k) = Cardinality(Others(G, t, i, k)) + Count(G[t], i, k)
  BY <1>1, HeldParts
<1>5. Held(G, i, k) = (Held(F, i, k) - Count(F[t], i, k)) + Count(table, i, k)
  BY <1>1, <1>2, <1>3, <1>4
<1>6. QED
  BY <1>5 DEF G

\* Another descriptor in a table.
LEMMA HeldEntry ==
  ASSUME NEW F \in AllTables, NEW t \in Tasks, NEW fd \in Fds, NEW e \in Entry,
         NEW old, old = F[t][fd], NEW i, NEW k
  PROVE  /\ Held(F, i, k) \in Nat /\ Held(F, i, k) >= One(old, i, k)
         /\ Held(PutFd(F, t, fd, e), i, k) = (Held(F, i, k) - One(old, i, k)) + One(e, i, k)
<1> DEFINE G == PutFd(F, t, fd, e)
           Rest(H) == HeldOf(H, i, k) \ {<<t, fd>>}
<1>1. /\ G[t][fd] = e
      /\ \A tf \in Tasks \X Fds : tf # <<t, fd>> => G[tf[1]][tf[2]] = F[tf[1]][tf[2]]
  BY DEF PutFd, AllTables
<1> HIDE DEF G
<1>2. ASSUME NEW H
      PROVE  /\ Cardinality(Rest(H)) \in Nat
             /\ Held(H, i, k) = Cardinality(Rest(H)) + One(H[t][fd], i, k)
  <2>1. IsFiniteSet(HeldOf(H, i, k)) /\ IsFiniteSet(Rest(H))
    BY HeldIsFinite, FS_Subset
  <2>2. Held(H, i, k) \in Nat /\ Cardinality(Rest(H)) \in Nat
    BY <2>1, FS_CardinalityType DEF Held
  <2>3. CASE H[t][fd] = End(i, k)
    <3>1. <<t, fd>> \in HeldOf(H, i, k)
      BY <2>3 DEF HeldOf
    <3>2. Cardinality(Rest(H)) = Held(H, i, k) - 1
      BY <2>1, <3>1, FS_RemoveElement DEF Held
    <3>3. QED
      BY <2>2, <2>3, <3>2 DEF One
  <2>4. CASE H[t][fd] # End(i, k)
    <3>1. Rest(H) = HeldOf(H, i, k)
      BY <2>4 DEF HeldOf
    <3>2. One(H[t][fd], i, k) = 0
      BY <2>4 DEF One
    <3> HIDE DEF Rest
    <3>3. QED
      BY <2>2, <3>1, <3>2 DEF Held
  <2>5. QED
    BY <2>3, <2>4
<1>3. Rest(F) = Rest(G)
  BY <1>1 DEF HeldOf
<1>4. One(F[t][fd], i, k) \in Nat /\ One(e, i, k) \in Nat
  BY DEF One
<1>5. /\ Held(F, i, k) \in Nat /\ Held(F, i, k) >= One(F[t][fd], i, k)
      /\ Held(G, i, k) = (Held(F, i, k) - One(F[t][fd], i, k)) + One(e, i, k)
  <2> HIDE DEF Rest
  <2> QED
    BY <1>1, <1>2, <1>3, <1>4
<1>6. QED
  BY <1>5 DEF G

\* EndsCounted, of any pipes and tables.
Counted(ps, F) ==
  \A i \in PipeIndex : /\ ps[i].writers = Held(F, i, "PipeWrite")
                       /\ ps[i].readers = Held(F, i, "PipeRead")
                       /\ InUse(ps[i])

LEMMA EndsCountedIsCounted == EndsCounted <=> Counted(PIPES, fds)
BY HoldersAreHeld DEF EndsCounted, Counted, InUse

\* An end that a descriptor holds belongs to a pipe in use.
LEMMA HeldIsUsed ==
  ASSUME NEW F \in AllTables, NEW ps \in Pipes, Counted(ps, F), NEW t \in Tasks, NEW fd \in Fds,
         NEW i \in PipeIndex, NEW k \in {"PipeRead", "PipeWrite"}, F[t][fd] = End(i, k)
  PROVE  ps[i].used
<1> DEFINE old == F[t][fd]
<1>1. old \in Entry /\ One(old, i, k) = 1
  BY DEF AllTables, One
<1> HIDE DEF old
<1>2. Held(F, i, k) \in Nat /\ Held(F, i, k) >= One(old, i, k)
  BY <1>1, HeldEntry DEF old
<1>3. QED
  BY <1>1, <1>2 DEF Counted, InUse

\* A descriptor that held no end is filled, and the end retained.
LEMMA FilledCounted ==
  ASSUME NEW F \in AllTables, NEW ps \in Pipes, Counted(ps, F), NEW t \in Tasks, NEW fd \in Fds,
         NEW e \in Entry, F[t][fd] = Empty,
         \A i \in PipeIndex, k \in {"PipeRead", "PipeWrite"} : e = End(i, k) => ps[i].used
  PROVE  Counted(retain(ps, e), PutFd(F, t, fd, e))
<1> DEFINE G == PutFd(F, t, fd, e)
           qs == retain(ps, e)
<1> SUFFICES ASSUME NEW i \in PipeIndex
             PROVE  /\ qs[i].writers = Held(G, i, "PipeWrite")
                    /\ qs[i].readers = Held(G, i, "PipeRead")
                    /\ InUse(qs[i])
  BY DEF Counted
<1>1. /\ qs[i].used = ps[i].used
      /\ qs[i].writers = ps[i].writers + (IF ps[i].used THEN One(e, i, "PipeWrite") ELSE 0)
      /\ qs[i].readers = ps[i].readers + (IF ps[i].used THEN One(e, i, "PipeRead") ELSE 0)
  BY RetainOne
<1>2. ASSUME NEW k \in {"PipeRead", "PipeWrite"}
      PROVE  Held(G, i, k) = Held(F, i, k) + One(e, i, k) /\ Held(F, i, k) \in Nat
  <2>1. One(Empty, i, k) = 0 /\ One(e, i, k) \in Nat
    BY DEF One, End, Empty
  <2>2. /\ Held(F, i, k) \in Nat
        /\ Held(G, i, k) = (Held(F, i, k) - One(Empty, i, k)) + One(e, i, k)
    BY HeldEntry
  <2> HIDE DEF G
  <2>3. QED
    BY <2>1, <2>2
<1>3. ASSUME NEW k \in {"PipeRead", "PipeWrite"}
      PROVE  One(e, i, k) \in Nat /\ (~ps[i].used => One(e, i, k) = 0)
  BY DEF One
<1>4. ps[i].writers = Held(F, i, "PipeWrite") /\ ps[i].readers = Held(F, i, "PipeRead") /\ InUse(ps[i])
  BY DEF Counted
<1> HIDE DEF G, qs
<1>5. /\ qs[i].writers = Held(F, i, "PipeWrite") + One(e, i, "PipeWrite")
      /\ qs[i].readers = Held(F, i, "PipeRead") + One(e, i, "PipeRead")
  BY <1>1, <1>2, <1>3, <1>4
<1>6. InUse(qs[i])
  BY <1>1, <1>2, <1>3, <1>4, <1>5 DEF InUse
<1>7. QED
  BY <1>2, <1>5, <1>6

\* A descriptor is emptied, and its end released.
LEMMA EmptiedCounted ==
  ASSUME NEW F \in AllTables, NEW ps \in Pipes, Counted(ps, F), NEW t \in Tasks, NEW fd \in Fds
  PROVE  Counted(release(ps, F[t][fd]), PutFd(F, t, fd, Empty))
<1> DEFINE G == PutFd(F, t, fd, Empty)
           e == F[t][fd]
           qs == release(ps, e)
<1> SUFFICES ASSUME NEW i \in PipeIndex
             PROVE  /\ qs[i].writers = Held(G, i, "PipeWrite")
                    /\ qs[i].readers = Held(G, i, "PipeRead")
                    /\ InUse(qs[i])
  BY DEF Counted
<1>1. e \in Entry /\ Empty \in Entry
  BY DEF AllTables, Entry
<1>2. ASSUME NEW k \in {"PipeRead", "PipeWrite"}
      PROVE  Held(G, i, k) = Held(F, i, k) - One(e, i, k) /\ Held(F, i, k) >= One(e, i, k)
  <2>1. One(Empty, i, k) = 0 /\ One(e, i, k) \in Nat
    BY DEF One, End, Empty
  <2> HIDE DEF e
  <2>2. /\ Held(F, i, k) \in Nat /\ Held(F, i, k) >= One(e, i, k)
        /\ Held(G, i, k) = (Held(F, i, k) - One(e, i, k)) + One(Empty, i, k)
    BY <1>1, HeldEntry DEF e
  <2> HIDE DEF G
  <2>3. QED
    BY <2>1, <2>2
<1>3. ps[i].writers = Held(F, i, "PipeWrite") /\ ps[i].readers = Held(F, i, "PipeRead") /\ InUse(ps[i])
  BY DEF Counted
<1> HIDE DEF G, e
<1>4. InUse(ps[i]) /\ ps[i].writers >= One(e, i, "PipeWrite") /\ ps[i].readers >= One(e, i, "PipeRead")
  BY <1>2, <1>3
<1>5. /\ InUse(qs[i])
      /\ qs[i].writers = ps[i].writers - One(e, i, "PipeWrite")
      /\ qs[i].readers = ps[i].readers - One(e, i, "PipeRead")
  BY <1>1, <1>4, ReleaseOne
<1>6. QED
  BY <1>2, <1>3, <1>5

\* A descriptor is filled with a file, or emptied of one.
LEMMA FileCounted ==
  ASSUME NEW F \in AllTables, NEW ps \in Pipes, Counted(ps, F), NEW t \in Tasks, NEW fd \in Fds,
         F[t][fd] = Empty
  PROVE  Counted(ps, PutFd(F, t, fd, [kind |-> "File", node |-> 0]))
<1> DEFINE e == [kind |-> "File", node |-> 0]
<1>1. e \in Entry /\ retain(ps, e) = ps
  BY DEF Entry, retain, IsPipe
<1>2. \A i \in PipeIndex, k \in {"PipeRead", "PipeWrite"} : e # End(i, k)
  BY DEF End
<1> HIDE DEF e
<1>3. Counted(retain(ps, e), PutFd(F, t, fd, e))
  BY <1>1, <1>2, FilledCounted
<1>4. QED
  BY <1>1, <1>3 DEF e

LEMMA EmptyCount ==
  ASSUME NEW i, NEW k \in {"PipeRead", "PipeWrite"}
  PROVE  Count(EmptyTable, i, k) = 0
<1>1. HitsBelow(EmptyTable, i, k, MAX_FDS) = {}
  BY DEF HitsBelow, EmptyTable, Empty, End, Fds
<1>2. QED
  BY <1>1, FS_EmptySet DEF Count, CountBelow

\* fork: an empty table takes the descriptors of another.
LEMMA CopiedCounted ==
  ASSUME NEW F \in AllTables, NEW ps \in Pipes, Counted(ps, F), NEW t \in Tasks, NEW u \in Tasks,
         F[u] = EmptyTable
  PROVE  Counted(RetainAll(ps, F[t]), PutTable(F, u, F[t]))
<1> DEFINE G == PutTable(F, u, F[t])
           T == F[t]
           qs == RetainAll(ps, T)
<1> SUFFICES ASSUME NEW i \in PipeIndex
             PROVE  /\ qs[i].writers = Held(G, i, "PipeWrite")
                    /\ qs[i].readers = Held(G, i, "PipeRead")
                    /\ InUse(qs[i])
  BY DEF Counted
<1>1. T \in [Fds -> Entry]
  BY DEF AllTables
<1>2. ASSUME NEW k \in {"PipeRead", "PipeWrite"}
      PROVE  /\ Held(G, i, k) = Held(F, i, k) + Count(T, i, k)
             /\ Held(F, i, k) \in Nat /\ Held(F, i, k) >= Count(T, i, k)
             /\ Count(T, i, k) \in Nat
  <2>1. Count(EmptyTable, i, k) = 0
    BY EmptyCount
  <2>2. /\ Count(T, i, k) \in Nat /\ Cardinality(Others(F, t, i, k)) \in Nat
        /\ Held(F, i, k) = Cardinality(Others(F, t, i, k)) + Count(T, i, k)
    BY HeldParts
  <2> HIDE DEF T
  <2>3. Held(G, i, k) = (Held(F, i, k) - Count(EmptyTable, i, k)) + Count(T, i, k)
    BY <1>1, HeldTable DEF T
  <2> HIDE DEF G
  <2>4. QED
    BY <2>1, <2>2, <2>3
<1>3. ps[i].writers = Held(F, i, "PipeWrite") /\ ps[i].readers = Held(F, i, "PipeRead") /\ InUse(ps[i])
  BY DEF Counted
<1> HIDE DEF G, T
<1>4. /\ qs[i].used = ps[i].used
      /\ ps[i].used => /\ qs[i].writers = ps[i].writers + Count(T, i, "PipeWrite")
                       /\ qs[i].readers = ps[i].readers + Count(T, i, "PipeRead")
      /\ ~ps[i].used => qs[i].writers = ps[i].writers /\ qs[i].readers = ps[i].readers
  BY <1>1, RetainAllCounts
<1>5. CASE ps[i].used
  BY <1>2, <1>3, <1>4, <1>5 DEF InUse
<1>6. CASE ~ps[i].used
  <2>1. /\ Held(F, i, "PipeWrite") = 0 /\ Held(F, i, "PipeRead") = 0
        /\ Count(T, i, "PipeWrite") = 0 /\ Count(T, i, "PipeRead") = 0
    BY <1>2, <1>3, <1>6 DEF InUse
  <2>2. /\ Held(G, i, "PipeWrite") = 0 /\ Held(G, i, "PipeRead") = 0
    BY <1>2, <2>1
  <2>3. qs[i].writers = 0 /\ qs[i].readers = 0 /\ ~qs[i].used
    BY <1>3, <1>4, <1>6, <2>1
  <2>4. QED
    BY <2>2, <2>3 DEF InUse
<1>7. QED
  BY <1>5, <1>6

\* close_all: what a table holds is given back.
LEMMA ClosedCounted ==
  ASSUME NEW F \in AllTables, NEW ps \in Pipes, Counted(ps, F), NEW t \in Tasks
  PROVE  Counted(ReleaseAll(ps, F[t]), PutTable(F, t, EmptyTable))
<1> DEFINE G == PutTable(F, t, EmptyTable)
           T == F[t]
           qs == ReleaseAll(ps, T)
<1> SUFFICES ASSUME NEW i \in PipeIndex
             PROVE  /\ qs[i].writers = Held(G, i, "PipeWrite")
                    /\ qs[i].readers = Held(G, i, "PipeRead")
                    /\ InUse(qs[i])
  BY DEF Counted
<1>1. T \in [Fds -> Entry] /\ EmptyTable \in [Fds -> Entry]
  BY DEF AllTables, EmptyTable, Entry
<1>2. ASSUME NEW k \in {"PipeRead", "PipeWrite"}
      PROVE  /\ Held(G, i, k) = Held(F, i, k) - Count(T, i, k)
             /\ Held(F, i, k) >= Count(T, i, k)
  <2>1. Count(EmptyTable, i, k) = 0
    BY EmptyCount
  <2>2. /\ Count(T, i, k) \in Nat /\ Cardinality(Others(F, t, i, k)) \in Nat
        /\ Held(F, i, k) = Cardinality(Others(F, t, i, k)) + Count(T, i, k)
    BY HeldParts
  <2> HIDE DEF T
  <2>3. Held(G, i, k) = (Held(F, i, k) - Count(T, i, k)) + Count(EmptyTable, i, k)
    BY <1>1, HeldTable DEF T
  <2> HIDE DEF G
  <2>4. QED
    BY <2>1, <2>2, <2>3
<1>3. ps[i].writers = Held(F, i, "PipeWrite") /\ ps[i].readers = Held(F, i, "PipeRead") /\ InUse(ps[i])
  BY DEF Counted
<1> HIDE DEF G, T
<1>4. /\ InUse(ps[i]) /\ ps[i].writers >= Count(T, i, "PipeWrite")
      /\ ps[i].readers >= Count(T, i, "PipeRead")
  BY <1>2, <1>3
<1>5. /\ InUse(qs[i])
      /\ qs[i].writers = ps[i].writers - Count(T, i, "PipeWrite")
      /\ qs[i].readers = ps[i].readers - Count(T, i, "PipeRead")
  BY <1>1, <1>4, ReleaseAllCounts
<1>6. QED
  BY <1>2, <1>3, <1>5

------------------------------------------------------------------------------
(* The steps keep the counts *)

\* What a step of the tables does to the pipes: holders change, and nothing else.
HoldersChange ==
  /\ PIPES' \in Pipes /\ SameRings(PIPES, PIPES') /\ UNCHANGED <<BUFFERS, sent>>
  /\ fds' \in AllTables
  /\ Counted(PIPES, fds) => Counted(PIPES', fds')

LEMMA FirstFreeFdIsFree ==
  ASSUME NEW S, S \subseteq Fds, S # {}
  PROVE  FirstFreeFd(S) \in S
<1>1. \E fd \in S : \A other \in S : fd <= other
  BY LeastNatural, FdAssumption DEF Fds
<1>2. QED
  BY <1>1, Zenon DEF FirstFreeFd

LEMMA OpenStep ==
  ASSUME PIPES \in Pipes, fds \in AllTables, NEW t \in Tasks, open(t)
  PROVE  HoldersChange
<1> DEFINE fd == FirstFreeFd(FreeFds(t))
           e == [kind |-> "File", node |-> 0]
<1>1. fd \in FreeFds(t)
  BY FirstFreeFdIsFree DEF open, FreeFds
<1>2. fd \in Fds /\ fds[t][fd] = Empty /\ e \in Entry
  BY <1>1 DEF FreeFds, Used, Entry
<1>3. fds' = PutFd(fds, t, fd, e) /\ UNCHANGED pipeVars
  BY DEF open, SetFd, PutFd
<1> HIDE DEF fd
<1>4. fds' \in AllTables
  BY <1>2, <1>3, PutTypes
<1>5. Counted(PIPES, fds) => Counted(PIPES, fds')
  BY <1>2, <1>3, FileCounted
<1>6. QED
  BY <1>3, <1>4, <1>5 DEF HoldersChange, SameRings, pipeVars

LEMMA DupStep ==
  ASSUME PIPES \in Pipes, fds \in AllTables, NEW t \in Tasks, NEW oldfd \in Fds, dup(t, oldfd)
  PROVE  HoldersChange
<1> DEFINE fd == FirstFreeFd(FreeFds(t))
           e == fds[t][oldfd]
<1>1. fd \in FreeFds(t)
  BY FirstFreeFdIsFree DEF dup, FreeFds
<1>2. fd \in Fds /\ fds[t][fd] = Empty /\ e \in Entry
  BY <1>1 DEF FreeFds, Used, AllTables
<1>3. fds' = PutFd(fds, t, fd, e) /\ PIPES' = retain(PIPES, e) /\ UNCHANGED <<BUFFERS, sent>>
  BY DEF dup, SetFd, PutFd
<1>4. ASSUME Counted(PIPES, fds), NEW i \in PipeIndex, NEW k \in {"PipeRead", "PipeWrite"}, e = End(i, k)
      PROVE  PIPES[i].used
  BY <1>4, HeldIsUsed
<1> HIDE DEF fd, e
<1>5. fds' \in AllTables
  BY <1>2, <1>3, PutTypes
<1>6. Counted(PIPES, fds) => Counted(PIPES', fds')
  BY <1>2, <1>3, <1>4, FilledCounted
<1>7. QED
  BY <1>2, <1>3, <1>5, <1>6, RetainOne DEF HoldersChange

LEMMA CloseStep ==
  ASSUME PIPES \in Pipes, fds \in AllTables, NEW t \in Tasks, NEW fd \in Fds, close(t, fd)
  PROVE  HoldersChange
<1> DEFINE e == fds[t][fd]
<1>1. e \in Entry /\ Empty \in Entry
  BY DEF Entry, AllTables
<1>2. fds' = PutFd(fds, t, fd, Empty) /\ PIPES' = release(PIPES, e) /\ UNCHANGED <<BUFFERS, sent>>
  BY DEF close, SetFd, PutFd
<1>3. Counted(PIPES, fds) => Counted(PIPES', fds')
  BY <1>2, EmptiedCounted
<1> HIDE DEF e
<1>4. fds' \in AllTables
  BY <1>1, <1>2, PutTypes
<1>5. QED
  BY <1>1, <1>2, <1>3, <1>4, ReleaseOne DEF HoldersChange

\* dup2 first empties the descriptor it fills.
LEMMA Dup2Step ==
  ASSUME PIPES \in Pipes, fds \in AllTables, NEW t \in Tasks, NEW oldfd \in Fds, NEW newfd \in Fds,
         dup2(t, oldfd, newfd)
  PROVE  HoldersChange
<1> DEFINE e == fds[t][oldfd]
           old == fds[t][newfd]
           ps == release(PIPES, old)
           F == PutFd(fds, t, newfd, Empty)
<1>1. e \in Entry /\ old \in Entry /\ Empty \in Entry
  BY DEF Entry, AllTables
<1>2. fds' = PutFd(F, t, newfd, e) /\ PIPES' = retain(ps, e) /\ UNCHANGED <<BUFFERS, sent>>
  BY DEF dup2, SetFd, PutFd, AllTables
<1>3. F[t][oldfd] = e /\ F[t][newfd] = Empty
  BY DEF PutFd, AllTables, dup2
<1>4. Counted(PIPES, fds) => Counted(ps, F)
  BY EmptiedCounted
<1> HIDE DEF F, old, e
<1>5. ps \in Pipes /\ SameRings(PIPES, ps) /\ F \in AllTables
  BY <1>1, ReleaseOne, PutTypes DEF F
<1> HIDE DEF ps
<1>6. ASSUME Counted(ps, F), NEW i \in PipeIndex, NEW k \in {"PipeRead", "PipeWrite"}, e = End(i, k)
      PROVE  ps[i].used
  BY <1>3, <1>5, <1>6, HeldIsUsed
<1>7. fds' \in AllTables
  BY <1>1, <1>2, <1>5, PutTypes
<1>8. Counted(ps, F) => Counted(PIPES', fds')
  BY <1>1, <1>2, <1>3, <1>5, <1>6, FilledCounted
<1>9. PIPES' \in Pipes /\ SameRings(ps, PIPES')
  BY <1>1, <1>2, <1>5, RetainOne
<1>10. SameRings(PIPES, PIPES')
  BY <1>5, <1>9 DEF SameRings
<1>11. QED
  BY <1>2, <1>4, <1>7, <1>8, <1>9, <1>10 DEF HoldersChange

\* close_all, as a task ends or the shell's kill does.
LEMMA CloseAllStep ==
  ASSUME PIPES \in Pipes, fds \in AllTables, NEW t \in Tasks, close_all(t), UNCHANGED <<BUFFERS, sent>>
  PROVE  HoldersChange
<1> DEFINE T == fds[t]
<1>1. T \in [Fds -> Entry] /\ EmptyTable \in [Fds -> Entry]
  BY DEF AllTables, EmptyTable, Entry
<1>2. fds' = PutTable(fds, t, EmptyTable) /\ PIPES' = ReleaseAll(PIPES, T)
  BY DEF close_all, PutTable
<1>3. Counted(PIPES, fds) => Counted(PIPES', fds')
  BY <1>2, ClosedCounted
<1> HIDE DEF T
<1>4. fds' \in AllTables
  BY <1>1, <1>2, PutTypes
<1>5. QED
  BY <1>1, <1>2, <1>3, <1>4, ReleaseAllCounts DEF HoldersChange

\* fork, into an empty table.
LEMMA ForkStep ==
  ASSUME PIPES \in Pipes, fds \in AllTables, DeadHoldNothing, NEW t \in Tasks, fork(t)
  PROVE  /\ PIPES' \in Pipes /\ SameRings(PIPES, PIPES') /\ UNCHANGED <<BUFFERS, sent>>
         /\ fds' \in AllTables
         /\ "takeover" \notin Ops /\ Counted(PIPES, fds) => Counted(PIPES', fds')
<1> DEFINE T == fds[t]
           u == NewTask
<1>1. T \in [Fds -> Entry] /\ u \in Tasks /\ life[u] = "free"
  BY NewTaskIsFree DEF AllTables, fork
<1>2. /\ fds' = PutTable(fds, u, T) /\ PIPES' = RetainAll(PIPES, T) /\ UNCHANGED <<BUFFERS, sent>>
      /\ u = killing => "takeover" \in Ops
  BY DEF fork, PutTable
<1> HIDE DEF u
<1>3. "takeover" \notin Ops => fds[u] = EmptyTable
  BY <1>1, <1>2 DEF DeadHoldNothing
<1>4. "takeover" \notin Ops /\ Counted(PIPES, fds) => Counted(PIPES', fds')
  BY <1>1, <1>2, <1>3, CopiedCounted
<1> HIDE DEF T
<1>5. fds' \in AllTables
  BY <1>1, <1>2, PutTypes
<1>6. QED
  BY <1>1, <1>2, <1>4, <1>5, RetainAllCounts

PutPipe(ps, i, q) == [ps EXCEPT ![i] = q]

\* A pipe that holds no byte.
Bare(u, w, r) == [used |-> u, head |-> 0, tail |-> 0, writers |-> w, readers |-> r]

\* close_end of the reader of a new pipe.
LEMMA CloseReader ==
  ASSUME NEW ps \in Pipes, NEW i \in PipeIndex, ps[i] = Bare(TRUE, 1, 1)
  PROVE  close_end(ps, i, FALSE) = PutPipe(ps, i, Bare(TRUE, 1, 0))
<1> DEFINE p == Bare(TRUE, 1, 1)
           w == IF FALSE /\ p.writers > 0 THEN p.writers - 1 ELSE p.writers
           r == IF ~FALSE /\ p.readers > 0 THEN p.readers - 1 ELSE p.readers
           u == w > 0 \/ r > 0
<1>1. p.used /\ p.writers = 1 /\ p.readers = 1
  BY DEF Bare
<1>2. w = 1 /\ r = 0
  <2> HIDE DEF p
  <2> QED
    BY <1>1
<1>3. p.used => close_end(ps, i, FALSE) = [ps EXCEPT ![i] = [p EXCEPT !.writers = w, !.readers = r, !.used = u]]
  BY Zenon DEF close_end
<1>4. u = TRUE
  <2> HIDE DEF w, r
  <2> QED
    BY <1>2
<1> HIDE DEF u, w, r
<1>5. [p EXCEPT !.writers = 1, !.readers = 0, !.used = TRUE] = Bare(TRUE, 1, 0)
  <2> DEFINE q == Bare(TRUE, 1, 0)
  <2>1. p \in Pipe /\ p.head = 0 /\ p.tail = 0 /\ q \in Pipe /\ q.head = 0 /\ q.tail = 0
    BY CapacityAssumption DEF Bare, Pipe, Positions
  <2>2. q.writers = 1 /\ q.readers = 0 /\ q.used = TRUE
    BY DEF Bare
  <2> HIDE DEF p, q
  <2>3. q = [p EXCEPT !.writers = 1, !.readers = 0, !.used = TRUE]
    BY <2>1, <2>2 DEF Pipe
  <2>4. QED
    BY <2>3 DEF q
<1> HIDE DEF p
<1>6. QED
  BY <1>1, <1>2, <1>3, <1>4, <1>5 DEF PutPipe

\* close_end of its writer after that: the pipe is free again.
LEMMA CloseWriter ==
  ASSUME NEW ps \in Pipes, NEW i \in PipeIndex, ps[i] = Bare(TRUE, 1, 0)
  PROVE  close_end(ps, i, TRUE) = PutPipe(ps, i, Bare(FALSE, 0, 0))
<1> DEFINE p == Bare(TRUE, 1, 0)
           w == IF TRUE /\ p.writers > 0 THEN p.writers - 1 ELSE p.writers
           r == IF ~TRUE /\ p.readers > 0 THEN p.readers - 1 ELSE p.readers
           u == w > 0 \/ r > 0
<1>1. p.used /\ p.writers = 1 /\ p.readers = 0
  BY DEF Bare
<1>2. w = 0 /\ r = 0
  <2> HIDE DEF p
  <2> QED
    BY <1>1
<1>3. p.used => close_end(ps, i, TRUE) = [ps EXCEPT ![i] = [p EXCEPT !.writers = w, !.readers = r, !.used = u]]
  BY Zenon DEF close_end
<1>4. u = FALSE
  <2> HIDE DEF w, r
  <2> QED
    BY <1>2
<1> HIDE DEF u, w, r
<1>5. [p EXCEPT !.writers = 0, !.readers = 0, !.used = FALSE] = Bare(FALSE, 0, 0)
  <2> DEFINE q == Bare(FALSE, 0, 0)
  <2>1. p \in Pipe /\ p.head = 0 /\ p.tail = 0 /\ q \in Pipe /\ q.head = 0 /\ q.tail = 0
    BY CapacityAssumption DEF Bare, Pipe, Positions
  <2>2. q.writers = 0 /\ q.readers = 0 /\ q.used = FALSE
    BY DEF Bare
  <2> HIDE DEF p, q
  <2>3. q = [p EXCEPT !.writers = 0, !.readers = 0, !.used = FALSE]
    BY <2>1, <2>2 DEF Pipe
  <2>4. QED
    BY <2>3 DEF q
<1> HIDE DEF p
<1>6. QED
  BY <1>1, <1>2, <1>3, <1>4, <1>5 DEF PutPipe

\* create_pipe: the pipe is new, and both its ends are in the table, or none.
LEMMA CreatePipeStep ==
  ASSUME PipeInv, fds \in AllTables, NEW t \in Tasks, create_pipe(t)
  PROVE  /\ PipeInv' /\ fds' \in AllTables
         /\ Counted(PIPES, fds) => Counted(PIPES', fds')
<1> DEFINE i == NewPipe(PIPES)
           r == FirstFreeFd(FreeFds(t))
           w == FirstFreeFd(FreeFds(t) \ {r})
<1>1. i \in PipeIndex /\ ~PIPES[i].used
  BY NewPipeIsFree DEF create_pipe
<1>2. created(PIPES) = [PIPES EXCEPT ![i] = Fresh]
  BY DEF created, Fresh
<1>3. PIPES \in [PipeIndex -> Pipe] /\ sent' = [sent EXCEPT ![i] = <<>>] /\ UNCHANGED BUFFERS
  BY DEF PipeInv, PipeTypeOK, create_pipe
<1>4. ASSUME Counted(PIPES, fds), NEW k \in {"PipeRead", "PipeWrite"}
      PROVE  Held(fds, i, k) = 0
  BY <1>1, <1>3, <1>4 DEF Counted, InUse, Pipe
<1>5. CASE /\ Cardinality(FreeFds(t)) >= 2
           /\ PIPES' = created(PIPES)
           /\ fds' = [fds EXCEPT ![t] = [@ EXCEPT ![r] = End(i, "PipeRead"), ![w] = End(i, "PipeWrite")]]
  <2>1. r \in FreeFds(t) /\ w \in FreeFds(t) \ {r}
    <3>1. FreeFds(t) # {} /\ FreeFds(t) \ {r} # {} /\ FreeFds(t) \subseteq Fds
      <4>1. FreeFds(t) # {}
        BY <1>5, FS_EmptySet
      <4> HIDE DEF r
      <4>2. Cardinality({r}) = 1
        BY FS_Singleton
      <4>3. FreeFds(t) # {r}
        BY <1>5, <4>2
      <4>4. QED
        BY <4>1, <4>3 DEF FreeFds
    <3> HIDE DEF r
    <3>2. w \in FreeFds(t) \ {r}
      BY <3>1, FirstFreeFdIsFree
    <3>3. QED
      BY <3>1, <3>2, FirstFreeFdIsFree DEF r
  <2>2. /\ r \in Fds /\ w \in Fds /\ r # w
        /\ fds[t][r] = Empty /\ fds[t][w] = Empty
    BY <2>1 DEF FreeFds, Used
  <2> HIDE DEF i, r, w
  <2> DEFINE e == End(i, "PipeRead")
             f == End(i, "PipeWrite")
             F == PutFd(fds, t, r, e)
  <2>3. e \in Entry /\ f \in Entry
    BY <1>1 DEF End, Entry
  <2>4. fds' = PutFd(F, t, w, f) /\ F[t][w] = Empty
    BY <1>5, <2>2 DEF PutFd, AllTables
  <2>5. \A k \in {"PipeRead", "PipeWrite"} : /\ One(e, i, k) = (IF k = "PipeRead" THEN 1 ELSE 0)
                                             /\ One(f, i, k) = (IF k = "PipeWrite" THEN 1 ELSE 0)
    BY DEF One, End
  <2>6. \A j \in PipeIndex \ {i}, k \in {"PipeRead", "PipeWrite"} :
          One(e, j, k) = 0 /\ One(f, j, k) = 0
    BY DEF One, End
  <2>7. \A j \in PipeIndex, k \in {"PipeRead", "PipeWrite"} : One(Empty, j, k) = 0
    BY DEF One, End, Empty
  <2> HIDE DEF e, f
  <2>8. F \in AllTables
    BY <2>2, <2>3, PutTypes
  <2>9. ASSUME NEW j \in PipeIndex, NEW k \in {"PipeRead", "PipeWrite"}
        PROVE  /\ Held(fds, j, k) \in Nat
               /\ Held(F, j, k) = (Held(fds, j, k) - One(Empty, j, k)) + One(e, j, k)
    BY <2>2, <2>3, HeldEntry
  <2> HIDE DEF F
  <2>10. fds' \in AllTables
    BY <2>2, <2>3, <2>4, <2>8, PutTypes
  <2>11. ASSUME NEW j \in PipeIndex, NEW k \in {"PipeRead", "PipeWrite"}
         PROVE  Held(fds', j, k) = (Held(F, j, k) - One(Empty, j, k)) + One(f, j, k)
    BY <2>2, <2>3, <2>4, <2>8, HeldEntry
  <2>12. ASSUME Counted(PIPES, fds)
         PROVE  Counted(PIPES', fds')
    <3> SUFFICES ASSUME NEW j \in PipeIndex
                 PROVE  /\ PIPES'[j].writers = Held(fds', j, "PipeWrite")
                        /\ PIPES'[j].readers = Held(fds', j, "PipeRead")
                        /\ InUse(PIPES'[j])
      BY DEF Counted
    <3>1. CASE j = i
      <4>1. Held(fds', j, "PipeWrite") = 1 /\ Held(fds', j, "PipeRead") = 1
        BY <1>4, <2>5, <2>7, <2>9, <2>11, <2>12, <3>1
      <4>2. PIPES'[j] = Fresh
        BY <1>2, <1>3, <1>5, <3>1
      <4>3. QED
        BY <4>1, <4>2 DEF Fresh, InUse
    <3>2. CASE j # i
      <4>1. \A k \in {"PipeRead", "PipeWrite"} : Held(fds', j, k) = Held(fds, j, k)
        BY <2>6, <2>7, <2>9, <2>11, <3>2
      <4>2. PIPES'[j] = PIPES[j]
        BY <1>2, <1>3, <1>5, <3>2
      <4>3. QED
        BY <2>12, <4>1, <4>2 DEF Counted
    <3>3. QED
      BY <3>1, <3>2
  <2>13. PipeInv'
    BY <1>1, <1>2, <1>3, <1>5, FreshIsEmpty, EmptyPipeStep
  <2>14. QED
    BY <2>10, <2>12, <2>13
<1>6. CASE /\ PIPES' = close_end(close_end(created(PIPES), i, FALSE), i, TRUE)
           /\ UNCHANGED fds
  <2> HIDE DEF i
  <2> DEFINE gone == Bare(FALSE, 0, 0)
             half == Bare(TRUE, 1, 0)
             ps == PutPipe(PIPES, i, Fresh)
             qs == PutPipe(PIPES, i, half)
  <2>0. Fresh = Bare(TRUE, 1, 1) /\ Fresh \in Pipe /\ half \in Pipe
    BY CapacityAssumption DEF Fresh, Bare, Pipe, Positions
  <2>1. close_end(ps, i, FALSE) = qs
    <3>1. ps \in Pipes /\ ps[i] = Fresh
      BY <1>1, <1>3, <2>0 DEF PutPipe, Pipes
    <3>2. close_end(ps, i, FALSE) = PutPipe(ps, i, half)
      <4> HIDE DEF ps
      <4> QED
        BY <1>1, <2>0, <3>1, CloseReader
    <3>3. QED
      BY <1>1, <1>3, <3>2 DEF PutPipe
  <2>2. close_end(qs, i, TRUE) = PutPipe(PIPES, i, gone)
    <3>1. qs \in Pipes /\ qs[i] = half
      <4> HIDE DEF half
      <4> QED
        BY <1>1, <1>3, <2>0 DEF PutPipe, Pipes
    <3>2. close_end(qs, i, TRUE) = PutPipe(qs, i, gone)
      <4> HIDE DEF qs
      <4> QED
        BY <1>1, <3>1, CloseWriter
    <3>3. QED
      <4> HIDE DEF half, gone
      <4> QED
        BY <1>1, <1>3, <3>2 DEF PutPipe
  <2>3. PIPES' = [PIPES EXCEPT ![i] = gone]
    BY <1>2, <1>6, <2>1, <2>2 DEF PutPipe
  <2>4. gone \in Pipe /\ gone.head = 0 /\ gone.tail = 0
         /\ gone.writers = 0 /\ gone.readers = 0 /\ gone.used = FALSE
    BY CapacityAssumption DEF Bare, Pipe, Positions
  <2>5. ASSUME Counted(PIPES, fds)
        PROVE  Counted(PIPES', fds)
    <3>1. Held(fds, i, "PipeWrite") = 0 /\ Held(fds, i, "PipeRead") = 0
      BY <1>4, <2>5
    <3>2. QED
      BY <1>1, <1>3, <2>3, <2>4, <2>5, <3>1 DEF Counted, InUse
  <2> HIDE DEF gone
  <2>6. PipeInv'
    BY <1>1, <1>3, <2>3, <2>4, EmptyPipeStep
  <2>7. QED
    BY <1>6, <2>5, <2>6
<1>7. QED
  BY <1>5, <1>6 DEF create_pipe, End


------------------------------------------------------------------------------
(* The theorems about the tables *)

TaskTypes ==
  /\ life \in [Tasks -> {"free", "live", "leaving", "zombie"}]
  /\ waitable \in [Tasks -> BOOLEAN]
  /\ polling \in [Tasks -> {<<>>} \union (Fds \X (SUBSET {"POLLIN", "POLLOUT"}) \X BOOLEAN)]
  /\ killing \in Tasks \union {NoTask}

LEMMA TaskTypesKept == ASSUME TaskTypes, [Next]_vars PROVE TaskTypes'
<1>1. CASE Start \/ \E t \in Tasks : fork(t)
  <2>1. NewTask \in Tasks
    BY <1>1, NewTaskIsFree DEF Start, fork
  <2>2. QED
    BY <1>1, <2>1 DEF Start, fork, TaskTypes
<1>2. CASE ShellKillEnds
  BY <1>2 DEF ShellKillEnds, TaskTypes
<1>3. ASSUME NEW t \in Tasks, Dies(t), UNCHANGED waitable, killing' \in Tasks \union {NoTask}
      PROVE  TaskTypes'
  BY <1>3 DEF Dies, TaskTypes
<1>4. CASE \E t \in Tasks : \/ TerminateCurrent(t) \/ ShellKill(t)
                            \/ \E victim \in Tasks : Kill(t, victim)
  BY <1>3, <1>4 DEF TerminateCurrent, ShellKill, Kill, TaskTypes
<1>5. CASE \E t \in Tasks : Reaped(t) \/ Exit(t) \/ PollEnds(t)
  BY <1>5 DEF Reaped, Exit, PollEnds, TaskTypes
<1>6. ASSUME NEW t \in Tasks, NEW fd \in Fds, NEW ev \in {"POLLIN", "POLLOUT"}, NEW timed \in BOOLEAN,
             poll(t, fd, {ev}, timed)
      PROVE  TaskTypes'
  BY <1>6 DEF poll, TaskTypes
<1>7. CASE UNCHANGED <<life, waitable, polling, killing>>
  BY <1>7 DEF TaskTypes
<1>8. CASE \E t \in Tasks :
             \/ open(t) \/ create_pipe(t)
             \/ \E fd \in Fds :
                  \/ dup(t, fd) \/ close(t, fd)
                  \/ \E newfd \in Fds : dup2(t, fd, newfd)
                  \/ \E n \in 1..MaxWrite : ReadFd(t, fd, n)
                  \/ \E bytes \in Messages : WriteFd(t, fd, bytes)
  BY <1>7, <1>8 DEF open, create_pipe, dup, close, dup2, ReadFd, WriteFd, fileVars
<1>9. QED
  BY <1>1, <1>2, <1>4, <1>5, <1>6, <1>7, <1>8 DEF Next, Call, vars, fileVars

\* Pipes, rings and tables keep their types, and their counts as long as no
\* fork takes the slot of a kill that is half done.
TablesKept ==
  /\ PipeInv' /\ fds' \in AllTables
  /\ "takeover" \notin Ops /\ Counted(PIPES, fds) => Counted(PIPES', fds')

LEMMA HoldersChangeKeep ==
  ASSUME PipeInv, PIPES' \in Pipes, SameRings(PIPES, PIPES'), UNCHANGED <<BUFFERS, sent>>
  PROVE  PipeInv'
BY HoldersKeep DEF Pipes, SameRings

\* A step that moves ends from table to table, or changes none.
LEMMA HoldersChangeIsKept == ASSUME PipeInv, HoldersChange PROVE TablesKept
BY HoldersChangeKeep DEF HoldersChange, TablesKept

\* A step on the contents of the rings.
LEMMA ReadFdStep ==
  ASSUME PipeInv, fds \in AllTables, NEW t \in Tasks, NEW fd \in Fds, NEW n \in 1..MaxWrite,
         ReadFd(t, fd, n)
  PROVE  TablesKept
<1> DEFINE e == fds[t][fd]
           i == e.node
<1>1. e \in Entry
  BY DEF AllTables
<1>2. e.kind = "PipeRead" /\ read(i, n) /\ UNCHANGED fds
  BY DEF ReadFd, fileVars
<1>3. i \in PipeIndex /\ n \in Nat
  BY <1>1, <1>2, MaxWriteAssumption DEF Entry, Empty
<1>4. PipeInv'
  BY <1>2, <1>3, ReadStep
<1> HIDE DEF i
<1>5. \A j \in PipeIndex : /\ PIPES'[j].writers = PIPES[j].writers
                           /\ PIPES'[j].readers = PIPES[j].readers
                           /\ PIPES'[j].used = PIPES[j].used
  BY <1>2, <1>3 DEF read, PipeInv, PipeTypeOK, Pipe
<1>6. QED
  BY <1>2, <1>4, <1>5 DEF TablesKept, Counted, InUse

LEMMA WriteFdStep ==
  ASSUME PipeInv, fds \in AllTables, NEW t \in Tasks, NEW fd \in Fds, NEW bytes \in Messages,
         WriteFd(t, fd, bytes)
  PROVE  TablesKept
<1> DEFINE e == fds[t][fd]
           i == e.node
<1>1. e \in Entry
  BY DEF AllTables
<1>2. e.kind = "PipeWrite" /\ write(i, bytes) /\ UNCHANGED fds
  BY DEF WriteFd, fileVars
<1>3. i \in PipeIndex
  BY <1>1, <1>2 DEF Entry, Empty
<1>4. bytes \in Seq(Byte)
  BY MaxWriteAssumption DEF Messages
<1>5. PipeInv'
  BY <1>2, <1>3, <1>4, WriteStep
<1> HIDE DEF i
<1>6. \A j \in PipeIndex : /\ PIPES'[j].writers = PIPES[j].writers
                           /\ PIPES'[j].readers = PIPES[j].readers
                           /\ PIPES'[j].used = PIPES[j].used
  BY <1>2, <1>3 DEF write, PipeInv, PipeTypeOK, Pipe
<1>7. QED
  BY <1>2, <1>5, <1>6 DEF TablesKept, Counted, InUse

LEMMA TablesStep ==
  ASSUME PipeInv, fds \in AllTables, DeadHoldNothing, TaskTypes, [Next]_vars
  PROVE  TablesKept
<1>1. PIPES \in Pipes
  BY DEF PipeInv, PipeTypeOK, Pipes
<1>2. ASSUME NEW t \in Tasks, Call(t)
      PROVE  TablesKept
  <2>1. CASE open(t)
    BY <1>1, <2>1, OpenStep, HoldersChangeIsKept
  <2>2. CASE create_pipe(t)
    BY <2>2, CreatePipeStep DEF TablesKept
  <2>3. CASE fork(t)
    BY <1>1, <2>3, ForkStep, HoldersChangeKeep DEF TablesKept
  <2>4. CASE UNCHANGED <<pipeVars, fds>>
    BY <1>1, <2>4 DEF TablesKept, pipeVars, PipeInv, PipeTypeOK, OnlyTheSeamIsLost, Intact
  <2>5. CASE Exit(t)
    BY <2>4, <2>5 DEF Exit
  <2>6. ASSUME NEW fd \in Fds, dup(t, fd)
        PROVE  TablesKept
    BY <1>1, <2>6, DupStep, HoldersChangeIsKept
  <2>7. ASSUME NEW fd \in Fds, close(t, fd)
        PROVE  TablesKept
    BY <1>1, <2>7, CloseStep, HoldersChangeIsKept
  <2>8. ASSUME NEW fd \in Fds, NEW newfd \in Fds, dup2(t, fd, newfd)
        PROVE  TablesKept
    BY <1>1, <2>8, Dup2Step, HoldersChangeIsKept
  <2>9. ASSUME NEW fd \in Fds, \E ev \in {"POLLIN", "POLLOUT"}, timed \in BOOLEAN : poll(t, fd, {ev}, timed)
        PROVE  TablesKept
    BY <2>4, <2>9 DEF poll
  <2>10. ASSUME NEW victim \in Tasks, Kill(t, victim)
         PROVE  TablesKept
    BY <1>1, <2>10, CloseAllStep, HoldersChangeIsKept DEF Kill
  <2>11. QED
    BY <1>2, <2>1, <2>2, <2>3, <2>5, <2>6, <2>7, <2>8, <2>9, <2>10, ReadFdStep, WriteFdStep DEF Call
<1>3. ASSUME NEW t \in Tasks, TerminateCurrent(t)
      PROVE  TablesKept
  BY <1>1, <1>3, CloseAllStep, HoldersChangeIsKept DEF TerminateCurrent
<1>4. CASE ShellKillEnds
  <2>1. killing \in Tasks
    BY <1>4 DEF ShellKillEnds, TaskTypes
  <2>2. QED
    BY <1>1, <1>4, <2>1, CloseAllStep, HoldersChangeIsKept DEF ShellKillEnds
<1>5. CASE UNCHANGED <<pipeVars, fds>>
  BY <1>1, <1>5 DEF TablesKept, pipeVars, PipeInv, PipeTypeOK, OnlyTheSeamIsLost, Intact
<1>6. CASE Start \/ \E t \in Tasks : PollEnds(t) \/ ShellKill(t) \/ Reaped(t)
  BY <1>5, <1>6 DEF Start, PollEnds, ShellKill, Reaped
<1>7. QED
  BY <1>2, <1>3, <1>4, <1>5, <1>6 DEF Next, vars, fileVars

\* Nobody holds an end of a new pipe table.
LEMMA NothingHeld ==
  ASSUME Init
  PROVE  fds \in AllTables /\ Counted(PIPES, fds)
<1>1. fds \in AllTables
  BY DEF Init, AllTables, EmptyTable, Entry
<1>2. ASSUME NEW i \in PipeIndex, NEW k \in {"PipeRead", "PipeWrite"}
      PROVE  Held(fds, i, k) = 0
  <2>1. \A t \in Tasks, fd \in Fds : fds[t][fd] # End(i, k)
    BY DEF Init, EmptyTable, Empty, End
  <2>2. HeldOf(fds, i, k) = {}
    BY <2>1 DEF HeldOf
  <2>3. QED
    BY <2>2, FS_EmptySet DEF Held
<1>3. QED
  BY <1>1, <1>2 DEF Init, PipeInit, Counted, InUse

\* The tables and the pipes together.
TablesInv ==
  /\ PipeInv /\ TaskTypes /\ fds \in AllTables
  /\ "takeover" \notin Ops => Counted(PIPES, fds)

\* Whatever calls the tasks make, and also when a fork takes the slot of the
\* shell's kill (terminate, clone_into, close_all): the tables and the pipes keep
\* their types and the rings their contents, and without that takeover every
\* pipe counts its holders.
THEOREM TablesSound == Spec => []TablesInv
<1>1. Init => TablesInv
  <2>1. Init => TaskTypes
    BY DEF Init, TaskTypes
  <2>2. QED
    BY <2>1, PipeInitInv, NothingHeld DEF Init, TablesInv
<1>2. TablesInv /\ DeadHoldNothing /\ [Next]_vars => TablesInv'
  BY TablesStep, TaskTypesKept DEF TablesInv, TablesKept
<1>3. QED
  BY <1>1, <1>2, TheDeadHoldNothing, PTL DEF Spec

\* Type correctness of the tables, the tasks and the pipes.
THEOREM FilesTypes == Spec => []FilesTypeOK
<1>1. TablesInv => FilesTypeOK
  BY DEF TablesInv, FilesTypeOK, PipeInv, TaskTypes, AllTables
<1>2. QED
  BY <1>1, TablesSound, PTL

\* write through descriptors never overwrites an unread byte, but for the one at
\* the last position: reads and writes of any tasks, through any descriptors
\* that dup, dup2 and fork made.
THEOREM DescriptorsKeepUnread == Spec => []OnlyTheSeamIsLost
<1>1. TablesInv => OnlyTheSeamIsLost
  BY DEF TablesInv, PipeInv
<1>2. QED
  BY <1>1, TablesSound, PTL

\* Each pipe counts exactly the descriptors that name its ends and is in use
\* exactly while there are any (allocate_pipe, add_ref, close_end, clone_into,
\* close_all), as long as no fork takes the slot of a kill that is half done.
THEOREM EndsAreCounted == ASSUME "takeover" \notin Ops PROVE Spec => []FilesInv
<1>1. TablesInv => FilesInv
  BY EndsCountedIsCounted DEF TablesInv, FilesInv, FilesTypeOK, PipeInv, TaskTypes, AllTables
<1>2. QED
  BY <1>1, TablesSound, PTL
====
