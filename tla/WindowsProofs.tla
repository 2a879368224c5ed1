---------------------------- MODULE WindowsProofs ----------------------------
(***************************************************************************)
(* Proofs for Windows: the z-order stays a permutation of the slots used   *)
(* although raise is preempted, the addresses of a program's windows stay  *)
(* apart, every window has a live owner, and focus and drag name windows   *)
(* that are open.                                                          *)
(***************************************************************************)
EXTENDS Windows, Induction, FiniteSetTheorems, SequenceTheorems

LEMMA Sizes ==
  /\ MAX_WINDOWS \in Nat /\ MAX_WINDOWS > 0 /\ WINDOW_MAP_SLOTS \in Nat
  /\ QUEUE_SIZE \in Nat /\ QUEUE_SIZE > 0 /\ KEY_QUEUE \in Nat /\ KEY_QUEUE > 0
BY SizesAssumption

Window == [used : BOOLEAN, owner : Tasks \union {System}, place : Places,
           address : 0 .. WINDOW_MAP_SLOTS, dragged : BOOLEAN]

Event == [kind : {"key", "press", "release"}, place : Places]

Inside == [at : {"idle", "raise", "move", "kill"}, window : Slots \union Tasks \union {None},
           title : BOOLEAN, seen : Nat]

WTypes ==
  /\ windows \in [Slots -> Window]
  /\ Z_ORDER \in Seq(Slots)
  /\ FOCUSED \in Slots \union {None} /\ DRAG_WINDOW \in Slots \union {None}
  /\ queue \in Seq(Events) /\ Len(queue) < QUEUE_SIZE
  /\ keys \in [Slots -> 0 .. KEY_QUEUE - 1]
  /\ desktop \in Inside
  /\ desktop.at = "kill" => desktop.window \in Tasks
  /\ task \in [Tasks -> {"none", "running", "ending"}]

LEMMA ClosedIsWindow == Closed \in Window /\ ~Closed.used
<1>1. (CHOOSE p \in Places : TRUE) \in Places
  BY PlacesAssumption
<1>2. QED
  BY <1>1, Sizes DEF Closed, Window, None

LEMMA IdleIsInside ==
  /\ Idle \in Inside /\ Idle.at = "idle" /\ ~Idle.title
  /\ \A w \in 1 .. MAX_WINDOWS :
       LET d == [Idle EXCEPT !.at = "raise", !.window = w]
       IN  d \in Inside /\ d.at = "raise" /\ d.window = w /\ ~d.title
  /\ \A t \in Tasks :
       LET d == [Idle EXCEPT !.at = "kill", !.window = t]
       IN  d \in Inside /\ d.at = "kill" /\ d.window = t /\ ~d.title
BY DEF Idle, Inside, Slots

LEMMA EventsAreEvents == Events \subseteq Event
<1>1. Closed.place \in Places
  BY ClosedIsWindow DEF Window
<1>2. QED
  BY <1>1 DEF Events, Event

------------------------------------------------------------------------------
(* The z-order *)

\* The slots are numbered as they are first used, each is in the z-order once, and
\* what raise has read of it stays true while it is preempted.
Order ==
  /\ ZOrderComplete /\ count <= MAX_WINDOWS
  /\ desktop.at \in {"raise", "move"} => desktop.window \in 1 .. count
  /\ desktop.at = "move"
       => /\ desktop.seen \in 0 .. count
          /\ \E i \in 1 .. desktop.seen : Z_ORDER[i] = desktop.window

Elements(s) == {s[i] : i \in 1 .. Len(s)}

Up(z, n, p, w) == SubSeq(z, 1, p - 1) \o SubSeq(z, p + 1, n) \o <<w>> \o SubSeq(z, n + 1, Len(z))

\* Moving an element to the last of the first n places loses none of the others.
LEMMA MovedUp ==
  ASSUME NEW z \in Seq(Slots), NEW n \in 0 .. Len(z), NEW p \in 1 .. n, NEW w \in Slots, z[p] = w
  PROVE  LET r == Up(z, n, p, w)
         IN  /\ r \in Seq(Slots) /\ Len(r) = Len(z)
             /\ Elements(r) = Elements(z)
<1> DEFINE r == Up(z, n, p, w)
           a == SubSeq(z, 1, p - 1)
           b == SubSeq(z, p + 1, n)
           c == SubSeq(z, n + 1, Len(z))
<1>1. Len(z) \in Nat /\ n \in Nat /\ p \in Nat /\ 1 <= p /\ p <= n /\ n <= Len(z)
  OBVIOUS
<1>2. a \in Seq(Slots) /\ Len(a) = p - 1 /\ \A i \in 1 .. p - 1 : a[i] = z[i]
  BY <1>1, SubSeqProperties
<1>3. b \in Seq(Slots) /\ Len(b) = n - p /\ \A i \in 1 .. n - p : b[i] = z[p + i]
  BY <1>1, SubSeqProperties
<1>4. c \in Seq(Slots) /\ Len(c) = Len(z) - n /\ \A i \in 1 .. Len(z) - n : c[i] = z[n + i]
  BY <1>1, SubSeqProperties
<1> DEFINE ab == a \o b
           abw == ab \o <<w>>
<1> HIDE DEF a, b, c
<1>5. ab \in Seq(Slots) /\ Len(ab) = n - 1
      /\ \A i \in 1 .. n - 1 : ab[i] = IF i < p THEN z[i] ELSE z[i + 1]
  <2>1. /\ ab \in Seq(Slots) /\ Len(ab) = n - 1
        /\ \A i \in 1 .. n - 1 : ab[i] = IF i <= p - 1 THEN a[i] ELSE b[i - (p - 1)]
    <3>1. /\ ab \in Seq(Slots) /\ Len(ab) = Len(a) + Len(b)
          /\ \A i \in 1 .. Len(a) + Len(b) : ab[i] = IF i <= Len(a) THEN a[i] ELSE b[i - Len(a)]
      BY <1>2, <1>3, ConcatProperties
    <3> HIDE DEF ab
    <3>2. Len(a) + Len(b) = n - 1
      BY <1>1, <1>2, <1>3
    <3>3. QED
      BY <1>2, <3>1, <3>2
  <2> HIDE DEF ab
  <2>2. ASSUME NEW i \in 1 .. n - 1
        PROVE  ab[i] = IF i < p THEN z[i] ELSE z[i + 1]
    <3>1. ab[i] = IF i <= p - 1 THEN a[i] ELSE b[i - (p - 1)]
      BY <1>1, <2>1
    <3>2. CASE i < p
      BY <1>1, <1>2, <3>1, <3>2
    <3>3. CASE i >= p
      <4>1. i - (p - 1) \in 1 .. n - p /\ p + (i - (p - 1)) = i + 1 /\ ab[i] = b[i - (p - 1)]
        BY <1>1, <3>1, <3>3
      <4>2. QED
        BY <1>1, <1>3, <3>3, <4>1
    <3>4. QED
      BY <1>1, <3>2, <3>3
  <2>3. QED
    BY <1>1, <2>1, <2>2
<1> HIDE DEF ab
<1>6. abw \in Seq(Slots) /\ Len(abw) = n
      /\ \A i \in 1 .. n : abw[i] = IF i < p THEN z[i] ELSE IF i < n THEN z[i + 1] ELSE w
  <2>1. <<w>> \in Seq(Slots) /\ Len(<<w>>) = 1 /\ <<w>>[1] = w
    OBVIOUS
  <2>2. /\ abw \in Seq(Slots) /\ Len(abw) = (n - 1) + 1
        /\ \A i \in 1 .. (n - 1) + 1 : abw[i] = IF i <= n - 1 THEN ab[i] ELSE <<w>>[i - (n - 1)]
    BY <1>5, <2>1, ConcatProperties
  <2> HIDE DEF abw
  <2>3. ASSUME NEW i \in 1 .. n
        PROVE  abw[i] = IF i < p THEN z[i] ELSE IF i < n THEN z[i + 1] ELSE w
    <3>1. abw[i] = IF i <= n - 1 THEN ab[i] ELSE <<w>>[i - (n - 1)]
      BY <1>1, <2>2
    <3>2. CASE i <= n - 1
      BY <1>1, <1>5, <3>1, <3>2
    <3>3. CASE i = n
      <4>1. i - (n - 1) = 1
        BY <1>1, <3>3
      <4>2. QED
        BY <1>1, <2>1, <3>1, <3>3, <4>1
    <3>4. QED
      BY <1>1, <3>2, <3>3
  <2>4. QED
    BY <1>1, <2>2, <2>3
<1> HIDE DEF abw
<1>7. r = abw \o c
  BY DEF a, b, c, ab, abw, Up
<1> HIDE DEF r
<1>8. /\ r \in Seq(Slots) /\ Len(r) = Len(z)
      /\ \A i \in 1 .. Len(z) : r[i] = IF i <= n THEN abw[i] ELSE c[i - n]
  <2>1. /\ r \in Seq(Slots) /\ Len(r) = Len(abw) + Len(c)
        /\ \A i \in 1 .. Len(abw) + Len(c) : r[i] = IF i <= Len(abw) THEN abw[i] ELSE c[i - Len(abw)]
    BY <1>4, <1>6, <1>7, ConcatProperties
  <2>2. Len(abw) + Len(c) = Len(z)
    BY <1>1, <1>4, <1>6
  <2>3. QED
    BY <1>6, <2>1, <2>2
<1>9. ASSUME NEW i \in 1 .. Len(z)
      PROVE  r[i] = IF i < p THEN z[i] ELSE IF i < n THEN z[i + 1] ELSE IF i = n THEN z[p] ELSE z[i]
  <2>1. CASE i <= n
    <3>1. i \in 1 .. n /\ r[i] = abw[i]
      BY <1>1, <1>8, <2>1
    <3>2. QED
      BY <1>1, <1>6, <2>1, <3>1
  <2>2. CASE i > n
    <3>1. r[i] = c[i - n] /\ i - n \in 1 .. Len(z) - n /\ n + (i - n) = i
      BY <1>1, <1>8, <2>2
    <3>2. QED
      BY <1>1, <1>4, <2>2, <3>1
  <2>3. QED
    BY <1>1, <2>1, <2>2
<1>10. ASSUME NEW i \in 1 .. Len(z)
       PROVE  \E j \in 1 .. Len(z) : r[i] = z[j]
  BY <1>1, <1>9
<1>11. ASSUME NEW j \in 1 .. Len(z)
       PROVE  \E i \in 1 .. Len(z) : z[j] = r[i]
  <2>1. CASE j < p
    BY <1>1, <1>9, <2>1
  <2>2. CASE j = p
    BY <1>1, <1>9, <2>2
  <2>3. CASE p < j /\ j <= n
    <3>1. j - 1 \in 1 .. Len(z) /\ r[j - 1] = z[j - 1 + 1] /\ j - 1 + 1 = j
      BY <1>1, <1>9, <2>3
    <3>2. QED
      BY <3>1
  <2>4. CASE n < j
    BY <1>1, <1>9, <2>4
  <2>5. QED
    BY <1>1, <2>1, <2>2, <2>3, <2>4
<1>12. {r[i] : i \in 1 .. Len(z)} = {z[i] : i \in 1 .. Len(z)}
  <2>1. {r[i] : i \in 1 .. Len(z)} \subseteq {z[i] : i \in 1 .. Len(z)}
    BY <1>10
  <2>2. {z[i] : i \in 1 .. Len(z)} \subseteq {r[i] : i \in 1 .. Len(z)}
    BY <1>11
  <2>3. QED
    BY <2>1, <2>2
<1>13. QED
  <2>1. Elements(r) = Elements(z)
    BY <1>8, <1>12, Zenon DEF Elements
  <2>2. QED
    BY <1>8, <2>1, Zenon DEF r

------------------------------------------------------------------------------
(* What the calls of the programs change *)

New(t, place) ==
  [used |-> TRUE, owner |-> t, address |-> map_address(t), place |-> place, dragged |-> FALSE]

OpensIn(slot, t, place) ==
  /\ slot \in Slots /\ ~windows[slot].used
  /\ slot \in 1 .. count \/ slot = count + 1
  /\ windows' = [windows EXCEPT ![slot] = New(t, place)]
  /\ Z_ORDER' = IF slot <= count THEN Z_ORDER ELSE Append(Z_ORDER, slot)
  /\ FOCUSED' = IF FOCUSED = None THEN slot ELSE FOCUSED
  /\ task[t] = "running" /\ map_address(t) <= WINDOW_MAP_SLOTS
  /\ UNCHANGED <<DRAG_WINDOW, queue, keys, desktop, task>>

LEMMA CreateOpens ==
  ASSUME WTypes, Order, NEW t \in Tasks, NEW place \in Places, create(t, place)
  PROVE  \E slot \in Slots : OpensIn(slot, t, place)
<1> DEFINE free == {w \in 1 .. count : ~windows[w].used}
           slot == IF free # {} THEN Least(free) ELSE count + 1
<1>1. count \in Nat
  BY DEF WTypes, count
<1>2. free # {} => Least(free) \in free
  <2>1. free \in SUBSET Nat
    BY <1>1
  <2>2. free # {} => \E m \in free : \A k \in free : m <= k
    BY <2>1, LeastNatural
  <2>3. QED
    BY <2>2 DEF Least
<1>3. /\ slot <= MAX_WINDOWS
      /\ windows' = [windows EXCEPT ![slot] = New(t, place)]
      /\ Z_ORDER' = Opened(slot)
      /\ FOCUSED' = IF FOCUSED = None THEN slot ELSE FOCUSED
      /\ task[t] = "running" /\ map_address(t) <= WINDOW_MAP_SLOTS
      /\ UNCHANGED <<DRAG_WINDOW, queue, keys, desktop, task>>
  BY DEF create, New
<1>4. /\ slot \in 1 .. count \/ slot = count + 1
      /\ slot \in Slots /\ ~windows[slot].used
  <2>1. CASE free # {}
    <3>1. slot \in 1 .. count /\ ~windows[slot].used
      BY <1>2, <2>1
    <3>2. QED
      BY <1>1, <1>3, <3>1, Sizes DEF Slots
  <2>2. CASE free = {}
    <3>1. slot = count + 1 /\ slot \in Slots
      BY <1>1, <1>3, <2>2, Sizes DEF Slots
    <3>2. ~windows[slot].used
      BY <1>1, <3>1 DEF Order, ZOrderComplete
    <3>3. QED
      BY <3>1, <3>2
  <2>3. QED
    BY <2>1, <2>2
<1> HIDE DEF slot
<1>5. OpensIn(slot, t, place)
  BY <1>3, <1>4 DEF OpensIn, Opened
<1>6. QED
  BY <1>4, <1>5

LEMMA CloseKeeps ==
  ASSUME WTypes, NEW t \in Tasks, close_owned_by(t)
  PROVE  /\ windows' \in [Slots -> Window]
         /\ \A w \in Slots : IF windows[w].used /\ windows[w].owner = t
                             THEN windows'[w] = Closed ELSE windows'[w] = windows[w]
         /\ FOCUSED' = (IF FOCUSED \in OwnedBy(t) THEN SHELL_WINDOW ELSE FOCUSED)
         /\ DRAG_WINDOW' = (IF DRAG_WINDOW \in OwnedBy(t) THEN None ELSE DRAG_WINDOW)
         /\ FOCUSED' \in Slots \union {None} /\ DRAG_WINDOW' \in Slots \union {None}
         /\ UNCHANGED <<Z_ORDER, queue, keys>>
<1>1. /\ windows' = [w \in Slots |-> IF w \in OwnedBy(t) THEN Closed ELSE windows[w]]
      /\ FOCUSED' = (IF FOCUSED \in OwnedBy(t) THEN SHELL_WINDOW ELSE FOCUSED)
      /\ DRAG_WINDOW' = (IF DRAG_WINDOW \in OwnedBy(t) THEN None ELSE DRAG_WINDOW)
      /\ UNCHANGED <<Z_ORDER, queue, keys>>
  BY DEF close_owned_by, Closing, FocusAfter, DragAfter
<1>2. windows' \in [Slots -> Window]
  BY <1>1, ClosedIsWindow DEF WTypes
<1>3. SHELL_WINDOW \in Slots
  BY Sizes DEF SHELL_WINDOW, Slots
<1>4. QED
  BY <1>1, <1>2, <1>3 DEF OwnedBy, WTypes

\* RaiseMoves, with its place found.
LEMMA RaiseRaises ==
  ASSUME WTypes, Order, RaiseMoves
  PROVE  /\ desktop.at = "move" /\ desktop.window \in 1 .. count /\ desktop.window \in Slots
         /\ Z_ORDER' \in Seq(Slots) /\ Len(Z_ORDER') = count
         /\ Elements(Z_ORDER') = Elements(Z_ORDER)
         /\ FOCUSED' = desktop.window
         /\ IF desktop.title
            THEN /\ DRAG_WINDOW' = desktop.window
                 /\ windows' = [windows EXCEPT ![desktop.window].dragged = TRUE]
            ELSE UNCHANGED <<DRAG_WINDOW, windows>>
         /\ desktop' = Idle
         /\ UNCHANGED <<queue, keys, task>>
<1> DEFINE p == CHOOSE i \in 1 .. desktop.seen : Z_ORDER[i] = desktop.window
<1>1. /\ desktop.at = "move" /\ Z_ORDER' = Up(Z_ORDER, desktop.seen, p, desktop.window)
      /\ FOCUSED' = desktop.window /\ desktop' = Idle /\ UNCHANGED <<queue, keys, task>>
      /\ IF desktop.title
         THEN /\ DRAG_WINDOW' = desktop.window
              /\ windows' = [windows EXCEPT ![desktop.window].dragged = TRUE]
         ELSE UNCHANGED <<DRAG_WINDOW, windows>>
  BY DEF RaiseMoves, Up, count
<1>2. /\ desktop.window \in 1 .. count /\ desktop.seen \in 0 .. count
      /\ p \in 1 .. desktop.seen /\ Z_ORDER[p] = desktop.window
  BY <1>1 DEF Order
<1>3. desktop.window \in Slots /\ Z_ORDER \in Seq(Slots) /\ count = Len(Z_ORDER)
  BY <1>2, Sizes DEF WTypes, count, Order, Slots
<1> HIDE DEF p
<1>4. /\ Up(Z_ORDER, desktop.seen, p, desktop.window) \in Seq(Slots)
      /\ Len(Up(Z_ORDER, desktop.seen, p, desktop.window)) = Len(Z_ORDER)
      /\ Elements(Up(Z_ORDER, desktop.seen, p, desktop.window)) = Elements(Z_ORDER)
  BY <1>2, <1>3, MovedUp
<1>5. QED
  BY <1>1, <1>2, <1>3, <1>4

------------------------------------------------------------------------------
(* Types and z-order are kept *)

\* Where no window opens and none is raised.
LEMMA OrderQuiet ==
  ASSUME WTypes, Order, UNCHANGED Z_ORDER, \A w \in Slots : windows'[w].used => windows[w].used,
         \/ desktop' = desktop
         \/ desktop'.at \in {"idle", "kill"}
         \/ desktop'.at = "raise" /\ desktop'.window \in 1 .. count
  PROVE  Order'
<1>1. count' = count
  BY DEF count
<1>2. ZOrderComplete' /\ count' <= MAX_WINDOWS
  BY <1>1 DEF Order, ZOrderComplete
<1>3. QED
  BY <1>1, <1>2 DEF Order

LEMMA OrderOpens ==
  ASSUME WTypes, Order, NEW slot \in Slots, NEW t \in Tasks, NEW place \in Places, OpensIn(slot, t, place)
  PROVE  Z_ORDER' \in Seq(Slots) /\ Order'
<1>1. count \in Nat /\ Z_ORDER \in Seq(Slots) /\ desktop' = desktop
  BY DEF WTypes, count, OpensIn
<1>2. \A w \in Slots : w # slot => windows'[w] = windows[w]
  BY DEF OpensIn, WTypes
<1>3. CASE slot <= count
  <2>1. Z_ORDER' = Z_ORDER
    BY <1>3 DEF OpensIn
  <2>2. count' = count
    BY <2>1 DEF count
  <2>3. ZOrderComplete'
    BY <1>2, <1>3, <2>1, <2>2 DEF Order, ZOrderComplete
  <2>4. QED
    BY <1>1, <2>1, <2>2, <2>3 DEF Order
<1>4. CASE ~(slot <= count)
  <2>1. slot = count + 1 /\ Z_ORDER' = Append(Z_ORDER, slot)
    BY <1>1, <1>4 DEF OpensIn
  <2>2. /\ count' = count + 1 /\ Z_ORDER' \in Seq(Slots)
        /\ Z_ORDER'[count + 1] = count + 1
        /\ \A i \in 1 .. count : Z_ORDER'[i] = Z_ORDER[i]
    BY <1>1, <2>1 DEF count
  <2>3. {Z_ORDER'[i] : i \in 1 .. count'} = 1 .. count'
    <3>1. {Z_ORDER[i] : i \in 1 .. count} = 1 .. count
      BY DEF Order, ZOrderComplete
    <3>2. ASSUME NEW i \in 1 .. count'
          PROVE  Z_ORDER'[i] \in 1 .. count'
      <4>1. i \in 1 .. count \/ i = count + 1
        BY <1>1, <2>2
      <4>2. CASE i \in 1 .. count
        <5>1. Z_ORDER[i] \in 1 .. count
          BY <3>1, <4>2
        <5>2. QED
          BY <1>1, <2>2, <4>2, <5>1
      <4>3. QED
        BY <1>1, <2>2, <4>1, <4>2
    <3>3. ASSUME NEW j \in 1 .. count'
          PROVE  \E i \in 1 .. count' : Z_ORDER'[i] = j
      <4>1. j \in 1 .. count \/ j = count + 1
        BY <1>1, <2>2
      <4>2. CASE j \in 1 .. count
        <5>1. PICK i \in 1 .. count : Z_ORDER[i] = j
          BY <3>1, <4>2
        <5>2. i \in 1 .. count' /\ Z_ORDER'[i] = j
          BY <1>1, <2>2, <5>1
        <5>3. QED
          BY <5>2
      <4>3. CASE j = count + 1
        BY <1>1, <2>2, <4>3
      <4>4. QED
        BY <4>1, <4>2, <4>3
    <3>4. QED
      BY <3>2, <3>3
  <2>4. \A w \in Slots : windows'[w].used => w <= count'
    <3>1. \A w \in Slots : windows[w].used => w <= count
      BY DEF Order, ZOrderComplete
    <3>2. slot <= count' /\ \A w \in Slots : w <= count => w <= count'
      BY <1>1, <2>1, <2>2, Sizes DEF Slots
    <3>3. QED
      BY <1>2, <3>1, <3>2
  <2>5. count' <= MAX_WINDOWS
    BY <2>1, <2>2, Sizes DEF Slots
  <2>6. desktop.at \in {"raise", "move"} => desktop.window \in 1 .. count'
    BY <1>1, <2>2 DEF Order
  <2>7. desktop.at = "move" => /\ desktop.seen \in 0 .. count'
                               /\ \E i \in 1 .. desktop.seen : Z_ORDER'[i] = desktop.window
    BY <1>1, <2>2 DEF Order
  <2>8. QED
    BY <1>1, <2>2, <2>3, <2>4, <2>5, <2>6, <2>7 DEF Order, ZOrderComplete
<1>5. QED
  BY <1>3, <1>4

LEMMA ClosesKeep ==
  ASSUME WTypes, Order, NEW t \in Tasks, close_owned_by(t),
         desktop' = desktop \/ desktop' = Idle, task' \in [Tasks -> {"none", "running", "ending"}]
  PROVE  WTypes' /\ Order'
<1>1. WTypes'
  <2>1. desktop' \in Inside /\ (desktop'.at = "kill" => desktop'.window \in Tasks)
    BY IdleIsInside DEF WTypes
  <2>2. /\ windows' \in [Slots -> Window] /\ Z_ORDER' = Z_ORDER /\ queue' = queue /\ keys' = keys
        /\ FOCUSED' \in Slots \union {None} /\ DRAG_WINDOW' \in Slots \union {None}
    BY CloseKeeps
  <2>3. QED
    BY <2>1, <2>2 DEF WTypes
<1>2. \A w \in Slots : windows'[w].used => windows[w].used
  BY CloseKeeps, ClosedIsWindow
<1>3. Order'
  BY <1>2, CloseKeeps, OrderQuiet DEF Idle
<1>4. QED
  BY <1>1, <1>3

LEMMA PushKeeps ==
  ASSUME WTypes, Order, NEW event \in Events, push(event)
  PROVE  WTypes' /\ Order'
<1>1. queue' \in Seq(Events) /\ Len(queue') < QUEUE_SIZE
  <2>1. CASE Len(queue) < QUEUE_SIZE - 1
    BY <2>1, Sizes DEF push, WTypes
  <2>2. CASE ~(Len(queue) < QUEUE_SIZE - 1)
    BY <2>2 DEF push, WTypes
  <2>3. QED
    BY <2>1, <2>2
<1>2. QED
  BY <1>1, OrderQuiet DEF push, WTypes

\* What an event taken from the queue may be.
LEMMA Taken ==
  ASSUME WTypes, queue # <<>>
  PROVE  /\ Head(queue) \in Event
         /\ Tail(queue) \in Seq(Events) /\ Len(Tail(queue)) < QUEUE_SIZE
<1>1. queue \in Seq(Events) /\ Len(queue) < QUEUE_SIZE
  BY DEF WTypes
<1>2. Head(queue) \in Events /\ Tail(queue) \in Seq(Events) /\ Len(Tail(queue)) = Len(queue) - 1
  BY <1>1
<1>3. QED
  BY <1>1, <1>2, EventsAreEvents, Sizes

LEMMA HitIsInOrder ==
  ASSUME WTypes, Order, NEW place, Hit(place) # None
  PROVE  Hit(place) \in 1 .. count /\ Hit(place) \in Slots /\ windows[Hit(place)].used
<1> DEFINE under == {i \in 1 .. count : windows[Z_ORDER[i]].used /\ windows[Z_ORDER[i]].place = place}
           Back == {count - i : i \in under}
<1>1. count \in Nat
  BY DEF WTypes, count
<1>2. under # {} /\ Hit(place) = Z_ORDER[CHOOSE i \in under : \A j \in under : j <= i]
  BY DEF Hit
<1>3. \E i \in under : \A j \in under : j <= i
  <2>1. Back \in SUBSET Nat /\ Back # {}
    BY <1>1, <1>2
  <2>2. PICK m \in Back : \A k \in Back : m <= k
    BY <2>1, LeastNatural
  <2>3. PICK i \in under : m = count - i
    BY <2>2
  <2>4. ASSUME NEW j \in under
        PROVE  j <= i
    <3>1. count - i <= count - j
      BY <2>2, <2>3
    <3>2. QED
      BY <1>1, <3>1
  <2>5. QED
    BY <2>4
<1>4. PICK i \in under : Hit(place) = Z_ORDER[i]
  BY <1>2, <1>3
<1>5. Z_ORDER[i] \in {Z_ORDER[k] : k \in 1 .. count} /\ windows[Z_ORDER[i]].used
  BY DEF under
<1>6. Z_ORDER[i] \in 1 .. count
  BY <1>5 DEF Order, ZOrderComplete
<1>7. QED
  BY <1>1, <1>4, <1>5, <1>6, Sizes DEF Slots, Order

\* What handle_input may change of the types.
LEMMA InputKeeps ==
  ASSUME WTypes, Order, handle_input
  PROVE  WTypes' /\ Order'
<1> USE DEF WTypes
<1>1. queue # <<>>
  BY DEF handle_input, handle_key, shell_on_key, handle_release, handle_drag, handle_click
<1>2. /\ Head(queue) \in Event
      /\ Tail(queue) \in Seq(Events) /\ Len(Tail(queue)) < QUEUE_SIZE
  BY <1>1, Taken
<1>3. CASE handle_key
  <2>1. FOCUSED \in Slots /\ UNCHANGED <<windows, Z_ORDER, FOCUSED, DRAG_WINDOW, desktop, task>>
        /\ queue' = Tail(queue)
    BY <1>3 DEF handle_key
  <2>2. keys' \in [Slots -> 0 .. KEY_QUEUE - 1]
    BY <1>3, <2>1, Sizes DEF handle_key
  <2>3. WTypes'
    BY <1>2, <2>1, <2>2
  <2>4. QED
    BY <2>1, <2>3, OrderQuiet
<1>4. CASE shell_on_key
  <2>1. UNCHANGED <<windows, Z_ORDER, FOCUSED, DRAG_WINDOW, keys>> /\ queue' = Tail(queue)
    BY <1>4 DEF shell_on_key
  <2>2. CASE UNCHANGED <<desktop, task>>
    <3>1. WTypes'
      BY <1>2, <2>1, <2>2
    <3>2. QED
      BY <2>1, <2>2, <3>1, OrderQuiet
  <2>3. ASSUME NEW w \in 1 .. count, desktop' = [Idle EXCEPT !.at = "raise", !.window = w], UNCHANGED task
        PROVE  WTypes' /\ Order'
    <3>1. desktop' \in Inside /\ desktop'.at = "raise" /\ desktop'.window = w
      <4>1. w \in 1 .. MAX_WINDOWS
        BY Sizes DEF Order, count
      <4>2. QED
        BY <2>3, <4>1, IdleIsInside
    <3>2. WTypes'
      BY <1>2, <2>1, <2>3, <3>1
    <3>3. QED
      BY <2>1, <3>1, <3>2, OrderQuiet
  <2>4. ASSUME NEW t \in Tasks, task' = [task EXCEPT ![t] = "none"],
               desktop' = [Idle EXCEPT !.at = "kill", !.window = t]
        PROVE  WTypes' /\ Order'
    <3>1. desktop' \in Inside /\ desktop'.at = "kill" /\ desktop'.window = t
      BY <2>4, IdleIsInside
    <3>2. WTypes'
      BY <1>2, <2>1, <2>4, <3>1
    <3>3. QED
      BY <2>1, <3>1, <3>2, OrderQuiet
  <2>5. QED
    BY <1>4, <2>2, <2>3, <2>4 DEF shell_on_key
<1>5. CASE handle_release
  <2>1. WTypes'
    BY <1>2, <1>5 DEF handle_release
  <2>2. QED
    BY <1>5, <2>1, OrderQuiet DEF handle_release
<1>6. CASE handle_drag
  <2>1. /\ DRAG_WINDOW \in Slots /\ windows' = [windows EXCEPT ![DRAG_WINDOW].place = Head(queue).place]
        /\ queue' = Tail(queue) /\ UNCHANGED <<Z_ORDER, FOCUSED, DRAG_WINDOW, keys, desktop, task>>
    BY <1>6 DEF handle_drag
  <2>2. Head(queue).place \in Places
    BY <1>2 DEF Event
  <2>3. windows' \in [Slots -> Window] /\ \A w \in Slots : windows'[w].used = windows[w].used
    BY <2>1, <2>2 DEF Window
  <2>4. WTypes'
    BY <1>2, <2>1, <2>3
  <2>5. QED
    BY <2>1, <2>3, <2>4, OrderQuiet
<1>7. CASE handle_click
  <2> DEFINE w == Hit(Head(queue).place)
  <2>1. UNCHANGED <<windows, Z_ORDER, FOCUSED, DRAG_WINDOW, keys, task>> /\ queue' = Tail(queue)
    BY <1>7 DEF handle_click
  <2>2. CASE w = None
    <3>1. desktop' = desktop
      BY <1>7, <2>2 DEF handle_click
    <3>2. WTypes'
      BY <1>2, <2>1, <3>1
    <3>3. QED
      BY <2>1, <3>1, <3>2, OrderQuiet
  <2>3. CASE w # None
    <3>1. PICK title \in BOOLEAN : desktop' = [Idle EXCEPT !.at = "raise", !.window = w, !.title = title]
      BY <1>7, <2>3 DEF handle_click
    <3>2. w \in 1 .. count /\ w \in 1 .. MAX_WINDOWS
      BY <2>3, HitIsInOrder DEF Slots
    <3> HIDE DEF w
    <3>3. desktop' \in Inside /\ desktop'.at = "raise" /\ desktop'.window = w
      BY <3>1, <3>2 DEF Idle, Inside, Slots
    <3>4. WTypes'
      BY <1>2, <2>1, <3>3
    <3>5. QED
      BY <2>1, <3>2, <3>3, <3>4, OrderQuiet
  <2>4. QED
    BY <2>2, <2>3
<1>8. QED
  BY <1>3, <1>4, <1>5, <1>6, <1>7 DEF handle_input

LEMMA RaiseKeeps ==
  ASSUME WTypes, Order, RaiseCounts \/ RaiseMoves
  PROVE  WTypes' /\ Order'
<1>1. CASE RaiseCounts
  <2>1. /\ desktop' = [desktop EXCEPT !.at = "move", !.seen = count] /\ desktop.at = "raise"
        /\ UNCHANGED <<windows, Z_ORDER, FOCUSED, DRAG_WINDOW, queue, keys, task>>
    BY <1>1 DEF RaiseCounts
  <2>2. count \in Nat /\ count' = count
    BY <2>1 DEF WTypes, count
  <2>3. desktop' \in Inside /\ desktop'.at = "move" /\ desktop'.seen = count /\ desktop'.window = desktop.window
    BY <2>1, <2>2 DEF WTypes, Inside
  <2>4. WTypes'
    BY <2>1, <2>3 DEF WTypes
  <2>5. desktop.window \in {Z_ORDER[i] : i \in 1 .. count}
    BY <2>1 DEF Order, ZOrderComplete
  <2>6. PICK i \in 1 .. count : Z_ORDER[i] = desktop.window
    BY <2>5
  <2>7. QED
    BY <2>1, <2>2, <2>3, <2>4, <2>6 DEF Order, ZOrderComplete
<1>2. CASE RaiseMoves
  <2>1. /\ desktop.window \in Slots /\ Z_ORDER' \in Seq(Slots) /\ Len(Z_ORDER') = count
        /\ Elements(Z_ORDER') = Elements(Z_ORDER) /\ FOCUSED' = desktop.window
        /\ desktop' = Idle /\ UNCHANGED <<queue, keys, task>>
    BY <1>2, RaiseRaises
  <2>2. windows' \in [Slots -> Window] /\ \A w \in Slots : windows'[w].used = windows[w].used
    <3>1. \/ windows' = [windows EXCEPT ![desktop.window].dragged = TRUE]
          \/ windows' = windows
      BY <1>2, RaiseRaises
    <3>2. CASE windows' = [windows EXCEPT ![desktop.window].dragged = TRUE]
      <4>1. windows[desktop.window] \in Window
        BY <2>1 DEF WTypes
      <4>2. /\ [windows[desktop.window] EXCEPT !.dragged = TRUE] \in Window
            /\ [windows[desktop.window] EXCEPT !.dragged = TRUE].used = windows[desktop.window].used
        BY <4>1 DEF Window
      <4>3. windows' = [windows EXCEPT ![desktop.window] = [windows[desktop.window] EXCEPT !.dragged = TRUE]]
        BY <3>2
      <4>4. QED
        BY <2>1, <4>2, <4>3 DEF WTypes
    <3>3. QED
      BY <3>1, <3>2 DEF WTypes
  <2>3. DRAG_WINDOW' \in Slots \union {None}
    BY <1>2, <2>1, RaiseRaises DEF WTypes
  <2>4. desktop' \in Inside /\ desktop'.at = "idle"
    BY <2>1, IdleIsInside
  <2>5. WTypes'
    BY <2>1, <2>2, <2>3, <2>4 DEF WTypes
  <2>6. count' = count
    BY <2>1 DEF count
  <2>7. {Z_ORDER'[i] : i \in 1 .. count'} = {Z_ORDER[i] : i \in 1 .. count}
    BY <2>1 DEF Elements, count
  <2>8. QED
    BY <2>2, <2>4, <2>5, <2>6, <2>7 DEF Order, ZOrderComplete
<1>3. QED
  BY <1>1, <1>2

LEMMA OpensKeep ==
  ASSUME WTypes, Order, NEW t \in Tasks, NEW place \in Places, NEW slot \in Slots, OpensIn(slot, t, place)
  PROVE  WTypes' /\ Order'
<1>1. OwnedBy(t) \subseteq Slots /\ IsFiniteSet(Slots)
  BY FS_Interval, Sizes DEF OwnedBy, Slots
<1>2. map_address(t) \in 0 .. WINDOW_MAP_SLOTS
  <2>1. Cardinality(OwnedBy(t)) \in Nat
    BY <1>1, FS_Subset, FS_CardinalityType
  <2>2. QED
    BY <2>1, Sizes DEF map_address, OpensIn
<1>3. New(t, place) \in Window
  BY <1>2 DEF New, Window
<1>4. windows' \in [Slots -> Window]
  BY <1>3 DEF OpensIn, WTypes
<1>5. FOCUSED' \in Slots \union {None}
  BY DEF OpensIn, WTypes
<1>6. Z_ORDER' \in Seq(Slots) /\ Order'
  BY OrderOpens
<1>7. QED
  BY <1>4, <1>5, <1>6 DEF OpensIn, WTypes

LEMMA StepKeeps ==
  ASSUME WTypes, Order, [Next]_vars
  PROVE  WTypes' /\ Order'
<1>1. ASSUME NEW event \in Events, push(event)
      PROVE  WTypes' /\ Order'
  BY <1>1, PushKeeps
<1>2. CASE Desktop
  <2>1. CASE KillCloses
    <3>1. close_owned_by(desktop.window) /\ desktop.window \in Tasks /\ desktop' = Idle /\ task' = task
      BY <2>1 DEF KillCloses, WTypes
    <3>2. task' \in [Tasks -> {"none", "running", "ending"}]
      BY <3>1 DEF WTypes
    <3>3. QED
      BY <3>1, <3>2, ClosesKeep
  <2>2. QED
    BY <1>2, <2>1, InputKeeps, RaiseKeeps DEF Desktop
<1>3. ASSUME NEW t \in Tasks, Program(t)
      PROVE  WTypes' /\ Order'
  <2>1. CASE Starts(t) \/ Ends(t)
    <3>1. /\ UNCHANGED <<windows, Z_ORDER, FOCUSED, DRAG_WINDOW, queue, keys, desktop>>
          /\ task' \in [Tasks -> {"none", "running", "ending"}]
      BY <2>1 DEF Starts, Ends, WTypes
    <3>2. WTypes'
      BY <3>1 DEF WTypes
    <3>3. QED
      BY <3>1, <3>2, OrderQuiet
  <2>2. CASE Leaves(t) \/ Execs(t)
    <3>1. /\ close_owned_by(t) /\ desktop' = desktop
          /\ task' \in [Tasks -> {"none", "running", "ending"}]
      BY <2>2 DEF Leaves, Execs, WTypes
    <3>2. QED
      BY <3>1, ClosesKeep
  <2>3. ASSUME NEW place \in Places, create(t, place)
        PROVE  WTypes' /\ Order'
    <3>1. PICK slot \in Slots : OpensIn(slot, t, place)
      BY <2>3, CreateOpens
    <3>2. QED
      BY <3>1, OpensKeep
  <2>4. ASSUME NEW w \in Slots, poll_key(t, w)
        PROVE  WTypes' /\ Order'
    <3>1. /\ UNCHANGED <<windows, Z_ORDER, FOCUSED, DRAG_WINDOW, queue, desktop, task>>
          /\ keys' \in [Slots -> 0 .. KEY_QUEUE - 1]
      BY <2>4, Sizes DEF poll_key, WTypes
    <3>2. WTypes'
      BY <3>1 DEF WTypes
    <3>3. QED
      BY <3>1, <3>2, OrderQuiet
  <2>5. QED
    BY <1>3, <2>1, <2>2, <2>3, <2>4 DEF Program
<1>4. CASE UNCHANGED vars
  <2>1. WTypes' /\ UNCHANGED <<windows, Z_ORDER, desktop>>
    BY <1>4 DEF vars, WTypes
  <2>2. QED
    BY <2>1, OrderQuiet
<1>5. QED
  BY <1>1, <1>2, <1>3, <1>4 DEF Next

------------------------------------------------------------------------------
(* What happens to the windows in a step *)

\* Every step opens one window, closes those of a program, or keeps what is open.
Kept ==
  /\ windows' \in [Slots -> Window]
  /\ \A w \in Slots : /\ windows'[w].used = windows[w].used
                      /\ windows'[w].owner = windows[w].owner
                      /\ windows'[w].address = windows[w].address

LEMMA DragKeeps ==
  ASSUME WTypes, handle_drag
  PROVE  /\ Kept /\ DRAG_WINDOW \in Slots
         /\ windows' = [windows EXCEPT ![DRAG_WINDOW].place = Head(queue).place]
         /\ \A w \in Slots : windows'[w].dragged = windows[w].dragged
         /\ UNCHANGED <<FOCUSED, DRAG_WINDOW, desktop, task>>
<1>1. /\ DRAG_WINDOW \in Slots /\ windows' = [windows EXCEPT ![DRAG_WINDOW].place = Head(queue).place]
      /\ UNCHANGED <<FOCUSED, DRAG_WINDOW, desktop, task>> /\ queue # <<>>
  BY DEF handle_drag, WTypes
<1>2. Head(queue).place \in Places
  BY <1>1, Taken DEF Event
<1>3. /\ windows' \in [Slots -> Window]
      /\ \A w \in Slots : /\ windows'[w].used = windows[w].used
                          /\ windows'[w].owner = windows[w].owner
                          /\ windows'[w].address = windows[w].address
                          /\ windows'[w].dragged = windows[w].dragged
  BY <1>1, <1>2 DEF WTypes, Window
<1>4. QED
  BY <1>1, <1>3 DEF Kept

LEMMA RaiseKept ==
  ASSUME WTypes, Order, RaiseMoves
  PROVE  /\ Kept
         /\ \A w \in Slots : windows'[w].place = windows[w].place
         /\ \A w \in Slots : windows[w].dragged => windows'[w].dragged
         /\ desktop.title => DRAG_WINDOW' = desktop.window /\ windows'[desktop.window].dragged
         /\ ~desktop.title => UNCHANGED <<DRAG_WINDOW, windows>>
<1>1. desktop.window \in Slots
      /\ IF desktop.title
         THEN /\ DRAG_WINDOW' = desktop.window
              /\ windows' = [windows EXCEPT ![desktop.window].dragged = TRUE]
         ELSE UNCHANGED <<DRAG_WINDOW, windows>>
  BY RaiseRaises
<1>2. CASE desktop.title
  <2> DEFINE new == [windows[desktop.window] EXCEPT !.dragged = TRUE]
  <2>1. windows[desktop.window] \in Window
    BY <1>1 DEF WTypes
  <2>2. /\ new \in Window /\ new.used = windows[desktop.window].used
        /\ new.owner = windows[desktop.window].owner /\ new.address = windows[desktop.window].address
        /\ new.place = windows[desktop.window].place /\ new.dragged
    BY <2>1 DEF Window
  <2>3. windows' = [windows EXCEPT ![desktop.window] = new]
    BY <1>1, <1>2
  <2> HIDE DEF new
  <2>4. QED
    BY <1>1, <1>2, <2>2, <2>3 DEF Kept, WTypes
<1>3. CASE ~desktop.title
  BY <1>1, <1>3 DEF Kept, WTypes
<1>4. QED
  BY <1>2, <1>3

LEMMA StepOfWindows ==
  ASSUME WTypes, Order, [Next]_vars
  PROVE  \/ Kept
         \/ \E t \in Tasks, slot \in Slots, place \in Places : OpensIn(slot, t, place)
         \/ \E t \in Tasks : close_owned_by(t)
<1>1. CASE UNCHANGED windows
  BY <1>1 DEF Kept, WTypes
<1>2. ASSUME NEW t \in Tasks, NEW place \in Places, create(t, place)
      PROVE  \E slot \in Slots : OpensIn(slot, t, place)
  BY <1>2, CreateOpens
<1>3. KillCloses => desktop.window \in Tasks /\ close_owned_by(desktop.window)
  BY DEF KillCloses, WTypes
<1>4. QED
  BY <1>1, <1>2, <1>3, DragKeeps, RaiseKept
     DEF Next, Desktop, Program, push, handle_input, handle_key, shell_on_key, handle_release,
         handle_click, RaiseCounts, Starts, Ends, Leaves, Execs, poll_key, vars

------------------------------------------------------------------------------
(* Addresses *)

\* The addresses of a program's windows are not only different but numbered.
Numbered ==
  /\ \A t \in Tasks : \A w \in OwnedBy(t) : windows[w].address <= Cardinality(OwnedBy(t))
  /\ AddressesDistinct

LEMMA OwnedFinite ==
  ASSUME NEW t
  PROVE  IsFiniteSet(OwnedBy(t)) /\ Cardinality(OwnedBy(t)) \in Nat
<1>1. OwnedBy(t) \subseteq Slots /\ IsFiniteSet(Slots)
  BY FS_Interval, Sizes DEF OwnedBy, Slots
<1>2. QED
  BY <1>1, FS_Subset, FS_CardinalityType

LEMMA OpenNumbers ==
  ASSUME WTypes, Numbered, NEW t \in Tasks, NEW slot \in Slots, NEW place \in Places,
         OpensIn(slot, t, place)
  PROVE  Numbered'
<1> DEFINE n == Cardinality(OwnedBy(t))
<1>1. /\ \A w \in Slots : w # slot => windows'[w] = windows[w]
      /\ windows'[slot].used /\ windows'[slot].owner = t /\ windows'[slot].address = n + 1
      /\ ~windows[slot].used
  BY DEF OpensIn, WTypes, New, map_address
<1>2. (OwnedBy(t))' = OwnedBy(t) \union {slot} /\ slot \notin OwnedBy(t)
  BY <1>1 DEF OwnedBy
<1>3. n \in Nat /\ Cardinality(OwnedBy(t)') = n + 1
  BY <1>2, OwnedFinite, FS_AddElement
<1>4. \A u \in Tasks : u # t => OwnedBy(u)' = OwnedBy(u)
  BY <1>1 DEF OwnedBy
<1>5. \A w \in Slots : windows[w].address \in Nat
  BY DEF WTypes, Window
<1>6. ASSUME NEW u \in Tasks, NEW w \in OwnedBy(u)'
      PROVE  windows'[w].address <= Cardinality(OwnedBy(u)')
  <2>1. CASE u # t
    <3>1. OwnedBy(u)' = OwnedBy(u) /\ w \in Slots /\ w # slot
      BY <1>1, <1>4, <1>6, <2>1 DEF OwnedBy
    <3>2. windows[w].address <= Cardinality(OwnedBy(u))
      BY <1>6, <3>1 DEF Numbered
    <3>3. QED
      BY <1>1, <3>1, <3>2
  <2>2. CASE u = t /\ w # slot
    <3>1. w \in OwnedBy(t) /\ w \in Slots
      BY <1>2, <1>6, <2>2 DEF OwnedBy
    <3>2. windows[w].address <= n
      BY <3>1 DEF Numbered
    <3>3. QED
      BY <1>1, <1>3, <1>5, <2>2, <3>1, <3>2
  <2>3. CASE u = t /\ w = slot
    BY <1>1, <1>3, <2>3
  <2>4. QED
    BY <2>1, <2>2, <2>3
<1>7. ASSUME NEW v \in Slots, NEW w \in Slots, v # w, windows'[v].used, windows'[w].used,
             windows'[v].owner = windows'[w].owner, windows'[v].owner # System
      PROVE  windows'[v].address # windows'[w].address
  <2>1. \A x \in OwnedBy(t) : windows[x].address < n + 1
    <3>1. \A x \in OwnedBy(t) : windows[x].address <= n /\ windows[x].address \in Nat
      BY <1>5 DEF Numbered, OwnedBy
    <3>2. QED
      BY <1>3, <3>1
  <2>2. CASE v = slot
    <3>1. w \in OwnedBy(t) /\ windows'[w] = windows[w]
      BY <1>1, <1>7, <2>2 DEF OwnedBy
    <3>2. windows[w].address < n + 1
      BY <2>1, <3>1
    <3>3. QED
      BY <1>1, <1>3, <1>5, <2>2, <3>1, <3>2
  <2>3. CASE w = slot
    <3>1. v \in OwnedBy(t) /\ windows'[v] = windows[v]
      BY <1>1, <1>7, <2>3 DEF OwnedBy
    <3>2. windows[v].address < n + 1
      BY <2>1, <3>1
    <3>3. QED
      BY <1>1, <1>3, <1>5, <2>3, <3>1, <3>2
  <2>4. CASE v # slot /\ w # slot
    BY <1>1, <1>7, <2>4 DEF Numbered, AddressesDistinct
  <2>5. QED
    BY <2>2, <2>3, <2>4
<1>8. AddressesDistinct'
  BY <1>7 DEF AddressesDistinct
<1>9. QED
  BY <1>6, <1>8 DEF Numbered

LEMMA CloseNumbers ==
  ASSUME WTypes, Numbered, NEW t \in Tasks, close_owned_by(t)
  PROVE  Numbered'
<1>1. \A w \in Slots : IF windows[w].used /\ windows[w].owner = t
                       THEN windows'[w] = Closed ELSE windows'[w] = windows[w]
  BY CloseKeeps
<1>2. \A w \in Slots : windows'[w].used => windows'[w] = windows[w] /\ windows[w].owner # t
  BY <1>1, ClosedIsWindow
<1>3. OwnedBy(t)' = {} /\ \A u \in Tasks : u # t => OwnedBy(u)' = OwnedBy(u)
  BY <1>1, <1>2 DEF OwnedBy
<1>4. ASSUME NEW u \in Tasks, NEW w \in OwnedBy(u)'
      PROVE  windows'[w].address <= Cardinality(OwnedBy(u)')
  <2>1. u # t /\ OwnedBy(u)' = OwnedBy(u) /\ windows'[w] = windows[w]
    BY <1>2, <1>3, <1>4 DEF OwnedBy
  <2>2. QED
    BY <1>4, <2>1 DEF Numbered
<1>5. AddressesDistinct'
  BY <1>2 DEF Numbered, AddressesDistinct
<1>6. QED
  BY <1>4, <1>5 DEF Numbered

LEMMA StepNumbers ==
  ASSUME WTypes, Order, Numbered, [Next]_vars
  PROVE  Numbered'
<1>1. CASE Kept
  <2>1. \A u \in Tasks : OwnedBy(u)' = OwnedBy(u)
    BY <1>1 DEF Kept, OwnedBy
  <2>2. AddressesDistinct'
    BY <1>1 DEF Kept, Numbered, AddressesDistinct
  <2>3. QED
    BY <1>1, <2>1, <2>2 DEF Kept, Numbered, OwnedBy
<1>2. QED
  BY <1>1, StepOfWindows, OpenNumbers, CloseNumbers

------------------------------------------------------------------------------
(* Owners *)

LEMMA StepOwners ==
  ASSUME WTypes, Order, OwnersLive, [Next]_vars
  PROVE  OwnersLive'
<1> DEFINE Dying(t) == desktop.at = "kill" /\ desktop.window = t
<1>1. ASSUME NEW t \in Tasks, close_owned_by(t), \A u \in Tasks : u # t => task'[u] = task[u],
             desktop' = desktop \/ Dying(t)
      PROVE  OwnersLive'
  <2>1. \A w \in Slots : windows'[w].used => windows'[w] = windows[w] /\ windows[w].owner # t
    BY <1>1, CloseKeeps, ClosedIsWindow
  <2>2. \A w \in Slots : windows[w].owner \in Tasks \union {System}
    BY DEF WTypes, Window
  <2>3. QED
    BY <1>1, <2>1, <2>2 DEF OwnersLive
<1>2. ASSUME Kept, \A u \in Tasks : task[u] # "none" => task'[u] # "none" \/ (Dying(u))',
             desktop' = desktop \/ desktop.at # "kill"
      PROVE  OwnersLive'
  <2>1. \A w \in Slots : windows[w].owner \in Tasks \union {System}
    BY DEF WTypes, Window
  <2>2. ASSUME NEW w \in Slots, windows'[w].used, windows'[w].owner # System
        PROVE  task'[windows'[w].owner] # "none" \/ (Dying(windows[w].owner))'
    <3>1. windows[w].used /\ windows'[w].owner = windows[w].owner /\ windows[w].owner \in Tasks
      BY <1>2, <2>1, <2>2 DEF Kept
    <3>2. task[windows[w].owner] # "none" \/ Dying(windows[w].owner)
      BY <2>2, <3>1 DEF OwnersLive
    <3>3. QED
      BY <1>2, <3>1, <3>2
  <2>3. QED
    BY <1>2, <2>2 DEF OwnersLive, Kept
<1>3. CASE UNCHANGED <<windows, task, desktop>>
  BY <1>3 DEF OwnersLive
<1>4. CASE KillCloses
  <2>1. desktop.window \in Tasks /\ close_owned_by(desktop.window) /\ task' = task /\ desktop.at = "kill"
    BY <1>4 DEF KillCloses, WTypes
  <2>2. QED
    BY <1>1, <2>1
<1>5. CASE handle_input
  <2>1. desktop.at = "idle"
    BY <1>5 DEF handle_input
  <2>2. Kept
    BY <1>5, DragKeeps DEF handle_input, handle_key, shell_on_key, handle_release, handle_click, Kept, WTypes
  <2>3. ASSUME NEW u \in Tasks, task[u] # "none"
        PROVE  task'[u] # "none" \/ (Dying(u))'
    <3>1. ASSUME NEW t \in Tasks, task' = [task EXCEPT ![t] = "none"],
                 desktop' = [Idle EXCEPT !.at = "kill", !.window = t]
          PROVE  task'[u] # "none" \/ (Dying(u))'
      <4>1. desktop'.at = "kill" /\ desktop'.window = t
        BY <3>1 DEF Idle
      <4>2. QED
        BY <2>3, <3>1, <4>1 DEF WTypes
    <3>2. QED
      BY <1>5, <2>3, <3>1 DEF handle_input, handle_key, shell_on_key, handle_release, handle_drag, handle_click
  <2>4. QED
    BY <1>2, <2>1, <2>2, <2>3
<1>6. CASE RaiseCounts
  BY <1>2, <1>6 DEF RaiseCounts, Kept, WTypes
<1>7. CASE RaiseMoves
  <2>1. task' = task /\ desktop.at = "move"
    BY <1>7 DEF RaiseMoves
  <2>2. QED
    BY <1>2, <1>7, <2>1, RaiseKept
<1>8. ASSUME NEW t \in Tasks, Starts(t) \/ Ends(t)
      PROVE  OwnersLive'
  <2>1. Kept /\ desktop' = desktop
    BY <1>8 DEF Starts, Ends, Kept, WTypes
  <2>2. \A u \in Tasks : task[u] # "none" => task'[u] # "none"
    BY <1>8 DEF Starts, Ends, WTypes
  <2>3. QED
    BY <1>2, <2>1, <2>2
<1>9. ASSUME NEW t \in Tasks, Leaves(t) \/ Execs(t)
      PROVE  OwnersLive'
  <2>1. close_owned_by(t) /\ desktop' = desktop /\ \A u \in Tasks : u # t => task'[u] = task[u]
    BY <1>9 DEF Leaves, Execs, WTypes
  <2>2. QED
    BY <1>1, <2>1
<1>10. ASSUME NEW t \in Tasks, NEW place \in Places, create(t, place)
       PROVE  OwnersLive'
  <2>1. PICK slot \in Slots : OpensIn(slot, t, place)
    BY <1>10, CreateOpens
  <2>2. /\ \A w \in Slots : w # slot => windows'[w] = windows[w]
        /\ windows'[slot].owner = t /\ task[t] = "running" /\ UNCHANGED <<task, desktop>>
    BY <2>1 DEF OpensIn, New, WTypes
  <2>3. QED
    BY <2>2 DEF OwnersLive
<1>11. QED
  BY <1>3, <1>4, <1>5, <1>6, <1>7, <1>8, <1>9, <1>10
     DEF Next, Desktop, Program, push, poll_key, vars

------------------------------------------------------------------------------
(* Focus and drag *)

\* The shell stays open, and what has the focus or is about to get it is open.
FocusOpen ==
  /\ windows[SHELL_WINDOW].used /\ windows[SHELL_WINDOW].owner = System
  /\ FOCUSED \in Slots /\ windows[FOCUSED].used
  /\ desktop.at \in {"raise", "move"} => windows[desktop.window].used

\* What is dragged, or is about to be, is open and was taken by its title.
DragOpen ==
  /\ DRAG_WINDOW # None => windows[DRAG_WINDOW].used /\ windows[DRAG_WINDOW].dragged
  /\ desktop.at \in {"raise", "move"} /\ desktop.title => windows[desktop.window].used

LEMMA ShellIsSlot == SHELL_WINDOW \in Slots
BY Sizes DEF SHELL_WINDOW, Slots

LEMMA RaisedIsSlot ==
  ASSUME WTypes, Order
  PROVE  desktop.at \in {"raise", "move"} => desktop.window \in Slots
<1>1. count \in Nat /\ count <= MAX_WINDOWS
  BY DEF WTypes, Order, count
<1>2. \A i \in 1 .. count : i \in Slots
  BY <1>1, Sizes DEF Slots
<1>3. QED
  BY <1>2 DEF Order

\* Nobody closes a window while one is raised, unless Ops says so.
LEMMA NoLateClose ==
  ASSUME "late_click" \notin Ops, WTypes, NEW t \in Tasks,
         \/ KillCloses /\ t = desktop.window
         \/ Leaves(t) \/ Execs(t)
  PROVE  close_owned_by(t) /\ desktop'.at \notin {"raise", "move"}
<1>1. CASE KillCloses /\ t = desktop.window
  BY <1>1, IdleIsInside DEF KillCloses
<1>2. CASE Leaves(t) \/ Execs(t)
  BY <1>2 DEF Leaves, Execs, Undisturbed
<1>3. QED
  BY <1>1, <1>2

LEMMA StepFocus ==
  ASSUME "late_click" \notin Ops, "focus_closed" \notin Ops, WTypes, Order, FocusOpen, [Next]_vars
  PROVE  FocusOpen'
<1>1. ASSUME NEW t \in Tasks, close_owned_by(t), desktop'.at \notin {"raise", "move"}
      PROVE  FocusOpen'
  <2>1. \A w \in Slots : windows[w].used /\ windows[w].owner # t => windows'[w] = windows[w]
    BY <1>1, CloseKeeps
  <2>2. windows'[SHELL_WINDOW] = windows[SHELL_WINDOW]
    BY <2>1, ShellIsSlot, OwnersAssumption DEF FocusOpen
  <2>3. FOCUSED' = IF FOCUSED \in OwnedBy(t) THEN SHELL_WINDOW ELSE FOCUSED
    BY <1>1, CloseKeeps
  <2>4. QED
    BY <1>1, <2>1, <2>2, <2>3, ShellIsSlot DEF FocusOpen, OwnedBy
<1>2. ASSUME Kept, FOCUSED' = FOCUSED,
             \/ desktop' = desktop \/ desktop'.at \notin {"raise", "move"}
             \/ desktop'.window \in Slots /\ windows[desktop'.window].used
      PROVE  FocusOpen'
  <2>1. desktop.at \in {"raise", "move"} => desktop.window \in Slots
    BY RaisedIsSlot
  <2>2. QED
    BY <1>2, <2>1, ShellIsSlot DEF FocusOpen, Kept
<1>3. CASE UNCHANGED <<windows, FOCUSED, desktop>>
  BY <1>3 DEF FocusOpen
<1>4. CASE handle_input
  <2>1. CASE handle_key \/ handle_release
    BY <1>3, <2>1 DEF handle_key, handle_release
  <2>2. CASE handle_drag
    BY <1>2, <2>2, DragKeeps
  <2>3. CASE handle_click
    <3> DEFINE w == Hit(Head(queue).place)
    <3>1. UNCHANGED <<windows, FOCUSED>> /\ Kept
      BY <2>3 DEF handle_click, Kept, WTypes
    <3>2. CASE w = None
      BY <1>2, <2>3, <3>1, <3>2 DEF handle_click
    <3>3. CASE w # None
      <4>1. w \in Slots /\ windows[w].used
        BY <3>3, HitIsInOrder
      <4>2. PICK title \in BOOLEAN : desktop' = [Idle EXCEPT !.at = "raise", !.window = w, !.title = title]
        BY <2>3, <3>3 DEF handle_click
      <4> HIDE DEF w
      <4>3. desktop'.window = w
        BY <4>2 DEF Idle
      <4>4. QED
        BY <1>2, <3>1, <4>1, <4>3
    <3>4. QED
      BY <3>2, <3>3
  <2>4. CASE shell_on_key
    <3>1. UNCHANGED <<windows, FOCUSED>> /\ Kept
      BY <2>4 DEF shell_on_key, Kept, WTypes
    <3>2. ASSUME NEW w \in 1 .. count, windows[w].used, desktop' = [Idle EXCEPT !.at = "raise", !.window = w]
          PROVE  FocusOpen'
      <4>1. w \in Slots /\ desktop'.window = w
        BY <3>2, Sizes DEF Order, WTypes, count, Slots, Idle
      <4>2. QED
        BY <1>2, <3>1, <3>2, <4>1
    <3>3. ASSUME NEW t \in Tasks, desktop' = [Idle EXCEPT !.at = "kill", !.window = t]
          PROVE  FocusOpen'
      <4>1. desktop'.at = "kill"
        BY <3>3 DEF Idle
      <4>2. QED
        BY <1>2, <3>1, <4>1
    <3>4. QED
      BY <1>2, <2>4, <3>1, <3>2, <3>3 DEF shell_on_key
  <2>5. QED
    BY <1>4, <2>1, <2>2, <2>3, <2>4 DEF handle_input
<1>5. CASE RaiseCounts
  <2>1. /\ Kept /\ FOCUSED' = FOCUSED /\ desktop.at = "raise"
        /\ desktop' = [desktop EXCEPT !.at = "move", !.seen = count]
    BY <1>5 DEF RaiseCounts, Kept, WTypes
  <2>2. desktop'.window = desktop.window /\ desktop.window \in Slots /\ windows[desktop.window].used
    BY <2>1, Sizes DEF WTypes, Inside, Order, Slots, count, FocusOpen
  <2>3. QED
    BY <1>2, <2>1, <2>2
<1>6. CASE RaiseMoves
  <2>1. /\ desktop.at = "move" /\ desktop.window \in Slots /\ FOCUSED' = desktop.window /\ desktop' = Idle /\ Kept
    BY <1>6, RaiseRaises, RaiseKept
  <2>2. QED
    BY <2>1, IdleIsInside, ShellIsSlot DEF FocusOpen, Kept
<1>7. ASSUME NEW t \in Tasks, NEW place \in Places, create(t, place)
      PROVE  FocusOpen'
  <2>1. PICK slot \in Slots : OpensIn(slot, t, place)
    BY <1>7, CreateOpens
  <2>2. /\ \A w \in Slots : windows[w].used => windows'[w] = windows[w]
        /\ UNCHANGED <<FOCUSED, desktop>>
    BY <2>1 DEF OpensIn, WTypes, FocusOpen, None, Slots
  <2>3. desktop.at \in {"raise", "move"} => desktop.window \in Slots
    BY RaisedIsSlot
  <2>4. QED
    BY <2>2, <2>3, ShellIsSlot DEF FocusOpen
<1>8. QED
  BY <1>1, <1>3, <1>4, <1>5, <1>6, <1>7, NoLateClose
     DEF Next, Desktop, Program, push, poll_key, Starts, Ends, vars, KillCloses, WTypes

LEMMA StepDrag ==
  ASSUME "late_click" \notin Ops, WTypes, Order, DragOpen, [Next]_vars
  PROVE  DragOpen'
<1>1. ASSUME NEW t \in Tasks, close_owned_by(t), desktop'.at \notin {"raise", "move"}
      PROVE  DragOpen'
  <2>1. \A w \in Slots : windows[w].used /\ windows[w].owner # t => windows'[w] = windows[w]
    BY <1>1, CloseKeeps
  <2>2. DRAG_WINDOW' = IF DRAG_WINDOW \in OwnedBy(t) THEN None ELSE DRAG_WINDOW
    BY <1>1, CloseKeeps
  <2>3. DRAG_WINDOW \in Slots \union {None}
    BY DEF WTypes
  <2>4. QED
    BY <1>1, <2>1, <2>2, <2>3 DEF DragOpen, OwnedBy
<1>2. ASSUME Kept, DRAG_WINDOW' \in {DRAG_WINDOW, None}, \A w \in Slots : windows[w].dragged => windows'[w].dragged,
             \/ desktop' = desktop \/ desktop'.at \notin {"raise", "move"} \/ ~desktop'.title
             \/ desktop'.window \in Slots /\ windows[desktop'.window].used
      PROVE  DragOpen'
  <2>1. desktop.at \in {"raise", "move"} => desktop.window \in Slots
    BY RaisedIsSlot
  <2>2. DRAG_WINDOW \in Slots \union {None}
    BY DEF WTypes
  <2>3. DRAG_WINDOW' # None => windows'[DRAG_WINDOW'].used /\ windows'[DRAG_WINDOW'].dragged
    BY <1>2, <2>2 DEF DragOpen, Kept
  <2>4. desktop'.at \in {"raise", "move"} /\ desktop'.title => windows'[desktop'.window].used
    BY <1>2, <2>1 DEF DragOpen, Kept
  <2>5. QED
    BY <2>3, <2>4 DEF DragOpen
<1>3. CASE UNCHANGED <<windows, DRAG_WINDOW, desktop>>
  BY <1>3 DEF DragOpen
<1>4. CASE handle_input
  <2>1. CASE handle_key
    BY <1>3, <2>1 DEF handle_key
  <2>2. CASE handle_release
    BY <1>2, <2>2 DEF handle_release, Kept, WTypes
  <2>3. CASE handle_drag
    BY <1>2, <2>3, DragKeeps
  <2>4. CASE handle_click
    <3> DEFINE w == Hit(Head(queue).place)
    <3>1. UNCHANGED <<windows, DRAG_WINDOW>> /\ Kept
      BY <2>4 DEF handle_click, Kept, WTypes
    <3>2. CASE w = None
      BY <1>2, <2>4, <3>1, <3>2 DEF handle_click
    <3>3. CASE w # None
      <4>1. w \in Slots /\ windows[w].used
        BY <3>3, HitIsInOrder
      <4>2. PICK title \in BOOLEAN : desktop' = [Idle EXCEPT !.at = "raise", !.window = w, !.title = title]
        BY <2>4, <3>3 DEF handle_click
      <4> HIDE DEF w
      <4>3. desktop'.window = w
        BY <4>2 DEF Idle
      <4>4. QED
        BY <1>2, <3>1, <4>1, <4>3
    <3>4. QED
      BY <3>2, <3>3
  <2>5. CASE shell_on_key
    <3>1. UNCHANGED <<windows, DRAG_WINDOW>> /\ Kept
      BY <2>5 DEF shell_on_key, Kept, WTypes
    <3>2. desktop' = desktop \/ ~desktop'.title
      BY <2>5 DEF shell_on_key, Idle
    <3>3. QED
      BY <1>2, <3>1, <3>2
  <2>6. QED
    BY <1>4, <2>1, <2>2, <2>3, <2>4, <2>5 DEF handle_input
<1>5. CASE RaiseCounts
  <2>1. /\ UNCHANGED <<windows, DRAG_WINDOW>> /\ Kept /\ desktop.at = "raise"
        /\ desktop' = [desktop EXCEPT !.at = "move", !.seen = count]
    BY <1>5 DEF RaiseCounts, Kept, WTypes
  <2>2. desktop'.window = desktop.window /\ desktop'.title = desktop.title /\ desktop.window \in Slots
    BY <2>1, RaisedIsSlot DEF WTypes, Inside
  <2>3. desktop'.title => windows[desktop'.window].used
    BY <2>1, <2>2 DEF DragOpen
  <2>4. QED
    BY <1>2, <2>1, <2>2, <2>3
<1>6. CASE RaiseMoves
  <2>1. /\ desktop.at = "move" /\ desktop.window \in Slots /\ desktop' = Idle /\ Kept
        /\ desktop.title => DRAG_WINDOW' = desktop.window /\ windows'[desktop.window].dragged
        /\ ~desktop.title => UNCHANGED <<DRAG_WINDOW, windows>>
    BY <1>6, RaiseRaises, RaiseKept
  <2>2. CASE desktop.title
    BY <2>1, <2>2, IdleIsInside DEF DragOpen, Kept
  <2>3. CASE ~desktop.title
    BY <2>1, <2>3, IdleIsInside DEF DragOpen
  <2>4. QED
    BY <2>2, <2>3
<1>7. ASSUME NEW t \in Tasks, NEW place \in Places, create(t, place)
      PROVE  DragOpen'
  <2>1. PICK slot \in Slots : OpensIn(slot, t, place)
    BY <1>7, CreateOpens
  <2>2. /\ \A w \in Slots : windows[w].used => windows'[w] = windows[w]
        /\ UNCHANGED <<DRAG_WINDOW, desktop>>
    BY <2>1 DEF OpensIn, WTypes
  <2>3. /\ desktop.at \in {"raise", "move"} => desktop.window \in Slots
        /\ DRAG_WINDOW \in Slots \union {None}
    BY RaisedIsSlot DEF WTypes
  <2>4. QED
    BY <2>2, <2>3 DEF DragOpen
<1>8. QED
  BY <1>1, <1>3, <1>4, <1>5, <1>6, <1>7, NoLateClose
     DEF Next, Desktop, Program, push, poll_key, Starts, Ends, vars, KillCloses, WTypes

LEMMA StepMoves ==
  ASSUME WTypes, Order, DragOpen, [Next]_vars,
         NEW w \in Slots, windows[w].used, windows'[w].used, windows'[w].place # windows[w].place
  PROVE  windows[w].dragged
<1>1. CASE handle_drag
  <2>1. windows' = [windows EXCEPT ![DRAG_WINDOW].place = Head(queue).place] /\ DRAG_WINDOW \in Slots
    BY <1>1, DragKeeps
  <2>2. w = DRAG_WINDOW /\ DRAG_WINDOW # None
    BY <2>1 DEF WTypes, Slots, None
  <2>3. QED
    BY <2>2 DEF DragOpen
<1>2. ASSUME NEW t \in Tasks, close_owned_by(t)
      PROVE  FALSE
  BY <1>2, CloseKeeps, ClosedIsWindow
<1>3. ASSUME NEW t \in Tasks, NEW place \in Places, create(t, place)
      PROVE  FALSE
  <2>1. PICK slot \in Slots : OpensIn(slot, t, place)
    BY <1>3, CreateOpens
  <2>2. QED
    BY <2>1 DEF OpensIn, WTypes
<1>4. ~RaiseMoves
  BY RaiseKept
<1>5. KillCloses => desktop.window \in Tasks /\ close_owned_by(desktop.window)
  BY DEF KillCloses, WTypes
<1>6. QED
  BY <1>1, <1>2, <1>3, <1>4, <1>5
     DEF Next, Desktop, Program, push, handle_input, handle_key, shell_on_key, handle_release,
         handle_click, RaiseCounts, Starts, Ends, Leaves, Execs, poll_key, vars

------------------------------------------------------------------------------
(* Theorems *)

LEMMA InitWindows ==
  ASSUME Init
  PROVE  WTypes /\ Order /\ Numbered /\ OwnersLive /\ FocusOpen /\ DragOpen
<1> SHELL_WINDOW \in Slots /\ SHELL_WINDOW = 1
  BY ShellIsSlot DEF SHELL_WINDOW
<1>1. \A w \in Slots : windows[w] = [Closed EXCEPT !.used = (w = SHELL_WINDOW)]
  BY DEF Init
<1>2. \A w \in Slots : /\ windows[w] \in Window /\ windows[w].owner = System
                       /\ windows[w].used => w = SHELL_WINDOW
                       /\ w = SHELL_WINDOW => windows[w].used
  <2> SUFFICES ASSUME NEW w \in Slots
               PROVE  /\ windows[w] \in Window /\ windows[w].owner = System
                      /\ windows[w].used => w = SHELL_WINDOW
                      /\ w = SHELL_WINDOW => windows[w].used
    OBVIOUS
  <2>1. Closed \in Window /\ Closed.owner = System
    BY ClosedIsWindow DEF Closed
  <2>2. CASE w = SHELL_WINDOW
    <3>1. windows[w] = [Closed EXCEPT !.used = TRUE]
      BY <1>1, <2>2
    <3>2. QED
      BY <2>1, <2>2, <3>1 DEF Window
  <2>3. CASE w # SHELL_WINDOW
    <3>1. windows[w] = [Closed EXCEPT !.used = FALSE]
      BY <1>1, <2>3
    <3>2. QED
      BY <2>1, <2>3, <3>1 DEF Window
  <2>4. QED
    BY <2>2, <2>3
<1>3. windows \in [Slots -> Window]
  BY <1>2 DEF Init
<1>4. Z_ORDER \in Seq(Slots) /\ count = 1 /\ Z_ORDER[1] = 1
  BY DEF Init, count
<1>5. WTypes
  <2>1. queue \in Seq(Events) /\ Len(queue) < QUEUE_SIZE
    BY Sizes DEF Init
  <2>2. keys \in [Slots -> 0 .. KEY_QUEUE - 1]
    BY Sizes DEF Init
  <2>3. QED
    BY <1>3, <1>4, <2>1, <2>2, IdleIsInside DEF Init, WTypes
<1>6. Order
  <2>1. {Z_ORDER[i] : i \in 1 .. count} = 1 .. count
    BY <1>4
  <2>2. \A w \in Slots : windows[w].used => w <= count
    BY <1>2, <1>4
  <2>3. desktop.at = "idle"
    BY IdleIsInside DEF Init
  <2>4. QED
    BY <1>4, <2>1, <2>2, <2>3, Sizes DEF Order, ZOrderComplete
<1>7. Numbered
  <2>1. \A t \in Tasks : OwnedBy(t) = {}
    BY <1>2, OwnersAssumption DEF OwnedBy
  <2>2. QED
    BY <1>2, <2>1 DEF Numbered, AddressesDistinct
<1>8. OwnersLive
  BY <1>2 DEF OwnersLive
<1>9. FocusOpen /\ DragOpen
  BY <1>2, IdleIsInside DEF FocusOpen, DragOpen, Init
<1>10. QED
  BY <1>5, <1>6, <1>7, <1>8, <1>9

LEMMA IsWindowsInv ==
  ASSUME WTypes, Order, Numbered
  PROVE  WindowsInv
<1>1. WindowsTypeOK
  BY DEF WTypes, Window, Inside, Order, WindowsTypeOK
<1>2. QED
  BY <1>1 DEF WindowsInv, Order, Numbered

\* Whatever opens and ends while the desktop raises a window, every slot is in the
\* z-order once, and no two windows of a program share an address (create, raise,
\* close_owned_by).
THEOREM TableConsistent == Spec => []WindowsInv
<1>1. Init => WTypes /\ Order /\ Numbered
  BY InitWindows
<1>2. WTypes /\ Order /\ Numbered /\ [Next]_vars => WTypes' /\ Order' /\ Numbered'
  BY StepKeeps, StepNumbers
<1>3. WTypes /\ Order /\ Numbered => WindowsInv
  BY IsWindowsInv
<1>4. QED
  BY <1>1, <1>2, <1>3, PTL DEF Spec

\* A window does not outlive its program but for the moment kill needs, also if
\* the slot is given to a new task in that moment (close_owned_by, shell kill).
THEOREM WindowsHaveOwners == Spec => []OwnersLive
<1>1. Init => WTypes /\ Order /\ OwnersLive
  BY InitWindows
<1>2. WTypes /\ Order /\ OwnersLive /\ [Next]_vars => WTypes' /\ Order' /\ OwnersLive'
  BY StepKeeps, StepOwners
<1>3. QED
  BY <1>1, <1>2, PTL DEF Spec

\* The keyboard belongs to an open window (raise, close_owned_by), unless a
\* program ends while its window is raised or the shell names a closed one.
THEOREM KeysReachSomebody ==
  ASSUME "late_click" \notin Ops, "focus_closed" \notin Ops
  PROVE  Spec => []FocusOnOpenWindow
<1>1. Init => WTypes /\ Order /\ FocusOpen
  BY InitWindows
<1>2. WTypes /\ Order /\ FocusOpen /\ [Next]_vars => WTypes' /\ Order' /\ FocusOpen'
  BY StepKeeps, StepFocus
<1>3. FocusOpen => FocusOnOpenWindow
  BY DEF FocusOpen, FocusOnOpenWindow, Slots, None
<1>4. QED
  BY <1>1, <1>2, <1>3, PTL DEF Spec

\* A window is moved only by a drag that took it by its own title (handle_mouse,
\* close_owned_by), unless a program ends while its window is raised.
THEOREM DragsMoveTheirWindow ==
  ASSUME "late_click" \notin Ops
  PROVE  Spec => MovedByItsUser
<1>1. Init => WTypes /\ Order /\ DragOpen
  BY InitWindows
<1>2. WTypes /\ Order /\ DragOpen /\ [Next]_vars => WTypes' /\ Order' /\ DragOpen'
  BY StepKeeps, StepDrag
<1>3. WTypes /\ Order /\ DragOpen /\ [Next]_vars
        => [\A w \in Slots :
              (windows[w].used /\ windows'[w].used /\ windows'[w].place # windows[w].place)
                => windows[w].dragged]_vars
  BY StepMoves
<1>4. QED
  BY <1>1, <1>2, <1>3, PTL DEF Spec, MovedByItsUser
====
