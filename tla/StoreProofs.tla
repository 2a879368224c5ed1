----------------------------- MODULE StoreProofs -----------------------------
(***************************************************************************)
(* Storage implements FileStore: whatever TCMKFS does step by step to its  *)
(* table, its bitmap and its blocks, a call changes the file it names and  *)
(* no other, in memory and on the disk, up to a loss of power.             *)
(***************************************************************************)
EXTENDS StorageProofs
------------------------------------------------------------------------------
(* What is in a file *)

\* The content of an inode when the blocks hold data.
Cells(data, a) == [k \in 1 .. a.size |-> data[a.blocks[(k - 1) \div BLOCK_SIZE]][(k - 1) % BLOCK_SIZE]]

ReadIn(data, table, p) ==
  LET i == lookup_file(table, p) IN IF i = NoInode THEN Absent ELSE Cells(data, table[i])

\* What a call reads at a path, what a boot would find there, what Files says.
Read(p) == ReadIn(disk.data, INODES, p)
Kept(p) == ReadIn(disk.data, disk.inodes, p)
Seen(p) == ReadIn(disk.data, Table, p)

LEMMA FilesSeen == Files = [p \in Path |-> Seen(p)] /\ Files' = [p \in Path |-> Seen(p)']
BY DEF Files, Seen, ReadIn, Cells, ContentOf

Disks == [Block -> Content]

\* Cell k of a file lies in one of its blocks.
LEMMA CellAt ==
  ASSUME NEW a \in InodeRecord, a.kind = "file", NEW k \in 1 .. a.size
  PROVE  /\ (k - 1) \div BLOCK_SIZE \in 0 .. Count(a) - 1 /\ (k - 1) % BLOCK_SIZE \in Cell
         /\ a.blocks[(k - 1) \div BLOCK_SIZE] \in Owned(a) /\ a.blocks[(k - 1) \div BLOCK_SIZE] \in Block
         /\ k - 1 = ((k - 1) \div BLOCK_SIZE) * BLOCK_SIZE + ((k - 1) % BLOCK_SIZE)
<1> DEFINE e == k - 1  q == e \div BLOCK_SIZE  r == e % BLOCK_SIZE
<1>1. BLOCK_SIZE \in Nat \ {0} /\ a.size \in Nat /\ e \in Nat /\ e < a.size
  BY Sizes DEF InodeRecord
<1> HIDE DEF e
<1>2. q \in Nat /\ r \in 0 .. BLOCK_SIZE - 1 /\ q * BLOCK_SIZE <= e /\ e = q * BLOCK_SIZE + r
  BY <1>1, Quotient
<1> HIDE DEF q, r
<1>3. q * BLOCK_SIZE < a.size
  <2>1. q * BLOCK_SIZE \in Nat
    BY <1>1, <1>2, Products
  <2> QED BY <1>1, <1>2, <2>1
<1>4. q < block_count(a.size) /\ Count(a) = block_count(a.size) /\ Count(a) \in Nat
  BY <1>1, <1>2, <1>3, Counts DEF Count
<1>5. q \in 0 .. Count(a) - 1
  BY <1>2, <1>4
<1>6. a.blocks[q] \in Owned(a) /\ Owned(a) \subseteq Block
  BY <1>5, CountType
<1>7. r \in Cell
  BY <1>2 DEF Cell
<1> QED BY <1>2, <1>5, <1>6, <1>7 DEF e, q, r

LEMMA CellsType ==
  ASSUME NEW data \in Disks, NEW a \in InodeRecord, a.kind = "file"
  PROVE  /\ Cells(data, a) \in Seq(Data \union {Zero}) /\ Len(Cells(data, a)) = a.size
         /\ Cells(data, a) # Absent /\ a.size \in Nat
         /\ \A k \in 1 .. a.size : Cells(data, a)[k] = data[a.blocks[(k - 1) \div BLOCK_SIZE]][(k - 1) % BLOCK_SIZE]
<1>1. a.size \in Nat
  BY Sizes DEF InodeRecord
<1> DEFINE cell(k) == data[a.blocks[(k - 1) \div BLOCK_SIZE]][(k - 1) % BLOCK_SIZE]
<1>2. \A k \in 1 .. a.size : cell(k) \in Data \union {Zero}
  <2> TAKE k \in 1 .. a.size
  <2>1. (k - 1) % BLOCK_SIZE \in Cell /\ a.blocks[(k - 1) \div BLOCK_SIZE] \in Block
    BY CellAt
  <2> QED BY <2>1 DEF Disks, Content
<1>3. Cells(data, a) = [k \in 1 .. a.size |-> cell(k)]
  BY DEF Cells
<1> HIDE DEF cell
<1>4. Cells(data, a) \in Seq(Data \union {Zero}) /\ Len(Cells(data, a)) = a.size
      /\ \A k \in 1 .. a.size : Cells(data, a)[k] = cell(k)
  BY <1>1, <1>2, <1>3
<1>5. Cells(data, a) # Absent
  <2>1. SUFFICES ASSUME Cells(data, a) = Absent PROVE FALSE
    OBVIOUS
  <2>2. Len(Absent) = 1 /\ Absent[1] = -1
    BY DEF Absent
  <2>3. 1 \in 1 .. a.size /\ cell(1) = -1
    BY <1>1, <1>4, <2>1, <2>2
  <2>4. -1 \in Data \union {Zero}
    BY <1>2, <2>3
  <2> QED BY <2>4, DataAssumption DEF Zero
<1> QED BY <1>1, <1>4, <1>5 DEF cell

LEMMA CellsSame ==
  ASSUME NEW data, NEW new, NEW a \in InodeRecord, NEW b \in InodeRecord, a.kind = "file", Same(a, b),
         \A x \in Owned(a) : new[x] = data[x]
  PROVE  Cells(new, b) = Cells(data, a)
<1>1. b.size = a.size /\ \A k \in 0 .. Count(a) - 1 : b.blocks[k] = a.blocks[k]
  BY DEF Same
<1>2. ASSUME NEW k \in 1 .. a.size
      PROVE  new[b.blocks[(k - 1) \div BLOCK_SIZE]][(k - 1) % BLOCK_SIZE]
               = data[a.blocks[(k - 1) \div BLOCK_SIZE]][(k - 1) % BLOCK_SIZE]
  <2>1. b.blocks[(k - 1) \div BLOCK_SIZE] = a.blocks[(k - 1) \div BLOCK_SIZE] /\ a.blocks[(k - 1) \div BLOCK_SIZE] \in Owned(a)
    BY <1>1, CellAt
  <2> QED BY <2>1
<1> QED BY <1>1, <1>2 DEF Cells

\* No block of the file has changed.
Untouched(data, new, a) == \A x \in Owned(a) : new[x] = data[x]

LEMMA ReadSame ==
  ASSUME NEW data, NEW new, NEW T \in InodeTable, NEW U \in InodeTable, NEW p \in Seq(Word),
         lookup_file(U, p) = lookup_file(T, p),
         lookup_file(T, p) # NoInode =>
           /\ Same(T[lookup_file(T, p)], U[lookup_file(T, p)])
           /\ Untouched(data, new, T[lookup_file(T, p)])
  PROVE  ReadIn(new, U, p) = ReadIn(data, T, p)
<1> DEFINE i == lookup_file(T, p)
<1>1. i # NoInode => i \in Inode /\ T[i].kind = "file"
  BY ResolveType
<1>2. CASE i # NoInode
  <2>1. T[i] \in InodeRecord /\ U[i] \in InodeRecord
    BY <1>1, <1>2 DEF InodeTable
  <2>2. Cells(new, U[i]) = Cells(data, T[i])
    BY <1>1, <1>2, <2>1, CellsSame DEF Untouched
  <2> QED BY <2>2 DEF ReadIn
<1>3. CASE i = NoInode
  BY <1>3 DEF ReadIn
<1> QED BY <1>2, <1>3

\* Tables that differ in blocks beyond the sizes at most have the same files.
LEMMA AllReadSame ==
  ASSUME NEW data, NEW T \in InodeTable, NEW U \in InodeTable, IsTree(T), \A i \in Inode : Same(T[i], U[i]), NEW p \in Seq(Word)
  PROVE  ReadIn(data, U, p) = ReadIn(data, T, p)
<1>1. lookup_file(U, p) = lookup_file(T, p)
  BY AlikeLookup, SameAlike
<1>2. lookup_file(T, p) \in Inode \union {NoInode}
  BY ResolveType
<1> QED BY <1>1, <1>2, ReadSame DEF Untouched

\* The file of a path.
LEMMA FileOf ==
  ASSUME NEW data \in Disks, NEW T \in InodeTable, NEW p \in Seq(Word), NEW i, lookup_file(T, p) = i
  PROVE  /\ i = NoInode => ReadIn(data, T, p) = Absent
         /\ i # NoInode => /\ i \in Inode /\ T[i] \in InodeRecord /\ T[i].kind = "file"
                           /\ ReadIn(data, T, p) = Cells(data, T[i]) /\ ReadIn(data, T, p) # Absent
                           /\ Len(ReadIn(data, T, p)) = T[i].size
<1>1. i # NoInode => i \in Inode /\ T[i].kind = "file"
  BY ResolveType
<1>2. i \in Inode => T[i] \in InodeRecord
  BY DEF InodeTable
<1> QED BY <1>1, <1>2, CellsType DEF ReadIn

LEMMA NoCells ==
  ASSUME NEW data, NEW a, a.size = 0
  PROVE  Cells(data, a) = <<>>
BY DEF Cells

------------------------------------------------------------------------------
(* Steps of FileStore *)

Calling == [u \in User |-> job[u].call]

LEMMA CallingIs ==
  ASSUME User = {me}
  PROVE  /\ Calling = [u \in User |-> mine] /\ Calling' = [u \in User |-> mine'] /\ me' = me
         /\ Calling[me] = mine /\ Calling'[me] = mine'
         /\ Calling' = [Calling EXCEPT ![me] = mine']
<1>1. me' = me /\ mine = job[me].call /\ mine' = job'[me].call
  BY DEF me, mine
<1>2. Calling = [u \in User |-> mine] /\ Calling' = [u \in User |-> mine']
  BY <1>1 DEF Calling
<1> HIDE DEF Calling
<1> QED BY <1>1, <1>2

Silent == \A p \in Path : Seen(p)' = Seen(p)
Changes ==
  \E q \in Path : /\ mine.path = q /\ \A p \in Path \ {q} : Seen(p)' = Seen(p)
                  /\ Promise!Changed(mine, Seen(q), Seen(q)')

LEMMA SilentFiles == Silent => Files' = Files
BY FilesSeen DEF Silent

LEMMA NextIs ==
  ASSUME \/ Promise!Restart(Files, Files')
         \/ \E u \in User : Promise!Begin(u, Files, Files') \/ Promise!Step(u, Files, Files')
  PROVE  Promise!StoreNext
<1>1. PICK F : F = Files
  OBVIOUS
<1>2. PICK G : G = Files'
  OBVIOUS
<1>3. \/ Promise!Restart(F, G)
      \/ \E u \in User : Promise!Begin(u, F, G) \/ Promise!Step(u, F, G)
  <2>1. CASE Promise!Restart(Files, Files')
    BY <1>1, <1>2, <2>1 DEF Promise!Restart
  <2>2. ASSUME NEW u \in User, Promise!Begin(u, Files, Files') PROVE Promise!Begin(u, F, G)
    BY <1>1, <1>2, <2>2 DEF Promise!Begin
  <2>3. ASSUME NEW u \in User, Promise!Step(u, Files, Files') PROVE Promise!Step(u, F, G)
    BY <1>1, <1>2, <2>3 DEF Promise!Step
  <2> QED BY <2>1, <2>2, <2>3
<1>4. F \in {Files} /\ G \in {Files'}
  BY <1>1, <1>2
<1>5. \E f \in {Files}, g \in {Files'} :
        Promise!Restart(f, g) \/ \E u \in User : Promise!Begin(u, f, g) \/ Promise!Step(u, f, g)
  <2>1. Promise!Restart(F, G) \/ \E u \in User : Promise!Begin(u, F, G) \/ Promise!Step(u, F, G)
    BY <1>3
  <2> F \in {Files} /\ G \in {Files'}
    BY <1>4
  <2> WITNESS F \in {Files}, G \in {Files'}
  <2> QED BY <2>1
<1> QED BY <1>5 DEF Promise!StoreNext

LEMMA CallSteps ==
  ASSUME Faultless, StorageTypes, todo # <<>>, mine' \in {mine, Idle}, Silent \/ Changes
  PROVE  Promise!StoreNext
<1>1. User = {me} /\ mine # Idle
  BY CallTyped DEF Faultless, Sole
<1>2. Calling[me] = mine /\ Calling' \in {Calling, [Calling EXCEPT ![me] = Idle]}
  <2>1. Calling' = [Calling EXCEPT ![me] = mine'] /\ Calling = [Calling EXCEPT ![me] = mine]
    BY <1>1, CallingIs
  <2> QED BY <1>1, <2>1, CallingIs
<1> DEFINE f == Files  g == Files'
<1>3. \/ g = f
      \/ mine.path \in Path /\ g = [f EXCEPT ![mine.path] = g[mine.path]] /\ Promise!Changed(mine, f[mine.path], g[mine.path])
  <2>1. CASE Silent
    BY <2>1, SilentFiles
  <2>2. CASE Changes
    <3>1. PICK q \in Path : /\ mine.path = q /\ \A p \in Path \ {q} : Seen(p)' = Seen(p)
                            /\ Promise!Changed(mine, Seen(q), Seen(q)')
      BY <2>2 DEF Changes
    <3>2. f = [p \in Path |-> Seen(p)] /\ g = [p \in Path |-> Seen(p)']
      BY FilesSeen
    <3> HIDE DEF f, g
    <3>3. f[q] = Seen(q) /\ g[q] = Seen(q)' /\ g = [f EXCEPT ![q] = g[q]]
      BY <3>1, <3>2
    <3> QED BY <3>1, <3>3
  <2> QED BY <2>1, <2>2
<1>4. Promise!Step(me, Files, Files')
  BY <1>1, <1>2, <1>3 DEF Promise!Step, Calling
<1>5. \E u \in User : Promise!Begin(u, Files, Files') \/ Promise!Step(u, Files, Files')
  BY <1>1, <1>4
<1> QED BY <1>5, NextIs

LEMMA CallBegun ==
  ASSUME Faultless, StorageTypes, mine = Idle, mine' # Idle, Silent,
         mine'.path \in Path => mine'.was = Seen(mine'.path)
  PROVE  Promise!StoreNext
<1>1. User = {me}
  BY DEF Faultless
<1>2. Calling[me] = Idle /\ Calling'[me] = mine' /\ Calling' = [Calling EXCEPT ![me] = Calling'[me]]
  BY <1>1, CallingIs
<1>3. Files' = Files /\ (mine'.path \in Path => mine'.was = Files[mine'.path])
  BY SilentFiles, FilesSeen
<1>4. Promise!Begin(me, Files, Files')
  BY <1>2, <1>3 DEF Promise!Begin, Calling
<1>5. \E u \in User : Promise!Begin(u, Files, Files') \/ Promise!Step(u, Files, Files')
  BY <1>1, <1>4
<1> QED BY <1>5, NextIs

LEMMA NothingSeen ==
  ASSUME User = {me}, Silent, mine' = mine
  PROVE  UNCHANGED <<Files, Calling>>
BY SilentFiles, CallingIs

LEMMA PowerLost ==
  ASSUME Faultless, StorageTypes, mine' = Idle,
         \A p \in Path : Seen(p)' = Seen(p) \/ (mine.path = p /\ Promise!Reverted(mine, Seen(p), Seen(p)'))
  PROVE  Promise!StoreNext
<1>1. User = {me}
  BY DEF Faultless
<1>2. Calling' = [u \in User |-> Idle] /\ Calling[me] = mine
  BY <1>1, CallingIs
<1>3. DOMAIN Files' = Path /\ \A p \in Path : Files[p] = Seen(p) /\ Files'[p] = Seen(p)'
  BY FilesSeen
<1>4. \A p \in Path : Files'[p] = Files[p] \/ \E u \in User : Calling[u].path = p /\ Promise!Reverted(Calling[u], Files[p], Files'[p])
  BY <1>1, <1>2, <1>3
<1>5. Promise!Restart(Files, Files')
  BY <1>2, <1>3, <1>4 DEF Promise!Restart, Calling
<1> QED BY <1>5, NextIs

------------------------------------------------------------------------------
(* What the promise rests on *)

\* After a loss of power a file is what it is now, or what the call allows.
DiskSays ==
  MOUNTED => \A p \in Path : Kept(p) = Read(p) \/ (mine.path = p /\ Promise!Reverted(mine, Read(p), Kept(p)))
\* Before its first change a call finds its file as it was at the beginning,
AsItWas ==
  mine.path \in Path /\ mine.op \in Named /\ (Due("remove") \/ (mine.op = "create_file" /\ Due("create"))) =>
    mine.was = Read(mine.path)
\* and write_at, until the file grows, with some of the data over it.
HalfWritten ==
  mine.path \in Path /\ mine.op = "write_at" /\ (Due("write") \/ Due("grow")) =>
    Promise!Written(mine, mine.was, Read(mine.path)) /\ Len(Read(mine.path)) = Len(mine.was)
\* The file that write_file has made is empty until all its data is there.
EmptyYet ==
  mine.op = "write_file" =>
    \A i \in Inode : Owes(On("write", i)) \/ Owes(Grows(i, EndOf(mine))) => INODES[i].size = 0

Stored(i, n) ==
  \A k \in FromOf(mine, n) .. ToOf(mine, n) - 1 :
    disk.data[INODES[i].blocks[n]][k] = mine.data[n * BLOCK_SIZE + k - mine.offset + 1]
\* The blocks before the one that is stored next have their data.
DataStored ==
  \A i \in Inode : Filling(i) => \A n \in Index :
    Reaches(mine, n) /\ (\A m \in Index : Owes(StoreOf(mine, i, m)) => n < m) => Stored(i, n)
\* A block of the file that is written in part is in the buffer when it is stored.
Buffered ==
  \A i \in Inode, n \in Index :
    Filling(i) /\ ToOf(mine, n) - FromOf(mine, n) < BLOCK_SIZE /\ n < block_count(INODES[i].size) =>
      /\ todo # Cons(Just("clear"), FromStore(mine, i, n, Last(mine.op)))
      /\ todo = FromStore(mine, i, n, Last(mine.op)) => SCRATCH = disk.data[INODES[i].blocks[n]]

PromiseInv == DiskSays /\ AsItWas /\ HalfWritten /\ EmptyYet /\ DataStored /\ Buffered
Sound == StorageTypes /\ BlocksInv /\ TreeInv /\ NodesInv
Known == Sound /\ PromiseInv

------------------------------------------------------------------------------
(* Facts for every step *)

LEMMA SoundNext ==
  ASSUME Faultless, Sound, [Next]_vars
  PROVE  Sound' /\ Sole
<1>1. Sole
  BY DEF Faultless, Sole
<1> QED BY <1>1, NextTypes, NextBlocks, NextTree, NextNodes DEF Sound

LEMMA NoFiles ==
  ASSUME NEW data, NEW T \in InodeTable, NEW p \in Seq(Word), \A i \in Inode : T[i].kind # "file"
  PROVE  ReadIn(data, T, p) = Absent
BY ResolveType DEF ReadIn

LEMMA SeenIs ==
  ASSUME NEW p
  PROVE  /\ MOUNTED => Seen(p) = Read(p)
         /\ ~MOUNTED /\ disk.formatted => Seen(p) = Kept(p)
         /\ MOUNTED' => Seen(p)' = Read(p)'
         /\ ~MOUNTED' /\ disk'.formatted => Seen(p)' = Kept(p)'
BY DEF Seen, Read, Kept, Table

LEMMA SeenNone ==
  ASSUME NEW p \in Seq(Word)
  PROVE  /\ ~MOUNTED /\ ~disk.formatted => Seen(p) = Absent
         /\ ~MOUNTED' /\ ~disk'.formatted => Seen(p)' = Absent
<1> DEFINE T == [i \in Inode |-> Empty]
<1>1. T \in InodeTable /\ \A i \in Inode : T[i].kind # "file"
  BY EmptyTypes DEF Empty
<1> HIDE DEF T
<1>2. \A data : ReadIn(data, T, p) = Absent
  BY <1>1, NoFiles
<1> QED BY <1>2 DEF Seen, Table, T

\* Where no inode waits for its place on the disk, a boot finds every file as it is.
LEMMA Settled0 ==
  ASSUME Sound, MOUNTED, ~Now(me, "inodes") \/ mine.op = "sync", NEW p \in Seq(Word)
  PROVE  Kept(p) = Read(p)
<1>1. \A i \in Inode : Same(INODES[i], disk.inodes[i])
  BY NoneWaits DEF Sound, Live, AllOnDisk, OnDiskToo
<1>2. INODES \in InodeTable /\ disk.inodes \in InodeTable /\ IsTree(INODES)
  BY TablesTyped, LiveTree DEF Sound
<1>3. ReadIn(disk.data, disk.inodes, p) = ReadIn(disk.data, INODES, p)
  BY <1>1, <1>2, AllReadSame
<1> QED BY <1>3 DEF Kept, Read

LEMMA Settled1 ==
  ASSUME Sound', MOUNTED', (~Now(me, "inodes") \/ mine.op = "sync")', NEW p \in Seq(Word)
  PROVE  Kept(p)' = Read(p)'
<1>1. \A i \in Inode : Same(INODES'[i], disk'.inodes[i])
  BY DEF Sound, BlocksInv, Live, DiskFollows, OnDiskToo
<1>2. INODES' \in InodeTable /\ disk'.inodes \in InodeTable /\ IsTree(INODES')
  BY TreePrimed DEF Sound, StorageTypes, DataTypes, TreeInv, Live
<1>3. ReadIn(disk'.data, disk'.inodes, p) = ReadIn(disk'.data, INODES', p)
  BY <1>1, <1>2, AllReadSame
<1> QED BY <1>3 DEF Kept, Read

LEMMA InPath == Path \subseteq Seq(Word)
BY Words

LEMMA OtherPromise ==
  ASSUME mine'.op \notin Named, DiskSays'
  PROVE  PromiseInv'
BY DEF PromiseInv, AsItWas, HalfWritten, EmptyYet, DataStored, Buffered, Filling, Named

\* Between the calls the files are on the disk as they are in memory.
LEMMA EndsPromise ==
  ASSUME Sound', mine' = Idle, todo' = <<>>
  PROVE  PromiseInv'
<1>1. (~Now(me, "inodes"))'
  BY DEF Now, todo
<1>2. DiskSays'
  BY <1>1, Settled1, InPath DEF DiskSays
<1> QED BY <1>2, OtherPromise, IdleCall DEF Named

LEMMA NotFilling ==
  ASSUME Sole, StorageTypes', todo' # <<>>, Head(todo').do \notin {"grow", "store", "fetch", "clear"}
  PROVE  \A i \in Inode : ~Filling(i)'
<1> SUFFICES ASSUME NEW i \in Inode, Filling(i)' PROVE FALSE
  OBVIOUS
<1>1. mine'.op \in {"write_file", "write_at"} /\ todo' \in InPieces(mine', i, Last(mine'.op))
  BY DEF Filling
<1>2. mine' \in CallRecord /\ mine'.data # <<>>
  <2>1. Shape(mine, todo)' /\ job' \in [User -> [call : CallRecord, steps : Seq(Step)]]
    BY DEF StorageTypes, CallTypes
  <2>2. me \in User /\ mine' = job'[me].call
    BY DEF mine, me, Sole
  <2>3. mine' \in CallRecord
    BY <2>1, <2>2
  <2> QED BY <1>1, <2>1, <2>3, IdleCall DEF Shape
<1>3. Last(mine'.op) \in Seq(Step)
  BY <1>1, Lists
<1> QED BY <1>1, <1>2, <1>3, PieceHeads

------------------------------------------------------------------------------
(* Steps that change no file *)

Keeps == PromiseInv' /\ (Silent \/ Changes)

LEMMA StaysSilent ==
  ASSUME INODES' = INODES, MOUNTED' = MOUNTED, disk'.formatted = disk.formatted, disk'.data = disk.data,
         MOUNTED \/ ~disk.formatted \/ disk'.inodes = disk.inodes
  PROVE  Silent /\ \A p : Read(p)' = Read(p) /\ (disk'.inodes = disk.inodes => Kept(p)' = Kept(p))
<1>1. \A p : Read(p)' = Read(p) /\ (disk'.inodes = disk.inodes => Kept(p)' = Kept(p))
  BY DEF Read, Kept
<1>2. ASSUME NEW p \in Path PROVE Seen(p)' = Seen(p)
  <2>1. CASE MOUNTED
    BY <1>1, <2>1, SeenIs
  <2>2. CASE ~MOUNTED /\ disk.formatted
    BY <1>1, <2>2, SeenIs
  <2>3. CASE ~MOUNTED /\ ~disk.formatted
    BY <2>3, SeenNone, InPath
  <2> QED BY <2>1, <2>2, <2>3
<1> QED BY <1>1, <1>2 DEF Silent

LEMMA EndsSilently ==
  ASSUME Sound', mine' = Idle, todo' = <<>>, UNCHANGED <<INODES, MOUNTED, disk>>
  PROVE  Keeps
BY EndsPromise, StaysSilent DEF Keeps

LEMMA FailsPromise ==
  ASSUME Faultless, Known, Sound', FlushFails(me) \/ BlockFails(me)
  PROVE  Keeps
<1>1. Failed(me) /\ UNCHANGED <<INODES, MOUNTED, disk>> /\ Sole /\ StorageTypes
  BY DEF FlushFails, BlockFails, cache, Known, Sound, Faultless, Sole
<1> QED BY <1>1, FailedGoes, EndsSilently

LEMMA LastPromise ==
  ASSUME Faultless, Known, Sound', Take(me) \/ Attach(me) \/ Refresh(me) \/ Advance(me) \/ Forget(me)
  PROVE  Keeps
<1>1. Done(me) /\ UNCHANGED <<INODES, MOUNTED, disk>> /\ Sole /\ StorageTypes
  BY DEF Take, Attach, Refresh, Advance, Forget, cache, Known, Sound, Faultless, Sole
<1>2. Now(me, "take") \/ Now(me, "attach") \/ Now(me, "refresh") \/ Now(me, "advance") \/ Now(me, "forget")
  BY DEF Take, Attach, Refresh, Advance, Forget
<1>3. todo # <<>>
  BY <1>2 DEF Now, todo
<1>4. mine' = Idle /\ todo' = <<>>
  BY <1>1, <1>2, <1>3, FlowLast
<1> QED BY <1>1, <1>4, EndsSilently

\* The dues of the call do not grow.
DuesFall == \A x : x.do \in Vital /\ Has(todo', x) => Has(todo, x)

LEMMA Fewer ==
  ASSUME DuesFall, NEW w \in Vital
  PROVE  Due(w)' => Due(w)
BY DueOwed DEF DuesFall

LEMMA NoPieces ==
  ASSUME \A i \in Inode : ~Filling(i)'
  PROVE  DataStored' /\ Buffered'
BY DEF DataStored, Buffered

LEMMA WaitsPromise ==
  ASSUME PromiseInv, mine' = mine, INODES' = INODES, disk'.data = disk.data, DuesFall, DiskSays', DataStored', Buffered'
  PROVE  PromiseInv'
<1>1. \A p : Read(p)' = Read(p)
  BY DEF Read
<1>2. (Due("remove")' => Due("remove")) /\ (Due("create")' => Due("create"))
      /\ (Due("write")' => Due("write")) /\ (Due("grow")' => Due("grow"))
  BY Fewer DEF Vital
<1>3. AsItWas'
  BY <1>1, <1>2 DEF PromiseInv, AsItWas
<1>4. HalfWritten'
  BY <1>1, <1>2 DEF PromiseInv, HalfWritten
<1>5. EmptyYet'
  <2>1. \A i : On("write", i).do \in Vital /\ Grows(i, EndOf(mine)).do \in Vital
    BY StepsOf DEF Vital
  <2>2. EndOf(mine)' = EndOf(mine)
    BY DEF EndOf
  <2>3. \A i \in Inode : (Owes(On("write", i))' => Owes(On("write", i)))
                         /\ (Owes(Grows(i, EndOf(mine)))' => Owes(Grows(i, EndOf(mine))))
    BY <2>1, <2>2 DEF DuesFall, Owes, Grows, On
  <2> QED BY <2>3 DEF PromiseInv, EmptyYet
<1> QED BY <1>3, <1>4, <1>5 DEF PromiseInv

\* After a flush step nothing is filled.
LEMMA FlushedNext ==
  ASSUME Sole, StorageTypes, StorageTypes', todo # <<>>, Head(todo).do \in {"inodes", "bitmap"}, mine' = mine,
         todo' = Tail(todo) \/ (todo' # <<>> /\ Head(todo').do = "inodes")
  PROVE  DataStored' /\ Buffered'
<1>1. mine \in CallRecord /\ Shape(mine, todo)
  BY CallTyped
<1>2. ASSUME todo' = Tail(todo) PROVE \A i \in Inode : ~Filling(i)'
  BY <1>1, <1>2, AfterOut DEF Filling
<1>3. ASSUME todo' # <<>>, Head(todo').do = "inodes" PROVE \A i \in Inode : ~Filling(i)'
  BY <1>3, NotFilling
<1> QED BY <1>2, <1>3, NoPieces

LEMMA WriteBitmapPromise ==
  ASSUME Faultless, Known, Sound', WriteBitmap(me)
  PROVE  Keeps
<1>1. Sole /\ StorageTypes /\ PromiseInv /\ StorageTypes'
  BY DEF Known, Sound, Faultless, Sole
<1>2. UNCHANGED <<INODES, MOUNTED>> /\ disk'.formatted = disk.formatted /\ disk'.inodes = disk.inodes /\ disk'.data = disk.data
  BY DEF WriteBitmap, cache
<1>3. Silent /\ \A p : Read(p)' = Read(p) /\ Kept(p)' = Kept(p)
  BY <1>2, StaysSilent
<1>4. PICK rest \in Seq(Step) : todo = Cons(Just("bitmap"), rest) /\ Leaves(rest) /\ (rest # <<>> => Shape(mine, rest))
  BY <1>1, FlowBitmap
<1>5. todo' = rest /\ (rest = <<>> => mine' = Idle) /\ (rest # <<>> => mine' = mine)
  BY <1>4 DEF Leaves
<1>6. CASE rest = <<>>
  BY <1>3, <1>5, <1>6, EndsPromise DEF Keeps
<1>7. CASE rest # <<>>
  <2>1. DuesFall
    BY <1>4, <1>5, HasCons DEF DuesFall
  <2>2. DataStored' /\ Buffered'
    <3>1. todo # <<>> /\ Head(todo).do = "bitmap" /\ Tail(todo) = rest
      BY <1>4, ConsFacts, StepsOf
    <3> QED BY <1>1, <1>5, <1>7, <3>1, FlushedNext
  <2>3. DiskSays'
    BY <1>1, <1>2, <1>3, <1>5, <1>7 DEF PromiseInv, DiskSays
  <2> QED BY <1>1, <1>2, <1>3, <1>5, <1>7, <2>1, <2>2, <2>3, WaitsPromise DEF Keeps
<1> QED BY <1>6, <1>7

\* What waits for its place on the disk arrives there, or all stays.
LEMMA WriteInodesKept ==
  ASSUME Sole, Sound, MOUNTED, WriteInodes(me), NEW p \in Seq(Word)
  PROVE  Kept(p)' = Kept(p) \/ Kept(p)' = Read(p)
<1> DEFINE k == First(me).chunk  U == disk.inodes  V == disk'.inodes
<1>1. INODES \in InodeTable /\ U \in InodeTable /\ StorageTypes'
  BY TablesTyped, WriteInodesTypes DEF Sound
<1>2. V \in InodeTable /\ disk'.data = disk.data
  BY <1>1, TablesTyped DEF WriteInodes, StorageTypes, DataTypes
<1>3. \A i \in Inode : V[i] = IF ChunkOf(i) = k THEN INODES[i] ELSE U[i]
  BY <1>1 DEF WriteInodes, Sound, StorageTypes, DataTypes
<1>4. \A i, j \in Inode : i # j => Same(INODES[i], U[i]) \/ Same(INODES[j], U[j])
  BY DEF Sound, BlocksInv, Live, DiskFollows, OnDiskToo
<1>5. IsTree(INODES) /\ IsTree(U)
  BY LiveTree DEF Sound, TreeInv, StorageTypes, DataTypes
<1> HIDE DEF k, U, V
<1>6. CASE \A i \in Inode : Same(INODES[i], V[i])
  <2>1. ReadIn(disk.data, V, p) = ReadIn(disk.data, INODES, p)
    BY <1>1, <1>2, <1>5, <1>6, AllReadSame
  <2> QED BY <1>2, <2>1 DEF Kept, Read, V
<1>7. CASE ~\A i \in Inode : Same(INODES[i], V[i])
  <2>1. PICK i \in Inode : ~Same(INODES[i], V[i])
    BY <1>7
  <2>2. V[i] = U[i] /\ ~Same(INODES[i], U[i]) /\ ChunkOf(i) # k
    BY <1>3, <2>1, SameSelf
  <2>3. \A j \in Inode : Same(U[j], V[j])
    <3> TAKE j \in Inode
    <3>1. CASE j = i
      BY <2>2, <3>1, SameSelf
    <3>2. CASE j # i
      <4>1. Same(INODES[j], U[j])
        BY <1>4, <2>2, <3>2
      <4>2. INODES[j] \in InodeRecord /\ U[j] \in InodeRecord
        BY <1>1 DEF InodeTable
      <4>3. Same(U[j], INODES[j]) /\ Same(U[j], U[j])
        BY <4>1, <4>2, SameFacts, SameSelf
      <4> QED BY <1>3, <4>3
    <3> QED BY <3>1, <3>2
  <2>4. ReadIn(disk.data, V, p) = ReadIn(disk.data, U, p)
    BY <1>1, <1>2, <1>5, <2>3, AllReadSame
  <2> QED BY <1>2, <2>4 DEF Kept, U, V
<1> QED BY <1>6, <1>7

LEMMA WriteInodesPromise ==
  ASSUME Faultless, Known, Sound', WriteInodes(me)
  PROVE  Keeps
<1>1. Sole /\ StorageTypes /\ PromiseInv /\ StorageTypes' /\ Sound
  BY DEF Known, Sound, Faultless, Sole
<1>2. UNCHANGED <<INODES, MOUNTED>> /\ disk'.formatted = disk.formatted /\ disk'.data = disk.data
  BY <1>1 DEF WriteInodes, cache, StorageTypes, DataTypes
<1>3. PICK k \in 1 .. Chunks, rest \in Seq(Step) :
           /\ todo = Cons(Out(k), rest) /\ First(me).chunk = k
           /\ Leaves(IF k < Chunks THEN Cons(Out(k + 1), rest) ELSE rest)
           /\ k < Chunks => Shape(mine, Cons(Out(k + 1), rest))
           /\ rest # <<>> => Shape(mine, rest)
  BY <1>1, FlowInodes
<1>4. todo # <<>> /\ Head(todo).do = "inodes" /\ Tail(todo) = rest
      /\ Cons(Out(k + 1), rest) # <<>> /\ Head(Cons(Out(k + 1), rest)).do = "inodes"
  BY <1>3, ConsFacts, StepsOf
<1>5. \/ todo' = <<>> /\ mine' = Idle
      \/ todo' # <<>> /\ mine' = mine /\ (todo' = rest \/ todo' = Cons(Out(k + 1), rest))
  BY <1>3, <1>4 DEF Leaves
<1>6. Live
  BY <1>1, <1>4, CallTyped, IdleCall DEF Shape, Live
<1>7. Silent /\ \A p : Read(p)' = Read(p)
  <2>1. ~MOUNTED => ~disk.formatted
    BY <1>1, <1>4, CallTyped DEF Shape
  <2> QED BY <1>2, <2>1, StaysSilent
<1>8. CASE todo' = <<>>
  BY <1>4, <1>5, <1>7, <1>8, EndsPromise DEF Keeps
<1>9. CASE todo' # <<>>
  <2>1. mine' = mine /\ (todo' = rest \/ todo' = Cons(Out(k + 1), rest))
    BY <1>5, <1>9
  <2>2. DuesFall
    <3>1. Out(k + 1).do \notin Vital
      BY StepsOf DEF Vital
    <3>2. \A x : Has(todo', x) => Has(rest, x) \/ x = Out(k + 1)
      BY <2>1, HasCons
    <3> QED BY <1>3, <3>1, <3>2, HasCons DEF DuesFall
  <2>3. DataStored' /\ Buffered'
    BY <1>1, <1>4, <1>9, <2>1, FlushedNext
  <2>4. DiskSays'
    <3> SUFFICES ASSUME MOUNTED', NEW p \in Path
                 PROVE  Kept(p)' = Read(p)' \/ (mine'.path = p /\ Promise!Reverted(mine', Read(p)', Kept(p)'))
      BY DEF DiskSays
    <3>1. MOUNTED /\ p \in Seq(Word)
      BY <1>2, InPath
    <3>2. Kept(p)' = Kept(p) \/ Kept(p)' = Read(p)
      BY <1>1, <3>1, WriteInodesKept
    <3>3. Kept(p) = Read(p) \/ (mine.path = p /\ Promise!Reverted(mine, Read(p), Kept(p)))
      BY <1>1, <3>1 DEF PromiseInv, DiskSays
    <3> QED BY <1>7, <2>1, <3>2, <3>3
  <2> QED BY <1>1, <1>2, <1>7, <2>1, <2>2, <2>3, <2>4, WaitsPromise DEF Keeps
<1> QED BY <1>8, <1>9

------------------------------------------------------------------------------
(* The pieces of a write *)

Partial(c, n) == ToOf(c, n) - FromOf(c, n) < BLOCK_SIZE

\* A piece of the file that is written in part begins with the block that is there.
LEMMA PieceSays ==
  ASSUME NEW c \in CallRecord, c.data # <<>>, NEW i \in Inode, NEW n \in Index, Reaches(c, n), NEW have,
         NEW rest \in Seq(Step), NEW s, s = Piece(i, n, c.offset, Len(c.data), have) \o FromGrow(c, i, rest)
  PROVE  /\ Has(s, StoreOf(c, i, n))
         /\ \A m \in Index : Partial(c, m) /\ m < have =>
              s # Cons(Just("clear"), FromStore(c, i, m, rest)) /\ s # FromStore(c, i, m, rest)
<1> DEFINE store == StoreOf(c, i, n)  fetch == At("fetch", i, n)  clear == Just("clear")
           grow == FromGrow(c, i, rest)  P == Piece(i, n, c.offset, Len(c.data), have)
<1>0. s = P \o grow
  OBVIOUS
<1>1. /\ store \in Step /\ fetch \in Step /\ clear \in Step /\ grow \in Seq(Step)
      /\ Cons(store, grow) \in Seq(Step)
  BY WriteLists, StepTypes DEF FromStore
<1>2. store.do = "store" /\ store.nth = n /\ fetch.do = "fetch" /\ clear.do = "clear"
      /\ \A m : StoreOf(c, i, m).do = "store" /\ StoreOf(c, i, m).nth = m
  BY DEF StoreOf, Stores, At, Just
<1>3. P = IF ToOf(c, n) - FromOf(c, n) = BLOCK_SIZE THEN <<store>> ELSE IF n < have THEN <<fetch, store>> ELSE <<clear, store>>
  BY PieceIs
<1>4. /\ <<store>> \o grow = Cons(store, grow)
      /\ <<fetch, store>> \o grow = Cons(fetch, Cons(store, grow))
      /\ <<clear, store>> \o grow = Cons(clear, Cons(store, grow))
  BY <1>1, Joined
<1>5. FromOf(c, n) \in Nat /\ ToOf(c, n) \in Nat
  BY Ranges
<1>6. \/ s = Cons(store, grow) /\ ~Partial(c, n)
      \/ s = Cons(fetch, Cons(store, grow))
      \/ s = Cons(clear, Cons(store, grow)) /\ ~(n < have)
  <2>1. CASE ToOf(c, n) - FromOf(c, n) = BLOCK_SIZE
    <3>1. ~Partial(c, n)
      BY <1>5, <2>1, Sizes DEF Partial
    <3> QED BY <1>3, <1>4, <2>1, <3>1, Zenon DEF P, store, fetch, clear, grow
  <2>2. CASE ~(ToOf(c, n) - FromOf(c, n) = BLOCK_SIZE)
    <3> HIDE DEF store, fetch, clear, grow, P
    <3>1. P = IF n < have THEN <<fetch, store>> ELSE <<clear, store>>
      BY <1>3, <2>2
    <3> QED BY <1>0, <1>4, <3>1
  <2> QED BY <2>1, <2>2
<1> HIDE DEF store, fetch, clear, grow
<1>7. Has(s, store)
  <2>1. Has(Cons(store, grow), store)
    BY <1>1, HasCons
  <2>2. \A x : Has(Cons(x, Cons(store, grow)), store)
    BY <1>1, <2>1, HasCons
  <2> QED BY <1>6, <2>1, <2>2
<1>8. ASSUME NEW m \in Index, Partial(c, m), m < have
      PROVE  s # Cons(Just("clear"), FromStore(c, i, m, rest)) /\ s # FromStore(c, i, m, rest)
  <2>1. FromStore(c, i, m, rest) = Cons(StoreOf(c, i, m), grow)
    BY DEF FromStore, grow
  <2>2. CASE s = Cons(store, grow) /\ ~Partial(c, n)
    <3>1. s # FromStore(c, i, m, rest)
      BY <1>1, <1>2, <1>8, <2>1, <2>2, SameCons
    <3>2. Head(s).do = "store"
      BY <1>1, <1>2, <2>2, ConsFacts
    <3>3. s # Cons(Just("clear"), FromStore(c, i, m, rest))
      <4> SUFFICES ASSUME s = Cons(Just("clear"), FromStore(c, i, m, rest)) PROVE FALSE
        OBVIOUS
      <4>1. s = <<Just("clear")>> \o (<<StoreOf(c, i, m)>> \o grow)
        BY <2>1 DEF Cons
      <4>2. Head(<<Just("clear")>> \o (<<StoreOf(c, i, m)>> \o grow)) = Just("clear")
        BY <1>1
      <4> QED BY <1>2, <3>2, <4>1, <4>2 DEF clear
    <3> QED BY <3>1, <3>3
  <2>3. CASE s = Cons(fetch, Cons(store, grow))
    <3>1. Head(s) = fetch
      BY <1>1, <2>3, ConsFacts
    <3>2. Head(Cons(StoreOf(c, i, m), grow)) = StoreOf(c, i, m)
      BY <1>1, ConsFacts
    <3>3. s # FromStore(c, i, m, rest)
      BY <1>2, <2>1, <3>1, <3>2
    <3>4. s # Cons(Just("clear"), FromStore(c, i, m, rest))
      <4> SUFFICES ASSUME s = Cons(Just("clear"), FromStore(c, i, m, rest)) PROVE FALSE
        OBVIOUS
      <4>1. s = <<Just("clear")>> \o (<<StoreOf(c, i, m)>> \o grow)
        BY <2>1 DEF Cons
      <4>2. Head(<<Just("clear")>> \o (<<StoreOf(c, i, m)>> \o grow)) = Just("clear")
        BY <1>1
      <4> QED BY <1>2, <3>1, <4>1, <4>2 DEF clear
    <3> QED BY <3>3, <3>4
  <2>4. CASE s = Cons(clear, Cons(store, grow)) /\ ~(n < have)
    <3>1. Head(s) = clear
      BY <1>1, <2>4, ConsFacts
    <3>2. Head(Cons(StoreOf(c, i, m), grow)) = StoreOf(c, i, m)
      BY <1>1, ConsFacts
    <3>3. s # FromStore(c, i, m, rest)
      BY <1>2, <2>1, <3>1, <3>2
    <3>4. s # Cons(Just("clear"), FromStore(c, i, m, rest))
      <4> SUFFICES ASSUME s = Cons(clear, FromStore(c, i, m, rest)) PROVE FALSE
        BY DEF clear
      <4>1. Tail(s) = Cons(store, grow)
        BY <1>1, <2>4, ConsFacts
      <4>2. s = <<clear>> \o (<<StoreOf(c, i, m)>> \o grow)
        BY <2>1 DEF Cons
      <4>3. Tail(<<clear>> \o (<<StoreOf(c, i, m)>> \o grow)) = <<StoreOf(c, i, m)>> \o grow
        BY <1>1
      <4>4. Cons(store, grow) = Cons(StoreOf(c, i, m), grow)
        BY <4>1, <4>2, <4>3 DEF Cons
      <4>5. store = StoreOf(c, i, m)
        BY <1>1, <4>4, SameCons
      <4> QED BY <1>2, <1>8, <2>4, <4>5
    <3> QED BY <3>3, <3>4
  <2> QED BY <1>6, <2>2, <2>3, <2>4
<1> QED BY <1>7, <1>8 DEF store

\* A block is fetched or the buffer cleared before the block is stored.
LEMMA PieceReady ==
  ASSUME Sole, StorageTypes, DataStored, Writer(mine), mine' = mine, UNCHANGED <<INODES, disk>>,
         NEW i \in Inode, NEW n \in Index, Reaches(mine, n), NEW x, x.do \in {"fetch", "clear"},
         todo = Cons(x, FromStore(mine, i, n, Last(mine.op))), todo \in InPieces(mine, i, Last(mine.op)),
         todo' = FromStore(mine, i, n, Last(mine.op)), todo' \in InPieces(mine, i, Last(mine.op)),
         Partial(mine, n) /\ n < block_count(INODES[i].size) => SCRATCH' = disk.data[INODES[i].blocks[n]]
  PROVE  DuesFall /\ DataStored' /\ Buffered'
<1> DEFINE L == Last(mine.op)  s == FromStore(mine, i, n, L)
<1>1. mine \in CallRecord /\ mine.data # <<>> /\ mine.op \in {"write_file", "write_at"} /\ L \in Seq(Step)
  BY CallTyped, WriterShapes
<1>2. s \in Seq(Step) /\ FromGrow(mine, i, L) \in Seq(Step)
      /\ s = Cons(StoreOf(mine, i, n), FromGrow(mine, i, L))
  BY <1>1, WriteLists DEF FromStore
<1>3. \A j \in Inode : Filling(j)' => j = i
  BY <1>1, PieceInode DEF Filling
<1>4. Filling(i)
  BY <1>1 DEF Filling
<1>5. todo = Cons(x, s) /\ todo' = s
  OBVIOUS
<1> HIDE DEF s
<1>6. \A y : Has(todo', y) => Has(todo, y)
  BY <1>2, <1>5, HasCons
<1>7. DataStored'
  <2> SUFFICES ASSUME NEW j \in Inode, Filling(j)', NEW m \in Index,
                      (Reaches(mine, m) /\ (\A l \in Index : Owes(StoreOf(mine, j, l)) => m < l))'
               PROVE  Stored(j, m)'
    BY DEF DataStored
  <2>1. j = i
    BY <1>3
  <2>2. Reaches(mine, m)
    BY DEF Reaches, EndOf
  <2>3. ASSUME NEW l \in Index, Owes(StoreOf(mine, i, l)) PROVE m < l
    <3>1. StoreOf(mine, i, l) # x /\ StoreOf(mine, i, l)' = StoreOf(mine, i, l)
      BY DEF StoreOf, Stores, FromOf, ToOf, EndOf
    <3>2. Has(todo', StoreOf(mine, i, l))
      BY <1>2, <1>5, <2>3, <3>1, HasCons DEF Owes
    <3> QED BY <2>1, <3>1, <3>2 DEF Owes
  <2>4. Stored(i, m)
    BY <1>4, <2>2, <2>3 DEF DataStored
  <2>5. FromOf(mine, m)' = FromOf(mine, m) /\ ToOf(mine, m)' = ToOf(mine, m)
    BY DEF FromOf, ToOf, EndOf
  <2> QED BY <2>1, <2>4, <2>5 DEF Stored
<1>8. Buffered'
  <2> SUFFICES ASSUME NEW j \in Inode, NEW m \in Index, Filling(j)', Partial(mine, m), m < block_count(INODES[j].size)
               PROVE  /\ s # Cons(Just("clear"), FromStore(mine, j, m, L))
                      /\ s = FromStore(mine, j, m, L) => SCRATCH' = disk.data[INODES[j].blocks[m]]
    <3>1. \A j \in Inode, m \in Index : /\ FromStore(mine, j, m, Last(mine.op))' = FromStore(mine, j, m, L)
                                        /\ (ToOf(mine, m) - FromOf(mine, m))' = ToOf(mine, m) - FromOf(mine, m)
                                        /\ block_count(INODES[j].size)' = block_count(INODES[j].size)
      BY DEF FromStore, StoreOf, FromGrow, FromOf, ToOf, EndOf, Last, block_count
    <3> QED BY <1>5, <3>1 DEF Buffered, Partial
  <2>1. j = i
    BY <1>3
  <2>2. Head(s).do = "store" /\ Head(s) = StoreOf(mine, i, n)
    BY <1>2, ConsFacts DEF StoreOf, Stores
  <2>3. s # Cons(Just("clear"), FromStore(mine, j, m, L))
    <3> SUFFICES ASSUME s = Cons(Just("clear"), FromStore(mine, j, m, L)) PROVE FALSE
      OBVIOUS
    <3>1. s = <<Just("clear")>> \o (<<StoreOf(mine, j, m)>> \o FromGrow(mine, i, L))
      BY <2>1 DEF Cons, FromStore
    <3>2. Head(<<Just("clear")>> \o (<<StoreOf(mine, j, m)>> \o FromGrow(mine, i, L))) = Just("clear")
      BY <1>2
    <3> QED BY <2>2, <3>1, <3>2, StepsOf
  <2>4. ASSUME s = FromStore(mine, j, m, L) PROVE SCRATCH' = disk.data[INODES[j].blocks[m]]
    <3>1. Head(FromStore(mine, j, m, L)) = StoreOf(mine, j, m)
      BY <1>2, <2>1, ConsFacts DEF FromStore
    <3>2. m = n
      BY <2>2, <2>4, <3>1 DEF StoreOf, Stores
    <3> QED BY <2>1, <3>2
  <2> QED BY <2>3, <2>4
<1> QED BY <1>6, <1>7, <1>8 DEF DuesFall

LEMMA ReadyPromise ==
  ASSUME PromiseInv, mine' = mine, UNCHANGED <<INODES, MOUNTED, disk>>, DuesFall, DataStored', Buffered'
  PROVE  Keeps
<1>1. Silent /\ \A p : Read(p)' = Read(p) /\ Kept(p)' = Kept(p)
  BY StaysSilent
<1>2. DiskSays'
  BY <1>1 DEF PromiseInv, DiskSays
<1> QED BY <1>1, <1>2, WaitsPromise DEF Keeps

LEMMA FetchPromise ==
  ASSUME Faultless, Known, Sound', Fetch(me)
  PROVE  Keeps
<1>1. Sole /\ StorageTypes /\ PromiseInv /\ UNCHANGED <<INODES, MOUNTED, disk>>
      /\ SCRATCH' = disk.data[INODES[First(me).inode].blocks[First(me).nth]]
      /\ Now(me, "fetch")
  BY DEF Known, Sound, Faultless, Sole, Fetch, cache
<1>2. PICK i \in Inode, n \in Index :
           /\ First(me) = At("fetch", i, n) /\ mine' = mine
           /\ \/ /\ Writer(mine) /\ Reaches(mine, n) /\ todo \in InPieces(mine, i, Last(mine.op))
                 /\ FromStore(mine, i, n, Last(mine.op)) \in InPieces(mine, i, Last(mine.op))
                 /\ Continues(FromStore(mine, i, n, Last(mine.op)))
              \/ MOUNTED /\ mine.op = "read" /\ Continues(FromTake(i, n))
  BY <1>1, FlowFetch
<1>3. Silent /\ \A p : Read(p)' = Read(p) /\ Kept(p)' = Kept(p)
  BY <1>1, StaysSilent
<1>4. CASE mine.op = "read"
  <2>1. DiskSays'
    BY <1>1, <1>2, <1>3 DEF PromiseInv, DiskSays
  <2> QED BY <1>2, <1>3, <1>4, <2>1, OtherPromise DEF Keeps, Named
<1>5. CASE /\ Writer(mine) /\ Reaches(mine, n) /\ todo \in InPieces(mine, i, Last(mine.op))
           /\ FromStore(mine, i, n, Last(mine.op)) \in InPieces(mine, i, Last(mine.op))
           /\ Continues(FromStore(mine, i, n, Last(mine.op)))
  <2>1. mine \in CallRecord /\ mine.data # <<>> /\ Last(mine.op) \in Seq(Step)
    BY <1>1, <1>5, CallTyped, WriterShapes
  <2>2. Head(todo) = At("fetch", i, n) /\ Head(todo).do = "fetch"
    BY <1>2, StepsOf DEF First, todo
  <2>3. PICK m \in Index : Reaches(mine, m) /\ todo = Cons(At("fetch", i, m), FromStore(mine, i, m, Last(mine.op)))
    BY <1>5, <2>1, <2>2, PieceHeads
  <2>4. FromStore(mine, i, m, Last(mine.op)) \in Seq(Step) /\ FromStore(mine, i, n, Last(mine.op)) # <<>>
    BY <1>5, <2>1, <2>3, WriteLists, ConsFacts DEF FromStore
  <2>5. m = n
    <3>1. At("fetch", i, m) = At("fetch", i, n)
      BY <2>2, <2>3, <2>4, ConsFacts
    <3> QED BY <3>1 DEF At
  <2>6. todo' = FromStore(mine, i, n, Last(mine.op))
    BY <1>5 DEF Continues, Leaves
  <2>7. SCRATCH' = disk.data[INODES[i].blocks[n]]
    BY <1>1, <1>2 DEF At
  <2>8. At("fetch", i, n).do \in {"fetch", "clear"} /\ DataStored
    BY <1>1, StepsOf DEF PromiseInv
  <2>9. DuesFall /\ DataStored' /\ Buffered'
    BY <1>1, <1>2, <1>5, <2>3, <2>5, <2>6, <2>7, <2>8, PieceReady
  <2> QED BY <1>1, <1>2, <2>9, ReadyPromise
<1> QED BY <1>2, <1>4, <1>5

LEMMA ClearPromise ==
  ASSUME Faultless, Known, Sound', Clear(me)
  PROVE  Keeps
<1>1. Sole /\ StorageTypes /\ PromiseInv /\ UNCHANGED <<INODES, MOUNTED, disk>> /\ Now(me, "clear")
  BY DEF Known, Sound, Faultless, Sole, Clear, cache
<1>2. PICK i \in Inode, k \in Index :
           /\ Writer(mine) /\ Reaches(mine, k) /\ todo \in InPieces(mine, i, Last(mine.op)) /\ mine' = mine
           /\ FromStore(mine, i, k, Last(mine.op)) \in InPieces(mine, i, Last(mine.op))
           /\ Continues(FromStore(mine, i, k, Last(mine.op)))
  BY <1>1, FlowClear
<1>3. mine \in CallRecord /\ mine.data # <<>> /\ Last(mine.op) \in Seq(Step) /\ mine.op \in {"write_file", "write_at"}
  BY <1>1, <1>2, CallTyped, WriterShapes
<1>4. todo # <<>> /\ Head(todo).do = "clear"
  BY <1>1 DEF Now, First, todo
<1>5. PICK n \in Index : Reaches(mine, n) /\ todo = Cons(Just("clear"), FromStore(mine, i, n, Last(mine.op)))
  BY <1>2, <1>3, <1>4, PieceHeads
<1>6. FromStore(mine, i, n, Last(mine.op)) \in Seq(Step) /\ FromStore(mine, i, n, Last(mine.op)) # <<>>
  BY <1>3, <1>5, WriteLists, ConsFacts DEF FromStore
<1>7. todo' = FromStore(mine, i, n, Last(mine.op))
  <2>1. Done(me)
    BY DEF Clear
  <2>2. todo' = Tail(todo)
    BY <1>1, <1>4, <2>1, FlowDone DEF Leaves
  <2> QED BY <1>5, <1>6, <2>2, ConsFacts
<1>8. todo' \in InPieces(mine, i, Last(mine.op))
  <2>1. EndOf(mine) <= MAX_FILE_SIZE
    BY <1>2, <1>3, PieceHeads
  <2> QED BY <1>3, <1>5, <1>7, <2>1, PieceHeads
<1>9. ~(Partial(mine, n) /\ n < block_count(INODES[i].size))
  <2>1. Filling(i)
    BY <1>2, <1>3 DEF Filling
  <2> QED BY <1>1, <1>5, <2>1 DEF PromiseInv, Buffered, Partial
<1>10. Just("clear").do \in {"fetch", "clear"} /\ DataStored
  BY <1>1, StepsOf DEF PromiseInv
<1>11. DuesFall /\ DataStored' /\ Buffered'
  BY <1>1, <1>2, <1>5, <1>7, <1>8, <1>9, <1>10, PieceReady
<1> QED BY <1>1, <1>2, <1>11, ReadyPromise

------------------------------------------------------------------------------
(* Steps that make and remove *)

LEMMA SameRead ==
  ASSUME NEW data, NEW T \in InodeTable, NEW U \in InodeTable, NEW p \in Seq(Word), NEW j,
         lookup_file(T, p) = j, lookup_file(U, p) = j, j # NoInode => Same(T[j], U[j])
  PROVE  ReadIn(data, U, p) = ReadIn(data, T, p)
<1>1. CASE j = NoInode
  BY <1>1 DEF ReadIn
<1>2. CASE j # NoInode
  <2>1. j \in Inode /\ T[j].kind = "file"
    BY <1>2, ResolveType
  <2>2. T[j] \in InodeRecord /\ U[j] \in InodeRecord
    BY <2>1 DEF InodeTable
  <2>3. Cells(data, U[j]) = Cells(data, T[j])
    BY <1>2, <2>1, <2>2, CellsSame
  <2> QED BY <2>3 DEF ReadIn
<1> QED BY <1>1, <1>2

LEMMA MadeReads ==
  ASSUME StorageTypes, IsTree(INODES), NEW path \in Path, NEW kind \in {"file", "dir"}, Makeable(path), NewInode(path, kind),
         disk' = disk, NEW p \in Seq(Word)
  PROVE  /\ p # path \/ kind = "dir" => Read(p)' = Read(p)
         /\ kind = "file" => Read(path) = Absent /\ Read(path)' = <<>>
<1>1. INODES \in InodeTable /\ INODES' \in InodeTable /\ path \in Seq(Word)
  BY TablesTyped, NewInodeTypes
<1>2. /\ p # path \/ kind = "dir" => lookup_file(INODES', p) = lookup_file(INODES, p)
      /\ kind = "file" => lookup_file(INODES', path) = Lowest(FreeInodes) /\ INODES'[Lowest(FreeInodes)].size = 0
      /\ lookup_file(INODES, path) = NoInode
      /\ Lowest(FreeInodes) \in Inode /\ INODES[Lowest(FreeInodes)].kind = "free"
      /\ \A j \in Inode : j # Lowest(FreeInodes) => INODES'[j] = INODES[j]
  BY MadeLookup
<1>3. ASSUME p # path \/ kind = "dir" PROVE Read(p)' = Read(p)
  <2> DEFINE j == lookup_file(INODES, p)
  <2>1. j # NoInode => j \in Inode /\ INODES[j].kind = "file"
    BY <1>1, ResolveType
  <2>2. j # NoInode => INODES'[j] = INODES[j]
    BY <1>2, <2>1
  <2>3. lookup_file(INODES', p) = j
    BY <1>2, <1>3
  <2> HIDE DEF j
  <2>4. j # NoInode => Same(INODES[j], INODES'[j])
    BY <2>2, SameSelf
  <2>5. ReadIn(disk.data, INODES', p) = ReadIn(disk.data, INODES, p)
    BY <1>1, <2>3, <2>4, SameRead DEF j
  <2> QED BY <2>5 DEF Read
<1>4. Read(path) = Absent
  BY <1>2 DEF Read, ReadIn
<1>5. ASSUME kind = "file" PROVE Read(path)' = <<>>
  <2>1. lookup_file(INODES', path) # NoInode
    BY <1>2, <1>5 DEF Inode, NoInode
  <2>2. Cells(disk'.data, INODES'[Lowest(FreeInodes)]) = <<>>
    BY <1>2, <1>5, NoCells
  <2> QED BY <1>2, <1>5, <2>1, <2>2 DEF Read, ReadIn
<1> QED BY <1>3, <1>4, <1>5

LEMMA GoneReads ==
  ASSUME StorageTypes, IsTree(INODES), NEW i \in Inode \ {ROOT_INODE},
         \A j \in Inode \ {i} : INODES[j].kind = "free" \/ INODES[j].parent # i \/ INODES[i].kind # "dir",
         INODES' = [INODES EXCEPT ![i] = Empty], disk' = disk, NEW p \in Seq(Word)
  PROVE  IF lookup_file(INODES, p) = i THEN Read(p)' = Absent ELSE Read(p)' = Read(p)
<1>1. INODES \in InodeTable
  BY TablesTyped
<1>2. INODES' \in InodeTable /\ \A j \in Inode : j # i => INODES'[j] = INODES[j]
  BY <1>1, EmptyTypes DEF InodeTable
<1>3. /\ lookup_file(INODES, p) # i => lookup_file(INODES', p) = lookup_file(INODES, p)
      /\ lookup_file(INODES, p) = i => lookup_file(INODES', p) = NoInode
  BY <1>1, GoneLookup
<1>4. CASE lookup_file(INODES, p) = i
  BY <1>3, <1>4 DEF Read, ReadIn
<1>5. CASE lookup_file(INODES, p) # i
  <2> DEFINE j == lookup_file(INODES, p)
  <2>1. j # NoInode => j \in Inode /\ INODES'[j] = INODES[j]
    BY <1>1, <1>2, <1>5, ResolveType
  <2>2. lookup_file(INODES', p) = j
    BY <1>3, <1>5
  <2> HIDE DEF j
  <2>3. j # NoInode => Same(INODES[j], INODES'[j])
    BY <2>1, SameSelf
  <2>4. lookup_file(INODES, p) = j /\ INODES' \in InodeTable
    BY <1>2 DEF j
  <2> DEFINE U == INODES'
  <2>5. U \in InodeTable /\ lookup_file(U, p) = j /\ (j # NoInode => Same(INODES[j], U[j]))
    BY <2>2, <2>3, <2>4
  <2> HIDE DEF U
  <2>6. ReadIn(disk.data, U, p) = ReadIn(disk.data, INODES, p)
    BY <1>1, <2>4, <2>5, SameRead
  <2> QED BY <1>5, <2>6 DEF Read, U
<1> QED BY <1>4, <1>5

\* A call has changed the table, and the change waits for the disk.
LEMMA FlushesPromise ==
  ASSUME Faultless, Known, Sound', MOUNTED, MOUNTED' = MOUNTED, disk' = disk, ~Now(me, "inodes"), mine' = mine,
         NEW rest \in Seq(Step), todo' = Cons(Out(1), rest),
         \A p \in Path : Read(p)' = Read(p) \/ (mine.path = p /\ Promise!Reverted(mine, Read(p)', Read(p))),
         mine.op \in Named => ~Due("remove")' /\ (mine.op = "create_file" => ~Due("create")'),
         mine.op = "write_at" => ~Due("write")' /\ ~Due("grow")',
         EmptyYet'
  PROVE  PromiseInv'
<1>1. DiskSays'
  <2> SUFFICES ASSUME NEW p \in Path
               PROVE  Kept(p)' = Read(p)' \/ (mine.path = p /\ Promise!Reverted(mine, Read(p)', Kept(p)'))
    BY DEF DiskSays
  <2>1. Kept(p) = Read(p)
    BY Settled0, InPath DEF Known
  <2>2. Kept(p)' = Kept(p)
    BY DEF Kept
  <2> QED BY <2>1, <2>2
<1>2. AsItWas' /\ HalfWritten'
  BY DEF AsItWas, HalfWritten
<1>3. todo' # <<>> /\ Head(todo').do = "inodes"
  BY ConsFacts, StepsOf
<1>4. DataStored' /\ Buffered'
  <2>1. Sole /\ StorageTypes'
    BY DEF Sound, Sole, Faultless
  <2> QED BY <1>3, <2>1, NotFilling, NoPieces
<1> QED BY <1>1, <1>2, <1>4 DEF PromiseInv

\* The path of a call is in Path where the call changes the files.
LEMMA OneChange ==
  ASSUME MOUNTED, MOUNTED' = MOUNTED, \A p \in Path : p # mine.path => Read(p)' = Read(p),
         \A q \in Path : q = mine.path => Read(q)' = Read(q) \/ Promise!Changed(mine, Read(q), Read(q)')
  PROVE  Silent \/ Changes
<1>1. \A p \in Path : Seen(p) = Read(p) /\ Seen(p)' = Read(p)'
  BY SeenIs
<1>2. ASSUME NEW q \in Path, q = mine.path PROVE Silent \/ Changes
  <2>1. Read(q)' = Read(q) \/ Promise!Changed(mine, Read(q), Read(q)')
    BY <1>2
  <2>2. CASE Read(q)' = Read(q)
    BY <1>1, <1>2, <2>2 DEF Silent
  <2>3. CASE Promise!Changed(mine, Read(q), Read(q)')
    <3>1. Promise!Changed(mine, Seen(q), Seen(q)')
      BY <1>1, <2>3
    <3>2. \A p \in Path \ {q} : Seen(p)' = Seen(p)
      BY <1>1, <1>2
    <3> QED BY <1>2, <3>1, <3>2 DEF Changes
  <2> QED BY <2>1, <2>2, <2>3
<1>3. ASSUME mine.path \notin Path PROVE Silent
  BY <1>1, <1>3 DEF Silent
<1> QED BY <1>2, <1>3

LEMMA EndsAs ==
  ASSUME Sound', Continues(<<>>), UNCHANGED <<INODES, MOUNTED, disk>>
  PROVE  Keeps
BY EndsSilently DEF Continues, Leaves

LEMMA CreatePromise ==
  ASSUME Faultless, Known, Sound', Create(me)
  PROVE  Keeps
<1>1. Sole /\ StorageTypes /\ PromiseInv /\ Sound /\ TreeInv /\ UNCHANGED <<MOUNTED, disk>> /\ Now(me, "create")
  BY DEF Known, Sound, Faultless, Sole, Create
<1>2. AtCreate(mine, todo)
      /\ \/ ~Makeable(mine.path) /\ UNCHANGED INODES /\ Continues(<<>>)
         \/ /\ Makeable(mine.path) /\ NewInode(mine.path, "file") /\ mine' = mine
            /\ Continues(Cons(Out(1), AfterCreate(mine, Lowest(FreeInodes))))
  BY <1>1, FlowCreate
<1>3. MOUNTED /\ mine.op \in {"create_file", "write_file"} /\ todo = FromCreate /\ IsTree(INODES)
  BY <1>1, <1>2, LiveTree DEF AtCreate, Writer
<1>4. mine.path \in Path
  BY <1>1, <1>3 DEF StorageTypes, CallTypes
<1>5. ~Now(me, "inodes")
  BY <1>1 DEF Now
<1>6. CASE UNCHANGED INODES /\ Continues(<<>>)
  BY <1>1, <1>6, EndsAs
<1>7. CASE /\ Makeable(mine.path) /\ NewInode(mine.path, "file") /\ mine' = mine
           /\ Continues(Cons(Out(1), AfterCreate(mine, Lowest(FreeInodes))))
  <2> DEFINE i == Lowest(FreeInodes)  rest == AfterCreate(mine, i)
  <2>1. PICK path \in Path : path = mine.path
    BY <1>4
  <2>2. /\ \A p \in Path : p # path => Read(p)' = Read(p)
        /\ Read(path) = Absent /\ Read(path)' = <<>>
    <3>1. Makeable(path) /\ NewInode(path, "file") /\ "file" \in {"file", "dir"}
      BY <1>7, <2>1
    <3>2. path \in Seq(Word) /\ \A p \in Path : p \in Seq(Word)
      BY InPath
    <3> QED BY <1>1, <1>3, <3>1, <3>2, MadeReads
  <2>3. i \in Inode /\ INODES'[i].size = 0
    BY <1>1, <1>3, <1>7, <2>1, MadeBeside
  <2>4. rest \in Seq(Step) /\ todo' = Cons(Out(1), rest)
    <3>1. rest \in Seq(Step)
      <4>1. FromAttach(i) \in Seq(Step) /\ Last("write_file") \in Seq(Step) /\ On("write", i) \in Step
        BY <2>3, Lists, StepTypes
      <4> QED BY <4>1, ConsFacts DEF AfterCreate
    <3> HIDE DEF rest
    <3>2. Cons(Out(1), rest) # <<>>
      BY <3>1, ConsFacts
    <3> QED BY <1>7, <3>1, <3>2 DEF Continues, Leaves, rest
  <2>5. \A x : Has(todo', x) /\ x.do \in Vital => x = IF mine.op = "create_file" THEN On("attach", i) ELSE On("write", i)
    BY <2>3, <2>4, CreatedOwes
  <2>6. ~Due("remove")' /\ ~Due("create")'
    <3>1. On("attach", i).do = "attach" /\ On("write", i).do = "write"
      BY StepsOf
    <3>2. \A x : Has(todo', x) /\ x.do \in Vital => x.do \in {"attach", "write"}
      BY <2>5, <3>1
    <3> QED BY <3>2, DueOwed DEF Vital
  <2> HIDE DEF rest
  <2>7. EmptyYet'
    <3> SUFFICES ASSUME mine.op = "write_file", NEW j \in Inode,
                        Has(todo', On("write", j)) \/ Has(todo', Grows(j, EndOf(mine)))
                 PROVE  INODES'[j].size = 0
      <4>1. EndOf(mine)' = EndOf(mine)
        BY <1>7 DEF EndOf
      <4>2. \A j : On("write", j)' = On("write", j) /\ Grows(j, EndOf(mine))' = Grows(j, EndOf(mine))
        BY <4>1 DEF On, Grows
      <4> QED BY <1>7, <4>2 DEF EmptyYet, Owes
    <3>1. /\ On("write", j).do = "write" /\ Grows(j, EndOf(mine)).do = "grow"
          /\ On("write", j).inode = j /\ On("write", i).inode = i /\ On("write", i).do = "write"
      BY StepsOf
    <3>2. \A x : Has(todo', x) /\ x.do \in Vital => x = On("write", i)
      BY <2>5
    <3>3. ~Has(todo', Grows(j, EndOf(mine)))
      BY <3>1, <3>2 DEF Vital
    <3>4. j = i
      BY <3>1, <3>2, <3>3 DEF Vital
    <3> QED BY <2>3, <3>4
  <2>8. Promise!Changed(mine, Read(path), Read(path)')
    BY <1>3, <2>2 DEF Promise!Changed
  <2>9. Promise!Reverted(mine, Read(path)', Read(path))
    <3>1. CASE mine.op = "write_file"
      BY <2>2, <3>1 DEF Promise!Reverted
    <3>2. CASE mine.op = "create_file"
      <4>1. Due("create")
        <5>1. Has(todo, Just("create")) /\ Just("create").do = "create"
          BY <1>3, OwedNone, HasCons, Lists, StepsOf DEF FromCreate
        <5> QED BY <5>1, DueOwed
      <4>2. mine.was = Read(path)
        BY <1>1, <2>1, <3>2, <4>1 DEF PromiseInv, AsItWas, Named
      <4> QED BY <3>2, <4>2 DEF Promise!Reverted
    <3> QED BY <1>3, <3>1, <3>2
  <2>10. PromiseInv'
    <3>1. \A p \in Path : Read(p)' = Read(p) \/ (mine.path = p /\ Promise!Reverted(mine, Read(p)', Read(p)))
      BY <2>1, <2>2, <2>9
    <3> QED BY <1>1, <1>3, <1>5, <1>7, <2>4, <2>6, <2>7, <3>1, FlushesPromise
  <2>11. Silent \/ Changes
    <3>1. \A q \in Path : q = mine.path => Read(q)' = Read(q) \/ Promise!Changed(mine, Read(q), Read(q)')
      BY <2>1, <2>8
    <3> QED BY <1>1, <1>3, <2>1, <2>2, <3>1, OneChange
  <2> QED BY <2>10, <2>11 DEF Keeps
<1> QED BY <1>2, <1>6, <1>7

\* A call on directories changes no file.
LEMMA DirPromise ==
  ASSUME Faultless, Known, Sound', MOUNTED, ~Now(me, "inodes"), UNCHANGED <<MOUNTED, disk>>, mine' = mine, mine.op \notin Named,
         \A p \in Path : Read(p)' = Read(p)
  PROVE  Keeps
<1>1. \A p \in Path : Kept(p)' = Read(p)'
  BY Settled0, InPath DEF Kept, Known
<1>2. PromiseInv'
  BY <1>1, OtherPromise DEF DiskSays
<1>3. Silent
  BY SeenIs DEF Silent
<1> QED BY <1>2, <1>3 DEF Keeps

LEMMA MkdirPromise ==
  ASSUME Faultless, Known, Sound', mkdir(me)
  PROVE  Keeps
<1>1. Sole /\ StorageTypes /\ Sound /\ TreeInv /\ UNCHANGED <<MOUNTED, disk>> /\ Now(me, "mkdir") /\ ~Now(me, "inodes")
  BY DEF Known, Sound, Faultless, Sole, mkdir, Now
<1>2. PICK k \in Nat \ {0} :
           /\ MOUNTED /\ mine.op \in {"mkdir", "format"} /\ (mine.op = "format" => k <= Len(Skeleton))
           /\ \/ ~Makeable(PathOf(mine, k)) /\ UNCHANGED INODES /\ Continues(<<>>)
              \/ Makeable(PathOf(mine, k)) /\ NewInode(PathOf(mine, k), "dir") /\ mine' = mine
  BY <1>1, FlowMkdir
<1>3. CASE UNCHANGED INODES /\ Continues(<<>>)
  BY <1>1, <1>3, EndsAs
<1>4. CASE Makeable(PathOf(mine, k)) /\ NewInode(PathOf(mine, k), "dir") /\ mine' = mine
  <2>1. PathOf(mine, k) \in Path
    <3>1. CASE mine.op = "format"
      <4>1. k \in 1 .. Len(Skeleton) /\ Skeleton \in Seq(Path)
        BY <1>2, <3>1, PathsAssumption
      <4> QED BY <3>1, <4>1 DEF PathOf
    <3>2. CASE mine.op = "mkdir"
      BY <1>1, <3>2 DEF PathOf, StorageTypes, CallTypes
    <3> QED BY <1>2, <3>1, <3>2
  <2>2. \A p \in Path : Read(p)' = Read(p)
    <3>1. PICK path \in Path : path = PathOf(mine, k)
      BY <2>1
    <3>2. Makeable(path) /\ NewInode(path, "dir") /\ "dir" \in {"file", "dir"} /\ IsTree(INODES)
      BY <1>1, <1>2, <1>4, <3>1, LiveTree
    <3> QED BY <1>1, <3>2, InPath, MadeReads
  <2>3. mine.op \notin Named
    BY <1>2 DEF Named
  <2> QED BY <1>1, <1>2, <1>4, <2>2, <2>3, DirPromise
<1> QED BY <1>2, <1>3, <1>4

LEMMA RmdirPromise ==
  ASSUME Faultless, Known, Sound', rmdir(me)
  PROVE  Keeps
<1>1. Sole /\ StorageTypes /\ Sound /\ TreeInv /\ UNCHANGED <<MOUNTED, disk>> /\ Now(me, "rmdir") /\ ~Now(me, "inodes")
  BY DEF Known, Sound, Faultless, Sole, rmdir, Now
<1> DEFINE i == resolve(INODES, mine.path)
<1>2. /\ MOUNTED /\ mine.op = "rmdir"
      /\ \/ UNCHANGED INODES /\ Continues(<<>>)
         \/ IsEmptyDir(i) /\ INODES' = [INODES EXCEPT ![i] = Empty] /\ mine' = mine
  BY <1>1, FlowRmdir
<1>3. CASE UNCHANGED INODES /\ Continues(<<>>)
  BY <1>1, <1>3, EndsAs
<1>4. CASE IsEmptyDir(i) /\ INODES' = [INODES EXCEPT ![i] = Empty] /\ mine' = mine
  <2>1. INODES \in InodeTable /\ mine.path \in Seq(Word) /\ IsTree(INODES)
    BY <1>1, <1>2, TablesTyped, CallTyped, LiveTree DEF CallRecord
  <2>2. i \in Inode \ {ROOT_INODE} /\ INODES[i].kind = "dir"
        /\ \A j \in Inode \ {i} : INODES[j].kind = "free" \/ INODES[j].parent # i \/ INODES[i].kind # "dir"
    BY <1>4, <2>1, ResolveType DEF IsEmptyDir
  <2> HIDE DEF i
  <2>3. \A p \in Path : Read(p)' = Read(p)
    <3> SUFFICES ASSUME NEW p \in Path PROVE Read(p)' = Read(p)
      OBVIOUS
    <3>1. p \in Seq(Word)
      BY InPath
    <3>2. lookup_file(INODES, p) # i
      <4>1. i # NoInode
        BY <2>2 DEF Inode, NoInode
      <4> QED BY <2>1, <2>2, <3>1, <4>1, ResolveType
    <3>3. INODES' = [INODES EXCEPT ![i] = Empty] /\ disk' = disk
      BY <1>1, <1>4
    <3> QED BY <1>1, <2>1, <2>2, <3>1, <3>2, <3>3, GoneReads
  <2>4. mine.op \notin Named
    BY <1>2 DEF Named
  <2> QED BY <1>1, <1>2, <1>4, <2>3, <2>4, DirPromise
<1> QED BY <1>2, <1>3, <1>4

LEMMA RemovePromise ==
  ASSUME Faultless, Known, Sound', Remove(me)
  PROVE  Keeps
<1>1. Sole /\ StorageTypes /\ PromiseInv /\ NodesInv /\ TreeInv /\ UNCHANGED <<MOUNTED, disk>>
      /\ Now(me, "remove") /\ ~Now(me, "inodes")
  BY DEF Known, Sound, Faultless, Sole, Remove, Now
<1>2. PICK i \in Inode, rest \in Seq(Step) :
        /\ AfterRemove(mine, rest) /\ todo = Cons(On("remove", i), rest) /\ First(me) = On("remove", i)
        /\ \/ INODES[i].kind # "file" /\ UNCHANGED cache /\ Continues(<<>>) /\ mine' = Idle
           \/ /\ INODES[i].kind = "file"
              /\ Continues(Cons(Out(1), Cons(Just("bitmap"), rest))) /\ mine' = mine
  BY <1>1, FlowRemove
<1>3. MOUNTED /\ mine.op \in {"write_file", "remove_file"} /\ mine.op \in Named /\ IsTree(INODES)
  BY <1>1, <1>2, LiveTree DEF AfterRemove, Writer, Named
<1>4. INODES \in InodeTable /\ mine.path \in Seq(Word)
  BY <1>1, TablesTyped, CallTyped DEF CallRecord
<1>5. lookup_file(INODES, mine.path) = i
  BY <1>1, <1>2, RemovesInode
<1>6. INODES[i].kind = "file" /\ i # NoInode
  <2>1. i # NoInode
    BY Sizes DEF Inode, NoInode
  <2> QED BY <1>4, <1>5, <2>1, ResolveType
<1>7. Cons(Just("bitmap"), rest) \in Seq(Step)
  BY Lists, Zenon
<1>8. todo' = Cons(Out(1), Cons(Just("bitmap"), rest)) /\ mine' = mine
  <2>1. Cons(Out(1), Cons(Just("bitmap"), rest)) # <<>>
    BY <1>7, ConsFacts
  <2> QED BY <1>2, <1>6, <2>1 DEF Continues, Leaves
<1>9. INODES' = [INODES EXCEPT ![i] = Empty]
  <2>1. First(me).inode = i
    BY <1>2, StepsOf
  <2> QED BY <1>6, <2>1 DEF Remove
<1>10. i \in Inode \ {ROOT_INODE}
       /\ \A j \in Inode \ {i} : INODES[j].kind = "free" \/ INODES[j].parent # i \/ INODES[i].kind # "dir"
  <2>1. i # ROOT_INODE
    BY <1>3, <1>6 DEF IsTree, Tree
  <2> QED BY <1>6, <2>1
<1>11. ASSUME NEW p \in Path
       PROVE  IF p = mine.path THEN Read(p)' = Absent ELSE Read(p)' = Read(p)
  <2>1. p \in Seq(Word)
    BY InPath
  <2>2. lookup_file(INODES, p) = i <=> p = mine.path
    BY <1>3, <1>4, <1>5, <1>6, <2>1, OneInode
  <2>3. IF lookup_file(INODES, p) = i THEN Read(p)' = Absent ELSE Read(p)' = Read(p)
    BY <1>1, <1>3, <1>9, <1>10, <2>1, GoneReads
  <2> QED BY <2>2, <2>3
<1>12. ASSUME NEW p \in Path, p = mine.path
       PROVE  /\ Promise!Changed(mine, Read(p), Read(p)')
              /\ Promise!Reverted(mine, Read(p)', Read(p))
  <2>1. Read(p)' = Absent
    BY <1>11, <1>12
  <2>2. Read(p) # Absent
    <3>1. disk.data \in Disks
      BY <1>1 DEF StorageTypes, DataTypes, Disks
    <3>2. p \in Seq(Word) /\ lookup_file(INODES, p) = i
      BY <1>5, <1>12, InPath
    <3>3. ReadIn(disk.data, INODES, p) # Absent
      BY <1>4, <1>6, <3>1, <3>2, FileOf
    <3> QED BY <3>3 DEF Read
  <2>3. Due("remove")
    <3>1. Has(todo, On("remove", i)) /\ On("remove", i).do = "remove"
      BY <1>2, HasCons, StepsOf
    <3> QED BY <3>1, DueOwed
  <2>4. mine.was = Read(p)
    BY <1>1, <1>3, <1>12, <2>3 DEF PromiseInv, AsItWas
  <2>5. Promise!Changed(mine, Read(p), Read(p)')
    BY <1>3, <2>1, <2>2 DEF Promise!Changed
  <2>6. Promise!Reverted(mine, Read(p)', Read(p))
    BY <1>3, <2>4 DEF Promise!Reverted
  <2> QED BY <2>5, <2>6
<1>13. \A x : x.do \in Vital => (Has(todo', x) <=> Has(rest, x))
  BY <1>8, OutOwes
<1>14. \A x : Has(rest, x) => x = Just("create") \/ \E n : x = Forgets(n)
  <2>1. CASE rest = FromCreate
    BY <2>1, OwedNone, HasCons, Lists DEF FromCreate
  <2>2. CASE \E n \in 1 .. Len(NODES) : rest = FromForget(n)
    <3>1. PICK n \in 1 .. Len(NODES) : rest = Cons(Forgets(n), <<>>)
      BY <2>2 DEF FromForget
    <3>2. <<>> \in Seq(Step)
      BY Lists
    <3>3. \A x : Has(rest, x) => x = Forgets(n)
      BY <3>1, <3>2, OwedNone, HasCons
    <3> QED BY <3>3
  <2> QED BY <1>2, <2>1, <2>2 DEF AfterRemove
<1>15. \A x : x.do \in Vital /\ Has(todo', x) => x.do \in {"create", "forget"}
  <2>1. Just("create").do = "create" /\ \A n : Forgets(n).do = "forget"
    BY StepsOf
  <2> QED BY <1>13, <1>14, <2>1
<1>16. ~Due("remove")' /\ (mine.op = "create_file" => ~Due("create")')
  BY <1>3, <1>15, DueOwed DEF Vital
<1>17. EmptyYet'
  <2>1. \A j : On("write", j).do = "write" /\ Grows(j, EndOf(mine)).do = "grow"
    BY StepsOf
  <2>2. \A j : ~Has(todo', On("write", j)) /\ ~Has(todo', Grows(j, EndOf(mine)))
    BY <1>15, <2>1 DEF Vital
  <2>3. \A j : (Owes(On("write", j))' <=> Has(todo', On("write", j))) /\ (Owes(Grows(j, EndOf(mine)))' <=> Has(todo', Grows(j, EndOf(mine))))
    BY <1>8 DEF Owes, On, Grows, EndOf
  <2> QED BY <2>2, <2>3 DEF EmptyYet
<1>18. PromiseInv'
  <2>1. \A p \in Path : Read(p)' = Read(p) \/ (mine.path = p /\ Promise!Reverted(mine, Read(p)', Read(p)))
    BY <1>11, <1>12
  <2>2. mine.op # "write_at"
    BY <1>3
  <2> QED BY <1>1, <1>3, <1>7, <1>8, <1>16, <1>17, <2>1, <2>2, FlushesPromise
<1>19. Silent \/ Changes
  BY <1>1, <1>3, <1>11, <1>12, OneChange
<1> QED BY <1>18, <1>19 DEF Keeps

------------------------------------------------------------------------------
(* A write begins *)

\* What is said once the pieces of a write are all that is due.
LEMMA InPiecesNow ==
  ASSUME StorageTypes, Sole, Writer(mine), mine' = mine, NEW i \in Inode, todo' \in InPieces(mine, i, Last(mine.op)),
         mine.op = "write_at" /\ mine.path \in Path => HalfWritten',
         mine.op = "write_file" => INODES'[i].size = 0,
         DiskSays', DataStored', Buffered'
  PROVE  PromiseInv'
<1>1. mine \in CallRecord /\ mine.data # <<>> /\ mine.op \in {"write_file", "write_at"}
  BY CallTyped, WriterShapes
<1>2. \A x : x.do \in Vital /\ Has(todo', x) => x = Grows(i, EndOf(mine))
  BY <1>1, PiecesOwe
<1>3. \A x : x.do \in Vital /\ Has(todo', x) => x.do = "grow"
  BY <1>2, StepsOf
<1>4. ~Due("remove")' /\ ~Due("create")' /\ ~Due("write")'
  BY <1>3, DueOwed DEF Vital
<1>5. AsItWas'
  BY <1>4 DEF AsItWas
<1>6. HalfWritten'
  BY <1>1 DEF HalfWritten
<1>7. EmptyYet'
  <2> SUFFICES ASSUME mine.op = "write_file", NEW j \in Inode,
                      Has(todo', On("write", j)) \/ Has(todo', Grows(j, EndOf(mine)))
               PROVE  INODES'[j].size = 0
    <3>1. EndOf(mine)' = EndOf(mine)
      BY DEF EndOf
    <3>2. \A j : On("write", j)' = On("write", j) /\ Grows(j, EndOf(mine))' = Grows(j, EndOf(mine))
      BY <3>1 DEF On, Grows
    <3> QED BY <3>2 DEF EmptyYet, Owes
  <2>1. On("write", j).do = "write" /\ Grows(j, EndOf(mine)).do = "grow" /\ Grows(j, EndOf(mine)).inode = j
        /\ Grows(i, EndOf(mine)).inode = i
    BY StepsOf
  <2>2. ~Has(todo', On("write", j))
    BY <1>3, <2>1 DEF Vital
  <2>3. j = i
    BY <1>2, <2>1, <2>2 DEF Vital
  <2> QED BY <2>3
<1> QED BY <1>5, <1>6, <1>7 DEF PromiseInv

LEMMA WriteSame ==
  ASSUME StorageTypes, NEW i \in Inode, NEW end \in Nat, Grants(i, end), INODES' \in InodeTable
  PROVE  \A j \in Inode : Same(INODES[j], INODES'[j])
<1>1. INODES \in InodeTable
  BY TablesTyped
<1> DEFINE bs == [k \in Index |-> IF k \in Missing(INODES[i], end) THEN Taken(i, end, k) ELSE INODES[i].blocks[k]]
<1>2. INODES' = [INODES EXCEPT ![i].blocks = bs]
  BY DEF Grants
<1>3. ASSUME NEW k \in 0 .. Count(INODES[i]) - 1 PROVE bs[k] = INODES[i].blocks[k]
  <2>1. INODES[i] \in InodeRecord /\ INODES[i].size \in Nat
    BY <1>1, Sizes DEF InodeTable, InodeRecord
  <2>2. block_count(INODES[i].size) \in Nat /\ k \in Int /\ k < block_count(INODES[i].size)
    BY <2>1, Counts DEF Count
  <2>3. k \notin Missing(INODES[i], end)
    BY <2>2 DEF Grants
  <2>4. k \in Index
    BY <2>1, CountType
  <2> QED BY <2>3, <2>4
<1> HIDE DEF bs
<1>4. ASSUME NEW j \in Inode, j # i PROVE INODES'[j] = INODES[j]
  BY <1>1, <1>2, <1>4 DEF InodeTable
<1>5. INODES'[i] = [INODES[i] EXCEPT !.blocks = bs]
  BY <1>1, <1>2 DEF InodeTable
<1>6. INODES'[i].blocks = bs /\ INODES'[i].kind = INODES[i].kind /\ INODES'[i].size = INODES[i].size
      /\ INODES'[i].parent = INODES[i].parent /\ INODES'[i].name = INODES[i].name
  BY <1>1, <1>5 DEF InodeTable, InodeRecord
<1>7. Same(INODES[i], INODES'[i])
  BY <1>3, <1>6 DEF Same
<1> QED BY <1>4, <1>7, SameSelf

\* The next piece of the file begins.
LEMMA BeginsPiece ==
  ASSUME StorageTypes, Sole, Writer(mine), mine' = mine, NEW i \in Inode, NEW n \in Index, Reaches(mine, n),
         NEW have, have = block_count(INODES'[i].size), todo' \in InPieces(mine, i, Last(mine.op)),
         todo' = Piece(i, n, mine.offset, Len(mine.data), have) \o FromGrow(mine, i, Last(mine.op))
  PROVE  Buffered' /\ Owes(StoreOf(mine, i, n))'
<1> DEFINE L == Last(mine.op)
<1>1. mine \in CallRecord /\ mine.data # <<>> /\ mine.op \in {"write_file", "write_at"} /\ L \in Seq(Step)
  BY CallTyped, WriterShapes
<1>2. PICK s : s = todo'
  OBVIOUS
<1>3. /\ Has(s, StoreOf(mine, i, n))
      /\ \A m \in Index : Partial(mine, m) /\ m < have =>
           s # Cons(Just("clear"), FromStore(mine, i, m, L)) /\ s # FromStore(mine, i, m, L)
  <2> HIDE DEF L
  <2>1. s = Piece(i, n, mine.offset, Len(mine.data), have) \o FromGrow(mine, i, L)
    BY <1>2 DEF L
  <2> QED BY <1>1, <2>1, PieceSays
<1>4. Owes(StoreOf(mine, i, n))'
  <2>1. StoreOf(mine, i, n)' = StoreOf(mine, i, n)
    BY DEF StoreOf, Stores, FromOf, ToOf, EndOf
  <2> QED BY <1>2, <1>3, <2>1 DEF Owes
<1>5. Buffered'
  <2> SUFFICES ASSUME NEW j \in Inode, NEW m \in Index, Filling(j)', Partial(mine, m), m < block_count(INODES'[j].size)
               PROVE  /\ s # Cons(Just("clear"), FromStore(mine, j, m, L))
                      /\ s # FromStore(mine, j, m, L)
    <3>1. \A j \in Inode, m \in Index : /\ FromStore(mine, j, m, Last(mine.op))' = FromStore(mine, j, m, L)
                                        /\ (ToOf(mine, m) - FromOf(mine, m))' = ToOf(mine, m) - FromOf(mine, m)
                                        /\ block_count(INODES[j].size)' = block_count(INODES'[j].size)
      BY DEF FromStore, StoreOf, FromGrow, FromOf, ToOf, EndOf, Last, block_count
    <3> HIDE DEF L
    <3> QED BY <1>2, <3>1 DEF Buffered, Partial, L
  <2>1. j = i
    BY <1>1, PieceInode DEF Filling
  <2> QED BY <1>3, <2>1
<1> QED BY <1>4, <1>5

LEMMA NothingStored ==
  ASSUME StorageTypes, Sole, Writer(mine), mine' = mine, NEW i \in Inode, todo' \in InPieces(mine, i, Last(mine.op)),
         EndOf(mine) <= MAX_FILE_SIZE, Owes(StoreOf(mine, i, mine.offset \div BLOCK_SIZE))'
  PROVE  DataStored'
<1>0. PICK n : n = mine.offset \div BLOCK_SIZE
  OBVIOUS
<1>1. mine \in CallRecord /\ mine.data # <<>> /\ mine.offset \in Nat /\ BLOCK_SIZE \in Nat \ {0}
  BY CallTyped, WriterShapes, Sizes DEF CallRecord
<1>2. n \in Index /\ n \in Nat /\ n * BLOCK_SIZE <= mine.offset
  <2>1. n \in Index
    BY <1>0, <1>1, FirstReached
  <2> QED BY <1>0, <1>1, <2>1, Quotient
<1>3. Owes(StoreOf(mine, i, n))'
  BY <1>0
<1> SUFFICES ASSUME NEW j \in Inode, Filling(j)', NEW m \in Index,
                    (Reaches(mine, m) /\ (\A l \in Index : Owes(StoreOf(mine, j, l)) => m < l))'
             PROVE  FALSE
  BY DEF DataStored
<1>4. j = i
  BY <1>1, PieceInode, WriterShapes DEF Filling
<1>5. m < n
  <2>1. \A l \in Index : Owes(StoreOf(mine, i, l))' => m < l
    BY <1>4
  <2> QED BY <1>2, <1>3, <2>1
<1>6. mine.offset < (m + 1) * BLOCK_SIZE
  BY DEF Reaches
<1>7. (m + 1) * BLOCK_SIZE <= n * BLOCK_SIZE /\ (m + 1) * BLOCK_SIZE \in Int /\ n * BLOCK_SIZE \in Int
  <2>1. m + 1 \in Int /\ m + 1 <= n /\ n \in Int
    BY <1>2, <1>5, Sizes DEF Index
  <2> QED BY <1>1, <2>1, Products
<1>8. \A a, b \in Int : mine.offset < a /\ a <= b /\ b <= mine.offset => FALSE
  BY <1>1
<1> QED BY <1>2, <1>6, <1>7, <1>8

LEMMA WritePromise ==
  ASSUME Faultless, Known, Sound', Write(me)
  PROVE  Keeps
<1>1. Sole /\ StorageTypes /\ PromiseInv /\ Sound /\ TreeInv /\ NodesInv /\ UNCHANGED <<MOUNTED, disk>> /\ Now(me, "write")
  BY DEF Known, Sound, Faultless, Sole, Write
<1>2. PICK i \in Inode :
        /\ Writer(mine) /\ todo = Cons(On("write", i), Last(mine.op))
        /\ \/ UNCHANGED cache /\ Continues(<<>>)
           \/ /\ INODES[i].kind = "file" /\ EndOf(mine) <= MAX_FILE_SIZE
              /\ Cardinality(Missing(INODES[i], EndOf(mine))) <= Cardinality(FreeBlocks)
              /\ alloc_blocks(i, EndOf(mine)) /\ mine' = mine
              /\ \E s \in InPieces(mine, i, Last(mine.op)) :
                   /\ todo' = s
                   /\ s = Piece(i, mine.offset \div BLOCK_SIZE, mine.offset, Len(mine.data), block_count(INODES[i].size))
                            \o FromGrow(mine, i, Last(mine.op))
  BY <1>1, FlowWrite
<1>3. /\ MOUNTED /\ mine.op \in {"write_file", "write_at"} /\ IsTree(INODES) /\ mine \in CallRecord
      /\ mine.data # <<>> /\ Last(mine.op) \in Seq(Step) /\ ~Now(me, "inodes")
  BY <1>1, <1>2, LiveTree, CallTyped, WriterShapes DEF Writer, Now
<1>4. CASE UNCHANGED cache /\ Continues(<<>>)
  <2>1. UNCHANGED <<INODES, MOUNTED, disk>>
    BY <1>1, <1>4 DEF cache
  <2> QED BY <1>4, <2>1, EndsAs
<1>5. CASE /\ INODES[i].kind = "file" /\ EndOf(mine) <= MAX_FILE_SIZE
           /\ Cardinality(Missing(INODES[i], EndOf(mine))) <= Cardinality(FreeBlocks)
           /\ alloc_blocks(i, EndOf(mine)) /\ mine' = mine
           /\ \E s \in InPieces(mine, i, Last(mine.op)) :
                /\ todo' = s
                /\ s = Piece(i, mine.offset \div BLOCK_SIZE, mine.offset, Len(mine.data), block_count(INODES[i].size))
                         \o FromGrow(mine, i, Last(mine.op))
  <2>1. /\ Has(todo, On("write", i)) /\ Due("write")
    <3>1. Has(todo, On("write", i))
      BY <1>2, <1>3, HasCons
    <3> QED BY <3>1, DueOwed, StepsOf
  <2>2. \A j \in Inode : Same(INODES[j], INODES'[j])
    <3>1. EndOf(mine) \in Nat
      BY <1>3 DEF EndOf, CallRecord
    <3>2. Grants(i, EndOf(mine)) /\ INODES' \in InodeTable
      BY <1>1, <1>5, <3>1, Allocates
    <3> QED BY <1>1, <3>1, <3>2, WriteSame
  <2>3. INODES \in InodeTable /\ INODES' \in InodeTable
    BY <1>1, TablesTyped, WriteTypes DEF StorageTypes, DataTypes
  <2>4. \A p \in Seq(Word) : Read(p)' = Read(p) /\ Kept(p)' = Kept(p) /\ Kept(p) = Read(p)
    <3> TAKE p \in Seq(Word)
    <3>1. ReadIn(disk.data, INODES', p) = ReadIn(disk.data, INODES, p)
      BY <1>3, <2>2, <2>3, AllReadSame
    <3>2. Kept(p) = Read(p)
      BY <1>1, <1>3, Settled0
    <3> QED BY <1>1, <3>1, <3>2 DEF Read, Kept
  <2>5. Silent
    BY <1>1, <1>3, <2>4, SeenIs, InPath DEF Silent
  <2>6. DiskSays'
    <3>1. \A p \in Path : Kept(p)' = Read(p)'
      BY <2>4, InPath
    <3> QED BY <3>1 DEF DiskSays
  <2>7. mine.op = "write_at" /\ mine.path \in Path => HalfWritten'
    <3> SUFFICES ASSUME mine.op = "write_at", mine.path \in Path PROVE HalfWritten'
      OBVIOUS
    <3>1. Promise!Written(mine, mine.was, Read(mine.path)) /\ Len(Read(mine.path)) = Len(mine.was)
      BY <1>1, <2>1 DEF PromiseInv, HalfWritten
    <3>2. Read(mine.path)' = Read(mine.path)
      <4>1. PICK q : q = mine.path
        OBVIOUS
      <4>2. Read(q)' = Read(q)
        BY <2>4, <4>1, InPath
      <4> QED BY <1>5, <4>1, <4>2 DEF Read
    <3> QED BY <1>5, <3>1, <3>2 DEF HalfWritten
  <2>8. StorageTypes /\ Sole /\ Writer(mine) /\ mine' = mine /\ EndOf(mine) <= MAX_FILE_SIZE
    <3>1. mine' = mine /\ EndOf(mine) <= MAX_FILE_SIZE
      BY <1>5
    <3>2. Writer(mine)
      BY <1>2
    <3> QED BY <1>1, <3>1, <3>2
  <2>9. INODES'[i].size = INODES[i].size
    BY <2>2 DEF Same
  <2>10. mine.op = "write_file" => INODES'[i].size = 0
    BY <1>1, <2>1, <2>9 DEF PromiseInv, EmptyYet, Owes
  <2> DEFINE n == mine.offset \div BLOCK_SIZE
  <2>11. todo' \in InPieces(mine, i, Last(mine.op))
    BY <1>5
  <2>12. Buffered' /\ Owes(StoreOf(mine, i, n))'
    <3>1. n \in Index /\ Reaches(mine, n)
      BY <1>3, <1>5, FirstReached
    <3>2. PICK m \in Index : m = n
      BY <3>1
    <3>3. PICK have : have = block_count(INODES'[i].size)
      OBVIOUS
    <3>4. todo' = Piece(i, m, mine.offset, Len(mine.data), have) \o FromGrow(mine, i, Last(mine.op))
      BY <1>5, <2>9, <3>2, <3>3
    <3>5. Reaches(mine, m)
      BY <3>1, <3>2
    <3> HIDE DEF n
    <3>6. Buffered' /\ Owes(StoreOf(mine, i, m))'
      BY <2>8, <2>11, <3>3, <3>4, <3>5, BeginsPiece, ZenonT(30)
    <3>7. m = n' /\ m = n
      BY <1>5, <3>2 DEF n
    <3> QED BY <3>6, <3>7
  <2>13. DataStored'
    BY <2>8, <2>11, <2>12, NothingStored, ZenonT(30)
  <2>14. PromiseInv'
    BY <2>6, <2>7, <2>8, <2>10, <2>11, <2>12, <2>13, InPiecesNow, ZenonT(30)
  <2> QED BY <2>5, <2>14 DEF Keeps
<1> QED BY <1>2, <1>4, <1>5

------------------------------------------------------------------------------
(* A block of a write is stored *)

\* The n-th block is in the file once, and S is old with what the call writes there.
InOnce(a, n) == \A k \in Index : k # n /\ k < Count(a) => a.blocks[k] # a.blocks[n]
WrittenOver(S, c, n, old) ==
  \A k \in Cell : S[k] = IF k \in FromOf(c, n) .. ToOf(c, n) - 1
                         THEN c.data[n * BLOCK_SIZE + k - c.offset + 1] ELSE old[k]

Overwritten(c, f, g, size) == \A k \in 1 .. size : g[k] = f[k] \/ (Promise!InRange(c, k) /\ g[k] = c.data[k - c.offset])

\* Of the file only cells in the range of the call change, to what its data says.
LEMMA OneBlock ==
  ASSUME NEW data \in Disks, NEW c \in CallRecord, c.data # <<>>, NEW n \in Index, Reaches(c, n),
         NEW a \in InodeRecord, a.kind = "file", NEW S \in Content, NEW old,
         InOnce(a, n), WrittenOver(S, c, n, old), NEW new, new = [data EXCEPT ![a.blocks[n]] = S],
         Partial(c, n) /\ n < Count(a) => old = data[a.blocks[n]]
  PROVE  new \in Disks /\ Overwritten(c, Cells(data, a), Cells(new, a), a.size)
<1>1. new \in Disks /\ a.blocks[n] \in Block
  <2>1. a.blocks[n] \in Block
    BY CountType
  <2> QED BY <2>1 DEF Disks
<1>2. SUFFICES ASSUME NEW k \in 1 .. a.size
               PROVE  \/ Cells(new, a)[k] = Cells(data, a)[k]
                      \/ Promise!InRange(c, k) /\ Cells(new, a)[k] = c.data[k - c.offset]
  BY <1>1 DEF Overwritten
<1> DEFINE q == (k - 1) \div BLOCK_SIZE  r == (k - 1) % BLOCK_SIZE
<1>3. Cells(new, a)[k] = new[a.blocks[q]][r] /\ Cells(data, a)[k] = data[a.blocks[q]][r]
  BY <1>1, CellsType
<1>4. q \in 0 .. Count(a) - 1 /\ r \in Cell /\ a.blocks[q] \in Block /\ k - 1 = q * BLOCK_SIZE + r
  BY CellAt
<1>5. q \in Index /\ q < Count(a) /\ Count(a) \in Nat
  BY <1>4, CountType
<1> HIDE DEF q, r
<1>6. CASE q # n
  <2>1. a.blocks[q] # a.blocks[n]
    BY <1>5, <1>6 DEF InOnce
  <2>2. new[a.blocks[q]] = data[a.blocks[q]]
    BY <1>1, <1>4, <2>1 DEF Disks
  <2> QED BY <1>3, <2>2
<1>7. CASE q = n
  <2>1. new[a.blocks[q]] = S
    BY <1>1, <1>7 DEF Disks
  <2>2. Cells(new, a)[k] = S[r]
    BY <1>3, <2>1
  <2>3. CASE r \in FromOf(c, n) .. ToOf(c, n) - 1
    <3> DEFINE p == n * BLOCK_SIZE  f == FromOf(c, n)  t == ToOf(c, n)  o == c.offset  l == Len(c.data)
    <3>1. /\ f \in Nat /\ t \in Nat /\ p \in Nat /\ o <= p + f /\ p + t <= EndOf(c)
      BY Ranges
    <3>2. o \in Nat /\ l \in Nat /\ EndOf(c) = o + l
      BY DEF CallRecord, EndOf
    <3>3. k - 1 = p + r /\ r \in f .. t - 1 /\ k \in Int
      BY <1>4, <1>7, <2>3, Sizes DEF InodeRecord
    <3>4. S[r] = c.data[p + r - o + 1]
      BY <1>4, <2>3 DEF WrittenOver
    <3> HIDE DEF p, f, t, o, l
    <3>5. k \in o + 1 .. o + l /\ p + r - o + 1 = k - o
      <4>1. r \in Int /\ f <= r /\ r <= t - 1 /\ k = p + r + 1
        BY <3>1, <3>3
      <4>2. o + 1 <= k /\ k <= o + l
        BY <3>1, <3>2, <4>1
      <4> QED BY <3>1, <3>2, <4>1, <4>2
    <3>6. Promise!InRange(c, k)
      BY <3>5 DEF Promise!InRange, o, l
    <3> QED BY <2>2, <3>4, <3>5, <3>6 DEF o
  <2>4. CASE r \notin FromOf(c, n) .. ToOf(c, n) - 1
    <3>1. Partial(c, n)
      <4>1. FromOf(c, n) \in Nat /\ ToOf(c, n) \in Nat /\ ToOf(c, n) <= BLOCK_SIZE /\ FromOf(c, n) < ToOf(c, n)
        BY Ranges
      <4>2. r \in 0 .. BLOCK_SIZE - 1 /\ BLOCK_SIZE \in Nat
        BY <1>4, Sizes DEF Cell
      <4> QED BY <2>4, <4>1, <4>2 DEF Partial
    <3>2. S[r] = old[r]
      BY <1>4, <2>4 DEF WrittenOver
    <3>3. old = data[a.blocks[n]]
      BY <1>5, <1>7, <3>1
    <3> QED BY <1>3, <1>7, <2>2, <3>2, <3>3
  <2> QED BY <2>3, <2>4
<1> QED BY <1>6, <1>7

\* The block belongs to no other file and is in this one once.
LEMMA StoreApart ==
  ASSUME Sole, StorageTypes, BlocksInv, Writer(mine), NEW i \in Inode, Filling(i), NEW n \in Index, Reaches(mine, n)
  PROVE  /\ INODES[i].kind = "file"
         /\ \A j \in Inode \ {i} : INODES[i].blocks[n] \notin Owned(INODES[j])
         /\ \A k \in Index : k # n /\ (k < Count(INODES[i]) \/ Reaches(mine, k)) => INODES[i].blocks[k] # INODES[i].blocks[n]
<1> DEFINE a == INODES[i]  end == EndOf(mine)  g == [a EXCEPT !.size = IF end > @ THEN end ELSE @]
<1>1. a.kind = "file" /\ OwnedOnce(Grown(i, end))
  BY DEF BlocksInv
<1>2. INODES \in InodeTable /\ a \in InodeRecord /\ mine \in CallRecord /\ mine.data # <<>>
  <2>1. INODES \in InodeTable /\ mine \in CallRecord /\ mine.data # <<>>
    BY TablesTyped, CallTyped, WriterShapes
  <2> QED BY <2>1 DEF InodeTable
<1>3. end \in Nat /\ end <= MAX_FILE_SIZE /\ a.size \in Nat /\ a.size <= MAX_FILE_SIZE /\ MAX_FILE_SIZE \in Nat
  <2>1. end <= MAX_FILE_SIZE
    BY <1>2, WriterShapes, PieceHeads DEF Filling
  <2>2. a.size \in 0 .. MAX_FILE_SIZE /\ MAX_FILE_SIZE \in Nat
    BY <1>2, Sizes DEF InodeRecord
  <2>3. mine.offset \in Nat /\ Len(mine.data) \in Nat
    BY <1>2 DEF CallRecord
  <2>4. end \in Nat
    BY <2>3 DEF EndOf
  <2> HIDE DEF a, end
  <2> QED BY <2>1, <2>2, <2>4
<1>4. Grown(i, end)[i] = g /\ \A j \in Inode : j # i => Grown(i, end)[j] = INODES[j]
  BY <1>2 DEF Grown, InodeTable
<1> HIDE DEF end
<1>5. /\ g.kind = "file" /\ g.blocks = a.blocks /\ g.size \in Nat /\ g.size >= a.size /\ g.size >= end /\ g \in InodeRecord
  BY <1>1, <1>2, <1>3 DEF InodeRecord
<1> HIDE DEF g
<1>6. Count(g) \in Nat /\ Owned(g) = {g.blocks[k] : k \in 0 .. Count(g) - 1}
  BY <1>5, CountType
<1>7. ASSUME NEW k \in Index, k < Count(a) \/ Reaches(mine, k) PROVE k \in 0 .. Count(g) - 1
  <2>1. k \in Nat /\ Count(g) = block_count(g.size) /\ Count(a) = block_count(a.size)
    BY <1>1, <1>5, Sizes DEF Count, Index
  <2>2. k * BLOCK_SIZE < a.size \/ k * BLOCK_SIZE < end
    BY <1>3, <1>7, <2>1, Counts DEF Reaches, end
  <2>3. k * BLOCK_SIZE \in Int
    BY <2>1, Products, Sizes
  <2>4. k * BLOCK_SIZE < g.size
    BY <1>3, <1>5, <2>2, <2>3
  <2>5. k < block_count(g.size)
    BY <1>5, <2>1, <2>4, Counts
  <2> QED BY <1>6, <2>1, <2>5
<1>8. n \in 0 .. Count(g) - 1
  BY <1>7
<1>9. ASSUME NEW j \in Inode \ {i} PROVE a.blocks[n] \notin Owned(INODES[j])
  <2>1. Owned(Grown(i, end)[i]) \intersect Owned(Grown(i, end)[j]) = {}
    BY <1>1 DEF OwnedOnce
  <2>2. a.blocks[n] \in Owned(g)
    BY <1>5, <1>6, <1>8
  <2> QED BY <1>4, <2>1, <2>2
<1>10. ASSUME NEW k \in Index, k # n, k < Count(a) \/ Reaches(mine, k) PROVE a.blocks[k] # a.blocks[n]
  <2>1. k \in 0 .. Count(g) - 1
    BY <1>7, <1>10
  <2>2. g.blocks[k] = g.blocks[n] => k = n
    BY <1>1, <1>4, <1>8, <2>1 DEF OwnedOnce
  <2> QED BY <1>5, <1>10, <2>2
<1> QED BY <1>1, <1>9, <1>10

\* What Store does.
LEMMA StoresBlock ==
  ASSUME Sole, StorageTypes, Store(me)
  PROVE  \E i \in Inode, n \in Index :
           /\ Reaches(mine, n) /\ Writer(mine) /\ mine' = mine /\ Filling(i)
           /\ todo = FromStore(mine, i, n, Last(mine.op))
           /\ SCRATCH' \in Content
           /\ \A k \in Cell : SCRATCH'[k] = IF k \in FromOf(mine, n) .. ToOf(mine, n) - 1
                                            THEN mine.data[n * BLOCK_SIZE + k - mine.offset + 1] ELSE SCRATCH[k]
           /\ disk'.data = [disk.data EXCEPT ![INODES[i].blocks[n]] = SCRATCH']
           /\ todo' \in InPieces(mine, i, Last(mine.op))
           /\ todo' = IF (n + 1) * BLOCK_SIZE < EndOf(mine)
                      THEN Piece(i, n + 1, mine.offset, Len(mine.data), block_count(INODES[i].size))
                             \o FromGrow(mine, i, Last(mine.op))
                      ELSE FromGrow(mine, i, Last(mine.op))
<1>1. PICK i \in Inode, n \in Index :
           /\ First(me) = StoreOf(mine, i, n) /\ Reaches(mine, n) /\ Writer(mine) /\ mine' = mine
           /\ todo \in InPieces(mine, i, Last(mine.op))
           /\ todo' \in InPieces(mine, i, Last(mine.op))
           /\ todo' = IF (n + 1) * BLOCK_SIZE < EndOf(mine)
                      THEN Piece(i, n + 1, mine.offset, Len(mine.data), block_count(INODES[i].size))
                             \o FromGrow(mine, i, Last(mine.op))
                      ELSE FromGrow(mine, i, Last(mine.op))
  BY FlowStore
<1>2. mine \in CallRecord /\ mine.data # <<>> /\ mine.op \in {"write_file", "write_at"} /\ Last(mine.op) \in Seq(Step)
  BY <1>1, CallTyped, WriterShapes
<1>3. First(me).from = FromOf(mine, n) /\ First(me).to = ToOf(mine, n) /\ First(me).nth = n /\ First(me).inode = i
  BY <1>1 DEF StoreOf, Stores
<1>4. todo = FromStore(mine, i, n, Last(mine.op))
  <2>1. todo # <<>> /\ Head(todo) = StoreOf(mine, i, n) /\ Head(todo).do = "store"
    <3>1. Now(me, "store")
      BY DEF Store
    <3> QED BY <1>1, <3>1 DEF Now, First, todo
  <2>2. PICK m \in Index : Reaches(mine, m) /\ todo = FromStore(mine, i, m, Last(mine.op))
    BY <1>1, <1>2, <2>1, PieceHeads
  <2>3. FromGrow(mine, i, Last(mine.op)) \in Seq(Step)
    BY <1>2, WriteLists
  <2>4. StoreOf(mine, i, m) = StoreOf(mine, i, n)
    BY <2>1, <2>2, <2>3, ConsFacts DEF FromStore
  <2>5. m = n
    BY <2>4 DEF StoreOf, Stores
  <2> QED BY <2>2, <2>5
<1> DEFINE S == [k \in Cell |-> IF k \in FromOf(mine, n) .. ToOf(mine, n) - 1
                               THEN mine.data[n * BLOCK_SIZE + k - mine.offset + 1] ELSE SCRATCH[k]]
<1>5. SCRATCH' = S /\ disk' = [disk EXCEPT !.data[INODES[i].blocks[n]] = SCRATCH']
  BY <1>3 DEF Store, mine
<1>6. \A k \in Cell : SCRATCH'[k] = IF k \in FromOf(mine, n) .. ToOf(mine, n) - 1
                                    THEN mine.data[n * BLOCK_SIZE + k - mine.offset + 1] ELSE SCRATCH[k]
  BY <1>5
<1> HIDE DEF S
<1>7. SCRATCH' \in Content
  BY StoreTypes DEF StorageTypes, DataTypes
<1>8. disk'.data = [disk.data EXCEPT ![INODES[i].blocks[n]] = SCRATCH']
  <2>1. disk \in DiskRecord
    BY DEF StorageTypes, DataTypes, DiskRecord
  <2> QED BY <1>5, <2>1 DEF DiskRecord
<1>9. Filling(i)
  BY <1>1, <1>2 DEF Filling
<1> QED BY <1>1, <1>4, <1>6, <1>7, <1>8, <1>9

LEMMA GrowHas ==
  ASSUME NEW c, c.op \in {"write_file", "write_at"}, NEW i \in Inode, NEW x, Has(FromGrow(c, i, Last(c.op)), x)
  PROVE  x.do \in {"grow", "inodes", "bitmap", "refresh", "advance"}
<1> DEFINE L == Last(c.op)
<1>1. L \in Seq(Step)
  BY Lists
<1>2. PICK w \in {"refresh", "advance"} : L = Cons(Just(w), <<>>)
  BY DEF Last
<1> HIDE DEF L
<1>3. Has(L, x) => x = Just(w)
  BY <1>2, Lists, HasCons
<1>4. Cons(Just("bitmap"), L) \in Seq(Step) /\ 1 \in 1 .. Chunks
  BY <1>1, Lists, ChunkNumbers
<1>5. Cons(Out(1), Cons(Just("bitmap"), L)) \in Seq(Step)
  BY <1>4, Lists
<1>6. x = Grows(i, EndOf(c)) \/ Has(Cons(Out(1), Cons(Just("bitmap"), L)), x)
  BY <1>5, HasCons DEF FromGrow, L
<1>7. Has(Cons(Out(1), Cons(Just("bitmap"), L)), x) => x = Out(1) \/ Has(Cons(Just("bitmap"), L), x)
  BY <1>4, HasCons
<1>8. Has(Cons(Just("bitmap"), L), x) => x = Just("bitmap") \/ Has(L, x)
  BY <1>1, HasCons
<1> QED BY <1>3, <1>6, <1>7, <1>8, StepsOf

\* The blocks of the file before the one that is stored next have their data.
LEMMA StoredNext ==
  ASSUME Sole, StorageTypes, DataStored, Writer(mine), mine' = mine, INODES' = INODES, NEW i \in Inode, Filling(i),
         NEW n \in Index, Reaches(mine, n), todo = FromStore(mine, i, n, Last(mine.op)),
         disk.data \in Disks, NEW S, \A k \in FromOf(mine, n) .. ToOf(mine, n) - 1 : S[k] = mine.data[n * BLOCK_SIZE + k - mine.offset + 1],
         disk'.data = [disk.data EXCEPT ![INODES[i].blocks[n]] = S],
         \A k \in Index : k # n /\ Reaches(mine, k) => INODES[i].blocks[k] # INODES[i].blocks[n],
         todo' \in InPieces(mine, i, Last(mine.op)),
         (n + 1) * BLOCK_SIZE < EndOf(mine) => n + 1 \in Index /\ Owes(StoreOf(mine, i, n + 1))'
  PROVE  DataStored'
<1> DEFINE L == Last(mine.op)
<1>1. mine \in CallRecord /\ mine.data # <<>> /\ mine.op \in {"write_file", "write_at"} /\ L \in Seq(Step)
      /\ EndOf(mine) \in Nat /\ BLOCK_SIZE \in Nat \ {0}
  <2>1. mine \in CallRecord /\ mine.data # <<>> /\ mine.op \in {"write_file", "write_at"} /\ L \in Seq(Step)
    BY CallTyped, WriterShapes
  <2> QED BY <2>1, Sizes DEF EndOf, CallRecord
<1>2. \A k \in Index : INODES[i].blocks[k] \in Block
  <2>1. INODES[i] \in InodeRecord
    BY TablesTyped DEF InodeTable
  <2> QED BY <2>1 DEF InodeRecord
<1> SUFFICES ASSUME NEW j \in Inode, Filling(j)', NEW m \in Index,
                    (Reaches(mine, m) /\ (\A l \in Index : Owes(StoreOf(mine, j, l)) => m < l))'
             PROVE  Stored(j, m)'
  BY DEF DataStored
<1>3. j = i
  BY <1>1, PieceInode DEF Filling
<1>4. Reaches(mine, m)
  BY DEF Reaches, EndOf
<1>5. FromOf(mine, m)' = FromOf(mine, m) /\ ToOf(mine, m)' = ToOf(mine, m)
  BY DEF FromOf, ToOf, EndOf
<1>6. \A l \in Index : Owes(StoreOf(mine, i, l))' => m < l
  BY <1>3
<1>7. m <= n
  <2> SUFFICES ASSUME n < m PROVE FALSE
    BY DEF Index
  <2>1. m * BLOCK_SIZE < EndOf(mine)
    BY <1>4 DEF Reaches
  <2>2. (n + 1) * BLOCK_SIZE <= m * BLOCK_SIZE /\ (n + 1) * BLOCK_SIZE \in Int /\ m * BLOCK_SIZE \in Int
    <3>1. n + 1 \in Int /\ m \in Int /\ n + 1 <= m
      BY Sizes DEF Index
    <3> QED BY <1>1, <3>1, Products
  <2>3. \A x, y \in Int : x <= y /\ y < EndOf(mine) => x < EndOf(mine)
    BY <1>1
  <2>4. (n + 1) * BLOCK_SIZE < EndOf(mine)
    BY <2>1, <2>2, <2>3
  <2>5. n + 1 \in Index /\ Owes(StoreOf(mine, i, n + 1))'
    BY <2>4
  <2>6. m < n + 1
    BY <1>6, <2>5
  <2> QED BY <2>6 DEF Index
<1>8. CASE m = n
  <2>1. disk'.data[INODES[i].blocks[n]] = S
    BY <1>2 DEF Disks
  <2>2. \A k \in FromOf(mine, m) .. ToOf(mine, m) - 1 :
          disk'.data[INODES[i].blocks[m]][k] = mine.data[m * BLOCK_SIZE + k - mine.offset + 1]
    BY <1>8, <2>1
  <2> QED BY <1>3, <1>5, <2>2 DEF Stored
<1>9. CASE m < n
  <2>1. ASSUME NEW l \in Index, Owes(StoreOf(mine, i, l)) PROVE m < l
    <3>1. FromGrow(mine, i, L) \in Seq(Step) /\ todo = Cons(StoreOf(mine, i, n), FromGrow(mine, i, L))
      BY <1>1, WriteLists DEF FromStore
    <3>2. StoreOf(mine, i, l) = StoreOf(mine, i, n) \/ Has(FromGrow(mine, i, L), StoreOf(mine, i, l))
      BY <2>1, <3>1, HasCons DEF Owes
    <3>3. ~Has(FromGrow(mine, i, L), StoreOf(mine, i, l))
      <4>1. StoreOf(mine, i, l).do = "store"
        BY StepsOf DEF StoreOf
      <4> QED BY <1>1, <4>1, GrowHas
    <3>4. l = n
      BY <3>2, <3>3 DEF StoreOf, Stores
    <3> QED BY <1>9, <3>4
  <2>2. Stored(i, m)
    BY <1>4, <2>1 DEF DataStored
  <2>3. INODES[i].blocks[m] # INODES[i].blocks[n]
    BY <1>4, <1>9 DEF Index
  <2>4. disk'.data[INODES[i].blocks[m]] = disk.data[INODES[i].blocks[m]]
    BY <1>2, <2>3 DEF Disks
  <2> QED BY <1>3, <1>5, <2>2, <2>4 DEF Stored
<1> QED BY <1>7, <1>8, <1>9 DEF Index

\* After the last piece none is fetched or stored.
LEMMA GrowNext ==
  ASSUME StorageTypes, Sole, Writer(mine), mine' = mine, NEW i \in Inode, todo' = FromGrow(mine, i, Last(mine.op)),
         todo' \in InPieces(mine, i, Last(mine.op))
  PROVE  Buffered'
<1> DEFINE L == Last(mine.op)
<1>1. mine \in CallRecord /\ mine.data # <<>> /\ mine.op \in {"write_file", "write_at"} /\ L \in Seq(Step)
  BY CallTyped, WriterShapes
<1>2. Cons(Out(1), Cons(Just("bitmap"), L)) \in Seq(Step)
  BY <1>1, Lists, ChunkNumbers
<1>3. Head(todo').do = "grow"
  <2>1. Head(FromGrow(mine, i, L)) = Grows(i, EndOf(mine))
    BY <1>2, ConsFacts DEF FromGrow
  <2> QED BY <2>1, StepsOf
<1>4. FromGrow(mine, i, L) \in Seq(Step)
  BY <1>1, WriteLists
<1>5. ASSUME NEW m \in Index, NEW j \in Inode, j = i
      PROVE  todo' # Cons(Just("clear"), FromStore(mine, j, m, L)) /\ todo' # FromStore(mine, j, m, L)
  <2>1. FromStore(mine, j, m, L) = Cons(StoreOf(mine, j, m), FromGrow(mine, i, L))
    BY <1>5 DEF FromStore
  <2>2. Head(FromStore(mine, j, m, L)).do = "store"
    BY <1>4, <2>1, ConsFacts, StepsOf DEF StoreOf
  <2>3. Head(Cons(Just("clear"), FromStore(mine, j, m, L))).do = "clear"
    <3>1. Cons(Just("clear"), FromStore(mine, j, m, L)) = <<Just("clear")>> \o (<<StoreOf(mine, j, m)>> \o FromGrow(mine, i, L))
      BY <2>1 DEF Cons
    <3>2. Head(<<Just("clear")>> \o (<<StoreOf(mine, j, m)>> \o FromGrow(mine, i, L))) = Just("clear")
      BY <1>4
    <3> QED BY <3>1, <3>2, StepsOf
  <2> QED BY <1>3, <2>2, <2>3
<1> SUFFICES ASSUME NEW j \in Inode, NEW m \in Index, Filling(j)'
             PROVE  /\ todo' # Cons(Just("clear"), FromStore(mine, j, m, L))
                    /\ todo' # FromStore(mine, j, m, L)
  <2>1. \A j \in Inode, m \in Index : FromStore(mine, j, m, Last(mine.op))' = FromStore(mine, j, m, L)
    BY DEF FromStore, StoreOf, FromGrow, FromOf, ToOf, EndOf, Last
  <2> HIDE DEF L
  <2> QED BY <2>1 DEF Buffered, L
<1>6. j = i
  BY <1>1, PieceInode DEF Filling
<1> QED BY <1>5, <1>6

LEMMA StorePromise ==
  ASSUME Faultless, Known, Sound', Store(me)
  PROVE  Keeps
<1>1. /\ Sole /\ StorageTypes /\ PromiseInv /\ Sound /\ TreeInv /\ NodesInv /\ BlocksInv
      /\ UNCHANGED <<INODES, MOUNTED>>
  BY DEF Known, Sound, Faultless, Sole, Store, cache
<1>2. PICK i \in Inode, n \in Index :
           /\ Reaches(mine, n) /\ Writer(mine) /\ mine' = mine /\ Filling(i)
           /\ todo = FromStore(mine, i, n, Last(mine.op))
           /\ SCRATCH' \in Content
           /\ \A k \in Cell : SCRATCH'[k] = IF k \in FromOf(mine, n) .. ToOf(mine, n) - 1
                                            THEN mine.data[n * BLOCK_SIZE + k - mine.offset + 1] ELSE SCRATCH[k]
           /\ disk'.data = [disk.data EXCEPT ![INODES[i].blocks[n]] = SCRATCH']
           /\ todo' \in InPieces(mine, i, Last(mine.op))
           /\ todo' = IF (n + 1) * BLOCK_SIZE < EndOf(mine)
                      THEN Piece(i, n + 1, mine.offset, Len(mine.data), block_count(INODES[i].size))
                             \o FromGrow(mine, i, Last(mine.op))
                      ELSE FromGrow(mine, i, Last(mine.op))
  BY <1>1, StoresBlock
<1>3. /\ MOUNTED /\ mine.op \in {"write_file", "write_at"} /\ IsTree(INODES) /\ mine \in CallRecord
      /\ mine.data # <<>> /\ Last(mine.op) \in Seq(Step)
  BY <1>1, <1>2, LiveTree, CallTyped, WriterShapes DEF Writer
<1>4. INODES \in InodeTable /\ INODES[i] \in InodeRecord /\ disk.data \in Disks
  <2>1. INODES \in InodeTable /\ disk.data \in Disks
    BY <1>1 DEF StorageTypes, DataTypes, Disks
  <2> QED BY <2>1 DEF InodeTable
<1>5. PICK path \in Seq(Word) : path = mine.path
  BY <1>3 DEF CallRecord
<1>6. lookup_file(INODES, path) = i /\ Owes(Grows(i, EndOf(mine))) /\ Due("grow")
  <2>1. Grows(i, EndOf(mine)).do = "grow"
    BY StepsOf
  <2>2. todo \in InPieces(mine, i, Last(mine.op))
    BY <1>2 DEF Filling
  <2>3. Has(todo, Grows(i, EndOf(mine)))
    BY <1>3, <2>1, <2>2, PiecesOwe DEF Vital
  <2>4. Due("grow")
    BY <2>1, <2>3, DueOwed
  <2> QED BY <1>1, <1>2, <1>5, <2>3, <2>4, WrittenInode DEF Owes
<1>7. /\ INODES[i].kind = "file"
      /\ \A j \in Inode \ {i} : INODES[i].blocks[n] \notin Owned(INODES[j])
      /\ \A k \in Index : k # n /\ (k < Count(INODES[i]) \/ Reaches(mine, k)) => INODES[i].blocks[k] # INODES[i].blocks[n]
  BY <1>1, <1>2, StoreApart
<1>8. Count(INODES[i]) = block_count(INODES[i].size)
  BY <1>7 DEF Count
<1> DEFINE f == Cells(disk.data, INODES[i])  g == Cells(disk'.data, INODES[i])
<1>9. /\ disk'.data \in Disks
      /\ \A k \in 1 .. INODES[i].size : g[k] = f[k] \/ (Promise!InRange(mine, k) /\ g[k] = mine.data[k - mine.offset])
  <2>1. Partial(mine, n) /\ n < Count(INODES[i]) => SCRATCH = disk.data[INODES[i].blocks[n]]
    BY <1>1, <1>2, <1>8 DEF PromiseInv, Buffered, Partial
  <2>2. \A k \in Index : k # n /\ k < Count(INODES[i]) => INODES[i].blocks[k] # INODES[i].blocks[n]
    BY <1>7
  <2>3. PICK a \in InodeRecord, c \in CallRecord, D \in Disks : a = INODES[i] /\ c = mine /\ D = disk.data
    BY <1>3, <1>4
  <2>4. PICK S \in Content : S = SCRATCH'
    BY <1>2
  <2>5. PICK new, old : new = disk'.data /\ old = SCRATCH
    OBVIOUS
  <2>6. a.kind = "file" /\ c.data # <<>> /\ Reaches(c, n)
    BY <1>2, <1>3, <1>7, <2>3
  <2>7. WrittenOver(S, c, n, old)
    BY <1>2, <2>3, <2>4, <2>5 DEF WrittenOver
  <2>8. new = [D EXCEPT ![a.blocks[n]] = S]
    BY <1>2, <2>3, <2>4, <2>5
  <2>9. InOnce(a, n) /\ (Partial(c, n) /\ n < Count(a) => old = D[a.blocks[n]])
    BY <2>1, <2>2, <2>3, <2>5 DEF InOnce
  <2>10. new \in Disks /\ Overwritten(c, Cells(D, a), Cells(new, a), a.size)
    BY <2>6, <2>7, <2>8, <2>9, OneBlock
  <2> QED BY <2>3, <2>5, <2>10 DEF Overwritten
<1>10. /\ Len(f) = INODES[i].size /\ Len(g) = INODES[i].size /\ f # Absent /\ g # Absent /\ INODES[i].size \in Nat
  BY <1>4, <1>7, <1>9, CellsType
<1>11. Read(path) = f /\ Read(path)' = g
  <2>1. i # NoInode
    BY DEF Inode, NoInode
  <2> QED BY <1>1, <1>6, <2>1 DEF Read, ReadIn
<1> HIDE DEF f, g
<1>12. \A p \in Seq(Word) : p # path => Read(p)' = Read(p)
  <2> SUFFICES ASSUME NEW p \in Seq(Word), p # path PROVE Read(p)' = Read(p)
    OBVIOUS
  <2> DEFINE j == lookup_file(INODES, p)
  <2>1. j # NoInode => j \in Inode
    BY <1>4, ResolveType
  <2>2. j # NoInode => j # i
    BY <1>3, <1>4, <1>6, OneInode
  <2>3. j # NoInode => \A x \in Owned(INODES[j]) : disk'.data[x] = disk.data[x]
    <3> HIDE DEF j
    <3> SUFFICES ASSUME j \in Inode \ {i}, NEW x \in Owned(INODES[j]) PROVE disk'.data[x] = disk.data[x]
      BY <2>1, <2>2
    <3>1. x # INODES[i].blocks[n] /\ x \in Block
      <4>1. INODES[j] \in InodeRecord
        BY <1>4 DEF InodeTable
      <4> QED BY <1>7, <4>1, CountType
    <3> QED BY <1>2, <1>4, <3>1 DEF Disks
  <2>4. j # NoInode => Same(INODES[j], INODES[j])
    BY SameSelf
  <2>5. ReadIn(disk'.data, INODES, p) = ReadIn(disk.data, INODES, p)
    <3>1. PICK new : new = disk'.data
      OBVIOUS
    <3>2. j # NoInode => Same(INODES[j], INODES[j]) /\ Untouched(disk.data, new, INODES[j])
      BY <2>3, <2>4, <3>1 DEF Untouched
    <3>3. ReadIn(new, INODES, p) = ReadIn(disk.data, INODES, p)
      BY <1>4, <3>2, ReadSame
    <3> QED BY <3>1, <3>3
  <2> QED BY <1>1, <2>5 DEF Read
<1>13. DiskSays'
  <2>1. ~Now(me, "inodes")'
    <3>1. Head(todo').do # "inodes"
      BY <1>2, <1>3, PieceHeads
    <3> QED BY <3>1 DEF Now, First, todo, me
  <2>2. \A p \in Path : Kept(p)' = Read(p)'
    BY <1>1, <1>3, <2>1, Settled1, InPath
  <2> QED BY <2>2 DEF DiskSays
<1>14. Silent \/ Changes
  <2>1. \A p \in Path : p # path => Seen(p)' = Seen(p)
    BY <1>1, <1>3, <1>12, SeenIs, InPath
  <2>2. CASE path \notin Path \/ g = f
    <3>1. Silent
      BY <1>1, <1>3, <1>11, <2>1, <2>2, SeenIs DEF Silent
    <3> QED BY <3>1
  <2>3. CASE mine.op = "write_file"
    <3>1. INODES[i].size = 0
      BY <1>1, <1>6, <2>3 DEF PromiseInv, EmptyYet
    <3>2. g = f
      BY <3>1, NoCells DEF f, g
    <3> QED BY <2>2, <3>2
  <2>4. CASE mine.op = "write_at" /\ path \in Path
    <3>1. Promise!Written(mine, f, g)
      BY <1>9, <1>10 DEF Promise!Written
    <3>2. Promise!Changed(mine, Seen(path), Seen(path)')
      BY <1>1, <1>3, <1>11, <2>4, <3>1, SeenIs DEF Promise!Changed
    <3>3. Changes
      BY <1>5, <2>1, <2>4, <3>2 DEF Changes
    <3> QED BY <3>3
  <2> QED BY <1>3, <2>2, <2>3, <2>4
<1>15. mine.op = "write_at" /\ mine.path \in Path => HalfWritten'
  <2> SUFFICES ASSUME mine.op = "write_at", mine.path \in Path PROVE HalfWritten'
    OBVIOUS
  <2>1. Promise!Written(mine, mine.was, f) /\ Len(f) = Len(mine.was)
    BY <1>1, <1>5, <1>6, <1>11 DEF PromiseInv, HalfWritten
  <2>2. Len(g) = Len(mine.was)
    BY <1>10, <2>1
  <2>3. Promise!Written(mine, mine.was, g)
    BY <1>9, <1>10, <2>1 DEF Promise!Written
  <2>4. Read(mine.path)' = g
    BY <1>2, <1>5, <1>11 DEF Read
  <2> QED BY <1>2, <2>2, <2>3, <2>4 DEF HalfWritten
<1>16. mine.op = "write_file" => INODES'[i].size = 0
  BY <1>1, <1>6 DEF PromiseInv, EmptyYet
<1>17. Buffered' /\ ((n + 1) * BLOCK_SIZE < EndOf(mine) => n + 1 \in Index /\ Owes(StoreOf(mine, i, n + 1))')
  <2>1. CASE (n + 1) * BLOCK_SIZE < EndOf(mine)
    <3>1. EndOf(mine) <= MAX_FILE_SIZE
      BY <1>2, <1>3, PieceHeads
    <3>2. n + 1 \in Index /\ Reaches(mine, n + 1)
      BY <1>2, <1>3, <2>1, <3>1, FirstReached
    <3>3. PICK m \in Index : m = n + 1
      BY <3>2
    <3>4. PICK have : have = block_count(INODES[i].size)
      OBVIOUS
    <3>5. todo' = Piece(i, m, mine.offset, Len(mine.data), have) \o FromGrow(mine, i, Last(mine.op))
      BY <1>2, <2>1, <3>3, <3>4
    <3>6. have = block_count(INODES'[i].size) /\ Reaches(mine, m) /\ Writer(mine) /\ mine' = mine
          /\ todo' \in InPieces(mine, i, Last(mine.op)) /\ Sole /\ StorageTypes
      BY <1>1, <1>2, <3>2, <3>3, <3>4
    <3>7. Buffered' /\ Owes(StoreOf(mine, i, m))'
      BY <3>5, <3>6, BeginsPiece, Zenon
    <3> QED BY <3>2, <3>3, <3>7
  <2>2. CASE ~((n + 1) * BLOCK_SIZE < EndOf(mine))
    <3>1. todo' = FromGrow(mine, i, Last(mine.op))
      BY <1>2, <2>2
    <3>2. Buffered'
      BY <1>1, <1>2, <1>3, <3>1, GrowNext
    <3> QED BY <2>2, <3>2
  <2> QED BY <2>1, <2>2
<1>18. DataStored'
  <2>1. FromOf(mine, n) .. ToOf(mine, n) - 1 \subseteq Cell
    <3>1. FromOf(mine, n) \in Nat /\ ToOf(mine, n) \in Nat /\ ToOf(mine, n) <= BLOCK_SIZE
      BY <1>2, <1>3, Ranges
    <3>2. BLOCK_SIZE \in Nat
      BY Sizes
    <3> QED BY <3>1, <3>2 DEF Cell
  <2>2. \A k \in FromOf(mine, n) .. ToOf(mine, n) - 1 : SCRATCH'[k] = mine.data[n * BLOCK_SIZE + k - mine.offset + 1]
    BY <1>2, <2>1
  <2>3. DataStored /\ \A k \in Index : k # n /\ Reaches(mine, k) => INODES[i].blocks[k] # INODES[i].blocks[n]
    BY <1>1, <1>7 DEF PromiseInv
  <2>4. Sole /\ StorageTypes /\ Writer(mine) /\ mine' = mine /\ INODES' = INODES /\ Filling(i) /\ Reaches(mine, n)
        /\ todo = FromStore(mine, i, n, Last(mine.op)) /\ disk.data \in Disks
        /\ disk'.data = [disk.data EXCEPT ![INODES[i].blocks[n]] = SCRATCH']
        /\ todo' \in InPieces(mine, i, Last(mine.op))
    BY <1>1, <1>2, <1>4
  <2> QED BY <1>17, <2>2, <2>3, <2>4, StoredNext
<1>19. PromiseInv'
  BY <1>1, <1>2, <1>13, <1>15, <1>16, <1>17, <1>18, InPiecesNow
<1> QED BY <1>14, <1>19 DEF Keeps

------------------------------------------------------------------------------
(* The file grows *)

HasData(data, c, a) ==
  \A n \in Index : Reaches(c, n) =>
    \A k \in FromOf(c, n) .. ToOf(c, n) - 1 : data[a.blocks[n]][k] = c.data[n * BLOCK_SIZE + k - c.offset + 1]

\* Where a cell of the range lies.
LEMMA CellInRange ==
  ASSUME NEW c \in CallRecord, NEW k \in Nat, Promise!InRange(c, k), NEW q \in Index, NEW r \in Cell,
         k - 1 = q * BLOCK_SIZE + r
  PROVE  Reaches(c, q) /\ r \in FromOf(c, q) .. ToOf(c, q) - 1 /\ q * BLOCK_SIZE + r - c.offset + 1 = k - c.offset
<1> DEFINE p == q * BLOCK_SIZE  o == c.offset  e == EndOf(c)
<1>1. o \in Nat /\ e \in Nat /\ k \in o + 1 .. e
  BY DEF Promise!InRange, CallRecord, EndOf
<1>2. BLOCK_SIZE \in Nat \ {0} /\ q \in Nat /\ r \in 0 .. BLOCK_SIZE - 1
  BY Sizes DEF Cell, Index
<1>3. p \in Int /\ (q + 1) * BLOCK_SIZE = p + BLOCK_SIZE
  BY <1>2, Products
<1>4. k - 1 = p + r
  OBVIOUS
<1>5. Reaches(c, q) <=> (o < p + BLOCK_SIZE /\ p < e)
  BY <1>3 DEF Reaches
<1>6. FromOf(c, q) = (IF o > p THEN o - p ELSE 0) /\ ToOf(c, q) = (IF e < p + BLOCK_SIZE THEN e - p ELSE BLOCK_SIZE)
  BY <1>3 DEF FromOf, ToOf
<1> HIDE DEF p, o, e
<1>7. k = p + r + 1 /\ r \in Int /\ 0 <= r /\ r < BLOCK_SIZE /\ BLOCK_SIZE \in Int /\ o < k /\ k <= e
  BY <1>1, <1>2, <1>3, <1>4
<1>8. o < p + BLOCK_SIZE /\ p < e
  BY <1>1, <1>3, <1>7
<1>9. r \in FromOf(c, q) .. ToOf(c, q) - 1
  BY <1>1, <1>3, <1>6, <1>7
<1>10. p + r - o + 1 = k - o
  BY <1>1, <1>3, <1>7
<1> QED BY <1>5, <1>8, <1>9, <1>10 DEF p, o

\* A file grows into the blocks that have its data.
LEMMA GrownCells ==
  ASSUME NEW data \in Disks, NEW c \in CallRecord, NEW a \in InodeRecord, NEW b \in InodeRecord,
         a.kind = "file", b.kind = "file", b.blocks = a.blocks, b.size = (IF EndOf(c) > a.size THEN EndOf(c) ELSE a.size),
         HasData(data, c, a)
  PROVE  Promise!Written(c, Cells(data, a), Cells(data, b))
<1> DEFINE f == Cells(data, a)  g == Cells(data, b)
<1>1. f # Absent /\ g # Absent /\ Len(f) = a.size /\ Len(g) = b.size /\ a.size \in Nat /\ b.size \in Nat /\ EndOf(c) \in Nat
  BY CellsType DEF CallRecord, EndOf
<1>2. Len(g) = Promise!LongerOf(Len(f), c.offset + Len(c.data))
  <2>1. EndOf(c) = c.offset + Len(c.data)
    BY DEF EndOf
  <2> HIDE DEF f, g
  <2> QED BY <1>1, <2>1 DEF Promise!LongerOf
<1>3. ASSUME NEW k \in 1 .. b.size
      PROVE  \/ Promise!InRange(c, k) /\ g[k] = c.data[k - c.offset]
             \/ k <= a.size /\ g[k] = f[k]
             \/ k > a.size /\ ~Promise!InRange(c, k)
  <2> DEFINE q == (k - 1) \div BLOCK_SIZE  r == (k - 1) % BLOCK_SIZE
  <2>1. g[k] = data[b.blocks[q]][r] /\ (k <= a.size => f[k] = data[a.blocks[q]][r])
    <3>1. k <= a.size => k \in 1 .. a.size
      BY <1>1
    <3> QED BY <3>1, CellsType
  <2>2. q \in 0 .. Count(b) - 1 /\ r \in Cell /\ k - 1 = q * BLOCK_SIZE + r
    BY CellAt
  <2>3. q \in Index /\ k \in Nat
    BY <1>1, <2>2, CountType
  <2> HIDE DEF f, g, q, r
  <2>4. CASE k <= a.size
    BY <2>1, <2>4
  <2>5. CASE k > a.size /\ Promise!InRange(c, k)
    <3>1. /\ Reaches(c, q) /\ r \in FromOf(c, q) .. ToOf(c, q) - 1
          /\ q * BLOCK_SIZE + r - c.offset + 1 = k - c.offset
      BY <2>2, <2>3, <2>5, CellInRange
    <3>2. data[a.blocks[q]][r] = c.data[q * BLOCK_SIZE + r - c.offset + 1]
      BY <2>3, <3>1 DEF HasData
    <3> QED BY <2>1, <2>5, <3>1, <3>2
  <2> QED BY <1>1, <2>3, <2>4, <2>5
<1> HIDE DEF f, g
<1>4. \A k \in 1 .. Len(g) :
        \/ Promise!InRange(c, k) /\ g[k] = c.data[k - c.offset]
        \/ k <= Len(f) /\ g[k] = f[k]
        \/ k > Len(f) /\ ~Promise!InRange(c, k)
  BY <1>1, <1>3
<1> QED BY <1>1, <1>2, <1>4 DEF Promise!Written, f, g

LEMMA GrowPromise ==
  ASSUME Faultless, Known, Sound', Grow(me)
  PROVE  Keeps
<1>1. /\ Sole /\ StorageTypes /\ PromiseInv /\ Sound /\ TreeInv /\ NodesInv /\ BlocksInv
      /\ UNCHANGED <<MOUNTED, disk>> /\ Now(me, "grow")
  BY DEF Known, Sound, Faultless, Sole, Grow
<1>2. PICK i \in Inode :
           /\ First(me) = Grows(i, EndOf(mine)) /\ Writer(mine) /\ mine' = mine
           /\ todo \in InPieces(mine, i, Last(mine.op)) /\ todo = FromGrow(mine, i, Last(mine.op))
           /\ todo' = Cons(Out(1), Cons(Just("bitmap"), Last(mine.op)))
  BY <1>1, FlowGrow DEF Continues, Leaves
<1>3. /\ MOUNTED /\ mine.op \in {"write_file", "write_at"} /\ IsTree(INODES) /\ mine \in CallRecord
      /\ mine.data # <<>> /\ Last(mine.op) \in Seq(Step) /\ ~Now(me, "inodes")
  BY <1>1, <1>2, LiveTree, CallTyped, WriterShapes DEF Writer, Now
<1>4. PICK path \in Seq(Word) : path = mine.path
  BY <1>3 DEF CallRecord
<1>5. lookup_file(INODES, path) = i /\ Owes(Grows(i, EndOf(mine))) /\ Due("grow") /\ Filling(i)
  <2>1. Grows(i, EndOf(mine)).do = "grow"
    BY StepsOf
  <2>2. Has(todo, Grows(i, EndOf(mine)))
    BY <1>2, <1>3, <2>1, PiecesOwe DEF Vital
  <2>3. Due("grow")
    BY <2>1, <2>2, DueOwed
  <2>4. Filling(i)
    BY <1>2, <1>3 DEF Filling
  <2> QED BY <1>1, <1>2, <1>4, <2>2, <2>3, <2>4, WrittenInode DEF Owes
<1>6. /\ INODES \in InodeTable /\ INODES' \in InodeTable /\ disk.data \in Disks
      /\ INODES[i] \in InodeRecord /\ INODES'[i] \in InodeRecord
  <2>1. INODES \in InodeTable /\ disk.data \in Disks /\ INODES' \in InodeTable
    BY <1>1 DEF StorageTypes, DataTypes, Disks, Sound
  <2> QED BY <2>1 DEF InodeTable
<1>7. INODES[i].kind = "file"
  BY <1>1, <1>5 DEF BlocksInv
<1> DEFINE z == IF EndOf(mine) > INODES[i].size THEN EndOf(mine) ELSE INODES[i].size
<1>8. INODES' = [INODES EXCEPT ![i].size = z]
  <2>1. First(me).inode = i /\ First(me).end = EndOf(mine)
    BY <1>2 DEF Grows
  <2> QED BY <1>6, <2>1 DEF Grow, InodeTable
<1>9. INODES'[i].size = z /\ INODES'[i].kind = "file" /\ INODES'[i].blocks = INODES[i].blocks
      /\ \A j \in Inode : j # i => INODES'[j] = INODES[j]
  <2> HIDE DEF z
  <2> QED BY <1>6, <1>7, <1>8 DEF InodeTable, InodeRecord
<1>10. \A p \in Seq(Word) : lookup_file(INODES', p) = lookup_file(INODES, p)
  <2>1. \A j \in Inode : Alike(INODES[j], INODES'[j])
    BY <1>1, GrowAlike
  <2> QED BY <1>3, <1>6, <2>1, AlikeLookup
<1> DEFINE f == Cells(disk.data, INODES[i])  g == Cells(disk.data, INODES'[i])
<1>11. Read(path) = f /\ Read(path)' = g
  <2>1. i # NoInode
    BY DEF Inode, NoInode
  <2>2. lookup_file(INODES', path) = i
    BY <1>5, <1>10
  <2> QED BY <1>1, <1>5, <2>1, <2>2 DEF Read, ReadIn
<1>12. HasData(disk.data, mine, INODES[i])
  <2>1. ASSUME NEW n \in Index, Owes(StoreOf(mine, i, n)) PROVE FALSE
    <3>1. StoreOf(mine, i, n).do = "store"
      BY StepsOf DEF StoreOf
    <3>2. Has(FromGrow(mine, i, Last(mine.op)), StoreOf(mine, i, n))
      BY <1>2, <2>1 DEF Owes
    <3> QED BY <1>2, <1>3, <3>1, <3>2, GrowHas
  <2>2. \A n \in Index : Reaches(mine, n) => Stored(i, n)
    BY <1>1, <1>5, <2>1 DEF PromiseInv, DataStored
  <2> QED BY <2>2 DEF HasData, Stored
<1>13. Promise!Written(mine, f, g)
  <2>1. PICK b \in InodeRecord : b = INODES'[i]
    BY <1>6
  <2>2. b.kind = "file" /\ b.blocks = INODES[i].blocks /\ b.size = z
    BY <1>9, <2>1
  <2>3. Promise!Written(mine, Cells(disk.data, INODES[i]), Cells(disk.data, b))
    BY <1>3, <1>6, <1>7, <1>12, <2>2, GrownCells
  <2> QED BY <2>1, <2>3
<1>14. mine.op = "write_file" => f = <<>>
  <2> SUFFICES ASSUME mine.op = "write_file" PROVE f = <<>>
    OBVIOUS
  <2>1. INODES[i].size = 0
    BY <1>1, <1>5 DEF PromiseInv, EmptyYet
  <2> QED BY <2>1, NoCells
<1> HIDE DEF f, g, z
<1>15. Promise!Changed(mine, Read(path), Read(path)')
  BY <1>3, <1>11, <1>13, <1>14 DEF Promise!Changed
<1>16. path \in Path => Promise!Reverted(mine, Read(path)', Read(path))
  <2> SUFFICES ASSUME path \in Path PROVE Promise!Reverted(mine, Read(path)', Read(path))
    OBVIOUS
  <2>1. mine.op = "write_at" => Promise!Written(mine, mine.was, Read(path))
    BY <1>1, <1>4, <1>5 DEF PromiseInv, HalfWritten
  <2> QED BY <1>3, <1>11, <1>14, <2>1 DEF Promise!Reverted
<1>17. \A p \in Seq(Word) : p # path => Read(p)' = Read(p)
  <2> SUFFICES ASSUME NEW p \in Seq(Word), p # path PROVE Read(p)' = Read(p)
    OBVIOUS
  <2> DEFINE j == lookup_file(INODES, p)
  <2>1. j # NoInode => j \in Inode
    BY <1>6, ResolveType
  <2>2. j # NoInode => j # i
    BY <1>3, <1>5, <1>6, OneInode
  <2>3. lookup_file(INODES', p) = j
    BY <1>10
  <2> HIDE DEF j
  <2>4. j # NoInode => Same(INODES[j], INODES'[j])
    BY <1>9, <2>1, <2>2, SameSelf
  <2>5. ReadIn(disk.data, INODES', p) = ReadIn(disk.data, INODES, p)
    BY <1>6, <2>3, <2>4, SameRead DEF j
  <2> QED BY <1>1, <2>5 DEF Read
<1> DEFINE rest == Cons(Just("bitmap"), Last(mine.op))
<1>18. rest \in Seq(Step) /\ todo' = Cons(Out(1), rest)
  BY <1>2, <1>3, Lists
<1>19. \A x : x.do \in Vital => ~Has(todo', x)
  <2> SUFFICES ASSUME NEW x, x.do \in Vital PROVE ~Has(todo', x)
    OBVIOUS
  <2>1. ~Has(Last(mine.op), x)
    BY <1>3, LastOwes
  <2> QED BY <1>2, <1>3, <2>1, OutOwes
<1>20. ~Due("remove")' /\ ~Due("create")' /\ ~Due("write")' /\ ~Due("grow")'
  BY <1>19, DueOwed DEF Vital
<1>21. EmptyYet'
  <2> SUFFICES ASSUME NEW j \in Inode, Owes(On("write", j))' \/ Owes(Grows(j, EndOf(mine)))' PROVE FALSE
    BY DEF EmptyYet
  <2>1. On("write", j)' = On("write", j) /\ Grows(j, EndOf(mine))' = Grows(j, EndOf(mine))
    BY <1>2 DEF On, Grows, EndOf
  <2>2. On("write", j).do \in Vital /\ Grows(j, EndOf(mine)).do \in Vital
    BY StepsOf DEF Vital
  <2> QED BY <1>19, <2>1, <2>2 DEF Owes
<1> HIDE DEF rest
<1>22. PromiseInv'
  <2>1. \A p \in Path : Read(p)' = Read(p) \/ (mine.path = p /\ Promise!Reverted(mine, Read(p)', Read(p)))
    BY <1>4, <1>16, <1>17, InPath
  <2> QED BY <1>1, <1>2, <1>3, <1>18, <1>20, <1>21, <2>1, FlushesPromise
<1>23. Silent \/ Changes
  <2>1. \A p \in Path : p # mine.path => Read(p)' = Read(p)
    BY <1>4, <1>17, InPath
  <2>2. \A q \in Path : q = mine.path => Read(q)' = Read(q) \/ Promise!Changed(mine, Read(q), Read(q)')
    BY <1>4, <1>15
  <2> QED BY <1>1, <1>3, <2>1, <2>2, OneChange
<1> QED BY <1>22, <1>23 DEF Keeps

------------------------------------------------------------------------------
(* Formatting, calls, boots and losses of power *)

LEMMA FreshHas == \A i \in Inode : Fresh[i].kind # "file"
BY DEF Fresh, Root, Empty

LEMMA WriteSuperPromise ==
  ASSUME Faultless, Known, Sound', WriteSuper(me)
  PROVE  Keeps
<1>1. Sole /\ StorageTypes /\ StorageTypes'
  BY DEF Known, Sound, Faultless, Sole
<1>2. ~MOUNTED /\ ~disk.formatted /\ mine.op = "format" /\ Leaves(Directories(1))
  BY <1>1, FlowSuper
<1>3. INODES' = INODES /\ MOUNTED'
  BY DEF WriteSuper, cache
<1>4. INODES = Fresh
  BY <1>2 DEF Known, Sound, BlocksInv, Live
<1>5. Silent
  <2>1. ASSUME NEW p \in Path PROVE Seen(p)' = Seen(p)
    <3>1. p \in Seq(Word)
      BY InPath
    <3>2. Seen(p) = Absent
      BY <1>2, <3>1, SeenNone
    <3>3. INODES' \in InodeTable /\ \A i \in Inode : INODES'[i].kind # "file"
      BY <1>1, <1>3, <1>4, TablesTyped, FreshHas
    <3>4. ReadIn(disk'.data, INODES', p) = Absent
      BY <3>1, <3>3, NoFiles
    <3>5. Read(p)' = Absent
      BY <3>4 DEF Read
    <3> QED BY <1>3, <3>2, <3>5, SeenIs
  <2> QED BY <2>1 DEF Silent
<1>6. mine' \in {mine, Idle} /\ mine'.op \notin Named
  BY <1>2, IdleCall DEF Leaves, Named
<1>7. (~Now(me, "inodes"))'
  <2>1. todo' = Directories(1)
    BY <1>2 DEF Leaves
  <2>2. todo' # <<>> => Head(todo').do = "mkdir"
    BY <2>1 DEF Directories
  <2> QED BY <2>2 DEF Now, First, todo
<1>8. DiskSays'
  BY <1>7, Settled1, InPath DEF DiskSays
<1> QED BY <1>5, <1>6, <1>8, OtherPromise DEF Keeps

LEMMA MountPromise ==
  ASSUME Faultless, Known, Sound', mount
  PROVE  PromiseInv' /\ UNCHANGED <<Files, Calling>>
<1>1. Sole /\ StorageTypes /\ User = {me}
  BY DEF Known, Sound, Faultless, Sole
<1>2. ~MOUNTED /\ disk.formatted /\ MOUNTED' /\ UNCHANGED <<disk, job>> /\ INODES' = disk.inodes /\ job[me] = NoJob
  BY <1>1 DEF mount
<1>3. mine' = Idle /\ todo' = <<>> /\ mine' = mine
  BY <1>2 DEF mine, todo, NoJob, me
<1>4. Silent
  <2>1. ASSUME NEW p \in Path PROVE Seen(p)' = Seen(p)
    <3>1. Read(p)' = Kept(p)
      BY <1>2 DEF Read, Kept
    <3> QED BY <1>2, <3>1, SeenIs
  <2> QED BY <2>1 DEF Silent
<1> QED BY <1>1, <1>3, <1>4, EndsPromise, NothingSeen

LEMMA RestartPromise ==
  ASSUME Faultless, Known, Sound', Restart
  PROVE  PromiseInv' /\ Promise!StoreNext
<1>1. Sole /\ StorageTypes /\ PromiseInv
  BY DEF Known, Sound, Faultless, Sole
<1>2. mine' = Idle /\ todo' = <<>>
  BY <1>1, RestartTypes
<1>3. ~MOUNTED' /\ disk' = disk
  BY DEF Restart
<1>4. ASSUME NEW p \in Path
      PROVE  Seen(p)' = Seen(p) \/ (mine.path = p /\ Promise!Reverted(mine, Seen(p), Seen(p)'))
  <2>1. Kept(p)' = Kept(p) /\ p \in Seq(Word)
    BY <1>3, InPath DEF Kept
  <2>2. CASE MOUNTED
    <3>1. disk.formatted
      BY <1>1, <2>2 DEF StorageTypes, DataTypes
    <3>2. Seen(p) = Read(p) /\ Seen(p)' = Kept(p)
      BY <1>3, <2>1, <2>2, <3>1, SeenIs
    <3>3. Kept(p) = Read(p) \/ (mine.path = p /\ Promise!Reverted(mine, Read(p), Kept(p)))
      BY <1>1, <2>2 DEF PromiseInv, DiskSays
    <3>4. PICK f, g : f = Seen(p) /\ g = Seen(p)'
      OBVIOUS
    <3>5. f = Read(p) /\ g = Kept(p) /\ (g = f \/ (mine.path = p /\ Promise!Reverted(mine, f, g)))
      BY <3>2, <3>3, <3>4
    <3> QED BY <3>4, <3>5
  <2>3. CASE ~MOUNTED /\ disk.formatted
    BY <1>3, <2>1, <2>3, SeenIs
  <2>4. CASE ~MOUNTED /\ ~disk.formatted
    BY <1>3, <2>1, <2>4, SeenNone
  <2> QED BY <2>2, <2>3, <2>4
<1> QED BY <1>1, <1>2, <1>4, EndsPromise, PowerLost

LEMMA StutterPromise ==
  ASSUME Faultless, Known, UNCHANGED vars
  PROVE  PromiseInv' /\ UNCHANGED <<Files, Calling>>
<1>1. Sole /\ StorageTypes /\ User = {me} /\ PromiseInv
  BY DEF Known, Sound, Faultless, Sole
<1>2. mine' = mine /\ todo' = todo
  BY <1>1, StutterTypes
<1>3. UNCHANGED <<INODES, SCRATCH, MOUNTED, disk>>
  BY DEF vars, cache
<1>4. Silent /\ \A p : Read(p)' = Read(p) /\ Kept(p)' = Kept(p)
  BY <1>3, StaysSilent
<1>5. DiskSays' /\ AsItWas' /\ HalfWritten'
  BY <1>1, <1>2, <1>3, <1>4 DEF PromiseInv, DiskSays, AsItWas, HalfWritten, Due
<1>6. EmptyYet'
  BY <1>1, <1>2, <1>3 DEF PromiseInv, EmptyYet, Owes, EndOf
<1>7. \A i \in Inode : Filling(i)' <=> Filling(i)
  BY <1>2 DEF Filling
<1>8. DataStored' /\ Buffered'
  BY <1>1, <1>2, <1>3, <1>7 DEF PromiseInv, DataStored, Buffered, Stored, Owes
<1> QED BY <1>1, <1>2, <1>4, <1>5, <1>6, <1>8, NothingSeen DEF PromiseInv

LEMMA InitPromise ==
  ASSUME Faultless, Init
  PROVE  Known /\ Promise!StoreInit
<1>1. Sole /\ User = {me}
  BY DEF Faultless, Sole
<1>2. StorageTypes /\ mine = Idle /\ todo = <<>>
  BY <1>1, InitTypes
<1>3. Sound
  BY <1>1, <1>2, InitBlocks, InitTree, InitNodes DEF Sound
<1>4. ~MOUNTED /\ ~disk.formatted
  BY DEF Init
<1>5. PromiseInv
  <2>1. mine.op \notin Named
    BY <1>2, IdleCall DEF Named
  <2>2. DiskSays
    BY <1>4 DEF DiskSays
  <2> QED BY <2>1, <2>2 DEF PromiseInv, AsItWas, HalfWritten, EmptyYet, DataStored, Buffered, Filling, Named
<1>6. Files = [p \in Path |-> Absent]
  BY <1>4, FilesSeen, SeenNone, InPath
<1>7. Calling = [u \in User |-> Idle]
  BY <1>1, <1>2, CallingIs
<1> QED BY <1>3, <1>5, <1>6, <1>7 DEF Known, Promise!StoreInit, Calling

LEMMA WasFile ==
  ASSUME Sole, StorageTypes, NEW op, NEW path, NEW offset, NEW data, NEW steps, Begins(me, op, path, offset, data, steps)
  PROVE  mine'.was = IF path \in Path THEN Files[path] ELSE Absent
<1>1. job' = [job EXCEPT ![me] =
        [call |-> [op |-> op, path |-> path, offset |-> offset, data |-> data,
                   was |-> IF path \in Path THEN Files[path] ELSE Absent],
         steps |-> steps]]
  BY DEF Begins
<1>2. me \in DOMAIN job
  BY DEF StorageTypes, CallTypes, Sole
<1> QED BY <1>1, <1>2 DEF mine, me

\* No step of the list writes to a file.
WritesNone(steps) == \A x : Has(steps, x) => x.do \notin {"write", "grow"}

LEMMA BeginsPromise ==
  ASSUME Faultless, Known, Sound', MOUNTED, UNCHANGED <<cache, SCRATCH, MOUNTED, NODES, disk, file>>,
         NEW op, NEW path, NEW offset, NEW data, NEW steps, Begins(me, op, path, offset, data, steps), op # "idle",
         op \in {"write_file", "write_at"} => steps # <<>> /\ Head(steps).do \in {"create", "remove", "write"},
         op = "write_file" => WritesNone(steps),
         op = "write_at" /\ path \in Path => Read(path) # Absent
  PROVE  PromiseInv' /\ Promise!StoreNext
<1>1. Sole /\ StorageTypes /\ StorageTypes' /\ Sound /\ User = {me}
  BY DEF Known, Sound, Faultless, Sole
<1>2. UNCHANGED <<INODES, MOUNTED, disk>> /\ MOUNTED
  BY DEF cache
<1>3. Silent /\ \A p : Read(p)' = Read(p) /\ Kept(p)' = Kept(p)
  BY <1>2, StaysSilent
<1>4. mine'.op = op /\ mine'.path = path /\ todo' = steps /\ mine = Idle /\ todo = <<>>
  BY <1>1, Begun
<1>5. mine'.was = IF path \in Path THEN Files[path] ELSE Absent
  BY <1>1, WasFile
<1>6. path \in Path => mine'.was = Seen(path) /\ mine'.was = Read(path)
  BY <1>2, <1>5, FilesSeen, SeenIs
<1>7. mine' # Idle
  BY <1>4, IdleCall
<1>8. Promise!StoreNext
  BY <1>1, <1>3, <1>4, <1>6, <1>7, CallBegun
<1>9. DiskSays'
  <2>1. ~Now(me, "inodes")
    BY <1>4 DEF Now, todo
  <2>2. \A p \in Path : Kept(p) = Read(p)
    BY <1>1, <1>2, <2>1, Settled0, InPath
  <2> QED BY <1>3, <2>2 DEF DiskSays
<1>10. PICK c : c = mine'
  OBVIOUS
<1>11. PICK has : has = Read(path)
  OBVIOUS
<1>12. Read(mine.path)' = has
  BY <1>2, <1>4, <1>11 DEF Read
<1>13. AsItWas'
  BY <1>4, <1>6, <1>11, <1>12 DEF AsItWas
<1>14. HalfWritten'
  <2>1. SUFFICES ASSUME path \in Path, op = "write_at"
                 PROVE  Promise!Written(c, c.was, has) /\ Len(has) = Len(c.was)
    BY <1>4, <1>10, <1>12 DEF HalfWritten, Promise!Written
  <2>2. has # Absent /\ c.was = has
    BY <1>6, <1>10, <1>11, <2>1
  <2> QED BY <2>2 DEF Promise!Written, Promise!LongerOf
<1>15. EmptyYet'
  <2>1. ASSUME op = "write_file", NEW i \in Inode PROVE (~Owes(On("write", i)) /\ ~Owes(Grows(i, EndOf(mine))))'
    <3>1. \A e : On("write", i).do = "write" /\ Grows(i, e).do = "grow"
      BY DEF On, Grows
    <3>2. \A x : Has(todo', x) => x.do \notin {"write", "grow"}
      BY <1>4, <2>1 DEF WritesNone
    <3> QED BY <3>1, <3>2 DEF Owes, On, Grows
  <2> QED BY <1>4, <2>1 DEF EmptyYet
<1>16. \A i \in Inode : ~Filling(i)'
  <2>1. CASE op \in {"write_file", "write_at"}
    <3>1. todo' # <<>> /\ Head(todo').do \notin {"grow", "store", "fetch", "clear"}
      BY <1>4, <2>1
    <3> QED BY <1>1, <3>1, NotFilling
  <2>2. CASE op \notin {"write_file", "write_at"}
    BY <1>4, <2>2 DEF Filling
  <2> QED BY <2>1, <2>2
<1> QED BY <1>8, <1>9, <1>13, <1>14, <1>15, <1>16, NoPieces DEF PromiseInv

LEMMA FormatPromise ==
  ASSUME Faultless, Known, Sound', format(me)
  PROVE  PromiseInv' /\ Promise!StoreNext
<1>1. Sole /\ StorageTypes
  BY DEF Known, Sound, Faultless, Sole
<1>2. ~disk.formatted /\ ~MOUNTED /\ mine = Idle /\ mine'.op = "format"
  BY <1>1, FormatTypes
<1>3. UNCHANGED <<MOUNTED, disk>>
  BY DEF format
<1>4. Silent
  BY <1>2, <1>3, SeenNone, InPath DEF Silent
<1>5. PICK steps : Begins(me, "format", <<>>, 0, <<>>, steps)
  BY DEF format
<1>6. mine'.path = <<>>
  BY <1>1, <1>5, Begun
<1>7. mine'.was = IF <<>> \in Path THEN Files[<<>>] ELSE Absent
  BY <1>1, <1>5, WasFile
<1>8. mine'.path \in Path => mine'.was = Seen(mine'.path)
  BY <1>6, <1>7, FilesSeen
<1>9. mine' # Idle /\ mine'.op \notin Named
  BY <1>2, IdleCall DEF Named
<1>10. Promise!StoreNext
  BY <1>1, <1>2, <1>4, <1>8, <1>9, CallBegun
<1>11. DiskSays'
  BY <1>2, <1>3 DEF DiskSays
<1> QED BY <1>9, <1>10, <1>11, OtherPromise

LEMMA OpenPromise ==
  ASSUME Faultless, Known, Sound', NEW path \in Path, open(me, path)
  PROVE  PromiseInv' /\ UNCHANGED <<Files, Calling>>
<1>1. Sole /\ StorageTypes /\ User = {me}
  BY DEF Known, Sound, Faultless, Sole
<1>2. job[me] = NoJob /\ UNCHANGED <<INODES, MOUNTED, disk, job>>
  BY DEF open, cache
<1>3. mine' = Idle /\ todo' = <<>> /\ mine' = mine
  BY <1>2 DEF mine, todo, NoJob, me
<1>4. Silent
  BY <1>2, StaysSilent
<1> QED BY <1>1, <1>3, <1>4, EndsPromise, NothingSeen

\* The calls that write to a file, and the others.
LEMMA QuietPromise ==
  ASSUME Faultless, Known, Sound', MOUNTED, UNCHANGED <<cache, SCRATCH, MOUNTED, NODES, disk, file>>,
         NEW op, NEW path, NEW offset, NEW data, NEW steps, Begins(me, op, path, offset, data, steps),
         op \notin {"idle", "write_file", "write_at"}
  PROVE  PromiseInv' /\ Promise!StoreNext
BY BeginsPromise

LEMMA WriteFilePromise ==
  ASSUME Faultless, Known, Sound', NEW path \in Path, NEW data, write_file(me, path, data)
  PROVE  PromiseInv' /\ Promise!StoreNext
<1>1. Sole /\ StorageTypes
  BY DEF Known, Sound, Faultless, Sole
<1> DEFINE i == lookup_file(INODES, path)
           s == (IF i = NoInode THEN <<>> ELSE <<[do |-> "remove", inode |-> i]>>) \o <<[do |-> "create"]>>
<1>2. Begins(me, "write_file", path, 0, data, s) /\ MOUNTED /\ UNCHANGED <<cache, SCRATCH, MOUNTED, NODES, disk, file>>
  BY DEF write_file
<1>3. i \in Inode \union {NoInode}
  <2>1. path \in Seq(Word) /\ INODES \in InodeTable
    BY <1>1, InPath, TablesTyped
  <2> QED BY <2>1, ResolveType
<1>4. s # <<>> /\ Head(s).do \in {"create", "remove"} /\ WritesNone(s)
  <2>1. FromCreate \in Seq(Step) /\ \A x : Has(FromCreate, x) => x.do = "create"
    <3>1. Just("create") \in Step /\ <<>> \in Seq(Step)
      BY StepTypes
    <3>2. \A x : Has(FromCreate, x) => x = Just("create")
      BY <3>1, HasCons DEF FromCreate
    <3> QED BY <3>1, <3>2, StepsOf, Lists DEF FromCreate
  <2>2. CASE i = NoInode
    <3>1. s = FromCreate
      BY <2>2, FirstSteps
    <3>2. FromCreate # <<>> /\ Head(FromCreate) = Just("create")
      <4>1. <<>> \in Seq(Step)
        OBVIOUS
      <4> QED BY <4>1, ConsFacts DEF FromCreate
    <3> HIDE DEF s
    <3> QED BY <2>1, <3>1, <3>2, StepsOf DEF WritesNone
  <2>3. CASE i \in Inode
    <3>1. i # NoInode
      BY <2>3, Sizes DEF Inode, NoInode
    <3>2. s = Cons(On("remove", i), FromCreate)
      BY <2>3, <3>1, FirstSteps
    <3> HIDE DEF s, i
    <3>3. s # <<>> /\ Head(s) = On("remove", i)
      BY <2>1, <3>2, ConsFacts
    <3>4. \A x : Has(s, x) => x = On("remove", i) \/ Has(FromCreate, x)
      BY <2>1, <3>2, HasCons
    <3> QED BY <2>1, <3>3, <3>4, StepsOf DEF WritesNone
  <2> QED BY <1>3, <2>2, <2>3
<1> HIDE DEF s
<1> QED BY <1>2, <1>4, BeginsPromise

LEMMA WriteAtPromise ==
  ASSUME Faultless, Known, Sound', NEW data, write_at(me, data)
  PROVE  PromiseInv' /\ Promise!StoreNext
<1>1. Sole /\ StorageTypes /\ NodesInv
  BY DEF Known, Sound, Faultless, Sole
<1> DEFINE n == file[me].node  p == NODES[n].path  o == file[me].offset
           s == <<[do |-> "write", inode |-> NODES[n].inode], [do |-> "advance"]>>
<1>2. /\ Begins(me, "write_at", p, o, data, s) /\ MOUNTED /\ OnDisk(me)
      /\ UNCHANGED <<cache, SCRATCH, MOUNTED, NODES, disk, file>>
  BY DEF write_at
<1>3. s # <<>> /\ Head(s).do = "write"
  OBVIOUS
<1> HIDE DEF s, o
<1>4. n \in 1 .. Len(NODES) /\ NODES[n].inode \in Inode /\ p \in Seq(Word) /\ Leads(n)
  BY <1>1, <1>2, OnDiskNode DEF OnDisk, Leads
<1>5. AllMatch
  <2>1. mine.op \notin Named
    BY <1>1, <1>2, Begun, IdleCall DEF Named
  <2> QED BY <1>1, <2>1, AllMatched
<1>6. lookup_file(INODES, p) = NODES[n].inode
  BY <1>4, <1>5 DEF AllMatch, Matches
<1> HIDE DEF n
<1>7. Read(p) # Absent
  <2>1. \A i \in Inode : i # NoInode
    BY Sizes DEF Inode, NoInode
  <2>2. INODES \in InodeTable /\ disk.data \in Disks
    BY <1>1, TablesTyped DEF StorageTypes, DataTypes, Disks
  <2> QED BY <1>4, <1>6, <2>1, <2>2, FileOf DEF Read
<1> HIDE DEF p
<1> QED BY <1>2, <1>3, <1>7, BeginsPromise

LEMMA CallsPromise ==
  ASSUME Faultless, Known, Sound', Calls(me)
  PROVE  PromiseInv' /\ (Promise!StoreNext \/ UNCHANGED <<Files, Calling>>)
<1> DEFINE Goal == PromiseInv' /\ (Promise!StoreNext \/ UNCHANGED <<Files, Calling>>)
<1>1. CASE sync(me)
  BY <1>1, QuietPromise DEF sync
<1>2. CASE read(me)
  BY <1>2, QuietPromise DEF read
<1>3. CASE format(me)
  BY <1>3, FormatPromise
<1>4. ASSUME NEW path \in Path, create_file(me, path) PROVE Goal
  BY <1>4, QuietPromise DEF create_file
<1>5. ASSUME NEW path \in Path, remove_file(me, path) PROVE Goal
  BY <1>5, QuietPromise DEF remove_file
<1>6. ASSUME NEW path \in Path, open(me, path) PROVE Goal
  BY <1>6, OpenPromise
<1>7. ASSUME NEW path \in Path, make_directory(me, path) PROVE Goal
  BY <1>7, QuietPromise DEF make_directory
<1>8. ASSUME NEW path \in Path, remove_directory(me, path) PROVE Goal
  BY <1>8, QuietPromise DEF remove_directory
<1>9. ASSUME NEW path \in Path, NEW d \in Data, NEW n \in WriteSizes, write_file(me, path, Text(d, n)) PROVE Goal
  BY <1>9, WriteFilePromise
<1>10. ASSUME NEW d \in Data, NEW n \in WriteSizes, write_at(me, Text(d, n)) PROVE Goal
  BY <1>10, WriteAtPromise
<1> HIDE DEF Goal
<1>11. Goal
  BY <1>1, <1>2, <1>3, <1>4, <1>5, <1>6, <1>7, <1>8, <1>9, <1>10 DEF Calls, Goal
<1> QED BY <1>11 DEF Goal

LEMMA StepsPromise ==
  ASSUME Faultless, Known, Sound', Steps(me)
  PROVE  PromiseInv' /\ Promise!StoreNext
<1>1. Keeps
  <2>1. CASE FlushFails(me) \/ BlockFails(me)
    BY <2>1, FailsPromise
  <2>2. CASE Take(me) \/ Attach(me) \/ Refresh(me) \/ Advance(me) \/ Forget(me)
    BY <2>2, LastPromise
  <2>3. CASE WriteInodes(me) \/ WriteBitmap(me) \/ WriteSuper(me)
    BY <2>3, WriteInodesPromise, WriteBitmapPromise, WriteSuperPromise
  <2>4. CASE Create(me) \/ mkdir(me) \/ rmdir(me) \/ Remove(me)
    BY <2>4, CreatePromise, MkdirPromise, RmdirPromise, RemovePromise
  <2>5. CASE Write(me) \/ Fetch(me) \/ Clear(me) \/ Store(me) \/ Grow(me)
    BY <2>5, WritePromise, FetchPromise, ClearPromise, StorePromise, GrowPromise
  <2> QED BY <2>1, <2>2, <2>3, <2>4, <2>5 DEF Steps
<1>2. StorageTypes /\ Sole
  BY DEF Known, Sound, Faultless, Sole
<1>3. mine' \in {mine, Idle} /\ todo # <<>>
  BY <1>2, StepCall
<1> QED BY <1>1, <1>2, <1>3, CallSteps DEF Keeps

LEMMA NextPromise ==
  ASSUME Faultless, Known, [Next]_vars
  PROVE  Known' /\ (Promise!StoreNext \/ UNCHANGED <<Files, Calling>>)
<1>1. Sound' /\ Sole
  BY SoundNext DEF Known
<1>2. mount \/ Restart \/ Calls(me) \/ Steps(me) \/ UNCHANGED vars
  BY <1>1, Actions
<1>3. PromiseInv' /\ (Promise!StoreNext \/ UNCHANGED <<Files, Calling>>)
  BY <1>1, <1>2, MountPromise, RestartPromise, CallsPromise, StepsPromise, StutterPromise
<1> QED BY <1>1, <1>3 DEF Known

------------------------------------------------------------------------------
(* The theorem *)

\* The file system keeps what FileStore promises its callers (the calls of tcmkfs.rs
\* and vfs.rs, mount and format): a call changes no file but the one it names, and
\* that one only as the call says, its data going over the old one block by block.
\* When the power is lost between two writes of the drive, a file no call was about
\* is what it was; that of the call is what it is in memory, what it was when the
\* call began, or that with some of the data, and for write_file also gone or empty.
\* It holds for every size of the disk, the table and the blocks, one user, and
\* reads and writes of data that fail, but not for what Ops names.
THEOREM KeepsPromise ==
  ASSUME Faultless
  PROVE  Spec => FilesAsPromised
<1>1. Init => Known /\ Promise!StoreInit
  BY InitPromise
<1>2. Known /\ [Next]_vars => Known'
  BY NextPromise
<1>3. Known /\ [Next]_vars => [Promise!StoreNext]_<<Files, Calling>>
  BY NextPromise
<1>4. Promise!StoreSpec <=> Promise!StoreInit /\ [][Promise!StoreNext]_<<Files, Calling>>
  BY DEF Promise!StoreSpec, Promise!storeVars, Calling
<1> QED BY <1>1, <1>2, <1>3, <1>4, PTL DEF Spec, FilesAsPromised

=============================================================================
