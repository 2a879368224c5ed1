--------------------------- MODULE StorageProofs ---------------------------
(***************************************************************************)
(* Proofs about Storage: the file system keeps every block with one owner, *)
(* every entry reachable from the root, and the nodes of VFS in step with  *)
(* the inodes.  The theorems are about one user (with two, Storage_two_    *)
(* users shows what the shared buffer does) and a kernel in which none of  *)
(* the failures named in Ops happens, but for rewrite_fails where a        *)
(* theorem allows it.                                                      *)
(***************************************************************************)
EXTENDS Storage, Induction, FiniteSetTheorems, SequenceTheorems

me == CHOOSE u \in User : TRUE
mine == job[me].call
todo == job[me].steps

Sole == User = {me} /\ Ops \subseteq {"rewrite_fails"}

------------------------------------------------------------------------------
(* The steps of a call *)

Cons(s, rest) == <<s>> \o rest

Out(k) == [do |-> "inodes", chunk |-> k]
Just(w) == [do |-> w]
On(w, i) == [do |-> w, inode |-> i]
At(w, i, n) == [do |-> w, inode |-> i, nth |-> n]
Dir(k) == [do |-> "mkdir", nth |-> k]
Forgets(n) == [do |-> "forget", node |-> n]
Grows(i, end) == [do |-> "grow", inode |-> i, end |-> end]
Stores(i, n, from, to) == [do |-> "store", inode |-> i, nth |-> n, from |-> from, to |-> to]

Index == 0 .. DIRECT_BLOCKS - 1

Step ==
  [do : {"inodes"}, chunk : 1 .. Chunks]
  \union [do : {"bitmap", "create", "rmdir", "refresh", "advance", "clear", "super"}]
  \union [do : {"write", "remove", "attach"}, inode : Inode]
  \union [do : {"fetch", "take"}, inode : Inode, nth : Index]
  \union [do : {"mkdir"}, nth : Nat]
  \union [do : {"forget"}, node : Nat]
  \union [do : {"grow"}, inode : Inode, end : Nat]
  \union [do : {"store"}, inode : Inode, nth : Index, from : Nat, to : Nat]

\* What of the data of call c goes to the n-th block of the file.
EndOf(c) == c.offset + Len(c.data)
Reaches(c, n) == n \in Index /\ c.offset < (n + 1) * BLOCK_SIZE /\ n * BLOCK_SIZE < EndOf(c)
FromOf(c, n) == IF c.offset > n * BLOCK_SIZE THEN c.offset - n * BLOCK_SIZE ELSE 0
ToOf(c, n) == IF EndOf(c) < (n + 1) * BLOCK_SIZE THEN EndOf(c) - n * BLOCK_SIZE ELSE BLOCK_SIZE
StoreOf(c, i, n) == Stores(i, n, FromOf(c, n), ToOf(c, n))

\* The steps a call has left, from the step that is named on.
Flush(rest) == {Cons(Out(k), rest) : k \in 1 .. Chunks}
FlushBoth(rest) == Flush(Cons(Just("bitmap"), rest)) \union {Cons(Just("bitmap"), rest)}

FromGrow(c, i, rest) == Cons(Grows(i, EndOf(c)), Cons(Out(1), Cons(Just("bitmap"), rest)))
FromStore(c, i, n, rest) == Cons(StoreOf(c, i, n), FromGrow(c, i, rest))
InPieces(c, i, rest) ==
  IF EndOf(c) > MAX_FILE_SIZE THEN {}
  ELSE {FromGrow(c, i, rest)}
       \union {FromStore(c, i, n, rest) : n \in {n \in Index : Reaches(c, n)}}
       \union {Cons(At("fetch", i, n), FromStore(c, i, n, rest)) : n \in {n \in Index : Reaches(c, n)}}
       \union {Cons(Just("clear"), FromStore(c, i, n, rest)) : n \in {n \in Index : Reaches(c, n)}}
InWrite(c, i, rest) == {Cons(On("write", i), rest)} \union InPieces(c, i, rest)

Last(op) == Cons(Just(IF op = "write_file" THEN "refresh" ELSE "advance"), <<>>)
FromCreate == Cons(Just("create"), <<>>)
FromAttach(i) == Cons(On("attach", i), <<>>)
FromForget(n) == Cons(Forgets(n), <<>>)
FromSuper == Cons(Just("super"), Directories(1))
FromTake(i, n) == Cons(At("take", i, n), <<>>)

\* What the steps s left of call c can be.
OfCreateFile(s) ==
  \/ s = FromCreate
  \/ \E i \in Inode : s \in Flush(FromAttach(i)) \union {FromAttach(i)}
OfWriteFile(c, s) ==
  \/ \E i \in Inode : s = Cons(On("remove", i), FromCreate)
  \/ s \in FlushBoth(FromCreate) \union {FromCreate}
  \/ \E i \in Inode :
       s \in Flush(Cons(On("write", i), Last("write_file"))) \union InWrite(c, i, Last("write_file"))
  \/ s \in FlushBoth(Last("write_file")) \union {Last("write_file")}
OfRemoveFile(s) ==
  \E n \in 1 .. Len(NODES) :
    \/ \E i \in Inode : s = Cons(On("remove", i), FromForget(n))
    \/ s \in FlushBoth(FromForget(n)) \union {FromForget(n)}
OfWriteAt(c, s) ==
  \/ \E i \in Inode : s \in InWrite(c, i, Last("write_at"))
  \/ s \in FlushBoth(Last("write_at")) \union {Last("write_at")}
OfRead(s) ==
  \E i \in Inode, n \in Index : s = Cons(At("fetch", i, n), FromTake(i, n)) \/ s = FromTake(i, n)
OfSkeleton(s) ==
  \/ \E k \in 1 .. Len(Skeleton) : s = Cons(Dir(k), <<>>)
  \/ \E k \in 1 .. Len(Skeleton) + 1 : s \in Flush(Directories(k))

\* The open file is one of the disk.
OpensDisk == file[me].node # NoNode /\ NODES[file[me].node].source = "disk"

Shape(c, steps) ==
  \/ c = Idle /\ steps = <<>>
  \/ /\ MOUNTED
     /\ \/ c.op = "create_file" /\ OfCreateFile(steps)
        \/ c.op = "write_file"  /\ c.offset = 0 /\ c.data # <<>> /\ OfWriteFile(c, steps)
        \/ c.op = "remove_file" /\ OfRemoveFile(steps)
        \/ c.op = "mkdir"       /\ steps \in {Cons(Dir(1), <<>>)} \union Flush(<<>>)
        \/ c.op = "rmdir"       /\ steps \in {Cons(Just("rmdir"), <<>>)} \union Flush(<<>>)
        \/ c.op = "sync"        /\ steps \in FlushBoth(<<>>)
        \/ c.op = "write_at"    /\ c.data # <<>> /\ OpensDisk /\ OfWriteAt(c, steps)
        \/ c.op = "read"        /\ OfRead(steps)
        \/ c.op = "format"      /\ OfSkeleton(steps)
  \/ ~MOUNTED /\ ~disk.formatted /\ c.op = "format" /\ steps \in FlushBoth(FromSuper) \union {FromSuper}

------------------------------------------------------------------------------
(* Types *)

Name == {Empty.name} \union UNION {{p[k] : k \in 1 .. Len(p)} : p \in Path}
\* What the names of a path are.
Word == Name \union {NoPath[1]} \union UNION {{RamFiles[j][k] : k \in 1 .. Len(RamFiles[j])} : j \in 1 .. Len(RamFiles)}
InodeRecord ==
  [kind : {"free", "file", "dir"}, size : 0 .. MAX_FILE_SIZE, parent : Inode, name : Name,
   blocks : [Index -> Block]]
InodeTable == [Inode -> InodeRecord]
NodeRecord ==
  [path : Seq(Word), source : {"ram", "disk"}, inode : Inode \union {NoInode},
   size : 0 .. MAX_FILE_SIZE, used : BOOLEAN]
NodeLists ==
  {nodes \in Seq(NodeRecord) : /\ Len(nodes) <= MAX_NODES
                               /\ \A n \in 1 .. Len(nodes) : nodes[n].source = "disk" => nodes[n].inode \in Inode}
FileContent == {Absent} \union Seq(Data \union {Zero})
CallRecord ==
  [op : {"idle", "create_file", "write_file", "remove_file", "mkdir", "rmdir", "sync", "write_at",
         "read", "format"},
   path : Seq(Word), offset : Nat, data : Seq(Data), was : FileContent]

DataTypes ==
  /\ INODES \in InodeTable
  /\ BITMAP \in SUBSET Block
  /\ FREE_BLOCKS \in Int
  /\ SCRATCH \in Content
  /\ MOUNTED \in BOOLEAN
  /\ NODES \in NodeLists
  /\ disk \in [formatted : BOOLEAN, inodes : InodeTable, bitmap : SUBSET Block, data : [Block -> Content]]
  /\ file \in [User -> [node : Nat, offset : Nat]] /\ file[me].node <= Len(NODES)
  /\ calls \in Nat
  /\ MOUNTED => disk.formatted

CallTypes ==
  /\ job \in [User -> [call : CallRecord, steps : Seq(Step)]]
  /\ Shape(mine, todo)
  /\ mine.op \in {"create_file", "write_file", "mkdir"} => mine.path \in Path

StorageTypes == DataTypes /\ CallTypes

------------------------------------------------------------------------------
(* Blocks *)

Count(inode) == IF inode.kind = "file" THEN block_count(inode.size) ELSE 0

OwnedOnce(table) ==
  /\ \A i, j \in Inode : i # j => Owned(table[i]) \intersect Owned(table[j]) = {}
  /\ \A i \in Inode : \A k, l \in 0 .. Count(table[i]) - 1 : table[i].blocks[k] = table[i].blocks[l] => k = l
Marked(table, bitmap) == \A i \in Inode : Owned(table[i]) \subseteq bitmap

\* Two inodes that differ in blocks beyond their size at most.
Same(a, b) ==
  /\ a.kind = b.kind /\ a.size = b.size /\ a.parent = b.parent /\ a.name = b.name
  /\ \A k \in 0 .. Count(a) - 1 : a.blocks[k] = b.blocks[k]
OnDiskToo(i) == Same(INODES[i], disk.inodes[i])

\* One inode at most waits for its place on the disk.
DiskFollows ==
  /\ \A i, j \in Inode : i # j => OnDiskToo(i) \/ OnDiskToo(j)
  /\ Now(me, "inodes") => \A i \in Inode : ChunkOf(i) < First(me).chunk => OnDiskToo(i)
  /\ ~Now(me, "inodes") \/ mine.op = "sync" => \A i \in Inode : OnDiskToo(i)

Live == MOUNTED \/ mine.op = "format"
Fresh == [i \in Inode |-> IF i = ROOT_INODE THEN Root ELSE Empty]

\* A write of the file has its blocks and has not grown the file yet.
Filling(i) == mine.op \in {"write_file", "write_at"} /\ todo \in InPieces(mine, i, Last(mine.op))
\* What the table is once the file has grown.
Grown(i, end) == [INODES EXCEPT ![i].size = IF end > @ THEN end ELSE @]

BlocksInv ==
  /\ OwnedOnce(disk.inodes)
  /\ Live => /\ OwnedOnce(INODES) /\ Marked(INODES, BITMAP)
             /\ FREE_BLOCKS = TOTAL_BLOCKS - Cardinality(BITMAP)
             /\ DiskFollows
  /\ ~MOUNTED /\ disk.formatted => Marked(disk.inodes, disk.bitmap)
  /\ ~disk.formatted => /\ \A i \in Inode : disk.inodes[i] \in {Empty, Fresh[i]}
                        /\ Live => INODES = Fresh
  /\ \A i \in Inode : Filling(i) =>
       /\ INODES[i].kind = "file"
       /\ OwnedOnce(Grown(i, EndOf(mine))) /\ Marked(Grown(i, EndOf(mine)), BITMAP)

------------------------------------------------------------------------------
(* The tree *)

\* at gives every entry its path.
Tree(table, at) ==
  /\ table[ROOT_INODE].kind = "dir" /\ at[ROOT_INODE] = <<>>
  /\ \A i \in Inode \ {ROOT_INODE} : table[i].kind # "free" =>
       /\ table[table[i].parent].kind = "dir"
       /\ at[i] = Append(at[table[i].parent], table[i].name)
       /\ Len(at[i]) <= MAX_DEPTH
       /\ \A j \in Inode \ {ROOT_INODE, i} :
            table[j].kind # "free" => table[j].parent # table[i].parent \/ table[j].name # table[i].name

IsTree(table) == \E at \in [Inode -> Seq(Name)] : Tree(table, at)

TreeInv == (Live => IsTree(INODES)) /\ (disk.formatted => IsTree(disk.inodes))

------------------------------------------------------------------------------
(* The nodes of VFS *)

Has(s, x) == \E k \in 1 .. Len(s) : s[k] = x
Due(do) == \E k \in 1 .. Len(todo) : todo[k].do = do
Owes(x) == Has(todo, x)

Leads(n) == NODES[n].used /\ NODES[n].source = "disk"
Matches(n) ==
  /\ lookup_file(INODES, NODES[n].path) = NODES[n].inode
  /\ NODES[n].size = INODES[NODES[n].inode].size
OfCall(path) ==
  mine.op \in {"create_file", "write_file", "remove_file", "write_at"} /\ mine.path = path

\* A path in use leads to one node, if that is of the disk.
OnePath ==
  \A n, m \in 1 .. Len(NODES) :
    Leads(n) /\ NODES[m].used /\ NODES[m].path = NODES[n].path => n = m

OthersMatch == \A n \in 1 .. Len(NODES) : Leads(n) /\ ~OfCall(NODES[n].path) => Matches(n)

CreatesFile ==
  /\ lookup(NODES, mine.path) = NoNode
  /\ \A i \in Inode : Owes(On("attach", i)) => lookup_file(INODES, mine.path) = i /\ INODES[i].size = 0

\* The inode that is written is the one of the path.
WritesInode ==
  \A i \in Inode : Owes(On("write", i)) \/ Owes(Grows(i, EndOf(mine))) => lookup_file(INODES, mine.path) = i

WritesFile ==
  /\ lookup(NODES, mine.path) # NoNode => NODES[lookup(NODES, mine.path)].source = "disk"
  /\ \A i \in Inode : Owes(On("remove", i)) => lookup_file(INODES, mine.path) = i
  /\ Due("create") /\ ~Due("remove") => lookup(NODES, mine.path) = NoNode \/ Makeable(mine.path)
  /\ ~Due("create") => lookup_file(INODES, mine.path) # NoInode
  /\ WritesInode

RemovesFile ==
  \A n \in 1 .. Len(NODES) : Owes(Forgets(n)) =>
    /\ Leads(n) /\ NODES[n].path = mine.path
    /\ \A i \in Inode : Owes(On("remove", i)) => Matches(n) /\ NODES[n].inode = i

WritesAt ==
  LET n == file[me].node
  IN  /\ Leads(n) /\ NODES[n].path = mine.path
      /\ lookup_file(INODES, mine.path) = NODES[n].inode
      /\ Due("write") \/ Due("grow") => Matches(n)
      /\ WritesInode

NodesInv ==
  /\ ~MOUNTED => NODES = RamNodes
  /\ OnePath
  /\ OthersMatch
  /\ mine.op = "create_file" => CreatesFile
  /\ mine.op = "write_file" => WritesFile
  /\ mine.op = "remove_file" => RemovesFile
  /\ mine.op = "write_at" => WritesAt

------------------------------------------------------------------------------
(* Arithmetic *)

\* Products with a positive number keep the order.
LEMMA Products ==
  ASSUME NEW b \in Nat \ {0}, NEW x \in Int, NEW y \in Int
  PROVE  /\ x * b \in Int /\ y * b \in Int
         /\ x < y => x * b + b <= y * b
         /\ x <= y => x * b <= y * b
<1>1. ASSUME NEW z \in Nat PROVE z * b >= 0
  BY <1>1
<1>2. x < y => (y - x - 1) * b >= 0 /\ y * b = (y - x - 1) * b + x * b + b
  BY <1>1
<1>3. x <= y => (y - x) * b >= 0 /\ y * b = (y - x) * b + x * b
  BY <1>1
<1> QED BY <1>2, <1>3

\* A quotient and its remainder.
LEMMA Quotient ==
  ASSUME NEW b \in Nat \ {0}, NEW e \in Nat
  PROVE  /\ e \div b \in Nat /\ e % b \in 0 .. b - 1
         /\ (e \div b) * b <= e /\ e < (e \div b) * b + b
         /\ e = (e \div b) * b + (e % b)
OBVIOUS

LEMMA Sizes == {MAX_INODES, TOTAL_BLOCKS, BLOCK_SIZE, DIRECT_BLOCKS, ChunkInodes} \subseteq Nat \ {0}
               /\ {MAX_DEPTH, MAX_NODES, MaxCalls} \subseteq Nat /\ MAX_FILE_SIZE \in Nat
BY SizesAssumption DEF MAX_FILE_SIZE

\* A file of e cells has the blocks with a number k such that cell k * BLOCK_SIZE is in it.
LEMMA Counts ==
  ASSUME NEW e \in Nat
  PROVE  /\ block_count(e) \in Nat
         /\ \A k \in Int : k < block_count(e) <=> k * BLOCK_SIZE < e
         /\ e <= MAX_FILE_SIZE => block_count(e) <= DIRECT_BLOCKS
<1> DEFINE b == BLOCK_SIZE  q == block_count(e)
<1>1. b \in Nat \ {0} /\ DIRECT_BLOCKS \in Nat
  BY Sizes
<1>2. q \in Nat /\ q * b <= e + b - 1 /\ e + b - 1 < q * b + b
  <2>1. e + b - 1 \in Nat /\ q = (e + b - 1) \div b
    BY <1>1 DEF block_count
  <2> HIDE DEF q
  <2>2. ASSUME NEW x \in Nat, NEW y, y = x \div b
        PROVE  y \in Nat /\ y * b <= x /\ x < y * b + b
    BY <1>1, <2>2, Quotient
  <2> QED BY <1>1, <2>1, <2>2
<1>3. ASSUME NEW k \in Int PROVE k < q <=> k * b < e
  <2>1. k < q => k * b + b <= q * b
    BY <1>1, <1>2, Products
  <2>2. q <= k => q * b <= k * b
    BY <1>1, <1>2, Products
  <2>3. k * b \in Int /\ q * b \in Int
    BY <1>1, <1>2
  <2> HIDE DEF q, b
  <2>4. CASE k < q
    BY <2>1, <2>3, <2>4, <1>1, <1>2
  <2>5. CASE q <= k
    BY <2>2, <2>3, <2>5, <1>1, <1>2
  <2> QED BY <2>4, <2>5, <1>2
<1>4. e <= MAX_FILE_SIZE => ~(DIRECT_BLOCKS < q)
  BY <1>1, <1>3, Sizes DEF MAX_FILE_SIZE
<1> QED BY <1>1, <1>2, <1>3, <1>4

------------------------------------------------------------------------------
(* Lists of steps *)

LEMMA ConsFacts ==
  ASSUME NEW s, NEW rest \in Seq(Step)
  PROVE  /\ Cons(s, rest) # <<>> /\ Head(Cons(s, rest)) = s /\ Tail(Cons(s, rest)) = rest
         /\ s \in Step => Cons(s, rest) \in Seq(Step)
<1> DEFINE V == Step \union {s}
<1>1. <<s>> \in Seq(V) /\ rest \in Seq(V)
  OBVIOUS
<1>2. Len(<<s>> \o rest) = 1 + Len(rest) /\ (<<s>> \o rest)[1] = s
      /\ \A k \in 1 .. Len(rest) : (<<s>> \o rest)[k + 1] = rest[k]
      /\ <<s>> \o rest \in Seq(V)
  BY <1>1
<1>3. Tail(<<s>> \o rest) = rest
  BY <1>1, <1>2
<1>4. s \in Step => <<s>> \o rest \in Seq(Step)
  OBVIOUS
<1> QED BY <1>2, <1>3, <1>4 DEF Cons

LEMMA SameCons ==
  ASSUME NEW s, NEW t, NEW p \in Seq(Step), NEW q \in Seq(Step), Cons(s, p) = Cons(t, q)
  PROVE  s = t /\ p = q
BY ConsFacts

LEMMA Associative ==
  \A a, b, c \in Seq(Step) : (a \o b) \o c = a \o (b \o c)
BY ConcatAssociative

\* The lists the actions put before the rest.
LEMMA Joined ==
  ASSUME NEW s \in Step, NEW t \in Step, NEW rest \in Seq(Step)
  PROVE  /\ <<>> \o rest = rest
         /\ <<s>> \o rest = Cons(s, rest)
         /\ (<<s>> \o <<t>>) \o rest = Cons(s, Cons(t, rest))
         /\ <<s, t>> \o rest = Cons(s, Cons(t, rest))
         /\ <<s>> = Cons(s, <<>>) /\ <<s, t>> = Cons(s, Cons(t, <<>>))
<1>1. (<<s>> \o <<t>>) \o rest = <<s>> \o (<<t>> \o rest)
  BY Associative, <<s>> \in Seq(Step), <<t>> \in Seq(Step)
<1>2. <<s>> \o <<t>> = <<s, t>>
  <2>1. <<s>> \o <<t>> \in Seq(Step) /\ <<s, t>> \in Seq(Step)
    OBVIOUS
  <2>2. Len(<<s>> \o <<t>>) = 2 /\ Len(<<s, t>>) = 2
    OBVIOUS
  <2>3. (<<s>> \o <<t>>)[1] = s /\ (<<s>> \o <<t>>)[2] = t
    OBVIOUS
  <2>4. <<s, t>>[1] = s /\ <<s, t>>[2] = t
    OBVIOUS
  <2>5. \A k \in 1 .. 2 : (<<s>> \o <<t>>)[k] = <<s, t>>[k]
    BY <2>3, <2>4
  <2> QED BY <2>1, <2>2, <2>5, SeqEqual, Zenon
<1>3. <<>> \o rest = rest /\ <<s>> \o <<>> = <<s>> /\ <<t>> \o <<>> = <<t>>
  OBVIOUS
<1> QED BY <1>1, <1>2, <1>3 DEF Cons

LEMMA ChunkNumbers ==
  /\ Chunks \in Nat /\ 1 \in 1 .. Chunks
  /\ \A i \in Inode : ChunkOf(i) \in 1 .. Chunks
<1> DEFINE b == ChunkInodes  N == MAX_INODES
<1>1. b \in Nat \ {0} /\ N \in Nat \ {0}
  BY Sizes
<1>2. Chunks \in Nat /\ Chunks * b <= N + b - 1 /\ N + b - 1 < Chunks * b + b
  <2>1. N + b - 1 \in Nat /\ Chunks = (N + b - 1) \div b
    BY <1>1 DEF Chunks
  <2>2. ASSUME NEW x \in Nat, NEW y, y = x \div b
        PROVE  y \in Nat /\ y * b <= x /\ x < y * b + b
    BY <1>1, <2>2, Quotient
  <2> QED BY <2>1, <2>2
<1>3. Chunks # 0
  BY <1>1, <1>2
<1>4. ASSUME NEW i \in Inode PROVE ChunkOf(i) \in 1 .. Chunks
  <2> DEFINE q == i \div b
  <2>1. i \in Nat /\ i < N
    BY <1>1 DEF Inode
  <2>2. q \in Nat /\ q * b <= i
    BY <1>1, <2>1, Quotient
  <2>3. ChunkOf(i) = q + 1
    BY DEF ChunkOf
  <2> HIDE DEF q
  <2>4. Chunks <= q => Chunks * b <= q * b
    BY <1>1, <1>2, <2>2, Products
  <2>5. Chunks * b \in Int /\ q * b \in Int
    BY <1>1, <1>2, <2>2
  <2> HIDE DEF b, N
  <2>6. q < Chunks
    BY <1>1, <1>2, <2>1, <2>2, <2>4, <2>5
  <2> QED BY <1>2, <2>2, <2>3, <2>6
<1> QED BY <1>2, <1>3, <1>4

\* The named steps are steps.
LEMMA StepTypes ==
  /\ \A k \in 1 .. Chunks : Out(k) \in Step
  /\ \A do \in {"bitmap", "create", "rmdir", "refresh", "advance", "clear", "super"} : Just(do) \in Step
  /\ \A do \in {"write", "remove", "attach"} : \A i \in Inode : On(do, i) \in Step
  /\ \A do \in {"fetch", "take"} : \A i \in Inode, n \in Index : At(do, i, n) \in Step
  /\ \A k \in Nat : Dir(k) \in Step /\ Forgets(k) \in Step
  /\ \A i \in Inode : \A e \in Nat : Grows(i, e) \in Step
  /\ \A i \in Inode, n \in Index : \A e, f \in Nat : Stores(i, n, e, f) \in Step
BY Zenon DEF Step, Out, Just, On, At, Dir, Forgets, Grows, Stores

\* Range of the cells that the data of a call has in a block.
LEMMA Ranges ==
  ASSUME NEW c \in CallRecord, NEW n \in Index, Reaches(c, n), c.data # <<>>
  PROVE  /\ EndOf(c) \in Nat /\ FromOf(c, n) \in Nat /\ ToOf(c, n) \in Nat
         /\ FromOf(c, n) < ToOf(c, n) /\ ToOf(c, n) <= BLOCK_SIZE
         /\ c.offset <= n * BLOCK_SIZE + FromOf(c, n)
         /\ n * BLOCK_SIZE + ToOf(c, n) <= EndOf(c)
         /\ n * BLOCK_SIZE \in Nat /\ (n + 1) * BLOCK_SIZE = n * BLOCK_SIZE + BLOCK_SIZE
<1>1. n \in Nat /\ BLOCK_SIZE \in Nat \ {0} /\ c.offset \in Nat /\ Len(c.data) \in Nat
  BY Sizes DEF Index, CallRecord
<1>2. n * BLOCK_SIZE \in Nat /\ (n + 1) * BLOCK_SIZE = n * BLOCK_SIZE + BLOCK_SIZE
  BY <1>1
<1>4. (n + 1) * BLOCK_SIZE \in Nat
  BY <1>1
<1>5. c.offset < (n + 1) * BLOCK_SIZE /\ n * BLOCK_SIZE < EndOf(c)
  BY DEF Reaches
<1>6. EndOf(c) \in Nat /\ c.offset < EndOf(c)
  BY <1>1, c.data # <<>> DEF EndOf, CallRecord
<1> DEFINE p == n * BLOCK_SIZE  q == (n + 1) * BLOCK_SIZE
<1>7. /\ p \in Nat /\ q \in Nat /\ q = p + BLOCK_SIZE /\ c.offset < q /\ p < EndOf(c)
      /\ FromOf(c, n) = IF c.offset > p THEN c.offset - p ELSE 0
      /\ ToOf(c, n) = IF EndOf(c) < q THEN EndOf(c) - p ELSE BLOCK_SIZE
  BY <1>2, <1>4, <1>5 DEF FromOf, ToOf
<1> HIDE DEF p, q
<1>8. /\ FromOf(c, n) \in Nat /\ ToOf(c, n) \in Nat /\ FromOf(c, n) < ToOf(c, n) /\ ToOf(c, n) <= BLOCK_SIZE
      /\ c.offset <= p + FromOf(c, n) /\ p + ToOf(c, n) <= EndOf(c)
  <2> DEFINE f == FromOf(c, n)  t == ToOf(c, n)  o == c.offset  e == EndOf(c)
  <2>1. f = (IF o > p THEN o - p ELSE 0) /\ t = (IF e < q THEN e - p ELSE BLOCK_SIZE)
        /\ o \in Nat /\ e \in Nat /\ o < e /\ o < q /\ p < e
    BY <1>1, <1>6, <1>7
  <2> HIDE DEF f, t, o, e
  <2>2. f \in Nat /\ t \in Nat /\ f < t /\ t <= BLOCK_SIZE /\ o <= p + f /\ p + t <= e
    <3>1. p \in Nat /\ q = p + BLOCK_SIZE /\ BLOCK_SIZE \in Nat \ {0} /\ o \in Nat /\ e \in Nat
          /\ o < e /\ o < q /\ p < e
      BY <1>1, <1>7, <2>1
    <3>2. f \in Nat /\ f < BLOCK_SIZE /\ f < e - p /\ o <= p + f
      BY <2>1, <3>1
    <3>3. (t = e - p /\ e < q) \/ (t = BLOCK_SIZE /\ q <= e)
      BY <2>1, <3>1
    <3> QED BY <3>1, <3>2, <3>3
  <2> QED BY <2>2 DEF f, t, o, e
<1> QED BY <1>2, <1>6, <1>8 DEF p

------------------------------------------------------------------------------
(* What is left when a step comes first *)

LEMMA Lists ==
  /\ <<>> \in Seq(Step) /\ FromCreate \in Seq(Step)
  /\ \A i \in Inode : FromAttach(i) \in Seq(Step)
  /\ \A n \in Nat : FromForget(n) \in Seq(Step)
  /\ \A i \in Inode, n \in Index : FromTake(i, n) \in Seq(Step)
  /\ \A k \in Nat : Directories(k) \in Seq(Step)
  /\ FromSuper \in Seq(Step)
  /\ Last("write_file") = Cons(Just("refresh"), <<>>) /\ Last("write_file") \in Seq(Step)
  /\ Last("write_at") = Cons(Just("advance"), <<>>) /\ Last("write_at") \in Seq(Step)
  /\ \A rest \in Seq(Step) :
       /\ Cons(Just("bitmap"), rest) \in Seq(Step)
       /\ \A k \in 1 .. Chunks : Cons(Out(k), rest) \in Seq(Step)
       /\ \A i \in Inode : Cons(On("write", i), rest) \in Seq(Step)
       /\ \A i \in Inode : Cons(On("remove", i), rest) \in Seq(Step)
<1>1. <<>> \in Seq(Step)
  OBVIOUS
<1>2. FromCreate \in Seq(Step)
  BY <1>1, ConsFacts, StepTypes, Zenon DEF FromCreate
<1>3. \A i \in Inode : FromAttach(i) \in Seq(Step)
  BY <1>1, ConsFacts, StepTypes, Zenon DEF FromAttach
<1>4. \A n \in Nat : FromForget(n) \in Seq(Step)
  BY <1>1, ConsFacts, StepTypes, Zenon DEF FromForget
<1>5. \A i \in Inode, n \in Index : FromTake(i, n) \in Seq(Step)
  BY <1>1, ConsFacts, StepTypes, Zenon DEF FromTake
<1>6. \A k \in Nat : Directories(k) \in Seq(Step)
  <2> TAKE k \in Nat
  <2>1. Directories(k) \in {<<Dir(k)>>, <<>>}
    BY DEF Directories, Dir
  <2>2. Dir(k) \in Step
    BY StepTypes
  <2>3. <<Dir(k)>> \in Seq(Step)
    BY <2>2
  <2> QED BY <1>1, <2>1, <2>3
<1>7. FromSuper \in Seq(Step)
  BY <1>6, ConsFacts, StepTypes DEF FromSuper
<1>8. Last("write_file") = Cons(Just("refresh"), <<>>) /\ Last("write_at") = Cons(Just("advance"), <<>>)
  BY DEF Last
<1>9. Last("write_file") \in Seq(Step) /\ Last("write_at") \in Seq(Step)
  <2>1. Just("refresh") \in Step /\ Just("advance") \in Step
    BY StepTypes
  <2>2. Cons(Just("refresh"), <<>>) \in Seq(Step) /\ Cons(Just("advance"), <<>>) \in Seq(Step)
    BY <1>1, <2>1, ConsFacts
  <2> QED BY <1>8, <2>2
<1>10. \A rest \in Seq(Step) :
         /\ Cons(Just("bitmap"), rest) \in Seq(Step)
         /\ \A k \in 1 .. Chunks : Cons(Out(k), rest) \in Seq(Step)
         /\ \A i \in Inode : Cons(On("write", i), rest) \in Seq(Step)
         /\ \A i \in Inode : Cons(On("remove", i), rest) \in Seq(Step)
  BY ConsFacts, StepTypes, Zenon
<1> QED BY <1>1, <1>2, <1>3, <1>4, <1>5, <1>6, <1>7, <1>8, <1>9, <1>10

LEMMA WriteLists ==
  ASSUME NEW c \in CallRecord, c.data # <<>>, NEW i \in Inode, NEW rest \in Seq(Step)
  PROVE  /\ FromGrow(c, i, rest) \in Seq(Step)
         /\ \A n \in Index : Reaches(c, n) =>
              /\ StoreOf(c, i, n) \in Step /\ FromStore(c, i, n, rest) \in Seq(Step)
              /\ Cons(At("fetch", i, n), FromStore(c, i, n, rest)) \in Seq(Step)
              /\ Cons(Just("clear"), FromStore(c, i, n, rest)) \in Seq(Step)
<1>1. EndOf(c) \in Nat
  BY DEF EndOf, CallRecord
<1>2. FromGrow(c, i, rest) \in Seq(Step)
  <2>1. Cons(Out(1), Cons(Just("bitmap"), rest)) \in Seq(Step)
    BY Lists, ChunkNumbers, Zenon
  <2> QED BY <1>1, <2>1, StepTypes, ConsFacts, Zenon DEF FromGrow
<1>3. ASSUME NEW n \in Index, Reaches(c, n)
      PROVE  /\ StoreOf(c, i, n) \in Step /\ FromStore(c, i, n, rest) \in Seq(Step)
             /\ Cons(At("fetch", i, n), FromStore(c, i, n, rest)) \in Seq(Step)
             /\ Cons(Just("clear"), FromStore(c, i, n, rest)) \in Seq(Step)
  <2>1. FromOf(c, n) \in Nat /\ ToOf(c, n) \in Nat
    BY <1>3, Ranges
  <2>2. StoreOf(c, i, n) \in Step
    BY <2>1, StepTypes, Zenon DEF StoreOf
  <2>3. FromStore(c, i, n, rest) \in Seq(Step)
    BY <2>2, <1>2, ConsFacts, Zenon DEF FromStore
  <2> QED BY <2>2, <2>3, ConsFacts, StepTypes, Zenon
<1> QED BY <1>2, <1>3

\* Which step a list begins with.
LEMMA HeadDo ==
  ASSUME NEW rest \in Seq(Step)
  PROVE  /\ \A k : Head(Cons(Out(k), rest)).do = "inodes"
         /\ Head(Cons(Just("bitmap"), rest)).do = "bitmap"
         /\ Head(Cons(Just("create"), rest)).do = "create"
         /\ Head(Cons(Just("rmdir"), rest)).do = "rmdir"
         /\ Head(Cons(Just("super"), rest)).do = "super"
         /\ \A i : Head(Cons(On("write", i), rest)).do = "write"
         /\ \A i : Head(Cons(On("remove", i), rest)).do = "remove"
         /\ \A i, n : Head(Cons(At("fetch", i, n), rest)).do = "fetch"
         /\ \A k : Head(Cons(Dir(k), rest)).do = "mkdir"
BY ConsFacts DEF Out, Just, On, At, Dir

\* The heads of the lists that calls have.
LEMMA ListHeads ==
  /\ Head(FromCreate).do = "create"
  /\ \A i \in Inode : Head(FromAttach(i)).do = "attach"
  /\ \A n \in Nat : Head(FromForget(n)).do = "forget"
  /\ \A i \in Inode, n \in Index : Head(FromTake(i, n)).do = "take"
  /\ Head(FromSuper).do = "super"
  /\ \A k \in Nat : Directories(k) # <<>> => k <= Len(Skeleton) /\ Directories(k) = Cons(Dir(k), <<>>)
  /\ Head(Last("write_file")).do = "refresh" /\ Head(Last("write_at")).do = "advance"
<1>1. Head(FromCreate).do = "create" /\ Head(FromSuper).do = "super"
  <2>1. Head(FromCreate) = Just("create") /\ Head(FromSuper) = Just("super")
    BY ConsFacts, Lists, 1 \in Nat, Zenon DEF FromCreate, FromSuper
  <2> QED BY <2>1 DEF Just
<1>2. \A i \in Inode : Head(FromAttach(i)).do = "attach"
  <2>1. \A i \in Inode : Head(FromAttach(i)) = On("attach", i)
    BY ConsFacts, Lists, Zenon DEF FromAttach
  <2> QED BY <2>1 DEF On
<1>3. \A n \in Nat : Head(FromForget(n)).do = "forget"
  <2>1. \A n \in Nat : Head(FromForget(n)) = Forgets(n)
    BY ConsFacts, Lists, Zenon DEF FromForget
  <2> QED BY <2>1 DEF Forgets
<1>4. \A i \in Inode, n \in Index : Head(FromTake(i, n)).do = "take"
  <2>1. \A i \in Inode, n \in Index : Head(FromTake(i, n)) = At("take", i, n)
    BY ConsFacts, Lists, Zenon DEF FromTake
  <2> QED BY <2>1 DEF At
<1>5. \A k \in Nat : Directories(k) # <<>> => k <= Len(Skeleton) /\ Directories(k) = Cons(Dir(k), <<>>)
  BY Joined, StepTypes, Lists DEF Directories, Dir
<1>6. Head(Last("write_file")).do = "refresh" /\ Head(Last("write_at")).do = "advance"
  <2>1. Head(Last("write_file")) = Just("refresh") /\ Head(Last("write_at")) = Just("advance")
    BY ConsFacts, Lists, Zenon
  <2> QED BY <2>1 DEF Just
<1> QED BY <1>1, <1>2, <1>3, <1>4, <1>5, <1>6

\* A list of Flush or FlushBoth, or one that begins with another step.
LEMMA FlushHeads ==
  ASSUME NEW rest \in Seq(Step), NEW s
  PROVE  /\ s \in Flush(rest) => s # <<>> /\ Head(s).do = "inodes" /\ Tail(s) = rest
                                 /\ \E k \in 1 .. Chunks : s = Cons(Out(k), rest)
         /\ \A k \in 1 .. Chunks : Cons(Out(k), rest) \in Flush(rest)
         /\ s \in FlushBoth(rest) =>
              \/ s \in Flush(Cons(Just("bitmap"), rest))
              \/ s = Cons(Just("bitmap"), rest) /\ Head(s).do = "bitmap" /\ Tail(s) = rest
         /\ \A k \in 1 .. Chunks : Cons(Out(k), Cons(Just("bitmap"), rest)) \in FlushBoth(rest)
         /\ Cons(Just("bitmap"), rest) \in FlushBoth(rest)
<1>1. ASSUME NEW k \in 1 .. Chunks, NEW q \in Seq(Step)
      PROVE  Cons(Out(k), q) # <<>> /\ Head(Cons(Out(k), q)).do = "inodes" /\ Tail(Cons(Out(k), q)) = q
  BY ConsFacts DEF Out
<1>2. Cons(Just("bitmap"), rest) \in Seq(Step) /\ Head(Cons(Just("bitmap"), rest)).do = "bitmap"
      /\ Tail(Cons(Just("bitmap"), rest)) = rest
  <2>1. Cons(Just("bitmap"), rest) \in Seq(Step)
    BY Lists, Zenon
  <2>2. Head(Cons(Just("bitmap"), rest)) = Just("bitmap") /\ Tail(Cons(Just("bitmap"), rest)) = rest
    BY ConsFacts
  <2> QED BY <2>1, <2>2 DEF Just
<1> QED BY <1>1, <1>2 DEF Flush, FlushBoth

\* The pieces of a write.
LEMMA PieceHeads ==
  ASSUME NEW c \in CallRecord, c.data # <<>>, NEW i \in Inode, NEW rest \in Seq(Step), NEW s
  PROVE  /\ s \in InPieces(c, i, rest) =>
              \/ s = FromGrow(c, i, rest) /\ Head(s).do = "grow"
              \/ \E n \in Index : /\ Reaches(c, n)
                                  /\ \/ s = FromStore(c, i, n, rest) /\ Head(s).do = "store"
                                     \/ s = Cons(At("fetch", i, n), FromStore(c, i, n, rest)) /\ Head(s).do = "fetch"
                                     \/ s = Cons(Just("clear"), FromStore(c, i, n, rest)) /\ Head(s).do = "clear"
         /\ s \in InWrite(c, i, rest) =>
              (s = Cons(On("write", i), rest) /\ Head(s).do = "write") \/ s \in InPieces(c, i, rest)
         /\ s \in InPieces(c, i, rest) => EndOf(c) <= MAX_FILE_SIZE
         /\ EndOf(c) <= MAX_FILE_SIZE => FromGrow(c, i, rest) \in InPieces(c, i, rest)
         /\ \A n \in Index : Reaches(c, n) /\ EndOf(c) <= MAX_FILE_SIZE =>
              {FromStore(c, i, n, rest), Cons(At("fetch", i, n), FromStore(c, i, n, rest)),
               Cons(Just("clear"), FromStore(c, i, n, rest))} \subseteq InPieces(c, i, rest)
         /\ InPieces(c, i, rest) \subseteq InWrite(c, i, rest)
<1>1. /\ FromGrow(c, i, rest) \in Seq(Step)
      /\ \A n \in Index : Reaches(c, n) => FromStore(c, i, n, rest) \in Seq(Step)
  BY WriteLists
<1>2. Head(FromGrow(c, i, rest)).do = "grow"
  <2>1. Cons(Out(1), Cons(Just("bitmap"), rest)) \in Seq(Step)
    BY Lists, ChunkNumbers, Zenon
  <2> QED BY <2>1, ConsFacts DEF FromGrow, Grows
<1>3. ASSUME NEW n \in Index, Reaches(c, n)
      PROVE  /\ Head(FromStore(c, i, n, rest)).do = "store"
             /\ Head(Cons(At("fetch", i, n), FromStore(c, i, n, rest))).do = "fetch"
             /\ Head(Cons(Just("clear"), FromStore(c, i, n, rest))).do = "clear"
  <2>1. Head(FromStore(c, i, n, rest)) = StoreOf(c, i, n)
    BY <1>1, ConsFacts DEF FromStore
  <2>2. Head(Cons(At("fetch", i, n), FromStore(c, i, n, rest))) = At("fetch", i, n)
        /\ Head(Cons(Just("clear"), FromStore(c, i, n, rest))) = Just("clear")
    BY <1>1, <1>3, ConsFacts
  <2> QED BY <2>1, <2>2 DEF StoreOf, Stores, At, Just
<1>4. Head(Cons(On("write", i), rest)).do = "write"
  <2>1. Head(Cons(On("write", i), rest)) = On("write", i)
    BY ConsFacts
  <2> QED BY <2>1 DEF On
<1>5. s \in InPieces(c, i, rest) =>
              \/ s = FromGrow(c, i, rest)
              \/ \E n \in Index : /\ Reaches(c, n)
                                  /\ \/ s = FromStore(c, i, n, rest)
                                     \/ s = Cons(At("fetch", i, n), FromStore(c, i, n, rest))
                                     \/ s = Cons(Just("clear"), FromStore(c, i, n, rest))
  BY DEF InPieces
<1>6. s \in InPieces(c, i, rest) =>
              \/ s = FromGrow(c, i, rest) /\ Head(s).do = "grow"
              \/ \E n \in Index : /\ Reaches(c, n)
                                  /\ \/ s = FromStore(c, i, n, rest) /\ Head(s).do = "store"
                                     \/ s = Cons(At("fetch", i, n), FromStore(c, i, n, rest)) /\ Head(s).do = "fetch"
                                     \/ s = Cons(Just("clear"), FromStore(c, i, n, rest)) /\ Head(s).do = "clear"
  BY <1>2, <1>3, <1>5, Zenon
<1>7. s \in InWrite(c, i, rest) =>
        (s = Cons(On("write", i), rest) /\ Head(s).do = "write") \/ s \in InPieces(c, i, rest)
  BY <1>4 DEF InWrite
<1>0. EndOf(c) \in Nat /\ MAX_FILE_SIZE \in Nat
  BY Sizes DEF EndOf, CallRecord
<1>8. /\ EndOf(c) <= MAX_FILE_SIZE => FromGrow(c, i, rest) \in InPieces(c, i, rest)
      /\ InPieces(c, i, rest) \subseteq InWrite(c, i, rest)
  BY <1>0 DEF InPieces, InWrite
<1>9. \A n \in Index : Reaches(c, n) /\ EndOf(c) <= MAX_FILE_SIZE =>
        {FromStore(c, i, n, rest), Cons(At("fetch", i, n), FromStore(c, i, n, rest)),
         Cons(Just("clear"), FromStore(c, i, n, rest))} \subseteq InPieces(c, i, rest)
  BY <1>0 DEF InPieces
<1>10. s \in InPieces(c, i, rest) => EndOf(c) <= MAX_FILE_SIZE
  BY <1>0 DEF InPieces
<1> QED BY <1>6, <1>7, <1>8, <1>9, <1>10

\* The steps of each kind of call that begin with a write of the table, and those
\* that begin with a write of the bitmap.
LEMMA AtOut ==
  ASSUME NEW c \in CallRecord, NEW s, Shape(c, s), s # <<>>, Head(s).do = "inodes"
  PROVE  \E k \in 1 .. Chunks, rest \in Seq(Step) :
           /\ s = Cons(Out(k), rest)
           /\ \A m \in 1 .. Chunks : Shape(c, Cons(Out(m), rest))
           /\ rest # <<>> => Shape(c, rest)
<1> DEFINE Goal(rest) == /\ s \in Flush(rest)
                         /\ \A m \in 1 .. Chunks : Shape(c, Cons(Out(m), rest))
                         /\ rest # <<>> => Shape(c, rest)
           B(rest) == Cons(Just("bitmap"), rest)
<1>1. SUFFICES \E rest \in Seq(Step) : Goal(rest)
  <2>1. PICK rest \in Seq(Step) : Goal(rest)
    BY <1>1
  <2>2. PICK k \in 1 .. Chunks : s = Cons(Out(k), rest)
    BY <2>1, FlushHeads
  <2> QED BY <2>1, <2>2
<1>2. \A rest \in Seq(Step) : B(rest) \in Seq(Step)
  BY Lists, Zenon
<1>3. \A rest \in Seq(Step) : s \in FlushBoth(rest) => s \in Flush(B(rest))
  BY FlushHeads
<1>4. CASE MOUNTED /\ c.op = "create_file" /\ OfCreateFile(s)
  <2>1. PICK i \in Inode : s \in Flush(FromAttach(i))
    BY <1>4, ListHeads DEF OfCreateFile
  <2>2. FromAttach(i) \in Seq(Step)
    BY Lists, Zenon
  <2>3. \A m \in 1 .. Chunks : OfCreateFile(Cons(Out(m), FromAttach(i)))
    BY <2>2, FlushHeads DEF OfCreateFile
  <2>4. OfCreateFile(FromAttach(i))
    BY DEF OfCreateFile
  <2> QED BY <1>4, <2>1, <2>2, <2>3, <2>4 DEF Shape
<1>5. CASE MOUNTED /\ c.op = "write_file" /\ c.offset = 0 /\ c.data # <<>> /\ OfWriteFile(c, s)
  <2> DEFINE W(i) == Cons(On("write", i), Last("write_file"))
  <2>0. /\ FromCreate \in Seq(Step) /\ Last("write_file") \in Seq(Step)
        /\ \A i \in Inode : W(i) \in Seq(Step)
    BY Lists
  <2>1. \A i \in Inode : s # Cons(On("remove", i), FromCreate)
    BY <2>0, ConsFacts DEF On
  <2>2. s # FromCreate /\ s # Last("write_file")
    BY ListHeads
  <2>3. \A i \in Inode : s \notin InWrite(c, i, Last("write_file"))
    BY <2>0, <1>5, PieceHeads
  <2>4. \/ s \in FlushBoth(FromCreate) \/ s \in FlushBoth(Last("write_file"))
        \/ \E i \in Inode : s \in Flush(W(i))
    BY <1>5, <2>1, <2>2, <2>3 DEF OfWriteFile
  <2>5. CASE s \in FlushBoth(FromCreate)
    <3>1. \A m \in 1 .. Chunks : OfWriteFile(c, Cons(Out(m), B(FromCreate)))
      BY <2>0, FlushHeads DEF OfWriteFile
    <3>2. OfWriteFile(c, B(FromCreate))
      BY <2>0, FlushHeads DEF OfWriteFile
    <3> QED BY <1>2, <1>3, <1>5, <2>0, <2>5, <3>1, <3>2 DEF Shape
  <2>6. CASE s \in FlushBoth(Last("write_file"))
    <3>1. \A m \in 1 .. Chunks : OfWriteFile(c, Cons(Out(m), B(Last("write_file"))))
      BY <2>0, FlushHeads DEF OfWriteFile
    <3>2. OfWriteFile(c, B(Last("write_file")))
      BY <2>0, FlushHeads DEF OfWriteFile
    <3> QED BY <1>2, <1>3, <1>5, <2>0, <2>6, <3>1, <3>2 DEF Shape
  <2>7. ASSUME NEW i \in Inode, s \in Flush(W(i)) PROVE \E rest \in Seq(Step) : Goal(rest)
    <3>1. \A m \in 1 .. Chunks : OfWriteFile(c, Cons(Out(m), W(i)))
      BY <2>0, FlushHeads DEF OfWriteFile
    <3>2. OfWriteFile(c, W(i))
      BY <2>0, PieceHeads DEF OfWriteFile, InWrite
    <3> QED BY <1>5, <2>0, <2>7, <3>1, <3>2 DEF Shape
  <2> QED BY <2>4, <2>5, <2>6, <2>7
<1>6. CASE MOUNTED /\ c.op = "remove_file" /\ OfRemoveFile(s)
  <2>1. PICK n \in 1 .. Len(NODES) : \/ \E i \in Inode : s = Cons(On("remove", i), FromForget(n))
                                     \/ s \in FlushBoth(FromForget(n)) \union {FromForget(n)}
    BY <1>6 DEF OfRemoveFile
  <2>2. n \in Nat /\ FromForget(n) \in Seq(Step)
    BY Lists
  <2>3. \A i \in Inode : s # Cons(On("remove", i), FromForget(n))
    BY <2>2, ConsFacts DEF On
  <2>4. s # FromForget(n)
    BY <2>2, ListHeads
  <2>5. \A m \in 1 .. Chunks : OfRemoveFile(Cons(Out(m), B(FromForget(n))))
    BY <2>2, FlushHeads DEF OfRemoveFile
  <2>6. OfRemoveFile(B(FromForget(n)))
    BY <2>2, FlushHeads DEF OfRemoveFile
  <2> QED BY <1>2, <1>3, <1>6, <2>1, <2>2, <2>3, <2>4, <2>5, <2>6 DEF Shape
<1>7. CASE MOUNTED /\ c.op \in {"mkdir", "rmdir"} /\ s \in Flush(<<>>)
  <2>1. <<>> \in Seq(Step)
    OBVIOUS
  <2>2. \A m \in 1 .. Chunks : Cons(Out(m), <<>>) \in Flush(<<>>)
    BY <2>1, FlushHeads
  <2> QED BY <1>7, <2>1, <2>2 DEF Shape
<1>8. CASE MOUNTED /\ c.op = "sync" /\ s \in FlushBoth(<<>>)
  <2>0. <<>> \in Seq(Step)
    OBVIOUS
  <2>1. /\ \A m \in 1 .. Chunks : Cons(Out(m), B(<<>>)) \in FlushBoth(<<>>)
        /\ B(<<>>) \in FlushBoth(<<>>)
    BY <2>0, FlushHeads
  <2> QED BY <1>2, <1>3, <1>8, <2>0, <2>1 DEF Shape
<1>9. CASE MOUNTED /\ c.op = "write_at" /\ c.data # <<>> /\ OpensDisk /\ OfWriteAt(c, s)
  <2>0. Last("write_at") \in Seq(Step)
    BY Lists
  <2>1. \A i \in Inode : s \notin InWrite(c, i, Last("write_at"))
    BY <2>0, <1>9, PieceHeads
  <2>2. s \in FlushBoth(Last("write_at"))
    BY <1>9, <2>1, ListHeads DEF OfWriteAt
  <2>3. \A m \in 1 .. Chunks : OfWriteAt(c, Cons(Out(m), B(Last("write_at"))))
    BY <2>0, FlushHeads DEF OfWriteAt
  <2>4. OfWriteAt(c, B(Last("write_at")))
    BY <2>0, FlushHeads DEF OfWriteAt
  <2> QED BY <1>2, <1>3, <1>9, <2>0, <2>2, <2>3, <2>4 DEF Shape
<1>10. CASE MOUNTED /\ c.op = "format" /\ OfSkeleton(s)
  <2>1. \A k \in Nat : Dir(k) \in Step /\ Head(Cons(Dir(k), <<>>)).do = "mkdir"
    BY HeadDo, StepTypes, <<>> \in Seq(Step)
  <2>2. Len(Skeleton) \in Nat
    BY PathsAssumption
  <2>3. PICK k \in 1 .. Len(Skeleton) + 1 : s \in Flush(Directories(k))
    BY <1>10, <2>1, <2>2 DEF OfSkeleton
  <2>4. Directories(k) \in Seq(Step)
    BY <2>2, Lists
  <2>5. \A m \in 1 .. Chunks : OfSkeleton(Cons(Out(m), Directories(k)))
    BY <2>4, FlushHeads DEF OfSkeleton
  <2>6. Directories(k) # <<>> => OfSkeleton(Directories(k))
    BY <2>2, ListHeads DEF OfSkeleton
  <2> QED BY <1>10, <2>3, <2>4, <2>5, <2>6 DEF Shape
<1>11. CASE ~MOUNTED /\ ~disk.formatted /\ c.op = "format" /\ s \in FlushBoth(FromSuper) \union {FromSuper}
  <2>1. FromSuper \in Seq(Step) /\ s # FromSuper
    BY Lists, ListHeads
  <2>2. /\ \A m \in 1 .. Chunks : Cons(Out(m), B(FromSuper)) \in FlushBoth(FromSuper)
        /\ B(FromSuper) \in FlushBoth(FromSuper)
    BY <2>1, FlushHeads
  <2> QED BY <1>2, <1>3, <1>11, <2>1, <2>2 DEF Shape
<1>12. ~(c.op = "read" /\ OfRead(s))
  <2>1. \A i \in Inode, n \in Index : FromTake(i, n) \in Seq(Step)
    BY Lists
  <2> QED BY <2>1, ListHeads, HeadDo DEF OfRead
<1>13. s \notin {Cons(Dir(1), <<>>), Cons(Just("rmdir"), <<>>)}
  BY HeadDo, <<>> \in Seq(Step)
<1> QED
  BY <1>4, <1>5, <1>6, <1>7, <1>8, <1>9, <1>10, <1>11, <1>12, <1>13 DEF Shape

\* What the list and the call are when a given step comes first.
Writer(c) ==
  /\ MOUNTED /\ c.data # <<>>
  /\ \/ c.op = "write_file" /\ c.offset = 0
     \/ c.op = "write_at" /\ OpensDisk

AtBitmap(c, s) ==
  \E rest \in Seq(Step) : s = Cons(Just("bitmap"), rest) /\ (rest # <<>> => Shape(c, rest))
AtCreate(c, s) ==
  s = FromCreate /\ ((MOUNTED /\ c.op = "create_file") \/ (Writer(c) /\ c.op = "write_file"))
AtMkdir(c, s) ==
  MOUNTED /\ \E k \in Nat \ {0} : /\ s = Cons(Dir(k), <<>>)
                                  /\ (c.op = "mkdir" /\ k = 1) \/ (c.op = "format" /\ k <= Len(Skeleton))
AtRmdir(c, s) == MOUNTED /\ c.op = "rmdir" /\ s = Cons(Just("rmdir"), <<>>)
AtRemove(c, s) ==
  MOUNTED /\ \E i \in Inode :
    \/ c.op = "write_file" /\ Writer(c) /\ s = Cons(On("remove", i), FromCreate)
    \/ c.op = "remove_file" /\ \E n \in 1 .. Len(NODES) : s = Cons(On("remove", i), FromForget(n))
AtWrite(c, s) == Writer(c) /\ \E i \in Inode : s = Cons(On("write", i), Last(c.op))
AtPiece(c, s) == Writer(c) /\ \E i \in Inode : s \in InPieces(c, i, Last(c.op))
AtRead(c, s) == MOUNTED /\ c.op = "read" /\ OfRead(s)
AtAttach(c, s) == MOUNTED /\ c.op = "create_file" /\ \E i \in Inode : s = FromAttach(i)
AtLast(c, s) == Writer(c) /\ s = Last(c.op)
AtForget(c, s) == MOUNTED /\ c.op = "remove_file" /\ \E n \in 1 .. Len(NODES) : s = FromForget(n)
AtSuper(c, s) == ~MOUNTED /\ ~disk.formatted /\ c.op = "format" /\ s = FromSuper

LEMMA Places ==
  ASSUME NEW c \in CallRecord, NEW s, Shape(c, s), s # <<>>
  PROVE  \/ Head(s).do = "inodes" \/ AtBitmap(c, s) \/ AtCreate(c, s) \/ AtMkdir(c, s) \/ AtRmdir(c, s)
         \/ AtRemove(c, s) \/ AtWrite(c, s) \/ AtPiece(c, s) \/ AtRead(c, s) \/ AtAttach(c, s)
         \/ AtLast(c, s) \/ AtForget(c, s) \/ AtSuper(c, s)
<1> DEFINE B(rest) == Cons(Just("bitmap"), rest)
<1>1. \A rest \in Seq(Step) : s \in FlushBoth(rest) =>
        Head(s).do = "inodes" \/ s = Cons(Just("bitmap"), rest)
  <2> TAKE rest \in Seq(Step)
  <2>1. B(rest) \in Seq(Step)
    BY Lists, Zenon
  <2> QED BY <2>1, FlushHeads
<1>2. \A rest \in Seq(Step) : s \in Flush(rest) => Head(s).do = "inodes"
  BY FlushHeads
<1>3. CASE MOUNTED /\ c.op = "create_file" /\ OfCreateFile(s)
  <2>1. \A i \in Inode : FromAttach(i) \in Seq(Step)
    BY Lists
  <2> QED BY <1>2, <1>3, <2>1 DEF OfCreateFile, AtCreate, AtAttach
<1>4. CASE MOUNTED /\ c.op = "write_file" /\ c.offset = 0 /\ c.data # <<>> /\ OfWriteFile(c, s)
  <2>0. /\ FromCreate \in Seq(Step) /\ Last("write_file") \in Seq(Step)
        /\ \A i \in Inode : Cons(On("write", i), Last("write_file")) \in Seq(Step)
    BY Lists
  <2>1. Writer(c)
    BY <1>4 DEF Writer
  <2>2. CASE \E i \in Inode : s = Cons(On("remove", i), FromCreate)
    BY <1>4, <2>1, <2>2 DEF AtRemove
  <2>3. CASE s \in FlushBoth(FromCreate) \union {FromCreate}
    <3>1. OfWriteFile(c, FromCreate)
      BY DEF OfWriteFile
    <3> QED BY <1>1, <1>4, <2>0, <2>1, <2>3, <3>1 DEF AtBitmap, AtCreate, Shape
  <2>4. CASE \E i \in Inode : s \in Flush(Cons(On("write", i), Last("write_file")))
    BY <1>2, <2>0, <2>4
  <2>5. CASE \E i \in Inode : s \in InWrite(c, i, Last("write_file"))
    BY <1>4, <2>0, <2>1, <2>5, PieceHeads DEF AtWrite, AtPiece
  <2>6. CASE s \in FlushBoth(Last("write_file")) \union {Last("write_file")}
    <3>1. OfWriteFile(c, Last("write_file"))
      BY DEF OfWriteFile
    <3> QED BY <1>1, <1>4, <2>0, <2>1, <2>6, <3>1 DEF AtBitmap, AtLast, Shape
  <2> QED BY <1>4, <2>2, <2>3, <2>4, <2>5, <2>6 DEF OfWriteFile
<1>5. CASE MOUNTED /\ c.op = "remove_file" /\ OfRemoveFile(s)
  <2>1. PICK n \in 1 .. Len(NODES) : \/ \E i \in Inode : s = Cons(On("remove", i), FromForget(n))
                                     \/ s \in FlushBoth(FromForget(n)) \union {FromForget(n)}
    BY <1>5 DEF OfRemoveFile
  <2>2. n \in Nat /\ FromForget(n) \in Seq(Step)
    BY Lists
  <2>3. OfRemoveFile(FromForget(n))
    BY DEF OfRemoveFile
  <2>4. CASE \E i \in Inode : s = Cons(On("remove", i), FromForget(n))
    BY <1>5, <2>4 DEF AtRemove
  <2>5. CASE s \in FlushBoth(FromForget(n))
    BY <1>1, <1>5, <2>2, <2>3, <2>5 DEF AtBitmap, Shape
  <2>6. CASE s = FromForget(n)
    BY <1>5, <2>6 DEF AtForget
  <2> QED BY <2>1, <2>4, <2>5, <2>6
<1>6. CASE MOUNTED /\ c.op = "mkdir" /\ s \in {Cons(Dir(1), <<>>)} \union Flush(<<>>)
  <2>1. <<>> \in Seq(Step)
    OBVIOUS
  <2>2. 1 \in Nat \ {0}
    OBVIOUS
  <2>3. s = Cons(Dir(1), <<>>) => AtMkdir(c, s)
    BY <1>6, <2>2, Zenon DEF AtMkdir
  <2> QED BY <1>2, <1>6, <2>1, <2>3
<1>7. CASE MOUNTED /\ c.op = "rmdir" /\ s \in {Cons(Just("rmdir"), <<>>)} \union Flush(<<>>)
  <2>1. <<>> \in Seq(Step)
    OBVIOUS
  <2> QED BY <1>2, <1>7, <2>1 DEF AtRmdir
<1>8. CASE s \in FlushBoth(<<>>)
  <2>1. <<>> \in Seq(Step)
    OBVIOUS
  <2> QED BY <1>1, <1>8, <2>1 DEF AtBitmap
<1>9. CASE MOUNTED /\ c.op = "write_at" /\ c.data # <<>> /\ OpensDisk /\ OfWriteAt(c, s)
  <2>0. Last("write_at") \in Seq(Step)
    BY Lists
  <2>1. Writer(c)
    BY <1>9 DEF Writer
  <2>2. OfWriteAt(c, Last("write_at"))
    BY DEF OfWriteAt
  <2>3. CASE \E i \in Inode : s \in InWrite(c, i, Last("write_at"))
    BY <1>9, <2>0, <2>1, <2>3, PieceHeads DEF AtWrite, AtPiece
  <2>4. CASE s \in FlushBoth(Last("write_at")) \union {Last("write_at")}
    BY <1>1, <1>9, <2>0, <2>1, <2>2, <2>4 DEF AtBitmap, AtLast, Shape
  <2> QED BY <1>9, <2>3, <2>4 DEF OfWriteAt
<1>10. CASE MOUNTED /\ c.op = "read" /\ OfRead(s)
  BY <1>10 DEF AtRead
<1>11. CASE MOUNTED /\ c.op = "format" /\ OfSkeleton(s)
  <2>1. Len(Skeleton) \in Nat
    BY PathsAssumption
  <2>2. \A k \in 1 .. Len(Skeleton) + 1 : Directories(k) \in Seq(Step)
    BY <2>1, Lists
  <2> QED BY <1>2, <1>11, <2>1, <2>2 DEF OfSkeleton, AtMkdir
<1>12. CASE ~MOUNTED /\ ~disk.formatted /\ c.op = "format" /\ s \in FlushBoth(FromSuper) \union {FromSuper}
  <2>1. FromSuper \in Seq(Step)
    BY Lists
  <2> QED BY <1>1, <1>12, <2>1 DEF AtBitmap, AtSuper, Shape
<1> QED
  BY <1>3, <1>4, <1>5, <1>6, <1>7, <1>8, <1>9, <1>10, <1>11, <1>12 DEF Shape

\* The same, from the step.
LEMMA PlaceOf ==
  ASSUME NEW c \in CallRecord, NEW s, Shape(c, s), s # <<>>
  PROVE  /\ Head(s).do = "bitmap" => AtBitmap(c, s)
         /\ Head(s).do = "create" => AtCreate(c, s)
         /\ Head(s).do = "mkdir" => AtMkdir(c, s)
         /\ Head(s).do = "rmdir" => AtRmdir(c, s)
         /\ Head(s).do = "remove" => AtRemove(c, s)
         /\ Head(s).do = "write" => AtWrite(c, s)
         /\ Head(s).do \in {"clear", "store", "grow"} => AtPiece(c, s)
         /\ Head(s).do = "fetch" => AtPiece(c, s) \/ AtRead(c, s)
         /\ Head(s).do = "take" => AtRead(c, s)
         /\ Head(s).do = "attach" => AtAttach(c, s)
         /\ Head(s).do = "refresh" => AtLast(c, s) /\ c.op = "write_file"
         /\ Head(s).do = "advance" => AtLast(c, s) /\ c.op = "write_at"
         /\ Head(s).do = "forget" => AtForget(c, s)
         /\ Head(s).do = "super" => AtSuper(c, s)
<1> DEFINE w == Head(s).do
<1>1. AtBitmap(c, s) => w = "bitmap"
  BY HeadDo DEF AtBitmap
<1>2. AtCreate(c, s) => w = "create"
  BY ListHeads DEF AtCreate
<1>3. (AtMkdir(c, s) => w = "mkdir") /\ (AtRmdir(c, s) => w = "rmdir")
  BY HeadDo, <<>> \in Seq(Step) DEF AtMkdir, AtRmdir
<1>4. AtRemove(c, s) => w = "remove"
  <2>1. FromCreate \in Seq(Step) /\ \A n \in 1 .. Len(NODES) : FromForget(n) \in Seq(Step)
    BY Lists
  <2> QED BY <2>1, HeadDo DEF AtRemove
<1>5. Writer(c) => c.op \in {"write_file", "write_at"} /\ c.data # <<>> /\ Last(c.op) \in Seq(Step)
  BY Lists DEF Writer
<1>6. AtWrite(c, s) => w = "write"
  BY <1>5, HeadDo DEF AtWrite
<1>7. AtPiece(c, s) => w \in {"fetch", "clear", "store", "grow"}
  BY <1>5, PieceHeads DEF AtPiece
<1>8. AtRead(c, s) => w \in {"fetch", "take"}
  <2>1. \A i \in Inode, n \in Index : FromTake(i, n) \in Seq(Step)
    BY Lists
  <2> QED BY <2>1, HeadDo, ListHeads DEF AtRead, OfRead
<1>9. AtAttach(c, s) => w = "attach"
  BY ListHeads DEF AtAttach
<1>10. AtLast(c, s) => (w = "refresh" /\ c.op = "write_file") \/ (w = "advance" /\ c.op = "write_at")
  BY <1>5, ListHeads DEF AtLast
<1>11. (AtForget(c, s) => w = "forget") /\ (AtSuper(c, s) => w = "super")
  BY ListHeads DEF AtForget, AtSuper
<1> HIDE DEF w
<1>12. w = Head(s).do
  BY DEF w
<1> QED
  BY <1>1, <1>2, <1>3, <1>4, <1>6, <1>7, <1>8, <1>9, <1>10, <1>11, <1>12, Places

------------------------------------------------------------------------------
(* How the steps follow one another *)

\* A call that has no steps left is over.
Leaves(steps) == todo' = steps /\ mine' = IF steps = <<>> THEN Idle ELSE mine

LEMMA IdleCall == Idle \in CallRecord /\ Idle.op = "idle" /\ Shape(Idle, <<>>)
<1>1. Idle \in CallRecord
  <2>1. <<>> \in Seq(Word) /\ <<>> \in Seq(Data) /\ <<>> \in Seq(Data \union {Zero})
    OBVIOUS
  <2>2. 0 \in Nat
    OBVIOUS
  <2> QED BY <2>1, <2>2 DEF Idle, CallRecord, FileContent
<1> QED BY <1>1 DEF Idle, Shape

\* The list of a call in progress, and that of one that has just begun.
LEMMA Effect ==
  ASSUME Sole, StorageTypes, NEW before \in Seq(Step), todo # <<>>, Left(me, before)
  PROVE  /\ Leaves(before \o Tail(todo))
         /\ job' \in [User -> [call : CallRecord, steps : Seq(Step)]]
<1> DEFINE steps == before \o Tail(todo)
           J == [call : CallRecord, steps : Seq(Step)]
<1>1. User = {me} /\ job \in [User -> J] /\ todo \in Seq(Step) /\ mine \in CallRecord
  BY DEF Sole, StorageTypes, CallTypes, mine, todo
<1>2. steps \in Seq(Step)
  BY <1>1
<1>3. job' = [job EXCEPT ![me] = IF steps = <<>> THEN NoJob ELSE [@ EXCEPT !.steps = steps]]
  BY DEF Left, todo
<1>4. CASE steps = <<>>
  <2>1. job'[me] = NoJob
    BY <1>1, <1>3, <1>4
  <2>2. NoJob \in J
    BY IdleCall DEF NoJob
  <2>3. job' \in [User -> J]
    BY <1>1, <1>3, <1>4, <2>2
  <2>4. todo' = <<>> /\ mine' = Idle
    BY <2>1 DEF todo, mine, NoJob
  <2> HIDE DEF steps
  <2>5. Leaves(steps)
    BY <1>4, <2>4 DEF Leaves
  <2> QED BY <2>3, <2>5 DEF steps
<1>5. CASE steps # <<>>
  <2>1. job'[me] = [job[me] EXCEPT !.steps = steps]
    BY <1>1, <1>3, <1>5
  <2>2. [job[me] EXCEPT !.steps = steps] \in J
        /\ [job[me] EXCEPT !.steps = steps].steps = steps /\ [job[me] EXCEPT !.steps = steps].call = mine
    BY <1>1, <1>2 DEF mine
  <2>3. job' \in [User -> J]
    BY <1>1, <1>3, <1>5, <2>2
  <2>4. todo' = steps /\ mine' = mine
    BY <2>1, <2>2 DEF todo, mine
  <2> HIDE DEF steps
  <2>5. Leaves(steps)
    BY <1>5, <2>4 DEF Leaves
  <2> QED BY <2>3, <2>5 DEF steps
<1> QED BY <1>4, <1>5

LEMMA FailedEffect ==
  ASSUME Sole, StorageTypes, Failed(me)
  PROVE  Leaves(<<>>) /\ mine' = Idle /\ job' \in [User -> [call : CallRecord, steps : Seq(Step)]]
<1>1. User = {me} /\ job \in [User -> [call : CallRecord, steps : Seq(Step)]]
  BY DEF Sole, StorageTypes, CallTypes
<1>2. NoJob \in [call : CallRecord, steps : Seq(Step)]
  BY IdleCall DEF NoJob
<1>3. job'[me] = NoJob /\ job' \in [User -> [call : CallRecord, steps : Seq(Step)]]
  BY <1>1, <1>2 DEF Failed
<1> QED BY <1>3 DEF Leaves, todo, mine, NoJob

LEMMA CallTyped ==
  ASSUME Sole, StorageTypes
  PROVE  /\ mine \in CallRecord /\ todo \in Seq(Step) /\ Shape(mine, todo)
         /\ job = [u \in User |-> job[me]] /\ me \in User
         /\ (todo = <<>> => mine = Idle /\ job[me] = NoJob) /\ (mine = Idle => todo = <<>>)
<1>1. User = {me} /\ job \in [User -> [call : CallRecord, steps : Seq(Step)]]
  BY DEF Sole, StorageTypes, CallTypes
<1>2. mine \in CallRecord /\ todo \in Seq(Step) /\ Shape(mine, todo) /\ job[me] = [call |-> mine, steps |-> todo]
  BY <1>1 DEF StorageTypes, CallTypes, mine, todo
<1>3. todo = <<>> => mine = Idle
  <2>1. SUFFICES ASSUME todo = <<>>, mine # Idle PROVE FALSE
    OBVIOUS
  <2>2. \A s, rest : rest \in Seq(Step) => Cons(s, rest) # <<>>
    BY ConsFacts
  <2>3. /\ FromCreate # <<>> /\ FromSuper # <<>> /\ \A i \in Inode : FromAttach(i) # <<>>
        /\ \A n \in Nat : FromForget(n) # <<>>
        /\ \A i \in Inode, n \in Index : FromTake(i, n) # <<>>
        /\ Last("write_file") # <<>> /\ Last("write_at") # <<>>
    BY <2>2, Lists DEF FromCreate, FromSuper, FromAttach, FromForget, FromTake
  <2>4. \A rest \in Seq(Step) : <<>> \notin Flush(rest) /\ <<>> \notin FlushBoth(rest)
    <3> TAKE rest \in Seq(Step)
    <3>1. Cons(Just("bitmap"), rest) \in Seq(Step)
      BY Lists, Zenon
    <3> QED BY <2>2, <3>1, FlushHeads
  <2>5. \A i \in Inode : \A rest \in Seq(Step) : mine.data # <<>> => <<>> \notin InWrite(mine, i, rest)
    <3>1. SUFFICES ASSUME NEW i \in Inode, NEW rest \in Seq(Step), mine.data # <<>> PROVE <<>> \notin InWrite(mine, i, rest)
      OBVIOUS
    <3>2. Cons(Just("bitmap"), rest) \in Seq(Step) /\ Cons(Out(1), Cons(Just("bitmap"), rest)) \in Seq(Step)
      BY Lists, ChunkNumbers, Zenon
    <3>3. FromGrow(mine, i, rest) # <<>>
      BY <2>2, <3>2 DEF FromGrow
    <3>4. \A n \in Index : Reaches(mine, n) => FromStore(mine, i, n, rest) # <<>> /\ FromStore(mine, i, n, rest) \in Seq(Step)
      BY <1>2, <2>2, <3>1, WriteLists DEF FromStore
    <3> QED BY <1>2, <2>2, <3>1, <3>3, <3>4, PieceHeads
  <2> HIDE DEF mine, todo
  <2>6. <<>> \in Seq(Step) /\ Len(NODES) \in Nat
    BY DEF StorageTypes, DataTypes
  <2>7. /\ ~OfCreateFile(<<>>) /\ ~OfRemoveFile(<<>>) /\ ~OfRead(<<>>) /\ ~OfSkeleton(<<>>)
    <3>1. ~OfCreateFile(<<>>)
      BY <2>3, <2>4, Lists DEF OfCreateFile
    <3>2. ~OfRemoveFile(<<>>)
      BY <2>2, <2>3, <2>4, <2>6, Lists DEF OfRemoveFile
    <3>3. ~OfRead(<<>>)
      BY <2>2, <2>3, Lists DEF OfRead
    <3>4. Len(Skeleton) \in Nat
      BY PathsAssumption
    <3>5. ~OfSkeleton(<<>>)
      <4>1. \A k \in 1 .. Len(Skeleton) + 1 : Directories(k) \in Seq(Step)
        BY <3>4, Lists
      <4> QED BY <2>2, <2>4, <2>6, <4>1 DEF OfSkeleton
    <3> QED BY <3>1, <3>2, <3>3, <3>5
  <2>8. mine.data # <<>> => ~OfWriteFile(mine, <<>>) /\ ~OfWriteAt(mine, <<>>)
    <3>1. \A i \in Inode : Cons(On("write", i), Last("write_file")) \in Seq(Step)
      BY Lists
    <3> QED BY <2>2, <2>3, <2>4, <2>5, <3>1, Lists DEF OfWriteFile, OfWriteAt
  <2> QED BY <1>2, <2>1, <2>2, <2>3, <2>4, <2>6, <2>7, <2>8, Lists DEF Shape
<1>4. mine = Idle => todo = <<>>
  BY <1>2, IdleCall DEF Shape
<1>5. job = [u \in User |-> job[me]]
  BY <1>1
<1>6. todo = <<>> => job[me] = NoJob
  BY <1>2, <1>3 DEF NoJob
<1> QED BY <1>1, <1>2, <1>3, <1>4, <1>5, <1>6

\* The steps at one piece of the data, which is fetched first where a part of a
\* block the file has is written, and cleared first where of a new block.
LEMMA PieceIs ==
  ASSUME NEW c \in CallRecord, c.data # <<>>, NEW i \in Inode, NEW n \in Index, Reaches(c, n), NEW have
  PROVE  Piece(i, n, c.offset, Len(c.data), have) =
           IF ToOf(c, n) - FromOf(c, n) = BLOCK_SIZE THEN <<StoreOf(c, i, n)>>
           ELSE IF n < have THEN <<At("fetch", i, n), StoreOf(c, i, n)>> ELSE <<Just("clear"), StoreOf(c, i, n)>>
<1> DEFINE store == StoreOf(c, i, n)  fetch == At("fetch", i, n)  clear == Just("clear")
           P == Piece(i, n, c.offset, Len(c.data), have)
<1>1. FromOf(c, n) \in Nat /\ ToOf(c, n) \in Nat /\ FromOf(c, n) < ToOf(c, n) /\ ToOf(c, n) <= BLOCK_SIZE
      /\ BLOCK_SIZE \in Nat
  BY Ranges, Sizes
<1>3. P = IF ToOf(c, n) - FromOf(c, n) = BLOCK_SIZE THEN <<store>>
          ELSE IF n < have THEN <<fetch, store>> ELSE <<clear, store>>
  <2> DEFINE from == IF c.offset > n * BLOCK_SIZE THEN c.offset - n * BLOCK_SIZE ELSE 0
             to == IF c.offset + Len(c.data) < (n + 1) * BLOCK_SIZE
                   THEN c.offset + Len(c.data) - n * BLOCK_SIZE ELSE BLOCK_SIZE
             st == [do |-> "store", inode |-> i, nth |-> n, from |-> from, to |-> to]
             A == <<[do |-> "fetch", inode |-> i, nth |-> n], st>>
             C == <<[do |-> "clear"], st>>
  <2>1. from = FromOf(c, n) /\ to = ToOf(c, n)
    <3>1. c.offset \in Nat /\ Len(c.data) \in Nat /\ n * BLOCK_SIZE \in Nat
      BY Ranges DEF CallRecord
    <3>2. \A x, y, z \in Nat : x + (y - z) = (x + y) - z
      OBVIOUS
    <3>3. c.offset + (Len(c.data) - n * BLOCK_SIZE) = (c.offset + Len(c.data)) - n * BLOCK_SIZE
      BY <3>1, <3>2
    <3> QED BY <3>3, Zenon DEF FromOf, ToOf, EndOf
  <2>2. P = CASE to - from = BLOCK_SIZE -> <<st>>
              [] to - from < BLOCK_SIZE /\ n < have -> A
              [] OTHER -> C
    BY DEF Piece
  <2> HIDE DEF from, to, P
  <2>3. st = store /\ A = <<fetch, st>> /\ C = <<clear, st>>
    BY <2>1 DEF StoreOf, Stores, At, Just
  <2> HIDE DEF st, A, C, store, fetch, clear
  <2>4. to - from = BLOCK_SIZE \/ to - from < BLOCK_SIZE
    BY <1>1, <2>1
  <2>5. CASE to - from = BLOCK_SIZE
    BY <1>1, <2>1, <2>2, <2>3, <2>5
  <2>6. CASE to - from < BLOCK_SIZE /\ n < have
    <3>1. ~(to - from = BLOCK_SIZE)
      BY <1>1, <2>1, <2>6
    <3>2. P = A
      BY <2>2, <2>6, <3>1
    <3> QED BY <2>1, <2>3, <2>6, <3>1, <3>2
  <2>7. CASE to - from < BLOCK_SIZE /\ ~(n < have)
    <3>1. ~(to - from = BLOCK_SIZE)
      BY <1>1, <2>1, <2>7
    <3>2. P = C
      BY <2>2, <2>7, <3>1
    <3> QED BY <2>1, <2>3, <2>7, <3>1, <3>2
  <2> QED BY <2>4, <2>5, <2>6, <2>7
<1> QED BY <1>3

LEMMA PieceSteps ==
  ASSUME NEW c \in CallRecord, c.data # <<>>, NEW i \in Inode, NEW n \in Index, Reaches(c, n),
         NEW have, NEW rest \in Seq(Step)
  PROVE  /\ Piece(i, n, c.offset, Len(c.data), have) \in Seq(Step)
         /\ Piece(i, n, c.offset, Len(c.data), have) \o rest \in
              {Cons(StoreOf(c, i, n), rest), Cons(At("fetch", i, n), Cons(StoreOf(c, i, n), rest)),
               Cons(Just("clear"), Cons(StoreOf(c, i, n), rest))}
<1> DEFINE store == StoreOf(c, i, n)  fetch == At("fetch", i, n)  clear == Just("clear")
           P == Piece(i, n, c.offset, Len(c.data), have)
<1>2. store \in Step /\ fetch \in Step /\ clear \in Step
  BY WriteLists, StepTypes
<1>3. P = IF ToOf(c, n) - FromOf(c, n) = BLOCK_SIZE THEN <<store>>
          ELSE IF n < have THEN <<fetch, store>> ELSE <<clear, store>>
  BY PieceIs
<1> HIDE DEF P, store, fetch, clear
<1>5. /\ <<store>> \in Seq(Step) /\ <<fetch, store>> \in Seq(Step) /\ <<clear, store>> \in Seq(Step)
  BY <1>2
<1>6. /\ <<store>> \o rest = Cons(store, rest)
      /\ <<fetch, store>> \o rest = Cons(fetch, Cons(store, rest))
      /\ <<clear, store>> \o rest = Cons(clear, Cons(store, rest))
  BY <1>2, Joined
<1>7. P \in {<<store>>, <<fetch, store>>, <<clear, store>>}
  BY <1>3, Zenon
<1> QED BY <1>5, <1>6, <1>7, Zenon DEF P, store, fetch, clear

\* A call whose data fits begins with the block of its offset, and goes on with the
\* next as long as its data goes beyond it.
LEMMA FirstReached ==
  ASSUME NEW c \in CallRecord, c.data # <<>>, EndOf(c) <= MAX_FILE_SIZE
  PROVE  /\ c.offset \div BLOCK_SIZE \in Index /\ Reaches(c, c.offset \div BLOCK_SIZE)
         /\ \A n \in Index : Reaches(c, n) /\ (n + 1) * BLOCK_SIZE < EndOf(c) =>
              n + 1 \in Index /\ Reaches(c, n + 1)
<1> DEFINE b == BLOCK_SIZE  D == DIRECT_BLOCKS  o == c.offset  e == EndOf(c)
<1>1. b \in Nat \ {0} /\ D \in Nat /\ o \in Nat /\ e \in Nat /\ o < e /\ e <= D * b /\ D * b \in Nat
  <2>1. Len(c.data) \in Nat /\ Len(c.data) > 0 /\ o \in Nat
    BY DEF CallRecord
  <2>2. b \in Nat \ {0} /\ D \in Nat /\ D * b \in Nat
    BY Sizes DEF MAX_FILE_SIZE
  <2> QED BY <2>1, <2>2 DEF EndOf, MAX_FILE_SIZE
<1> HIDE DEF b, D, o, e
<1>2. ASSUME NEW n \in Nat, n * b < e PROVE n < D
  <2>1. D <= n => D * b <= n * b
    BY <1>1, Products
  <2>2. n * b \in Nat
    BY <1>1
  <2> QED BY <1>1, <1>2, <2>1, <2>2
<1>3. /\ o \div b \in Nat /\ (o \div b) * b \in Nat
      /\ (o \div b) * b <= o /\ o < (o \div b) * b + b
  BY <1>1, Quotient
<1>4. (o \div b + 1) * b = (o \div b) * b + b
  BY <1>1, <1>3
<1>5. o \div b < D /\ (o \div b) * b < e /\ o < (o \div b + 1) * b
  BY <1>1, <1>2, <1>3, <1>4
<1>6. ASSUME NEW n \in Index, o < (n + 1) * b, (n + 1) * b < e
      PROVE  n + 1 \in Index /\ o < (n + 1 + 1) * b
  <2>1. n \in Nat /\ n + 1 \in Nat
    BY <1>1 DEF Index, D
  <2>2. n + 1 < D
    BY <1>2, <1>6, <2>1
  <2>3. (n + 1 + 1) * b = (n + 1) * b + b /\ (n + 1) * b \in Nat
    BY <1>1, <2>1
  <2> QED BY <1>1, <1>6, <2>1, <2>2, <2>3 DEF Index, D
<1>7. o \div b \in Index
  BY <1>1, <1>3, <1>5 DEF Index, D
<1> QED BY <1>5, <1>6, <1>7 DEF Reaches, b, o, e

LEMMA FlowInodes ==
  ASSUME Sole, StorageTypes, WriteInodes(me)
  PROVE  \E k \in 1 .. Chunks, rest \in Seq(Step) :
           /\ todo = Cons(Out(k), rest) /\ First(me).chunk = k
           /\ Leaves(IF k < Chunks THEN Cons(Out(k + 1), rest) ELSE rest)
           /\ k < Chunks => Shape(mine, Cons(Out(k + 1), rest))
           /\ rest # <<>> => Shape(mine, rest)
<1>1. mine \in CallRecord /\ todo \in Seq(Step) /\ Shape(mine, todo) /\ todo # <<>> /\ Head(todo).do = "inodes"
  BY CallTyped DEF WriteInodes, Now, First, todo
<1>2. PICK k \in 1 .. Chunks, rest \in Seq(Step) :
        /\ todo = Cons(Out(k), rest)
        /\ \A m \in 1 .. Chunks : Shape(mine, Cons(Out(m), rest))
        /\ rest # <<>> => Shape(mine, rest)
  BY <1>1, AtOut
<1>3. Chunks \in Nat /\ k + 1 \in Nat /\ (k < Chunks => k + 1 \in 1 .. Chunks)
  BY ChunkNumbers
<1>4. First(me) = Out(k) /\ Tail(todo) = rest
  BY <1>2, ConsFacts DEF First, todo
<1>5. [First(me) EXCEPT !.chunk = @ + 1] = Out(k + 1) /\ First(me).chunk = k
  BY <1>4 DEF Out
<1>6. Left(me, IF k < Chunks THEN <<Out(k + 1)>> ELSE <<>>)
  BY <1>5 DEF WriteInodes
<1>7. CASE k < Chunks
  <2>1. Out(k + 1) \in Step /\ <<Out(k + 1)>> \in Seq(Step)
    BY <1>3, <1>7, StepTypes
  <2>2. Leaves(<<Out(k + 1)>> \o rest)
    BY <1>1, <1>4, <1>6, <1>7, <2>1, Effect
  <2> QED BY <1>2, <1>3, <1>5, <1>7, <2>2 DEF Cons
<1>8. CASE ~(k < Chunks)
  <2>1. Leaves(<<>> \o rest)
    BY <1>1, <1>4, <1>6, <1>8, Effect, <<>> \in Seq(Step)
  <2>2. <<>> \o rest = rest
    OBVIOUS
  <2> QED BY <1>2, <1>5, <1>8, <2>1, <2>2
<1> QED BY <1>7, <1>8

\* A step that leaves nothing before the rest.
LEMMA FlowDone ==
  ASSUME Sole, StorageTypes, todo # <<>>, Done(me)
  PROVE  Leaves(Tail(todo))
<1>1. todo \in Seq(Step) /\ Tail(todo) \in Seq(Step)
  BY CallTyped
<1>2. Leaves(<<>> \o Tail(todo))
  BY Effect, <<>> \in Seq(Step) DEF Done
<1>3. <<>> \o Tail(todo) = Tail(todo)
  BY <1>1
<1> QED BY <1>2, <1>3

LEMMA FlowBitmap ==
  ASSUME Sole, StorageTypes, WriteBitmap(me)
  PROVE  \E rest \in Seq(Step) :
           todo = Cons(Just("bitmap"), rest) /\ Leaves(rest) /\ (rest # <<>> => Shape(mine, rest))
<1>1. mine \in CallRecord /\ Shape(mine, todo) /\ todo # <<>> /\ Head(todo).do = "bitmap" /\ Done(me)
  BY CallTyped DEF WriteBitmap, Now, First, todo
<1>2. PICK rest \in Seq(Step) : todo = Cons(Just("bitmap"), rest) /\ (rest # <<>> => Shape(mine, rest))
  BY <1>1, PlaceOf DEF AtBitmap
<1>3. Leaves(Tail(todo)) /\ Tail(todo) = rest
  BY <1>1, <1>2, FlowDone, ConsFacts
<1> QED BY <1>2, <1>3

------------------------------------------------------------------------------
(* What every action leaves of the call *)

\* Searches return the lowest element.
LEMMA LowestIn ==
  ASSUME NEW S \in SUBSET Nat, S # {}
  PROVE  Lowest(S) \in S /\ \A j \in S : Lowest(S) <= j
<1>1. \E i \in S : \A j \in S : i <= j
  BY LeastNatural
<1> QED BY <1>1 DEF Lowest

LEMMA NewInodeIn ==
  ASSUME FreeInodes # {}
  PROVE  Lowest(FreeInodes) \in FreeInodes /\ FreeInodes \subseteq Inode \ {ROOT_INODE}
<1>1. FreeInodes \subseteq Inode \ {ROOT_INODE}
  BY DEF FreeInodes
<1>2. FreeInodes \subseteq Nat
  BY <1>1, Sizes DEF Inode
<1> QED BY <1>1, <1>2, LowestIn

\* The shapes of a call that writes.
LEMMA WriterShapes ==
  ASSUME NEW c \in CallRecord, Writer(c), NEW i \in Inode, NEW s
  PROVE  /\ c.op \in {"write_file", "write_at"} /\ c.data # <<>> /\ Last(c.op) \in Seq(Step)
         /\ s \in InWrite(c, i, Last(c.op)) => Shape(c, s)
         /\ s \in FlushBoth(Last(c.op)) \union {Last(c.op)} => Shape(c, s)
<1>1. CASE c.op = "write_file"
  BY <1>1, Lists DEF Writer, Shape, OfWriteFile
<1>2. CASE c.op = "write_at"
  BY <1>2, Lists DEF Writer, Shape, OfWriteAt
<1> QED BY <1>1, <1>2 DEF Writer

LEMMA ShapeKept ==
  ASSUME NEW c \in CallRecord, NEW s, Shape(c, s),
         MOUNTED' = MOUNTED, disk'.formatted = disk.formatted, file' = file, NODES' = NODES
  PROVE  Shape(c, s)'
<1>1. OfRemoveFile(s)' = OfRemoveFile(s)
  BY DEF OfRemoveFile
<1>2. (OfCreateFile(s)' <=> OfCreateFile(s)) /\ (OfWriteFile(c, s)' <=> OfWriteFile(c, s))
      /\ (OfWriteAt(c, s)' <=> OfWriteAt(c, s)) /\ (OfRead(s)' <=> OfRead(s)) /\ (OfSkeleton(s)' <=> OfSkeleton(s))
  BY DEF OfCreateFile, OfWriteFile, OfWriteAt, OfRead, OfSkeleton
<1>3. me' = me
  BY DEF me
<1>4. OpensDisk' <=> OpensDisk
  BY <1>3 DEF OpensDisk
<1> QED BY <1>1, <1>2, <1>3, <1>4 DEF Shape

\* An action that goes on with the steps s.
LEMMA Goes ==
  ASSUME Sole, StorageTypes, NEW s \in Seq(Step), Leaves(s),
         job' \in [User -> [call : CallRecord, steps : Seq(Step)]],
         s # <<>> => /\ Shape(mine, s)
                     /\ MOUNTED' = MOUNTED /\ disk'.formatted = disk.formatted /\ file' = file /\ NODES' = NODES
  PROVE  CallTypes'
<1>1. mine \in CallRecord
  BY CallTyped
<1>2. CASE s = <<>>
  <2>1. mine' = Idle /\ todo' = <<>>
    BY <1>2 DEF Leaves
  <2>2. Shape(mine, todo)'
    BY <2>1 DEF Shape, Idle
  <2>3. mine'.op = "idle"
    BY <2>1, IdleCall
  <2> QED BY <2>2, <2>3 DEF CallTypes
<1>3. CASE s # <<>>
  <2>1. mine' = mine /\ todo' = s
    BY <1>3 DEF Leaves
  <2>2. ASSUME NEW c \in CallRecord, c = mine PROVE Shape(c, s)'
    <3>1. Shape(c, s)
      BY <1>3, <2>2
    <3> QED BY <1>3, <3>1, ShapeKept
  <2>3. PICK c \in CallRecord : c = mine /\ Shape(c, s)'
    BY <1>1, <2>2
  <2>4. mine' = c /\ todo' = s
    BY <2>1, <2>3
  <2>5. Shape(mine, todo)'
    BY <2>3, <2>4 DEF Shape
  <2>6. mine'.op \in {"create_file", "write_file", "mkdir"} => mine'.path \in Path
    BY <2>1 DEF StorageTypes, CallTypes
  <2> QED BY <2>5, <2>6 DEF CallTypes
<1> QED BY <1>2, <1>3

Continues(s) ==
  /\ s \in Seq(Step) /\ Leaves(s) /\ (s # <<>> => Shape(mine, s))
  /\ job' \in [User -> [call : CallRecord, steps : Seq(Step)]]

LEMMA LeftGoes ==
  ASSUME Sole, StorageTypes, NEW before \in Seq(Step), todo # <<>>, Left(me, before),
         NEW s, s = before \o Tail(todo), s # <<>> => Shape(mine, s)
  PROVE  Continues(s)
<1>1. todo \in Seq(Step)
  BY CallTyped
<1>2. s \in Seq(Step)
  BY <1>1
<1> QED BY <1>2, Effect DEF Continues

LEMMA DoneGoes ==
  ASSUME Sole, StorageTypes, Done(me), NEW rest \in Seq(Step), NEW t, todo = Cons(t, rest),
         rest # <<>> => Shape(mine, rest)
  PROVE  Continues(rest)
<1>1. todo # <<>> /\ Tail(todo) = rest /\ <<>> \in Seq(Step)
  BY ConsFacts
<1>2. <<>> \o rest = rest
  OBVIOUS
<1> QED BY <1>1, <1>2, LeftGoes DEF Done

LEMMA FailedGoes ==
  ASSUME Sole, StorageTypes, Failed(me)
  PROVE  Continues(<<>>) /\ mine' = Idle /\ todo' = <<>>
<1>1. <<>> \in Seq(Step)
  OBVIOUS
<1> QED BY <1>1, FailedEffect DEF Continues, Leaves

\* flush_inodes, the first chunk of it.
LEMMA FlushLists ==
  ASSUME NEW rest \in Seq(Step)
  PROVE  /\ flush_inodes = <<Out(1)>> /\ flush_bitmap = <<Just("bitmap")>>
         /\ Out(1) \in Step /\ Just("bitmap") \in Step
         /\ flush_inodes \o rest = Cons(Out(1), rest)
         /\ (flush_inodes \o flush_bitmap) \o rest = Cons(Out(1), Cons(Just("bitmap"), rest))
         /\ flush_inodes \in Seq(Step) /\ flush_bitmap \in Seq(Step)
         /\ flush_inodes \o rest \in Seq(Step) /\ (flush_inodes \o rest) \o <<>> = flush_inodes \o rest
<1>1. flush_inodes = <<Out(1)>> /\ flush_bitmap = <<Just("bitmap")>>
  BY DEF flush_inodes, flush_bitmap, Out, Just
<1>2. Out(1) \in Step /\ Just("bitmap") \in Step
  BY StepTypes, ChunkNumbers
<1>3. /\ <<Out(1)>> \o rest = Cons(Out(1), rest)
      /\ (<<Out(1)>> \o <<Just("bitmap")>>) \o rest = Cons(Out(1), Cons(Just("bitmap"), rest))
  BY <1>2, Joined
<1>4. <<Out(1)>> \in Seq(Step) /\ <<Just("bitmap")>> \in Seq(Step)
  BY <1>2
<1>5. ASSUME NEW p \in Seq(Step), NEW q \in Seq(Step) PROVE p \o q \in Seq(Step) /\ (p \o q) \o <<>> = p \o q
  <2> DEFINE r == p \o q
  <2>1. r \in Seq(Step)
    OBVIOUS
  <2> HIDE DEF r
  <2>2. r \o <<>> = r
    BY <2>1
  <2> QED BY <2>1, <2>2 DEF r
<1> QED BY <1>1, <1>2, <1>3, <1>4, <1>5

\* What follows when a new file has its inode.
AfterCreate(c, new) ==
  IF c.op = "create_file" THEN FromAttach(new) ELSE Cons(On("write", new), Last("write_file"))

LEMMA FlowCreate ==
  ASSUME Sole, StorageTypes, Create(me)
  PROVE  /\ AtCreate(mine, todo)
         /\ \/ ~Makeable(mine.path) /\ UNCHANGED INODES /\ Continues(<<>>) /\ mine' = Idle
            \/ /\ Makeable(mine.path) /\ NewInode(mine.path, "file")
               /\ Continues(Cons(Out(1), AfterCreate(mine, Lowest(FreeInodes))))
               /\ mine' = mine
<1>1. mine \in CallRecord /\ todo \in Seq(Step) /\ Shape(mine, todo) /\ todo # <<>> /\ Head(todo).do = "create"
  BY CallTyped DEF Create, Now, First, todo
<1>2. AtCreate(mine, todo)
  BY <1>1, PlaceOf
<1>3. CASE ~Makeable(mine.path)
  BY <1>2, <1>3, FailedGoes DEF Create, mine
<1>4. CASE Makeable(mine.path)
  <2> DEFINE new == Lowest(FreeInodes)
             R == AfterCreate(mine, new)
             B == IF mine.op = "create_file" THEN <<[do |-> "attach", inode |-> new]>>
                  ELSE <<[do |-> "write", inode |-> new], [do |-> "refresh"]>>
  <2>1. NewInode(mine.path, "file") /\ Left(me, flush_inodes \o B)
    BY <1>4 DEF Create, mine
  <2>2. new \in Inode
    BY <1>4, NewInodeIn DEF Makeable
  <2>3. On("attach", new) \in Step /\ On("write", new) \in Step /\ Just("refresh") \in Step
    BY <2>2, StepTypes
  <2>4. B = IF mine.op = "create_file" THEN <<On("attach", new)>> ELSE <<On("write", new), Just("refresh")>>
    BY DEF On, Just
  <2>5. /\ <<On("attach", new)>> = FromAttach(new)
        /\ <<On("write", new), Just("refresh")>> = Cons(On("write", new), Last("write_file"))
    <3>1. /\ <<On("attach", new)>> = Cons(On("attach", new), <<>>)
          /\ <<On("write", new), Just("refresh")>> = Cons(On("write", new), Cons(Just("refresh"), <<>>))
      BY <2>3, Joined, <<>> \in Seq(Step)
    <3> QED BY <3>1, Lists DEF FromAttach
  <2> HIDE DEF new, B
  <2>6. B = R
    BY <2>4, <2>5 DEF AfterCreate
  <2>7. R \in Seq(Step)
    BY <2>2, Lists DEF AfterCreate
  <2> HIDE DEF R
  <2>8. flush_inodes \o R = Cons(Out(1), R) /\ flush_inodes \o R \in Seq(Step) /\ Tail(todo) = <<>>
        /\ (flush_inodes \o R) \o <<>> = flush_inodes \o R
    <3>1. flush_inodes \in Seq(Step) /\ flush_inodes \o R = Cons(Out(1), R)
      BY <2>7, FlushLists
    <3>2. Tail(todo) = <<>>
      BY <1>2, ConsFacts, <<>> \in Seq(Step) DEF AtCreate, FromCreate
    <3> QED BY <3>1, <3>2, <2>7, FlushLists
  <2>9. Shape(mine, Cons(Out(1), R))
    <3>1. 1 \in 1 .. Chunks
      BY ChunkNumbers
    <3>2. Cons(Out(1), R) \in Flush(R)
      BY <2>7, <3>1, FlushHeads
    <3>3. CASE mine.op = "create_file"
      <4>1. R = FromAttach(new)
        BY <3>3 DEF R, AfterCreate
      <4>2. OfCreateFile(Cons(Out(1), R))
        BY <2>2, <3>2, <4>1 DEF OfCreateFile
      <4>3. MOUNTED
        BY <1>2 DEF AtCreate, Writer
      <4> QED BY <3>3, <4>2, <4>3 DEF Shape
    <3>4. CASE Writer(mine) /\ mine.op = "write_file"
      <4>1. R = Cons(On("write", new), Last("write_file"))
        BY <3>4 DEF R, AfterCreate
      <4>2. OfWriteFile(mine, Cons(Out(1), R))
        BY <2>2, <3>2, <4>1 DEF OfWriteFile
      <4> QED BY <3>4, <4>2 DEF Shape, Writer
    <3> QED BY <1>2, <3>3, <3>4 DEF AtCreate
  <2>10. Continues(Cons(Out(1), R))
    BY <1>1, <2>1, <2>6, <2>8, <2>9, LeftGoes
  <2>11. mine' = mine
    BY <2>7, <2>10, ConsFacts DEF Continues, Leaves
  <2> QED BY <1>2, <1>4, <2>1, <2>10, <2>11 DEF R, new
<1> QED BY <1>3, <1>4

PathOf(c, k) == IF c.op = "format" THEN Skeleton[k] ELSE c.path

LEMMA FlowMkdir ==
  ASSUME Sole, StorageTypes, mkdir(me)
  PROVE  \E k \in Nat \ {0} :
           /\ MOUNTED /\ mine.op \in {"mkdir", "format"} /\ (mine.op = "format" => k <= Len(Skeleton))
           /\ \/ ~Makeable(PathOf(mine, k)) /\ UNCHANGED INODES /\ Continues(<<>>) /\ mine' = Idle
              \/ /\ Makeable(PathOf(mine, k)) /\ NewInode(PathOf(mine, k), "dir")
                 /\ Continues(Cons(Out(1), IF mine.op = "format" THEN Directories(k + 1) ELSE <<>>))
                 /\ mine' = mine
<1>1. mine \in CallRecord /\ todo \in Seq(Step) /\ Shape(mine, todo) /\ todo # <<>> /\ Head(todo).do = "mkdir"
  BY CallTyped DEF mkdir, Now, First, todo
<1>2. AtMkdir(mine, todo)
  BY <1>1, PlaceOf
<1>3. PICK k \in Nat \ {0} : /\ MOUNTED /\ todo = Cons(Dir(k), <<>>)
                             /\ (mine.op = "mkdir" /\ k = 1) \/ (mine.op = "format" /\ k <= Len(Skeleton))
  BY <1>2 DEF AtMkdir
<1>4. Head(todo) = Dir(k) /\ Tail(todo) = <<>>
  BY <1>3, ConsFacts, <<>> \in Seq(Step)
<1>5. First(me).nth = k
  BY <1>4 DEF First, todo, Dir
<1> DEFINE p == PathOf(mine, k)
<1>6. \/ ~Makeable(p) /\ Failed(me) /\ UNCHANGED INODES
      \/ /\ Makeable(p) /\ NewInode(p, "dir")
         /\ Left(me, flush_inodes \o (IF mine.op = "format" THEN Directories(k + 1) ELSE <<>>))
  <2>1. \/ ~Makeable(p) /\ Failed(me) /\ UNCHANGED INODES
        \/ /\ Makeable(p) /\ NewInode(p, "dir")
           /\ Left(me, flush_inodes \o (IF mine.op = "format" THEN Directories(First(me).nth + 1) ELSE <<>>))
    BY <1>5 DEF mkdir, mine, PathOf
  <2> QED BY <2>1, <1>5
<1>7. CASE ~Makeable(p) /\ Failed(me) /\ UNCHANGED INODES
  BY <1>3, <1>7, FailedGoes
<1>8. CASE /\ Makeable(p) /\ NewInode(p, "dir")
           /\ Left(me, flush_inodes \o (IF mine.op = "format" THEN Directories(k + 1) ELSE <<>>))
  <2> DEFINE R == IF mine.op = "format" THEN Directories(k + 1) ELSE <<>>
  <2>1. k + 1 \in Nat /\ R \in Seq(Step)
    BY Lists
  <2> HIDE DEF R
  <2>2. Left(me, flush_inodes \o R)
    BY <1>8 DEF R
  <2>3. flush_inodes \o R = Cons(Out(1), R) /\ flush_inodes \o R \in Seq(Step)
        /\ (flush_inodes \o R) \o <<>> = flush_inodes \o R
    <3>1. flush_inodes \in Seq(Step) /\ flush_inodes \o R = Cons(Out(1), R)
      BY <2>1, FlushLists
    <3> QED BY <3>1, <2>1, FlushLists
  <2>4. Cons(Out(1), R) \in Flush(R)
    BY <2>1, FlushHeads, ChunkNumbers
  <2>5. Shape(mine, Cons(Out(1), R))
    <3>1. CASE mine.op = "mkdir"
      BY <1>3, <2>4, <3>1 DEF Shape, R
    <3>2. CASE mine.op = "format"
      <4>1. Len(Skeleton) \in Nat /\ k <= Len(Skeleton)
        BY <1>3, <3>2, PathsAssumption
      <4>2. k + 1 \in 1 .. Len(Skeleton) + 1
        BY <4>1
      <4>3. OfSkeleton(Cons(Out(1), R))
        BY <2>4, <3>2, <4>2 DEF OfSkeleton, R
      <4> QED BY <1>3, <3>2, <4>3 DEF Shape
    <3> QED BY <1>3, <3>1, <3>2
  <2>6. Continues(Cons(Out(1), R))
    BY <1>1, <1>4, <2>2, <2>3, <2>5, LeftGoes
  <2>7. mine' = mine
    BY <2>1, <2>6, ConsFacts DEF Continues, Leaves
  <2> QED BY <1>3, <1>8, <2>6, <2>7 DEF R
<1> QED BY <1>6, <1>7, <1>8

\* A call of which one step is left.
LEMMA LastGoes ==
  ASSUME Sole, StorageTypes, Done(me), NEW t, todo = Cons(t, <<>>)
  PROVE  Continues(<<>>) /\ mine' = Idle /\ todo' = <<>>
<1>1. <<>> \in Seq(Step)
  OBVIOUS
<1>2. Continues(<<>>)
  BY <1>1, DoneGoes
<1> QED BY <1>2 DEF Continues, Leaves

\* A call that is not over is the same call.
LEMMA Stays ==
  ASSUME NEW t, NEW rest \in Seq(Step), Continues(Cons(t, rest))
  PROVE  mine' = mine /\ todo' = Cons(t, rest)
BY ConsFacts DEF Continues, Leaves

LEMMA FlowRmdir ==
  ASSUME Sole, StorageTypes, rmdir(me)
  PROVE  /\ MOUNTED /\ mine.op = "rmdir"
         /\ LET i == resolve(INODES, mine.path)
            IN  \/ ~IsEmptyDir(i) /\ UNCHANGED INODES /\ Continues(<<>>) /\ mine' = Idle
                \/ IsEmptyDir(i) /\ INODES' = [INODES EXCEPT ![i] = Empty] /\ Continues(Cons(Out(1), <<>>)) /\ mine' = mine
<1>0. <<>> \in Seq(Step)
  OBVIOUS
<1>1. mine \in CallRecord /\ todo \in Seq(Step) /\ Shape(mine, todo) /\ todo # <<>> /\ Head(todo).do = "rmdir"
  BY CallTyped DEF rmdir, Now, First, todo
<1>2. MOUNTED /\ mine.op = "rmdir" /\ todo = Cons(Just("rmdir"), <<>>)
  BY <1>1, PlaceOf DEF AtRmdir
<1>3. Tail(todo) = <<>>
  BY <1>0, <1>2, ConsFacts
<1> DEFINE i == resolve(INODES, mine.path)
<1>4. \/ ~IsEmptyDir(i) /\ Failed(me) /\ UNCHANGED INODES
      \/ IsEmptyDir(i) /\ INODES' = [INODES EXCEPT ![i] = Empty] /\ Left(me, flush_inodes)
  BY DEF rmdir, mine
<1> HIDE DEF i
<1>5. CASE ~IsEmptyDir(i) /\ Failed(me) /\ UNCHANGED INODES
  BY <1>2, <1>5, FailedGoes DEF i
<1>6. CASE IsEmptyDir(i) /\ INODES' = [INODES EXCEPT ![i] = Empty] /\ Left(me, flush_inodes)
  <2>1. flush_inodes \o <<>> = Cons(Out(1), <<>>) /\ flush_inodes \in Seq(Step)
    BY <1>0, FlushLists
  <2>2. Cons(Out(1), <<>>) \in Flush(<<>>)
    BY <1>0, FlushHeads, ChunkNumbers
  <2>3. Shape(mine, Cons(Out(1), <<>>))
    BY <1>2, <2>2 DEF Shape
  <2>4. Continues(Cons(Out(1), <<>>))
    BY <1>1, <1>3, <1>6, <2>1, <2>3, LeftGoes
  <2> QED BY <1>0, <1>2, <1>6, <2>4, Stays DEF i
<1> QED BY <1>4, <1>5, <1>6

\* What a removed file leaves to do: the new one is made, or the node given up.
AfterRemove(c, rest) ==
  \/ Writer(c) /\ c.op = "write_file" /\ rest = FromCreate
  \/ MOUNTED /\ c.op = "remove_file" /\ \E n \in 1 .. Len(NODES) : rest = FromForget(n)

LEMMA FlowRemove ==
  ASSUME Sole, StorageTypes, Remove(me)
  PROVE  \E i \in Inode, rest \in Seq(Step) :
           /\ AfterRemove(mine, rest) /\ todo = Cons(On("remove", i), rest) /\ First(me) = On("remove", i)
           /\ \/ INODES[i].kind # "file" /\ UNCHANGED cache /\ Continues(<<>>) /\ mine' = Idle
              \/ /\ INODES[i].kind = "file"
                 /\ Continues(Cons(Out(1), Cons(Just("bitmap"), rest))) /\ mine' = mine
<1>1. mine \in CallRecord /\ todo \in Seq(Step) /\ Shape(mine, todo) /\ todo # <<>> /\ Head(todo).do = "remove"
  BY CallTyped DEF Remove, Now, First, todo
<1>2. AtRemove(mine, todo)
  BY <1>1, PlaceOf
<1>3. PICK i \in Inode, rest \in Seq(Step) : AfterRemove(mine, rest) /\ todo = Cons(On("remove", i), rest)
  <2>1. FromCreate \in Seq(Step) /\ \A n \in 1 .. Len(NODES) : FromForget(n) \in Seq(Step)
    BY Lists
  <2> QED BY <1>2, <2>1 DEF AtRemove, AfterRemove
<1>4. First(me) = On("remove", i) /\ Tail(todo) = rest /\ First(me).inode = i
  <2>1. First(me) = On("remove", i) /\ Tail(todo) = rest
    BY <1>3, ConsFacts DEF First, todo
  <2> QED BY <2>1 DEF On
<1>5. \/ INODES[i].kind # "file" /\ Failed(me) /\ UNCHANGED cache
      \/ INODES[i].kind = "file" /\ Left(me, flush_inodes \o flush_bitmap)
  BY <1>4 DEF Remove
<1>6. CASE INODES[i].kind # "file" /\ Failed(me) /\ UNCHANGED cache
  BY <1>3, <1>4, <1>6, FailedGoes
<1>7. CASE INODES[i].kind = "file" /\ Left(me, flush_inodes \o flush_bitmap)
  <2> DEFINE B == Cons(Just("bitmap"), rest)
  <2>1. B \in Seq(Step)
    BY Lists, Zenon
  <2>2. (flush_inodes \o flush_bitmap) \o rest = Cons(Out(1), B) /\ flush_inodes \o flush_bitmap \in Seq(Step)
    BY FlushLists
  <2> HIDE DEF B
  <2>3. Cons(Out(1), B) \in FlushBoth(rest)
    BY FlushHeads, ChunkNumbers DEF B
  <2>4. Shape(mine, Cons(Out(1), B))
    <3>1. CASE Writer(mine) /\ mine.op = "write_file" /\ rest = FromCreate
      <4>1. OfWriteFile(mine, Cons(Out(1), B))
        BY <2>3, <3>1 DEF OfWriteFile
      <4> QED BY <3>1, <4>1 DEF Shape, Writer
    <3>2. CASE MOUNTED /\ mine.op = "remove_file" /\ \E n \in 1 .. Len(NODES) : rest = FromForget(n)
      <4>1. OfRemoveFile(Cons(Out(1), B))
        BY <2>3, <3>2 DEF OfRemoveFile
      <4> QED BY <3>2, <4>1 DEF Shape
    <3> QED BY <1>3, <3>1, <3>2 DEF AfterRemove
  <2>5. Continues(Cons(Out(1), B))
    BY <1>1, <1>4, <1>7, <2>2, <2>4, LeftGoes
  <2> QED BY <1>3, <1>4, <1>7, <2>1, <2>5, Stays DEF B
<1> QED BY <1>5, <1>6, <1>7

\* The pieces of the data, the first or the next one.
LEMMA PieceGoes ==
  ASSUME NEW c \in CallRecord, c.data # <<>>, EndOf(c) <= MAX_FILE_SIZE, NEW i \in Inode,
         NEW n \in Index, Reaches(c, n), NEW have, NEW rest \in Seq(Step)
  PROVE  /\ Piece(i, n, c.offset, Len(c.data), have) \in Seq(Step)
         /\ Piece(i, n, c.offset, Len(c.data), have) \o FromGrow(c, i, rest) \in InPieces(c, i, rest)
<1>1. FromGrow(c, i, rest) \in Seq(Step)
  BY WriteLists
<1>2. Piece(i, n, c.offset, Len(c.data), have) \o FromGrow(c, i, rest) \in
        {FromStore(c, i, n, rest), Cons(At("fetch", i, n), FromStore(c, i, n, rest)),
         Cons(Just("clear"), FromStore(c, i, n, rest))}
  BY <1>1, PieceSteps DEF FromStore
<1> QED BY <1>1, <1>2, PieceSteps, PieceHeads

LEMMA Regroup ==
  ASSUME NEW a \in Seq(Step), NEW b \in Seq(Step), NEW d \in Seq(Step), NEW e \in Seq(Step), NEW r \in Seq(Step)
  PROVE  /\ (((a \o b) \o d) \o e) \o r = a \o (b \o ((d \o e) \o r))
         /\ ((a \o b) \o d) \o e \in Seq(Step)
<1>0. \A x, y \in Seq(Step) : x \o y \in Seq(Step)
  OBVIOUS
<1> DEFINE J(x, y) == x \o y
<1>1. ASSUME NEW x \in Seq(Step), NEW y \in Seq(Step), NEW z \in Seq(Step)
      PROVE  J(x, y) \in Seq(Step) /\ J(J(x, y), z) = J(x, J(y, z))
  <2>1. x \o y \in Seq(Step)
    BY <1>0, Zenon
  <2>2. \A v, w \in Seq(Step) : (x \o v) \o w = x \o (v \o w)
    BY Associative, Zenon
  <2>3. (x \o y) \o z = x \o (y \o z)
    BY <2>2, Zenon
  <2> QED BY <2>1, <2>3, Zenon
<1> HIDE DEF J
<1>2. J(a, b) \in Seq(Step) /\ J(d, e) \in Seq(Step)
  BY <1>1
<1>3. J(J(a, b), d) \in Seq(Step) /\ J(J(d, e), r) \in Seq(Step)
  BY <1>1, <1>2
<1>4. J(J(J(a, b), d), e) = J(J(a, b), J(d, e)) /\ J(J(J(a, b), d), e) \in Seq(Step)
  BY <1>1, <1>2, <1>3
<1>5. J(J(J(a, b), J(d, e)), r) = J(J(a, b), J(J(d, e), r))
  BY <1>1, <1>2
<1>6. J(J(a, b), J(J(d, e), r)) = J(a, J(b, J(J(d, e), r)))
  BY <1>1, <1>3
<1>7. J(J(J(J(a, b), d), e), r) = J(a, J(b, J(J(d, e), r)))
  BY <1>4, <1>5, <1>6
<1> QED BY <1>4, <1>7, Zenon DEF J

LEMMA FlowWrite ==
  ASSUME Sole, StorageTypes, Write(me)
  PROVE  \E i \in Inode :
           /\ Writer(mine) /\ todo = Cons(On("write", i), Last(mine.op))
           /\ \/ MayFail(me) /\ UNCHANGED cache /\ Continues(<<>>) /\ mine' = Idle
              \/ /\ INODES[i].kind = "file" /\ EndOf(mine) <= MAX_FILE_SIZE
                 /\ Cardinality(Missing(INODES[i], EndOf(mine))) <= Cardinality(FreeBlocks)
                 /\ alloc_blocks(i, EndOf(mine)) /\ mine' = mine
                 /\ \E s \in InPieces(mine, i, Last(mine.op)) :
                      /\ Continues(s) /\ todo' = s
                      /\ s = Piece(i, mine.offset \div BLOCK_SIZE, mine.offset, Len(mine.data), block_count(INODES[i].size))
                               \o FromGrow(mine, i, Last(mine.op))
<1>1. mine \in CallRecord /\ todo \in Seq(Step) /\ Shape(mine, todo) /\ todo # <<>> /\ Head(todo).do = "write"
  BY CallTyped DEF Write, Now, First, todo
<1>2. AtWrite(mine, todo)
  BY <1>1, PlaceOf
<1>3. PICK i \in Inode : Writer(mine) /\ todo = Cons(On("write", i), Last(mine.op))
  BY <1>2 DEF AtWrite
<1> DEFINE rest == Last(mine.op)  end == EndOf(mine)  n == mine.offset \div BLOCK_SIZE
           P == Piece(i, n, mine.offset, Len(mine.data), block_count(INODES[i].size))
           G == <<Grows(i, end)>>
<1>4. rest \in Seq(Step) /\ mine.data # <<>>
  BY <1>1, <1>3, WriterShapes
<1>5. Tail(todo) = rest /\ First(me).inode = i
  <2>1. First(me) = On("write", i) /\ Tail(todo) = rest
    BY <1>3, <1>4, ConsFacts DEF First, todo
  <2> QED BY <2>1 DEF On
<1>6. end \in Nat /\ MAX_FILE_SIZE \in Nat
  BY <1>1, Sizes DEF EndOf, CallRecord
<1>7. \/ MayFail(me) /\ Failed(me) /\ UNCHANGED cache
      \/ /\ INODES[i].kind = "file" /\ ~(end > MAX_FILE_SIZE)
         /\ ~(Cardinality(Missing(INODES[i], end)) > Cardinality(FreeBlocks))
         /\ alloc_blocks(i, end)
         /\ Left(me, WriteSteps(i, mine.offset, Len(mine.data), block_count(INODES[i].size)))
  <2>1. mine.offset + Len(mine.data) = end
    BY DEF EndOf
  <2> HIDE DEF end
  <2> QED BY <1>5, <2>1 DEF Write, mine
<1>8. CASE MayFail(me) /\ Failed(me) /\ UNCHANGED cache
  BY <1>3, <1>8, FailedGoes
<1>9. CASE /\ INODES[i].kind = "file" /\ ~(end > MAX_FILE_SIZE)
           /\ ~(Cardinality(Missing(INODES[i], end)) > Cardinality(FreeBlocks))
           /\ alloc_blocks(i, end)
           /\ Left(me, WriteSteps(i, mine.offset, Len(mine.data), block_count(INODES[i].size)))
  <2>1. end <= MAX_FILE_SIZE
    BY <1>6, <1>9
  <2>2. n \in Index /\ Reaches(mine, n)
    BY <1>1, <1>4, <2>1, FirstReached
  <2>3. P \in Seq(Step) /\ P \o FromGrow(mine, i, rest) \in InPieces(mine, i, rest)
    BY <1>1, <1>4, <2>1, <2>2, PieceGoes
  <2>4. WriteSteps(i, mine.offset, Len(mine.data), block_count(INODES[i].size))
          = ((P \o G) \o flush_inodes) \o flush_bitmap
    BY DEF WriteSteps, Grows, EndOf
  <2> HIDE DEF P
  <2>5. /\ G \in Seq(Step) /\ flush_inodes \in Seq(Step) /\ flush_bitmap \in Seq(Step)
        /\ Grows(i, end) \in Step
    <3>1. Grows(i, end) \in Step
      BY <1>6, StepTypes
    <3> QED BY <3>1, <1>4, FlushLists
  <2>6. ASSUME NEW a \in Seq(Step), NEW b \in Seq(Step), NEW d \in Seq(Step), NEW e \in Seq(Step), NEW r \in Seq(Step)
        PROVE  /\ (((a \o b) \o d) \o e) \o r = a \o (b \o ((d \o e) \o r))
               /\ ((a \o b) \o d) \o e \in Seq(Step)
    BY Regroup
  <2> HIDE DEF G, rest
  <2> DEFINE W == ((P \o G) \o flush_inodes) \o flush_bitmap
  <2>7. W \o rest = P \o (G \o ((flush_inodes \o flush_bitmap) \o rest)) /\ W \in Seq(Step)
    BY <1>4, <2>3, <2>5, <2>6
  <2> HIDE DEF W
  <2>8. G \o ((flush_inodes \o flush_bitmap) \o rest) = FromGrow(mine, i, rest)
    BY <1>4, FlushLists DEF FromGrow, Cons, G, rest
  <2>9. W \o rest \in InPieces(mine, i, rest)
    BY <2>3, <2>7, <2>8
  <2>10. Left(me, W)
    BY <1>9, <2>4 DEF W
  <2>11. W \o rest \in InWrite(mine, i, rest)
    BY <1>1, <1>4, <2>9, PieceHeads
  <2>12. Shape(mine, W \o rest)
    BY <1>1, <1>3, <2>11, WriterShapes DEF rest
  <2>13. Continues(W \o rest)
    BY <1>1, <1>5, <2>7, <2>10, <2>12, LeftGoes
  <2>14. W \o rest # <<>>
    <3>1. Len(W \o rest) = Len(W) + Len(rest) /\ Len(W) = Len(P) + 1 + 1 + 1
      <4>1. Len(G) = 1 /\ Len(flush_inodes) = 1 /\ Len(flush_bitmap) = 1
        BY <1>4, FlushLists DEF G
      <4>2. P \o G \in Seq(Step) /\ (P \o G) \o flush_inodes \in Seq(Step)
        BY <2>3, <2>5
      <4>3. Len(P \o G) = Len(P) + Len(G)
        BY <2>3, <2>5
      <4>4. Len((P \o G) \o flush_inodes) = Len(P \o G) + Len(flush_inodes)
        BY <4>2, <2>5
      <4>5. Len(W) = Len((P \o G) \o flush_inodes) + Len(flush_bitmap)
        BY <4>2, <2>5 DEF W
      <4>6. Len(W \o rest) = Len(W) + Len(rest)
        BY <2>7, <1>4
      <4> HIDE DEF G
      <4> QED BY <4>1, <4>3, <4>4, <4>5, <4>6, <2>3
    <3>2. Len(P) \in Nat /\ Len(rest) \in Nat
      BY <2>3, <1>4
    <3> QED BY <3>1, <3>2
  <2>15. mine' = mine /\ todo' = W \o rest /\ W \o rest = P \o FromGrow(mine, i, rest)
    BY <2>7, <2>8, <2>13, <2>14 DEF Continues, Leaves
  <2>16. Cardinality(Missing(INODES[i], end)) <= Cardinality(FreeBlocks)
    <3>1. ASSUME NEW x, NEW y, x = Cardinality(Missing(INODES[i], end)), y = Cardinality(FreeBlocks),
                 x \in Nat, y \in Nat
          PROVE  x <= y
      BY <1>9, <3>1
    <3>2. Cardinality(Missing(INODES[i], end)) \in Nat
      <4>1. \A a, b \in Int : IsFiniteSet(a .. b)
        BY FS_Interval
      <4>2. block_count(INODES[i].size) \in Int /\ block_count(end) \in Int
        <5>1. INODES[i].size \in Nat
          BY Sizes DEF StorageTypes, DataTypes, InodeTable, InodeRecord
        <5> QED BY <1>6, <5>1, Counts
      <4> DEFINE x == block_count(INODES[i].size)  y == block_count(end) - 1
      <4>3. x \in Int /\ y \in Int /\ Missing(INODES[i], end) = x .. y
        BY <4>2 DEF Missing
      <4> HIDE DEF x, y
      <4> QED BY <4>1, <4>3, FS_CardinalityType
    <3>3. Cardinality(FreeBlocks) \in Nat
      <4>1. IsFiniteSet(Block)
        BY FS_Interval, Sizes DEF Block
      <4>2. IsFiniteSet(FreeBlocks)
        BY <4>1, FS_Subset DEF FreeBlocks
      <4> QED BY <4>2, FS_CardinalityType
    <3> QED BY <3>1, <3>2, <3>3
  <2> QED BY <1>3, <1>9, <2>1, <2>9, <2>13, <2>15, <2>16 DEF rest, P
<1> QED BY <1>7, <1>8, <1>9

\* Of a call that writes: what comes first of a piece, and what is left then.
LEMMA PieceTails ==
  ASSUME NEW c \in CallRecord, Writer(c), NEW i \in Inode, NEW s \in InPieces(c, i, Last(c.op)), NEW w, Head(s).do = w
  PROVE  /\ w = "grow" => s = FromGrow(c, i, Last(c.op)) /\ Head(s) = Grows(i, EndOf(c))
                          /\ Tail(s) = Cons(Out(1), Cons(Just("bitmap"), Last(c.op)))
         /\ w = "store" => \E n \in Index : /\ Reaches(c, n) /\ s = FromStore(c, i, n, Last(c.op))
                                            /\ Head(s) = StoreOf(c, i, n) /\ Tail(s) = FromGrow(c, i, Last(c.op))
         /\ w = "fetch" => \E n \in Index : /\ Reaches(c, n) /\ Head(s) = At("fetch", i, n)
                                            /\ Tail(s) = FromStore(c, i, n, Last(c.op))
         /\ w = "clear" => \E n \in Index : /\ Reaches(c, n) /\ Head(s) = Just("clear")
                                            /\ Tail(s) = FromStore(c, i, n, Last(c.op))
<1> DEFINE rest == Last(c.op)
<1>1. rest \in Seq(Step) /\ c.data # <<>>
  BY WriterShapes
<1> HIDE DEF rest
<1>2. /\ FromGrow(c, i, rest) \in Seq(Step) /\ Cons(Out(1), Cons(Just("bitmap"), rest)) \in Seq(Step)
      /\ \A n \in Index : Reaches(c, n) => FromStore(c, i, n, rest) \in Seq(Step)
  BY <1>1, WriteLists, Lists, ChunkNumbers
<1>3. /\ Head(FromGrow(c, i, rest)) = Grows(i, EndOf(c))
      /\ Tail(FromGrow(c, i, rest)) = Cons(Out(1), Cons(Just("bitmap"), rest))
  BY <1>2, ConsFacts, Zenon DEF FromGrow
<1>4. ASSUME NEW n \in Index, Reaches(c, n)
      PROVE  /\ Head(FromStore(c, i, n, rest)) = StoreOf(c, i, n)
             /\ Tail(FromStore(c, i, n, rest)) = FromGrow(c, i, rest)
             /\ Head(Cons(At("fetch", i, n), FromStore(c, i, n, rest))) = At("fetch", i, n)
             /\ Tail(Cons(At("fetch", i, n), FromStore(c, i, n, rest))) = FromStore(c, i, n, rest)
             /\ Head(Cons(Just("clear"), FromStore(c, i, n, rest))) = Just("clear")
             /\ Tail(Cons(Just("clear"), FromStore(c, i, n, rest))) = FromStore(c, i, n, rest)
  <2>1. Head(FromStore(c, i, n, rest)) = StoreOf(c, i, n) /\ Tail(FromStore(c, i, n, rest)) = FromGrow(c, i, rest)
    BY <1>2, ConsFacts, Zenon DEF FromStore
  <2>2. FromStore(c, i, n, rest) \in Seq(Step)
    BY <1>2, <1>4
  <2> QED BY <2>1, <2>2, ConsFacts
<1>5. \/ s = FromGrow(c, i, rest) /\ w = "grow"
      \/ \E n \in Index : /\ Reaches(c, n)
                          /\ \/ s = FromStore(c, i, n, rest) /\ w = "store"
                             \/ s = Cons(At("fetch", i, n), FromStore(c, i, n, rest)) /\ w = "fetch"
                             \/ s = Cons(Just("clear"), FromStore(c, i, n, rest)) /\ w = "clear"
  BY <1>1, PieceHeads DEF rest
<1> QED BY <1>3, <1>4, <1>5 DEF rest

\* A step of a piece that leaves another one.
LEMMA PieceContinues ==
  ASSUME Sole, StorageTypes, Writer(mine), NEW i \in Inode, NEW s \in InPieces(mine, i, Last(mine.op)),
         NEW before \in Seq(Step), todo # <<>>, Left(me, before), s = before \o Tail(todo)
  PROVE  Continues(s) /\ mine' = mine /\ todo' = s
<1>1. mine \in CallRecord /\ todo \in Seq(Step)
  BY CallTyped
<1>2. Last(mine.op) \in Seq(Step) /\ mine.data # <<>>
  BY <1>1, WriterShapes
<1>3. s \in InWrite(mine, i, Last(mine.op))
  BY <1>1, <1>2, PieceHeads
<1>4. Shape(mine, s)
  BY <1>1, <1>3, WriterShapes
<1>5. Continues(s)
  BY <1>4, LeftGoes
<1>6. s # <<>>
  <2>1. FromGrow(mine, i, Last(mine.op)) # <<>>
    BY <1>1, <1>2, Lists, ChunkNumbers, ConsFacts DEF FromGrow
  <2>2. \A n \in Index : Reaches(mine, n) =>
          FromStore(mine, i, n, Last(mine.op)) \in Seq(Step) /\ FromStore(mine, i, n, Last(mine.op)) # <<>>
    BY <1>1, <1>2, WriteLists, ConsFacts DEF FromStore
  <2>3. \/ s = FromGrow(mine, i, Last(mine.op))
        \/ \E n \in Index : /\ Reaches(mine, n)
                            /\ \/ s = FromStore(mine, i, n, Last(mine.op))
                               \/ s = Cons(At("fetch", i, n), FromStore(mine, i, n, Last(mine.op)))
                               \/ s = Cons(Just("clear"), FromStore(mine, i, n, Last(mine.op)))
    BY DEF InPieces
  <2>4. ASSUME NEW n \in Index, Reaches(mine, n)
        PROVE  /\ Cons(At("fetch", i, n), FromStore(mine, i, n, Last(mine.op))) # <<>>
               /\ Cons(Just("clear"), FromStore(mine, i, n, Last(mine.op))) # <<>>
    BY <2>2, <2>4, ConsFacts
  <2> QED BY <2>1, <2>2, <2>3, <2>4
<1> QED BY <1>5, <1>6 DEF Continues, Leaves

\* A block is read for a write or for a read.
LEMMA FlowFetch ==
  ASSUME Sole, StorageTypes, Fetch(me)
  PROVE  \E i \in Inode, n \in Index :
           /\ First(me) = At("fetch", i, n) /\ mine' = mine
           /\ \/ /\ Writer(mine) /\ Reaches(mine, n) /\ todo \in InPieces(mine, i, Last(mine.op))
                 /\ FromStore(mine, i, n, Last(mine.op)) \in InPieces(mine, i, Last(mine.op))
                 /\ Continues(FromStore(mine, i, n, Last(mine.op)))
              \/ MOUNTED /\ mine.op = "read" /\ Continues(FromTake(i, n))
<1>1. mine \in CallRecord /\ todo \in Seq(Step) /\ Shape(mine, todo) /\ todo # <<>> /\ Head(todo).do = "fetch"
      /\ Done(me) /\ First(me) = Head(todo)
  BY CallTyped DEF Fetch, Now, First, todo
<1>2. CASE AtPiece(mine, todo)
  <2>1. PICK i \in Inode : Writer(mine) /\ todo \in InPieces(mine, i, Last(mine.op))
    BY <1>2 DEF AtPiece
  <2>2. PICK n \in Index : /\ Reaches(mine, n) /\ Head(todo) = At("fetch", i, n)
                           /\ Tail(todo) = FromStore(mine, i, n, Last(mine.op))
    BY <1>1, <2>1, PieceTails
  <2>3. Last(mine.op) \in Seq(Step) /\ mine.data # <<>>
    BY <1>1, <2>1, WriterShapes
  <2>4. FromStore(mine, i, n, Last(mine.op)) \in InPieces(mine, i, Last(mine.op))
    BY <1>1, <2>1, <2>2, <2>3, PieceHeads
  <2>5. <<>> \in Seq(Step) /\ <<>> \o Tail(todo) = Tail(todo)
    BY <1>1
  <2>6. Continues(FromStore(mine, i, n, Last(mine.op))) /\ mine' = mine
    BY <1>1, <2>1, <2>2, <2>4, <2>5, PieceContinues DEF Done
  <2> QED BY <1>1, <2>1, <2>2, <2>4, <2>6
<1>3. CASE AtRead(mine, todo)
  <2>1. PICK i \in Inode, n \in Index : todo = Cons(At("fetch", i, n), FromTake(i, n)) \/ todo = FromTake(i, n)
    BY <1>3 DEF AtRead, OfRead
  <2>2. FromTake(i, n) \in Seq(Step) /\ todo # FromTake(i, n)
    BY <1>1, Lists, ListHeads
  <2>3. todo = Cons(At("fetch", i, n), FromTake(i, n)) /\ Head(todo) = At("fetch", i, n)
    BY <2>1, <2>2, ConsFacts
  <2>4. Shape(mine, FromTake(i, n))
    BY <1>3 DEF AtRead, Shape, OfRead
  <2>5. Continues(FromTake(i, n))
    BY <1>1, <2>2, <2>3, <2>4, DoneGoes
  <2>6. mine' = mine
    <3>1. Continues(Cons(At("take", i, n), <<>>)) /\ <<>> \in Seq(Step)
      BY <2>5 DEF FromTake
    <3> QED BY <3>1, Stays
  <2> QED BY <1>1, <1>3, <2>3, <2>5, <2>6 DEF AtRead
<1> QED BY <1>1, <1>2, <1>3, PlaceOf

LEMMA FlowClear ==
  ASSUME Sole, StorageTypes, Clear(me)
  PROVE  \E i \in Inode, n \in Index :
           /\ Writer(mine) /\ Reaches(mine, n) /\ todo \in InPieces(mine, i, Last(mine.op)) /\ mine' = mine
           /\ FromStore(mine, i, n, Last(mine.op)) \in InPieces(mine, i, Last(mine.op))
           /\ Continues(FromStore(mine, i, n, Last(mine.op)))
<1>1. mine \in CallRecord /\ todo \in Seq(Step) /\ Shape(mine, todo) /\ todo # <<>> /\ Head(todo).do = "clear"
      /\ Done(me) /\ First(me) = Head(todo)
  BY CallTyped DEF Clear, Now, First, todo
<1>2. PICK i \in Inode : Writer(mine) /\ todo \in InPieces(mine, i, Last(mine.op))
  BY <1>1, PlaceOf DEF AtPiece
<1>3. PICK n \in Index : Reaches(mine, n) /\ Tail(todo) = FromStore(mine, i, n, Last(mine.op))
  BY <1>1, <1>2, PieceTails
<1>4. Last(mine.op) \in Seq(Step) /\ mine.data # <<>>
  BY <1>1, <1>2, WriterShapes
<1>5. FromStore(mine, i, n, Last(mine.op)) \in InPieces(mine, i, Last(mine.op))
  BY <1>1, <1>2, <1>3, <1>4, PieceHeads
<1>6. <<>> \in Seq(Step) /\ <<>> \o Tail(todo) = Tail(todo)
  BY <1>1
<1>7. Continues(FromStore(mine, i, n, Last(mine.op))) /\ mine' = mine
  BY <1>1, <1>2, <1>3, <1>5, <1>6, PieceContinues DEF Done
<1> QED BY <1>2, <1>3, <1>5, <1>7

LEMMA FlowStore ==
  ASSUME Sole, StorageTypes, Store(me)
  PROVE  \E i \in Inode, n \in Index :
           /\ First(me) = StoreOf(mine, i, n) /\ Reaches(mine, n) /\ Writer(mine) /\ mine' = mine
           /\ todo \in InPieces(mine, i, Last(mine.op))
           /\ \E s \in InPieces(mine, i, Last(mine.op)) :
                /\ Continues(s) /\ todo' = s
                /\ s = IF (n + 1) * BLOCK_SIZE < EndOf(mine)
                       THEN Piece(i, n + 1, mine.offset, Len(mine.data), block_count(INODES[i].size))
                              \o FromGrow(mine, i, Last(mine.op))
                       ELSE FromGrow(mine, i, Last(mine.op))
<1>1. mine \in CallRecord /\ todo \in Seq(Step) /\ Shape(mine, todo) /\ todo # <<>> /\ Head(todo).do = "store"
      /\ First(me) = Head(todo)
  <2>1. Now(me, "store")
    BY DEF Store
  <2> QED BY <2>1, CallTyped DEF Now, First, todo
<1>2. PICK i \in Inode : Writer(mine) /\ todo \in InPieces(mine, i, Last(mine.op))
  BY <1>1, PlaceOf DEF AtPiece
<1> DEFINE rest == Last(mine.op)
<1>3. PICK n \in Index : /\ Reaches(mine, n) /\ Head(todo) = StoreOf(mine, i, n)
                         /\ Tail(todo) = FromGrow(mine, i, rest)
  BY <1>1, <1>2, PieceTails
<1>4. rest \in Seq(Step) /\ mine.data # <<>>
  BY <1>1, <1>2, WriterShapes
<1>5. EndOf(mine) <= MAX_FILE_SIZE
  BY <1>1, <1>2, <1>4, PieceHeads
<1>6. First(me).nth = n /\ First(me).inode = i
  BY <1>1, <1>3 DEF StoreOf, Stores
<1> DEFINE P == Piece(i, n + 1, mine.offset, Len(mine.data), block_count(INODES[i].size))
<1>7. Left(me, IF (n + 1) * BLOCK_SIZE < EndOf(mine) THEN P ELSE <<>>)
  BY <1>6 DEF Store, mine, EndOf
<1>8. CASE (n + 1) * BLOCK_SIZE < EndOf(mine)
  <2>1. n + 1 \in Index /\ Reaches(mine, n + 1)
    BY <1>1, <1>3, <1>4, <1>5, <1>8, FirstReached
  <2>2. P \in Seq(Step) /\ P \o FromGrow(mine, i, rest) \in InPieces(mine, i, rest)
    BY <1>1, <1>4, <1>5, <2>1, PieceGoes
  <2> HIDE DEF P
  <2>3. Left(me, P)
    BY <1>7, <1>8
  <2>4. Continues(P \o FromGrow(mine, i, rest)) /\ mine' = mine /\ todo' = P \o FromGrow(mine, i, rest)
    BY <1>1, <1>2, <1>3, <2>2, <2>3, PieceContinues
  <2> QED BY <1>1, <1>2, <1>3, <1>8, <2>2, <2>4 DEF P
<1>9. CASE ~((n + 1) * BLOCK_SIZE < EndOf(mine))
  <2>1. Left(me, <<>>)
    BY <1>7, <1>9
  <2>2. FromGrow(mine, i, rest) \in InPieces(mine, i, rest)
    BY <1>1, <1>4, <1>5, PieceHeads
  <2>3. <<>> \in Seq(Step) /\ <<>> \o Tail(todo) = Tail(todo)
    BY <1>1
  <2>4. Continues(FromGrow(mine, i, rest)) /\ mine' = mine /\ todo' = FromGrow(mine, i, rest)
    BY <1>1, <1>2, <1>3, <2>1, <2>2, <2>3, PieceContinues
  <2> QED BY <1>1, <1>2, <1>3, <1>9, <2>2, <2>4
<1> QED BY <1>8, <1>9

LEMMA FlowGrow ==
  ASSUME Sole, StorageTypes, Grow(me)
  PROVE  \E i \in Inode :
           /\ First(me) = Grows(i, EndOf(mine)) /\ Writer(mine) /\ mine' = mine /\ EndOf(mine) <= MAX_FILE_SIZE
           /\ todo \in InPieces(mine, i, Last(mine.op)) /\ todo = FromGrow(mine, i, Last(mine.op))
           /\ Continues(Cons(Out(1), Cons(Just("bitmap"), Last(mine.op))))
<1>1. mine \in CallRecord /\ todo \in Seq(Step) /\ Shape(mine, todo) /\ todo # <<>> /\ Head(todo).do = "grow"
      /\ Done(me) /\ First(me) = Head(todo)
  BY CallTyped DEF Grow, Now, First, todo
<1>2. PICK i \in Inode : Writer(mine) /\ todo \in InPieces(mine, i, Last(mine.op))
  BY <1>1, PlaceOf DEF AtPiece
<1> DEFINE rest == Last(mine.op)
<1>3. /\ todo = FromGrow(mine, i, rest) /\ Head(todo) = Grows(i, EndOf(mine))
  BY <1>1, <1>2, PieceTails
<1>4. rest \in Seq(Step) /\ mine.data # <<>>
  BY <1>1, <1>2, WriterShapes
<1>5. EndOf(mine) <= MAX_FILE_SIZE
  BY <1>1, <1>2, <1>4, PieceHeads
<1> DEFINE B == Cons(Just("bitmap"), rest)  O == Cons(Out(1), B)
<1>6. B \in Seq(Step) /\ O \in Seq(Step)
  BY <1>4, Lists, ChunkNumbers, Zenon
<1>7. O \in FlushBoth(rest)
  BY <1>4, FlushHeads, ChunkNumbers
<1>8. Shape(mine, O)
  BY <1>1, <1>2, <1>7, WriterShapes
<1>9. todo = Cons(Grows(i, EndOf(mine)), O)
  BY <1>3 DEF FromGrow
<1> HIDE DEF O
<1>10. Continues(O)
  BY <1>1, <1>6, <1>8, <1>9, DoneGoes
<1>11. mine' = mine
  BY <1>6, <1>10, Stays DEF O
<1> QED BY <1>1, <1>2, <1>3, <1>5, <1>10, <1>11 DEF O

\* The last steps of a call.
LEMMA FlowLast ==
  ASSUME Sole, StorageTypes, todo # <<>>, Done(me)
  PROVE  /\ Now(me, "take") \/ Now(me, "attach") \/ Now(me, "refresh") \/ Now(me, "advance") \/ Now(me, "forget")
              => Continues(<<>>) /\ mine' = Idle /\ todo' = <<>>
         /\ Now(me, "attach") => MOUNTED /\ mine.op = "create_file"
              /\ \E i \in Inode : First(me) = On("attach", i) /\ todo = FromAttach(i)
         /\ Now(me, "refresh") => Writer(mine) /\ mine.op = "write_file" /\ todo = Last("write_file")
         /\ Now(me, "advance") => Writer(mine) /\ mine.op = "write_at" /\ todo = Last("write_at")
         /\ Now(me, "forget") => MOUNTED /\ mine.op = "remove_file"
              /\ \E n \in 1 .. Len(NODES) : First(me) = Forgets(n) /\ todo = FromForget(n)
<1>1. mine \in CallRecord /\ todo \in Seq(Step) /\ Shape(mine, todo) /\ First(me) = Head(todo)
  BY CallTyped DEF First, todo
<1>2. \A do : Now(me, do) <=> Head(todo).do = do
  BY <1>1 DEF Now, First, todo
<1>3. <<>> \in Seq(Step)
  OBVIOUS
<1>4. CASE Now(me, "take")
  <2>1. AtRead(mine, todo) /\ Head(todo).do = "take"
    BY <1>1, <1>2, <1>4, PlaceOf
  <2>2. \A i \in Inode, n \in Index : Head(Cons(At("fetch", i, n), FromTake(i, n))).do = "fetch"
    BY Lists, HeadDo
  <2>3. PICK i \in Inode, n \in Index : todo = Cons(At("take", i, n), <<>>)
    BY <2>1, <2>2 DEF AtRead, OfRead, FromTake
  <2> QED BY <1>2, <1>4, <2>3, LastGoes
<1>5. CASE Now(me, "attach")
  <2>1. AtAttach(mine, todo) /\ Head(todo).do = "attach"
    BY <1>1, <1>2, <1>5, PlaceOf
  <2>2. PICK i \in Inode : todo = FromAttach(i)
    BY <2>1 DEF AtAttach
  <2>3. First(me) = On("attach", i)
    BY <1>1, <1>3, <2>2, ConsFacts DEF FromAttach
  <2> QED BY <1>2, <1>5, <2>1, <2>2, <2>3, LastGoes DEF FromAttach, AtAttach
<1>6. CASE Now(me, "refresh")
  <2>1. AtLast(mine, todo) /\ mine.op = "write_file" /\ Head(todo).do = "refresh"
    BY <1>1, <1>2, <1>6, PlaceOf
  <2>2. todo = Last("write_file") /\ todo = Cons(Just("refresh"), <<>>)
    BY <2>1, Lists DEF AtLast
  <2> QED BY <1>2, <1>6, <2>1, <2>2, LastGoes DEF AtLast
<1>7. CASE Now(me, "advance")
  <2>1. AtLast(mine, todo) /\ mine.op = "write_at" /\ Head(todo).do = "advance"
    BY <1>1, <1>2, <1>7, PlaceOf
  <2>2. todo = Last("write_at") /\ todo = Cons(Just("advance"), <<>>)
    BY <2>1, Lists DEF AtLast
  <2> QED BY <1>2, <1>7, <2>1, <2>2, LastGoes DEF AtLast
<1>8. CASE Now(me, "forget")
  <2>1. AtForget(mine, todo) /\ Head(todo).do = "forget"
    BY <1>1, <1>2, <1>8, PlaceOf
  <2>2. PICK n \in 1 .. Len(NODES) : todo = FromForget(n)
    BY <2>1 DEF AtForget
  <2>3. First(me) = Forgets(n)
    BY <1>1, <1>3, <2>2, ConsFacts DEF FromForget
  <2> QED BY <1>2, <1>8, <2>1, <2>2, <2>3, LastGoes DEF FromForget, AtForget
<1> QED BY <1>4, <1>5, <1>6, <1>7, <1>8

LEMMA FlowSuper ==
  ASSUME Sole, StorageTypes, WriteSuper(me)
  PROVE  /\ ~MOUNTED /\ ~disk.formatted /\ mine.op = "format" /\ todo = FromSuper
         /\ Leaves(Directories(1)) /\ job' \in [User -> [call : CallRecord, steps : Seq(Step)]]
<1>1. mine \in CallRecord /\ todo \in Seq(Step) /\ Shape(mine, todo) /\ todo # <<>> /\ Head(todo).do = "super" /\ Done(me)
  BY CallTyped DEF WriteSuper, Now, First, todo
<1>2. AtSuper(mine, todo)
  BY <1>1, PlaceOf
<1>3. Tail(todo) = Directories(1)
  BY <1>2, Lists, ConsFacts DEF AtSuper, FromSuper
<1>4. <<>> \in Seq(Step) /\ <<>> \o Tail(todo) = Tail(todo)
  BY <1>1
<1> QED BY <1>1, <1>2, <1>3, <1>4, Effect DEF AtSuper, Done

------------------------------------------------------------------------------
(* Walks through the table *)

\* Where the names of a path lead, one after the other.
Enter(table, dir, name) ==
  IF dir = NoInode \/ table[dir].kind # "dir" THEN NoInode ELSE child_of(table, dir, name)
Walk(table, path, at) ==
  /\ at \in [0 .. Len(path) -> Inode \union {NoInode}] /\ at[0] = ROOT_INODE
  /\ \A n \in 1 .. Len(path) : at[n] = Enter(table, at[n - 1], path[n])

\* What child_of finds is in that directory.
LEMMA ChildOf ==
  ASSUME NEW table \in InodeTable, NEW dir, NEW name
  PROVE  LET c == child_of(table, dir, name)
         IN  /\ c = NoInode \/ (/\ c \in Inode \ {ROOT_INODE} /\ table[c].kind # "free"
                                /\ table[c].parent = dir /\ table[c].name = name)
             /\ c = NoInode => \A i \in Inode \ {ROOT_INODE} :
                  table[i].kind = "free" \/ table[i].parent # dir \/ table[i].name # name
             /\ c \in Inode \union {NoInode}
<1> DEFINE C == {i \in Inode \ {ROOT_INODE} : table[i].kind # "free" /\ table[i].parent = dir /\ table[i].name = name}
<1>1. C \subseteq Nat
  BY Sizes DEF Inode
<1>2. C # {} => Lowest(C) \in C
  BY <1>1, LowestIn
<1>3. child_of(table, dir, name) = IF C = {} THEN NoInode ELSE Lowest(C)
  BY DEF child_of
<1>4. \A i \in Inode : i # NoInode
  BY Sizes DEF Inode, NoInode
<1> DEFINE c == child_of(table, dir, name)
<1>5. CASE C = {}
  <2>1. c = NoInode
    BY <1>3, <1>5
  <2> HIDE DEF c
  <2>2. \A i \in Inode \ {ROOT_INODE} : table[i].kind = "free" \/ table[i].parent # dir \/ table[i].name # name
    BY <1>5
  <2> QED BY <2>1, <2>2 DEF c
<1>6. CASE C # {}
  <2>1. c \in C
    BY <1>2, <1>3, <1>6
  <2> HIDE DEF c
  <2>2. c \in Inode \ {ROOT_INODE} /\ table[c].kind # "free" /\ table[c].parent = dir /\ table[c].name = name
    BY <2>1
  <2>3. c # NoInode
    BY <1>4, <2>2
  <2> QED BY <2>2, <2>3 DEF c
<1> QED BY <1>5, <1>6

LEMMA EnterType ==
  ASSUME NEW table \in InodeTable, NEW dir \in Inode \union {NoInode}, NEW name
  PROVE  Enter(table, dir, name) \in Inode \union {NoInode}
BY ChildOf DEF Enter

\* The walk that resolve makes.
LEMMA ResolveWalk ==
  ASSUME NEW table \in InodeTable, NEW path \in Seq(Word), Len(path) <= MAX_DEPTH
  PROVE  \E at : Walk(table, path, at) /\ resolve(table, path) = at[Len(path)]
<1> DEFINE N == Len(path)  V == Inode \union {NoInode}
           G == [n \in 1 .. N |-> [v \in V |-> Enter(table, v, path[n])]]
           at[n \in 0 .. N] == IF n = 0 THEN ROOT_INODE ELSE Enter(table, at[n - 1], path[n])
<1>1. N \in Nat /\ 0 \in 0 .. N /\ N \in 0 .. N /\ ROOT_INODE \in V
  BY Sizes DEF Inode, ROOT_INODE
<1>2. G \in [1 .. N -> [V -> V]]
  BY EnterType
<1>3. \A n \in 1 .. N : \A v \in V : G[n][v] = Enter(table, v, path[n])
  OBVIOUS
<1>4. \A n \in 0 .. N : n # 0 => n \in 1 .. N /\ n - 1 \in 0 .. N
  BY <1>1
<1> HIDE DEF G, V
<1>5. PICK f : Follows(f, N, V, ROOT_INODE, G)
  BY <1>1, <1>2, RecursiveFunction
<1>6. f = [n \in 0 .. N |-> IF n = 0 THEN ROOT_INODE ELSE Enter(table, f[n - 1], path[n])]
  <2>1. \A n \in 0 .. N : f[n] = IF n = 0 THEN ROOT_INODE ELSE Enter(table, f[n - 1], path[n])
    BY <1>1, <1>3, <1>4, <1>5 DEF Follows
  <2> QED BY <1>5, <2>1 DEF Follows
<1>7. at = [n \in 0 .. N |-> IF n = 0 THEN ROOT_INODE ELSE Enter(table, at[n - 1], path[n])]
  BY <1>6, Zenon
<1>8. resolve(table, path) = at[N]
  <2>1. Len(path) \in Nat /\ MAX_DEPTH \in Nat /\ ~(Len(path) > MAX_DEPTH)
    BY Sizes
  <2> QED BY <2>1, Zenon DEF resolve, Enter
<1> HIDE DEF at
<1>9. /\ at[0] = ROOT_INODE /\ at = [n \in 0 .. N |-> at[n]]
      /\ \A n \in 1 .. N : at[n] = Enter(table, at[n - 1], path[n])
  <2>1. at[0] = ROOT_INODE /\ at = [n \in 0 .. N |-> at[n]]
    BY <1>1, <1>7
  <2>2. \A n \in 1 .. N : n \in 0 .. N /\ n # 0
    OBVIOUS
  <2> QED BY <1>7, <2>1, <2>2
<1>10. \A n \in 0 .. N : at[n] \in V
  <2> DEFINE S == {n \in 0 .. N : at[n] \in V}
  <2>1. 0 \in S
    BY <1>1, <1>9
  <2>2. ASSUME NEW n \in 1 .. N, n - 1 \in S PROVE n \in S
    BY <1>9, <2>2, EnterType DEF V
  <2> HIDE DEF S
  <2>3. \A n \in 0 .. N : n \in S
    BY <1>1, <2>1, <2>2, InductionUpTo
  <2> QED BY <2>3 DEF S
<1>11. Walk(table, path, at)
  BY <1>9, <1>10 DEF Walk, V
<1> QED BY <1>8, <1>11

LEMMA ResolveType ==
  ASSUME NEW table \in InodeTable, NEW path \in Seq(Word)
  PROVE  /\ resolve(table, path) \in Inode \union {NoInode}
         /\ lookup_file(table, path) \in Inode \union {NoInode}
         /\ lookup_file(table, path) # NoInode => /\ resolve(table, path) = lookup_file(table, path)
                                                  /\ table[lookup_file(table, path)].kind = "file"
         /\ split_parent(table, path) \in Inode \union {NoInode}
         /\ split_parent(table, path) # NoInode => path # <<>> /\ table[split_parent(table, path)].kind = "dir"
                                                   /\ Len(path) <= MAX_DEPTH
<1>1. ASSUME NEW p \in Seq(Word) PROVE resolve(table, p) \in Inode \union {NoInode}
  <2>1. CASE Len(p) <= MAX_DEPTH
    <3>1. PICK at : Walk(table, p, at) /\ resolve(table, p) = at[Len(p)]
      BY <2>1, ResolveWalk
    <3>2. Len(p) \in 0 .. Len(p)
      OBVIOUS
    <3> QED BY <3>1, <3>2 DEF Walk
  <2>2. CASE ~(Len(p) <= MAX_DEPTH)
    <3>1. Len(p) > MAX_DEPTH
      BY <2>2, Sizes
    <3> QED BY <3>1 DEF resolve
  <2> QED BY <2>1, <2>2
<1>2. lookup_file(table, path) = IF resolve(table, path) # NoInode /\ table[resolve(table, path)].kind = "file"
                                 THEN resolve(table, path) ELSE NoInode
  BY DEF lookup_file
<1> DEFINE front == SubSeq(path, 1, Len(path) - 1)  dir == resolve(table, front)
<1>3. split_parent(table, path) = IF path = <<>> \/ Len(path) > MAX_DEPTH THEN NoInode
                                  ELSE IF dir # NoInode /\ table[dir].kind = "dir" THEN dir ELSE NoInode
  BY DEF split_parent
<1>4. path # <<>> => front \in Seq(Word)
  OBVIOUS
<1> HIDE DEF front
<1>5. path # <<>> => dir \in Inode \union {NoInode}
  BY <1>1, <1>4
<1> HIDE DEF dir
<1>6. Len(path) \in Nat /\ MAX_DEPTH \in Nat
  BY Sizes
<1> QED BY <1>1, <1>2, <1>3, <1>5, <1>6

------------------------------------------------------------------------------
(* Types of the data *)

\* The paths are made of such names.
LEMMA Words ==
  /\ Path \subseteq Seq(Word) /\ NoPath \in Seq(Word) /\ <<>> \in Seq(Word)
  /\ \A k \in 1 .. Len(RamFiles) : RamFiles[k] \in Seq(Word)
  /\ \A p \in Path : p # <<>> => p[Len(p)] \in Name
<1>1. ASSUME NEW p \in Path PROVE p \in Seq(Word) /\ (p # <<>> => p[Len(p)] \in Name)
  <2>1. p \in Seq(STRING) /\ Len(p) \in Nat
    BY PathsAssumption
  <2>2. \A k \in 1 .. Len(p) : p[k] \in Name
    BY DEF Name
  <2>3. \A k \in 1 .. Len(p) : p[k] \in Word
    BY <2>2 DEF Word
  <2>4. p \in Seq(Word)
    BY <2>1, <2>3
  <2>5. p # <<>> => Len(p) \in 1 .. Len(p)
    BY <2>1
  <2> QED BY <2>2, <2>4, <2>5
<1>2. ASSUME NEW k \in 1 .. Len(RamFiles) PROVE RamFiles[k] \in Seq(Word)
  <2>1. RamFiles[k] \in Seq(STRING)
    BY PathsAssumption
  <2> DEFINE p == RamFiles[k]
  <2>2. \A j \in 1 .. Len(p) : p[j] \in Word
    BY DEF Word
  <2> HIDE DEF p
  <2>3. p \in Seq(STRING)
    BY <2>1 DEF p
  <2>4. p \in Seq(Word)
    BY <2>2, <2>3
  <2> QED BY <2>4 DEF p
<1>3. NoPath \in Seq(Word)
  <2>1. NoPath[1] \in Word
    BY DEF Word
  <2>2. NoPath = <<"/">> /\ NoPath[1] = "/"
    BY DEF NoPath
  <2> QED BY <2>1, <2>2
<1> QED BY <1>1, <1>2, <1>3

LEMMA EmptyTypes ==
  /\ Empty \in InodeRecord /\ Root \in InodeRecord /\ Blank \in Content /\ RamNodes \in NodeLists
  /\ 0 \in Block /\ ROOT_INODE \in Inode /\ Name \subseteq Word
  /\ Fresh \in InodeTable /\ [i \in Inode |-> Empty] \in InodeTable
<1>1. 0 \in Block /\ ROOT_INODE \in Inode /\ 0 \in 0 .. MAX_FILE_SIZE
  BY Sizes DEF Block, Inode, ROOT_INODE
<1>2. Empty.name \in Name /\ Empty.name = "-"
  BY DEF Name, Empty
<1>3. Name \subseteq Word
  BY DEF Word
<1>4. [k \in 0 .. DIRECT_BLOCKS - 1 |-> 0] \in [Index -> Block]
  BY <1>1 DEF Index
<1>5. "-" \in Name
  BY <1>2
<1>6. Empty \in InodeRecord
  BY <1>1, <1>4, <1>5, Zenon DEF Empty, InodeRecord
<1>7. Root \in InodeRecord
  BY <1>6 DEF Root, InodeRecord
<1>8. Blank \in Content
  BY DEF Blank, Content
<1>9. RamNodes \in NodeLists
  <2> DEFINE rec(k) == [path |-> RamFiles[k], source |-> "ram", inode |-> NoInode, size |-> 0, used |-> TRUE]
  <2>1. Len(RamFiles) \in Nat /\ Len(RamFiles) <= MAX_NODES /\ \A k \in 1 .. Len(RamFiles) : RamFiles[k] \in Seq(Word)
    BY PathsAssumption, Words
  <2>2. \A k \in 1 .. Len(RamFiles) : rec(k) \in NodeRecord /\ rec(k).source = "ram"
    BY <1>1, <2>1 DEF NodeRecord
  <2>3. RamNodes = [k \in 1 .. Len(RamFiles) |-> rec(k)]
    BY DEF RamNodes
  <2> HIDE DEF rec
  <2>4. RamNodes \in Seq(NodeRecord) /\ Len(RamNodes) = Len(RamFiles)
    BY <2>1, <2>2, <2>3
  <2> QED BY <2>1, <2>2, <2>3, <2>4 DEF NodeLists
<1>10. Fresh \in InodeTable /\ [i \in Inode |-> Empty] \in InodeTable
  BY <1>6, <1>7 DEF Fresh, InodeTable
<1> QED BY <1>1, <1>3, <1>6, <1>7, <1>8, <1>9, <1>10

\* A node that is attached, and one that is brought up to date.
LEMMA AttachTypes ==
  ASSUME NEW nodes \in NodeLists, NEW path \in Seq(Word), NEW i \in Inode, NEW size \in 0 .. MAX_FILE_SIZE
  PROVE  /\ attach_disk_node(nodes, path, i, size) \in NodeLists
         /\ Len(attach_disk_node(nodes, path, i, size)) >= Len(nodes)
<1> DEFINE r == [path |-> path, source |-> "disk", inode |-> i, size |-> size, used |-> TRUE]
<1>1. r \in NodeRecord /\ r.inode \in Inode
  BY DEF NodeRecord
<1>2. nodes \in Seq(NodeRecord) /\ Len(nodes) <= MAX_NODES /\ MAX_NODES \in Nat /\ Len(nodes) \in Nat
  BY Sizes DEF NodeLists
<1>3. CASE Len(nodes) >= MAX_NODES
  BY <1>2, <1>3 DEF attach_disk_node
<1>4. CASE Len(nodes) < MAX_NODES
  <2>1. attach_disk_node(nodes, path, i, size) = Append(nodes, r)
    BY <1>2, <1>4 DEF attach_disk_node
  <2> HIDE DEF r
  <2>2. /\ Append(nodes, r) \in Seq(NodeRecord) /\ Len(Append(nodes, r)) = Len(nodes) + 1
        /\ \A n \in 1 .. Len(nodes) : Append(nodes, r)[n] = nodes[n]
        /\ Append(nodes, r)[Len(nodes) + 1] = r
    BY <1>1, <1>2
  <2> DEFINE q == Append(nodes, r)
  <2> HIDE DEF q
  <2>3. ASSUME NEW n \in 1 .. Len(nodes) + 1, q[n].source = "disk" PROVE q[n].inode \in Inode
    <3>1. CASE n \in 1 .. Len(nodes)
      BY <2>2, <2>3, <3>1 DEF NodeLists, q
    <3>2. CASE n = Len(nodes) + 1
      BY <1>1, <2>2, <3>2 DEF q
    <3> QED BY <1>2, <3>1, <3>2
  <2>4. q \in NodeLists
    <3>1. q \in Seq(NodeRecord) /\ Len(q) = Len(nodes) + 1
      BY <2>2 DEF q
    <3>2. Len(nodes) + 1 <= MAX_NODES
      BY <1>2, <1>4
    <3> QED BY <2>3, <3>1, <3>2 DEF NodeLists
  <2> QED BY <1>2, <2>1, <2>2, <2>4 DEF q
<1> QED BY <1>2, <1>3, <1>4

LEMMA LookupType ==
  ASSUME NEW nodes, Len(nodes) \in Nat, NEW path
  PROVE  /\ lookup(nodes, path) \in 0 .. Len(nodes)
         /\ lookup(nodes, path) # NoNode => /\ lookup(nodes, path) \in 1 .. Len(nodes)
                                            /\ nodes[lookup(nodes, path)].used
                                            /\ nodes[lookup(nodes, path)].path = path
         /\ lookup(nodes, path) = NoNode => \A n \in 1 .. Len(nodes) : ~(nodes[n].used /\ nodes[n].path = path)
<1> DEFINE F == {n \in 1 .. Len(nodes) : nodes[n].used /\ nodes[n].path = path}
<1>1. F \subseteq Nat
  OBVIOUS
<1>2. F # {} => Lowest(F) \in F
  BY <1>1, LowestIn
<1>3. lookup(nodes, path) = IF F = {} THEN NoNode ELSE Lowest(F)
  BY DEF lookup
<1>4. CASE F = {}
  BY <1>3, <1>4 DEF NoNode
<1>5. CASE F # {}
  <2> DEFINE l == lookup(nodes, path)
  <2>1. l \in F
    BY <1>2, <1>3, <1>5
  <2> HIDE DEF l
  <2>2. l \in 1 .. Len(nodes) /\ nodes[l].used /\ nodes[l].path = path /\ l # NoNode
    BY <2>1 DEF NoNode
  <2> QED BY <2>2 DEF l
<1> QED BY <1>4, <1>5

LEMMA NodeSet ==
  ASSUME NEW nodes \in NodeLists, NEW n \in 1 .. Len(nodes), NEW r \in NodeRecord, r.source = "disk" => r.inode \in Inode
  PROVE  [nodes EXCEPT ![n] = r] \in NodeLists /\ Len([nodes EXCEPT ![n] = r]) = Len(nodes)
<1>1. nodes \in Seq(NodeRecord) /\ Len(nodes) <= MAX_NODES /\ Len(nodes) \in Nat
  BY DEF NodeLists
<1> DEFINE q == [nodes EXCEPT ![n] = r]
<1>2. q \in Seq(NodeRecord) /\ Len(q) = Len(nodes) /\ \A m \in 1 .. Len(nodes) : q[m] = IF m = n THEN r ELSE nodes[m]
  BY <1>1
<1> HIDE DEF q
<1>3. q \in NodeLists
  BY <1>1, <1>2 DEF NodeLists
<1> QED BY <1>2, <1>3 DEF q

LEMMA RefreshTypes ==
  ASSUME NEW nodes \in NodeLists, NEW table \in InodeTable, NEW path \in Seq(Word)
  PROVE  /\ refresh_disk_node(nodes, table, path) \in NodeLists
         /\ Len(refresh_disk_node(nodes, table, path)) >= Len(nodes)
<1> DEFINE i == lookup_file(table, path)  n == lookup(nodes, path)
           r == [nodes[n] EXCEPT !.inode = i, !.size = table[i].size, !.source = "disk"]
<1>1. i \in Inode \union {NoInode}
  BY ResolveType
<1>2. nodes \in Seq(NodeRecord) /\ Len(nodes) \in Nat
  BY DEF NodeLists
<1>3. n \in 0 .. Len(nodes) /\ (n # NoNode => n \in 1 .. Len(nodes))
  BY <1>2, LookupType
<1>4. i # NoInode => table[i].size \in 0 .. MAX_FILE_SIZE
  BY <1>1 DEF InodeTable, InodeRecord
<1> HIDE DEF i, n
<1>5. CASE i = NoInode
  BY <1>2, <1>5 DEF refresh_disk_node, i
<1>6. CASE i # NoInode /\ n # NoNode
  <2>1. nodes[n] \in NodeRecord /\ i \in Inode
    BY <1>1, <1>2, <1>3, <1>6
  <2>2. r \in NodeRecord /\ r.inode \in Inode
    BY <1>4, <1>6, <2>1 DEF NodeRecord
  <2>3. refresh_disk_node(nodes, table, path) = [nodes EXCEPT ![n] = r]
    <3>1. refresh_disk_node(nodes, table, path) =
            [nodes EXCEPT ![n].inode = i, ![n].size = table[i].size, ![n].source = "disk"]
      BY <1>6 DEF refresh_disk_node, i, n
    <3> QED BY <1>2, <1>3, <1>6, <2>1, <3>1 DEF NodeRecord
  <2> HIDE DEF r
  <2>4. n \in 1 .. Len(nodes)
    BY <1>3, <1>6
  <2>5. [nodes EXCEPT ![n] = r] \in NodeLists /\ Len([nodes EXCEPT ![n] = r]) = Len(nodes)
    BY <2>2, <2>4, NodeSet
  <2> QED BY <1>2, <2>3, <2>5
<1>7. CASE i # NoInode /\ n = NoNode
  <2>1. refresh_disk_node(nodes, table, path) = attach_disk_node(nodes, path, i, table[i].size)
    BY <1>7 DEF refresh_disk_node, i, n
  <2>2. i \in Inode /\ table[i].size \in 0 .. MAX_FILE_SIZE
    BY <1>1, <1>4, <1>7
  <2> QED BY <2>1, <2>2, AttachTypes
<1> QED BY <1>5, <1>6, <1>7

\* The walk up to the root that path_of makes.
Climb(table, i, up) ==
  /\ up \in [0 .. MAX_DEPTH -> Inode] /\ up[0] = i
  /\ \A n \in 1 .. MAX_DEPTH : up[n] = table[up[n - 1]].parent

LEMMA PathClimb ==
  ASSUME NEW table \in InodeTable, NEW i \in Inode
  PROVE  \E up : /\ Climb(table, i, up)
                 /\ LET depths == {n \in 0 .. MAX_DEPTH : up[n] = ROOT_INODE}
                    IN  /\ depths = {} => path_of(table, i) = NoPath
                        /\ depths # {} => path_of(table, i) =
                             [k \in 1 .. Lowest(depths) |-> table[up[Lowest(depths) - k]].name]
<1> DEFINE N == MAX_DEPTH
           G == [n \in 1 .. N |-> [v \in Inode |-> table[v].parent]]
           up[n \in 0 .. N] == IF n = 0 THEN i ELSE table[up[n - 1]].parent
<1>1. N \in Nat /\ 0 \in 0 .. N
  BY Sizes
<1>2. G \in [1 .. N -> [Inode -> Inode]] /\ \A v \in Inode : table[v].parent \in Inode
  BY DEF InodeTable, InodeRecord
<1>3. \A n \in 1 .. N : \A v \in Inode : G[n][v] = table[v].parent
  OBVIOUS
<1>4. \A n \in 0 .. N : n # 0 => n \in 1 .. N /\ n - 1 \in 0 .. N
  BY <1>1
<1> HIDE DEF G
<1>5. PICK f : Follows(f, N, Inode, i, G)
  BY <1>1, <1>2, RecursiveFunction
<1>6. f = [n \in 0 .. N |-> IF n = 0 THEN i ELSE table[f[n - 1]].parent]
  <2>1. \A n \in 0 .. N : f[n] = IF n = 0 THEN i ELSE table[f[n - 1]].parent
    BY <1>1, <1>3, <1>4, <1>5 DEF Follows
  <2> QED BY <1>5, <2>1 DEF Follows
<1>7. up = [n \in 0 .. N |-> IF n = 0 THEN i ELSE table[up[n - 1]].parent]
  BY <1>6, Zenon
<1> DEFINE depths == {n \in 0 .. N : up[n] = ROOT_INODE}
<1>8. path_of(table, i) = IF depths = {} THEN NoPath
                          ELSE [k \in 1 .. Lowest(depths) |-> table[up[Lowest(depths) - k]].name]
  BY DEF path_of
<1> HIDE DEF up
<1>9. /\ up[0] = i /\ up = [n \in 0 .. N |-> up[n]]
      /\ \A n \in 1 .. N : up[n] = table[up[n - 1]].parent
  <2>1. up[0] = i /\ up = [n \in 0 .. N |-> up[n]]
    BY <1>1, <1>7
  <2>2. \A n \in 1 .. N : n \in 0 .. N /\ n # 0
    OBVIOUS
  <2> QED BY <1>7, <2>1, <2>2
<1>10. \A n \in 0 .. N : up[n] \in Inode
  <2> DEFINE S == {n \in 0 .. N : up[n] \in Inode}
  <2>1. 0 \in S
    BY <1>1, <1>9
  <2>2. ASSUME NEW n \in 1 .. N, n - 1 \in S PROVE n \in S
    <3>1. up[n - 1] \in Inode /\ n \in 0 .. N
      BY <2>2
    <3>2. up[n] \in Inode
      BY <1>2, <1>9, <3>1
    <3> QED BY <3>1, <3>2
  <2> HIDE DEF S
  <2>3. \A n \in 0 .. N : n \in S
    BY <1>1, <2>1, <2>2, InductionUpTo
  <2> QED BY <2>3 DEF S
<1>11. Climb(table, i, up)
  BY <1>9, <1>10 DEF Climb
<1> QED BY <1>8, <1>11, Zenon

LEMMA PathType ==
  ASSUME NEW table \in InodeTable, NEW i \in Inode
  PROVE  path_of(table, i) \in Seq(Word)
<1> DEFINE D(up) == {n \in 0 .. MAX_DEPTH : up[n] = ROOT_INODE}
<1>1. PICK up : /\ Climb(table, i, up)
                /\ D(up) = {} => path_of(table, i) = NoPath
                /\ D(up) # {} => path_of(table, i) = [k \in 1 .. Lowest(D(up)) |-> table[up[Lowest(D(up)) - k]].name]
  BY PathClimb
<1>2. CASE D(up) = {}
  BY <1>1, <1>2, Words
<1>3. CASE D(up) # {}
  <2>1. D(up) \subseteq Nat
    OBVIOUS
  <2> DEFINE L == Lowest(D(up))
  <2>2. L \in D(up)
    BY <1>3, <2>1, LowestIn
  <2>3. L \in Nat /\ L \in 0 .. MAX_DEPTH /\ MAX_DEPTH \in Nat
    BY <2>2, Sizes
  <2>4. path_of(table, i) = [k \in 1 .. L |-> table[up[L - k]].name]
    BY <1>1, <1>3
  <2> HIDE DEF L
  <2>5. ASSUME NEW k \in 1 .. L PROVE table[up[L - k]].name \in Word
    <3>1. L - k \in 0 .. MAX_DEPTH
      BY <2>3
    <3>2. table[up[L - k]] \in InodeRecord
      BY <1>1, <3>1 DEF Climb, InodeTable
    <3> QED BY <3>2, EmptyTypes DEF InodeRecord
  <2> QED BY <2>3, <2>4, <2>5
<1> QED BY <1>2, <1>3

\* One turn of the loop in mount_disk_files.
MountTurn(before, table, i) ==
  LET path == path_of(table, i)
  IN  IF table[i].kind # "file" \/ path = NoPath \/ lookup(before, path) # NoNode THEN before
      ELSE attach_disk_node(before, path, i, table[i].size)

LEMMA MountLoop ==
  ASSUME NEW nodes \in NodeLists, NEW table \in InodeTable
  PROVE  \E upto : /\ upto \in [0 .. MAX_INODES -> NodeLists] /\ upto[0] = nodes
                   /\ \A i \in 1 .. MAX_INODES : upto[i] = MountTurn(upto[i - 1], table, i - 1)
                   /\ mount_disk_files(nodes, table) = upto[MAX_INODES]
<1> DEFINE N == MAX_INODES
           G == [n \in 1 .. N |-> [v \in NodeLists |-> MountTurn(v, table, n - 1)]]
           upto[n \in 0 .. N] == IF n = 0 THEN nodes ELSE MountTurn(upto[n - 1], table, n - 1)
<1>1. N \in Nat /\ 0 \in 0 .. N
  BY Sizes
<1>0. \A n \in 1 .. N : n - 1 \in Inode
  BY <1>1 DEF Inode
<1>2. ASSUME NEW n \in 1 .. N, NEW v \in NodeLists PROVE MountTurn(v, table, n - 1) \in NodeLists
  <2> DEFINE i == n - 1
  <2>1. i \in Inode /\ path_of(table, i) \in Seq(Word) /\ table[i].size \in 0 .. MAX_FILE_SIZE
    BY <1>0, PathType DEF InodeTable, InodeRecord
  <2> HIDE DEF i
  <2>2. attach_disk_node(v, path_of(table, i), i, table[i].size) \in NodeLists
    BY <2>1, AttachTypes
  <2>3. MountTurn(v, table, i) \in NodeLists
    BY <2>2 DEF MountTurn
  <2> QED BY <2>3 DEF i
<1>3. G \in [1 .. N -> [NodeLists -> NodeLists]]
  BY <1>2
<1>4. \A n \in 1 .. N : \A v \in NodeLists : G[n][v] = MountTurn(v, table, n - 1)
  OBVIOUS
<1>5. \A n \in 0 .. N : n # 0 => n \in 1 .. N /\ n - 1 \in 0 .. N
  BY <1>1
<1> HIDE DEF G
<1>6. PICK f : Follows(f, N, NodeLists, nodes, G)
  BY <1>1, <1>3, RecursiveFunction
<1>7. f = [n \in 0 .. N |-> IF n = 0 THEN nodes ELSE MountTurn(f[n - 1], table, n - 1)]
  <2>1. \A n \in 0 .. N : f[n] = IF n = 0 THEN nodes ELSE MountTurn(f[n - 1], table, n - 1)
    BY <1>1, <1>4, <1>5, <1>6 DEF Follows
  <2> QED BY <1>6, <2>1 DEF Follows
<1>8. upto = [n \in 0 .. N |-> IF n = 0 THEN nodes ELSE MountTurn(upto[n - 1], table, n - 1)]
  BY <1>7, Zenon
<1>9. mount_disk_files(nodes, table) = upto[N]
  BY DEF mount_disk_files, MountTurn
<1> HIDE DEF upto
<1>10. /\ upto[0] = nodes /\ upto = [n \in 0 .. N |-> upto[n]]
       /\ \A n \in 1 .. N : upto[n] = MountTurn(upto[n - 1], table, n - 1)
  <2>1. upto[0] = nodes /\ upto = [n \in 0 .. N |-> upto[n]]
    BY <1>1, <1>8
  <2>2. \A n \in 1 .. N : n \in 0 .. N /\ n # 0
    OBVIOUS
  <2> QED BY <1>8, <2>1, <2>2
<1>11. \A n \in 0 .. N : upto[n] \in NodeLists
  <2> DEFINE S == {n \in 0 .. N : upto[n] \in NodeLists}
  <2>1. 0 \in S
    BY <1>1, <1>10
  <2>2. ASSUME NEW n \in 1 .. N, n - 1 \in S PROVE n \in S
    <3>1. upto[n - 1] \in NodeLists /\ n \in 0 .. N
      BY <2>2
    <3>2. upto[n] \in NodeLists
      BY <1>2, <1>10, <3>1
    <3> QED BY <3>1, <3>2
  <2> HIDE DEF S
  <2>3. \A n \in 0 .. N : n \in S
    BY <1>1, <2>1, <2>2, InductionUpTo
  <2> QED BY <2>3 DEF S
<1>12. upto \in [0 .. N -> NodeLists]
  BY <1>10, <1>11
<1> QED BY <1>9, <1>10, <1>12

------------------------------------------------------------------------------
(* The lowest free blocks *)

LEMMA NthIn ==
  ASSUME NEW S, S \subseteq Nat, IsFiniteSet(S), NEW k \in Nat, k < Cardinality(S)
  PROVE  NthLowest(S, k) \in S /\ Cardinality({c \in S : c < NthLowest(S, k)}) = k
<1> DEFINE Below(b) == {c \in S : c < b}
<1>1. \A b : IsFiniteSet(Below(b)) /\ Below(b) \subseteq S
  BY FS_Subset
<1>2. Cardinality(S) \in Nat
  BY FS_CardinalityType
<1> DEFINE Found == {n \in Nat : n < Cardinality(S) => \E b \in S : Cardinality(Below(b)) = n}
<1>3. 0 \in Found
  <2>1. SUFFICES ASSUME 0 < Cardinality(S) PROVE \E b \in S : Cardinality(Below(b)) = 0
    OBVIOUS
  <2>2. S # {}
    BY <2>1, FS_EmptySet
  <2>3. Lowest(S) \in S /\ \A j \in S : Lowest(S) <= j
    BY <2>2, LowestIn
  <2> DEFINE m == Lowest(S)
  <2>4. Below(m) = {}
    <3>1. \A c \in S : c \in Nat /\ m \in Nat /\ m <= c
      BY <2>3
    <3> HIDE DEF m
    <3>2. \A c \in S : ~(c < m)
      BY <3>1
    <3> QED BY <3>2
  <2>5. Cardinality(Below(m)) = 0
    BY <2>4, FS_EmptySet
  <2> QED BY <2>3, <2>5
<1>4. ASSUME NEW n \in 1 .. k, n - 1 \in Found PROVE n \in Found
  <2>1. SUFFICES ASSUME n < Cardinality(S) PROVE \E b \in S : Cardinality(Below(b)) = n
    OBVIOUS
  <2>2. n - 1 < Cardinality(S)
    BY <1>2, <2>1
  <2>3. PICK b \in S : Cardinality(Below(b)) = n - 1
    BY <1>4, <2>2
  <2> DEFINE Up == {c \in S : b < c}  T == Below(b) \union {b}
  <2>4. Cardinality(T) = n /\ IsFiniteSet(T)
    <3>1. b \notin Below(b)
      OBVIOUS
    <3>2. IsFiniteSet(Below(b))
      BY <1>1
    <3> HIDE DEF Below
    <3>3. Cardinality(T) = Cardinality(Below(b)) + 1 /\ IsFiniteSet(T)
      BY <3>1, <3>2, FS_AddElement
    <3> QED BY <2>3, <3>3
  <2>5. Up # {}
    <3>1. SUFFICES ASSUME Up = {} PROVE FALSE
      OBVIOUS
    <3>0. \A c \in S : c \in Nat /\ b \in Nat /\ ~(b < c)
      BY <3>1
    <3>4. \A c \in S : c < b \/ c = b
      BY <3>0
    <3>2. S = T
      BY <3>4
    <3> QED BY <2>1, <2>4, <3>2
  <2>6. Lowest(Up) \in Up /\ \A j \in Up : Lowest(Up) <= j
    <3>1. Up \subseteq Nat
      OBVIOUS
    <3> QED BY <2>5, <3>1, LowestIn
  <2> DEFINE m == Lowest(Up)
  <2>7. Below(m) = T
    <3>1. m \in S /\ b < m /\ \A j \in S : b < j => m <= j
      BY <2>6
    <3> HIDE DEF m
    <3>2. ASSUME NEW c \in S PROVE c < m <=> c < b \/ c = b
      <4>1. c \in Nat /\ b \in Nat /\ m \in Nat
        BY <3>1
      <4> QED BY <3>1, <4>1
    <3> QED BY <3>2
  <2>8. Cardinality(Below(m)) = n
    BY <2>4, <2>7
  <2> QED BY <2>6, <2>8
<1>5. k \in Found
  <2> HIDE DEF Found
  <2> QED BY <1>3, <1>4, InductionUpTo
<1>6. \E b \in S : Cardinality(Below(b)) = k
  BY <1>5
<1> QED BY <1>6 DEF NthLowest

LEMMA FreeSet ==
  ASSUME BITMAP \in SUBSET Block
  PROVE  /\ FreeBlocks \subseteq Nat /\ FreeBlocks \subseteq Block /\ IsFiniteSet(FreeBlocks)
         /\ Cardinality(FreeBlocks) \in Nat /\ Cardinality(FreeBlocks) = TOTAL_BLOCKS - Cardinality(BITMAP)
         /\ IsFiniteSet(BITMAP) /\ Cardinality(BITMAP) \in Nat /\ IsFiniteSet(Block) /\ Cardinality(Block) = TOTAL_BLOCKS
<1>1. IsFiniteSet(Block) /\ Cardinality(Block) = TOTAL_BLOCKS /\ Block \subseteq Nat
  <2>1. TOTAL_BLOCKS \in Nat \ {0}
    BY Sizes
  <2>2. 0 \in Int /\ TOTAL_BLOCKS - 1 \in Int /\ Block = 0 .. (TOTAL_BLOCKS - 1)
    BY <2>1 DEF Block
  <2>3. IsFiniteSet(Block) /\ Cardinality(Block) = IF 0 > TOTAL_BLOCKS - 1 THEN 0 ELSE (TOTAL_BLOCKS - 1) - 0 + 1
    BY <2>2, FS_Interval
  <2> QED BY <2>1, <2>2, <2>3
<1>2. IsFiniteSet(BITMAP) /\ IsFiniteSet(FreeBlocks) /\ FreeBlocks \subseteq Block
  BY <1>1, FS_Subset DEF FreeBlocks
<1>3. Cardinality(FreeBlocks) = Cardinality(Block) - Cardinality(Block \intersect BITMAP)
  BY <1>1, FS_Difference DEF FreeBlocks
<1>4. Block \intersect BITMAP = BITMAP
  OBVIOUS
<1>5. Cardinality(FreeBlocks) \in Nat /\ Cardinality(BITMAP) \in Nat
  BY <1>2, FS_CardinalityType
<1> QED BY <1>1, <1>2, <1>3, <1>4, <1>5

------------------------------------------------------------------------------
(* Every action keeps the types *)

\* The disk, as a record of its fields.
DiskRecord == [formatted : BOOLEAN, inodes : InodeTable, bitmap : SUBSET Block, data : [Block -> Content]]

LEMMA GoesOn ==
  ASSUME Sole, StorageTypes, NEW s, Continues(s),
         s # <<>> => MOUNTED' = MOUNTED /\ disk'.formatted = disk.formatted /\ file' = file /\ NODES' = NODES
  PROVE  CallTypes'
BY Goes DEF Continues

\* Actions that leave the nodes and the open files alone.
LEMMA DataKept ==
  ASSUME Sole, StorageTypes, INODES' \in InodeTable, BITMAP' \in SUBSET Block, FREE_BLOCKS' \in Int,
         SCRATCH' \in Content, disk' \in DiskRecord, disk'.formatted = disk.formatted,
         MOUNTED' = MOUNTED, NODES' = NODES, file' = file, calls' = calls
  PROVE  DataTypes'
BY DEF StorageTypes, DataTypes, DiskRecord

LEMMA WriteInodesTypes ==
  ASSUME Sole, StorageTypes, WriteInodes(me)
  PROVE  StorageTypes'
<1>1. PICK k \in 1 .. Chunks, rest \in Seq(Step) :
        /\ todo = Cons(Out(k), rest)
        /\ Leaves(IF k < Chunks THEN Cons(Out(k + 1), rest) ELSE rest)
        /\ k < Chunks => Shape(mine, Cons(Out(k + 1), rest))
        /\ rest # <<>> => Shape(mine, rest)
  BY FlowInodes
<1> DEFINE s == IF k < Chunks THEN Cons(Out(k + 1), rest) ELSE rest
<1>2. s \in Seq(Step)
  <2>1. k < Chunks => k + 1 \in 1 .. Chunks
    BY ChunkNumbers
  <2> QED BY <2>1, Lists
<1>3. todo # <<>> /\ todo \in Seq(Step)
  BY <1>1, ConsFacts, CallTyped
<1>4. job' \in [User -> [call : CallRecord, steps : Seq(Step)]]
  <2>1. Out(k + 1) \in Step \/ ~(k < Chunks)
    BY StepTypes, ChunkNumbers
  <2>2. [First(me) EXCEPT !.chunk = @ + 1] = Out(k + 1) /\ First(me).chunk = k
    BY <1>1, ConsFacts DEF Out, First, todo
  <2>3. Left(me, IF k < Chunks THEN <<Out(k + 1)>> ELSE <<>>)
    BY <2>2 DEF WriteInodes
  <2>4. (IF k < Chunks THEN <<Out(k + 1)>> ELSE <<>>) \in Seq(Step)
    BY <2>1
  <2> QED BY <1>3, <2>3, <2>4, Effect
<1>5. Continues(s)
  BY <1>1, <1>2, <1>4 DEF Continues
<1>6. disk' \in DiskRecord /\ disk'.formatted = disk.formatted
  <2> DEFINE T == [i \in Inode |-> IF ChunkOf(i) = First(me).chunk THEN INODES[i] ELSE disk.inodes[i]]
  <2>1. disk' = [disk EXCEPT !.inodes = T]
    BY DEF WriteInodes
  <2>2. T \in InodeTable
    BY DEF StorageTypes, DataTypes, InodeTable
  <2> HIDE DEF T
  <2> QED BY <2>1, <2>2 DEF StorageTypes, DataTypes, DiskRecord
<1>7. UNCHANGED <<INODES, BITMAP, FREE_BLOCKS, SCRATCH, MOUNTED, NODES, file, calls>>
  BY DEF WriteInodes, cache
<1>8. DataTypes'
  BY <1>6, <1>7, DataKept DEF StorageTypes, DataTypes
<1>9. CallTypes'
  BY <1>5, <1>6, <1>7, GoesOn
<1> QED BY <1>8, <1>9 DEF StorageTypes

LEMMA WriteBitmapTypes ==
  ASSUME Sole, StorageTypes, WriteBitmap(me)
  PROVE  StorageTypes'
<1>1. PICK rest \in Seq(Step) : todo = Cons(Just("bitmap"), rest) /\ (rest # <<>> => Shape(mine, rest))
  BY FlowBitmap
<1>2. Continues(rest)
  BY <1>1, DoneGoes DEF WriteBitmap
<1>3. disk' \in DiskRecord /\ disk'.formatted = disk.formatted
  BY DEF WriteBitmap, StorageTypes, DataTypes, DiskRecord
<1>4. UNCHANGED <<INODES, BITMAP, FREE_BLOCKS, SCRATCH, MOUNTED, NODES, file, calls>>
  BY DEF WriteBitmap, cache
<1>5. DataTypes'
  BY <1>3, <1>4, DataKept DEF StorageTypes, DataTypes
<1>6. CallTypes'
  BY <1>2, <1>3, <1>4, GoesOn
<1> QED BY <1>5, <1>6 DEF StorageTypes

\* Nothing of the data changes but the call.
LEMMA OnlyCall ==
  ASSUME Sole, StorageTypes, NEW s, Continues(s),
         UNCHANGED <<INODES, BITMAP, FREE_BLOCKS, MOUNTED, NODES, file, calls, disk>>, SCRATCH' \in Content
  PROVE  StorageTypes'
<1>1. disk \in DiskRecord
  BY DEF StorageTypes, DataTypes, DiskRecord
<1>2. DataTypes'
  BY <1>1, DataKept DEF StorageTypes, DataTypes
<1>3. CallTypes'
  BY GoesOn
<1> QED BY <1>2, <1>3 DEF StorageTypes

LEMMA FailsTypes ==
  ASSUME Sole, StorageTypes, FlushFails(me) \/ BlockFails(me)
  PROVE  StorageTypes'
<1>1. Failed(me) /\ UNCHANGED <<INODES, BITMAP, FREE_BLOCKS, SCRATCH, MOUNTED, NODES, file, calls, disk>>
  BY DEF FlushFails, BlockFails, cache
<1>2. Continues(<<>>)
  BY <1>1, FailedGoes
<1>3. SCRATCH' \in Content
  BY <1>1 DEF StorageTypes, DataTypes
<1> QED BY <1>1, <1>2, <1>3, OnlyCall

\* Only the table changes, and the call goes on.
LEMMA OnlyTable ==
  ASSUME Sole, StorageTypes, NEW s, Continues(s), INODES' \in InodeTable, BITMAP' \in SUBSET Block, FREE_BLOCKS' \in Int,
         UNCHANGED <<SCRATCH, MOUNTED, NODES, disk, file, calls>>
  PROVE  StorageTypes'
<1>1. disk \in DiskRecord
  BY DEF StorageTypes, DataTypes, DiskRecord
<1>2. DataTypes'
  BY <1>1, DataKept DEF StorageTypes, DataTypes
<1>3. CallTypes'
  BY GoesOn
<1> QED BY <1>2, <1>3 DEF StorageTypes

\* The entry that a new inode gets.
NewRecord(path, kind) ==
  [Empty EXCEPT !.kind = kind, !.parent = split_parent(INODES, path), !.name = path[Len(path)]]

LEMMA NewInodeTypes ==
  ASSUME StorageTypes, NEW path \in Path, NEW kind \in {"file", "dir"}, Makeable(path), NewInode(path, kind)
  PROVE  /\ Lowest(FreeInodes) \in FreeInodes /\ Lowest(FreeInodes) \in Inode \ {ROOT_INODE}
         /\ split_parent(INODES, path) \in Inode /\ path # <<>> /\ path \in Seq(Word)
         /\ INODES[split_parent(INODES, path)].kind = "dir"
         /\ NewRecord(path, kind) \in InodeRecord
         /\ INODES' = [INODES EXCEPT ![Lowest(FreeInodes)] = NewRecord(path, kind)]
         /\ INODES' \in InodeTable
<1>1. INODES \in InodeTable
  BY DEF StorageTypes, DataTypes
<1>2. Lowest(FreeInodes) \in FreeInodes /\ FreeInodes \subseteq Inode \ {ROOT_INODE}
  BY NewInodeIn DEF Makeable
<1>3. path \in Seq(Word)
  BY Words
<1>4. split_parent(INODES, path) \in Inode /\ path # <<>> /\ INODES[split_parent(INODES, path)].kind = "dir"
  BY <1>1, <1>3, ResolveType DEF Makeable
<1>5. path[Len(path)] \in Name
  BY <1>4, Words
<1>6. NewRecord(path, kind) \in InodeRecord
  BY <1>4, <1>5, EmptyTypes DEF NewRecord, InodeRecord
<1>7. INODES' = [INODES EXCEPT ![Lowest(FreeInodes)] = NewRecord(path, kind)]
  BY DEF NewInode, NewRecord
<1>8. INODES' \in InodeTable
  BY <1>1, <1>2, <1>6, <1>7 DEF InodeTable
<1> QED BY <1>2, <1>3, <1>4, <1>6, <1>7, <1>8

LEMMA CreateTypes ==
  ASSUME Sole, StorageTypes, Create(me)
  PROVE  StorageTypes'
<1>1. UNCHANGED <<BITMAP, FREE_BLOCKS, SCRATCH, MOUNTED, NODES, disk, file, calls>>
  BY DEF Create
<1>2. BITMAP' \in SUBSET Block /\ FREE_BLOCKS' \in Int /\ INODES \in InodeTable
  BY <1>1 DEF StorageTypes, DataTypes
<1>3. AtCreate(mine, todo)
  BY FlowCreate
<1>4. mine.path \in Path
  BY <1>3 DEF AtCreate, StorageTypes, CallTypes
<1>5. CASE UNCHANGED INODES /\ Continues(<<>>)
  BY <1>1, <1>2, <1>5, OnlyTable
<1>6. CASE /\ Makeable(mine.path) /\ NewInode(mine.path, "file")
           /\ Continues(Cons(Out(1), AfterCreate(mine, Lowest(FreeInodes))))
  <2>1. INODES' \in InodeTable
    BY <1>4, <1>6, NewInodeTypes
  <2> QED BY <1>1, <1>2, <1>6, <2>1, OnlyTable
<1> QED BY <1>5, <1>6, FlowCreate

LEMMA MkdirTypes ==
  ASSUME Sole, StorageTypes, mkdir(me)
  PROVE  StorageTypes'
<1>1. UNCHANGED <<BITMAP, FREE_BLOCKS, SCRATCH, MOUNTED, NODES, disk, file, calls>>
  BY DEF mkdir
<1>2. BITMAP' \in SUBSET Block /\ FREE_BLOCKS' \in Int /\ INODES \in InodeTable
  BY <1>1 DEF StorageTypes, DataTypes
<1>3. PICK k \in Nat \ {0} :
           /\ MOUNTED /\ mine.op \in {"mkdir", "format"} /\ (mine.op = "format" => k <= Len(Skeleton))
           /\ \/ ~Makeable(PathOf(mine, k)) /\ UNCHANGED INODES /\ Continues(<<>>) /\ mine' = Idle
              \/ /\ Makeable(PathOf(mine, k)) /\ NewInode(PathOf(mine, k), "dir")
                 /\ Continues(Cons(Out(1), IF mine.op = "format" THEN Directories(k + 1) ELSE <<>>))
                 /\ mine' = mine
  BY FlowMkdir
<1>4. PathOf(mine, k) \in Path
  <2>1. mine.op = "mkdir" => mine.path \in Path
    BY DEF StorageTypes, CallTypes
  <2>2. mine.op = "format" => Skeleton[k] \in Path
    BY <1>3, PathsAssumption
  <2> QED BY <1>3, <2>1, <2>2 DEF PathOf
<1>5. CASE UNCHANGED INODES /\ Continues(<<>>)
  BY <1>1, <1>2, <1>5, OnlyTable
<1>6. CASE /\ Makeable(PathOf(mine, k)) /\ NewInode(PathOf(mine, k), "dir")
           /\ Continues(Cons(Out(1), IF mine.op = "format" THEN Directories(k + 1) ELSE <<>>))
  <2>1. INODES' \in InodeTable
    BY <1>4, <1>6, NewInodeTypes
  <2> QED BY <1>1, <1>2, <1>6, <2>1, OnlyTable
<1> QED BY <1>3, <1>5, <1>6

LEMMA RmdirTypes ==
  ASSUME Sole, StorageTypes, rmdir(me)
  PROVE  StorageTypes'
<1>1. UNCHANGED <<BITMAP, FREE_BLOCKS, SCRATCH, MOUNTED, NODES, disk, file, calls>>
  BY DEF rmdir
<1>2. BITMAP' \in SUBSET Block /\ FREE_BLOCKS' \in Int /\ INODES \in InodeTable
  BY <1>1 DEF StorageTypes, DataTypes
<1> DEFINE i == resolve(INODES, mine.path)
<1>3. \/ ~IsEmptyDir(i) /\ UNCHANGED INODES /\ Continues(<<>>) /\ mine' = Idle
      \/ IsEmptyDir(i) /\ INODES' = [INODES EXCEPT ![i] = Empty] /\ Continues(Cons(Out(1), <<>>)) /\ mine' = mine
  BY FlowRmdir
<1> HIDE DEF i
<1>4. INODES' \in InodeTable
  BY <1>2, <1>3, EmptyTypes DEF InodeTable
<1> QED BY <1>1, <1>2, <1>3, <1>4, OnlyTable

LEMMA RemoveTypes ==
  ASSUME Sole, StorageTypes, Remove(me)
  PROVE  StorageTypes'
<1>1. UNCHANGED <<SCRATCH, MOUNTED, NODES, disk, file, calls>>
  BY DEF Remove
<1>2. BITMAP \in SUBSET Block /\ FREE_BLOCKS \in Int /\ INODES \in InodeTable
  BY DEF StorageTypes, DataTypes
<1>3. PICK i \in Inode, rest \in Seq(Step) :
           /\ First(me) = On("remove", i)
           /\ \/ INODES[i].kind # "file" /\ UNCHANGED cache /\ Continues(<<>>) /\ mine' = Idle
              \/ /\ INODES[i].kind = "file"
                 /\ Continues(Cons(Out(1), Cons(Just("bitmap"), rest))) /\ mine' = mine
  BY FlowRemove
<1>4. CASE UNCHANGED cache /\ Continues(<<>>)
  BY <1>1, <1>2, <1>4, OnlyTable DEF cache
<1>5. CASE INODES[i].kind = "file" /\ Continues(Cons(Out(1), Cons(Just("bitmap"), rest)))
  <2> DEFINE freed == Owned(INODES[i]) \intersect BITMAP
  <2>1. First(me).inode = i
    BY <1>3 DEF On
  <2>2. /\ BITMAP' = BITMAP \ freed /\ FREE_BLOCKS' = FREE_BLOCKS + Cardinality(freed)
        /\ INODES' = [INODES EXCEPT ![i] = Empty]
    BY <1>5, <2>1 DEF Remove
  <2>3. Cardinality(freed) \in Nat
    <3>1. IsFiniteSet(BITMAP)
      BY <1>2, FreeSet
    <3>2. freed \subseteq BITMAP
      OBVIOUS
    <3> HIDE DEF freed
    <3> QED BY <3>1, <3>2, FS_Subset, FS_CardinalityType
  <2> HIDE DEF freed
  <2>4. INODES' \in InodeTable /\ BITMAP' \in SUBSET Block /\ FREE_BLOCKS' \in Int
    BY <1>2, <2>2, <2>3, EmptyTypes DEF InodeTable
  <2> QED BY <1>1, <1>5, <2>4, OnlyTable
<1> QED BY <1>3, <1>4, <1>5

LEMMA Images ==
  ASSUME NEW S, IsFiniteSet(S), NEW I, NEW f \in [S -> I], \A x, y \in S : f[x] = f[y] => x = y,
         \A y \in I : \E x \in S : f[x] = y
  PROVE  IsFiniteSet(I) /\ Cardinality(I) = Cardinality(S)
<1>1. f \in Surjection(S, I)
  BY DEF Surjection
<1>2. f \in Injection(S, I)
  BY DEF Injection, IsInjective
<1> QED BY <1>1, <1>2, FS_Surjection

\* What alloc_blocks takes.
Taken(i, end, k) == NthLowest(FreeBlocks, k - block_count(INODES[i].size))
Grants(i, end) ==
  /\ \A k \in Missing(INODES[i], end) :
       /\ k \in Index /\ k >= block_count(INODES[i].size) /\ Taken(i, end, k) \in FreeBlocks
  /\ \A k, l \in Missing(INODES[i], end) : Taken(i, end, k) = Taken(i, end, l) => k = l
  /\ INODES' = [INODES EXCEPT ![i].blocks =
                  [k \in Index |-> IF k \in Missing(INODES[i], end) THEN Taken(i, end, k) ELSE INODES[i].blocks[k]]]
  /\ BITMAP' = BITMAP \union {Taken(i, end, k) : k \in Missing(INODES[i], end)}
  /\ FREE_BLOCKS' = FREE_BLOCKS - Cardinality(Missing(INODES[i], end))
  /\ Cardinality(BITMAP') = Cardinality(BITMAP) + Cardinality(Missing(INODES[i], end))
  /\ Cardinality(Missing(INODES[i], end)) \in Nat

LEMMA Allocates ==
  ASSUME StorageTypes, NEW i \in Inode, NEW end \in Nat, end <= MAX_FILE_SIZE, INODES[i].kind = "file",
         Cardinality(Missing(INODES[i], end)) <= Cardinality(FreeBlocks), alloc_blocks(i, end)
  PROVE  Grants(i, end) /\ INODES' \in InodeTable /\ BITMAP' \in SUBSET Block /\ FREE_BLOCKS' \in Int
<1>1. INODES \in InodeTable /\ BITMAP \in SUBSET Block /\ FREE_BLOCKS \in Int
  BY DEF StorageTypes, DataTypes
<1>2. INODES[i] \in InodeRecord /\ INODES[i].size \in Nat /\ INODES[i].blocks \in [Index -> Block]
  BY <1>1, Sizes DEF InodeTable, InodeRecord
<1> DEFINE first == block_count(INODES[i].size)  last == block_count(end)  M == Missing(INODES[i], end)
           T(k) == NthLowest(FreeBlocks, k - first)
<1>3. first \in Nat /\ last \in Nat /\ last <= DIRECT_BLOCKS /\ M = first .. last - 1 /\ DIRECT_BLOCKS \in Nat
  BY <1>2, Counts, Sizes DEF Missing
<1>4. IsFiniteSet(M) /\ Cardinality(M) = IF first > last - 1 THEN 0 ELSE last - 1 - first + 1
  <2> HIDE DEF first, last, M
  <2>1. first \in Int /\ last - 1 \in Int
    BY <1>3
  <2>2. IsFiniteSet(first .. last - 1) /\ Cardinality(first .. last - 1) = IF first > last - 1 THEN 0 ELSE last - 1 - first + 1
    BY <2>1, FS_Interval
  <2> QED BY <1>3, <2>2
<1>5. /\ FreeBlocks \subseteq Nat /\ FreeBlocks \subseteq Block /\ IsFiniteSet(FreeBlocks)
      /\ Cardinality(FreeBlocks) \in Nat /\ IsFiniteSet(BITMAP) /\ Cardinality(BITMAP) \in Nat
  BY <1>1, FreeSet
<1>6. Cardinality(M) <= Cardinality(FreeBlocks)
  OBVIOUS
<1> HIDE DEF first, last
<1>7. ASSUME NEW k \in M PROVE /\ k \in Nat /\ k \in Index /\ k >= first /\ k - first \in Nat
                               /\ k - first < Cardinality(FreeBlocks)
  <2>1. k \in first .. last - 1
    BY <1>3
  <2> HIDE DEF M
  <2>2. first <= last - 1 /\ k \in Nat /\ k >= first /\ k <= last - 1
    BY <1>3, <2>1
  <2>3. k - first < Cardinality(M)
    BY <1>3, <1>4, <2>2
  <2>4. k \in Index
    BY <1>3, <2>2 DEF Index
  <2>5. Cardinality(M) \in Nat
    BY <1>3, <1>4, <2>2
  <2> QED BY <1>3, <1>5, <1>6, <2>2, <2>3, <2>4, <2>5
<1>8. ASSUME NEW k \in M PROVE T(k) \in FreeBlocks /\ Cardinality({c \in FreeBlocks : c < T(k)}) = k - first
  BY <1>5, <1>7, NthIn
<1>9. ASSUME NEW k \in M, NEW l \in M, T(k) = T(l) PROVE k = l
  <2>1. k - first = l - first
    BY <1>8, <1>9
  <2> QED BY <1>3, <1>7, <2>1
<1>10. \A k \in M : T(k) \in FreeBlocks
  BY <1>8
<1>11. \A k, l \in M : T(k) = T(l) => k = l
  BY <1>9
<1>12. DOMAIN INODES[i].blocks = Index
  BY <1>2
<1> DEFINE taken == [k \in M |-> T(k)]
<1>13. /\ INODES' = [INODES EXCEPT ![i].blocks =
                  [k \in Index |-> IF k \in M THEN T(k) ELSE INODES[i].blocks[k]]]
       /\ BITMAP' = BITMAP \union {T(k) : k \in M}
       /\ FREE_BLOCKS' = FREE_BLOCKS - Cardinality(M)
  <2>0. \A k \in DOMAIN INODES[i].blocks :
          (IF k \in DOMAIN taken THEN taken[k] ELSE INODES[i].blocks[k]) = (IF k \in M THEN T(k) ELSE INODES[i].blocks[k])
    OBVIOUS
  <2>1. INODES' = [INODES EXCEPT ![i].blocks = [k \in DOMAIN @ |-> IF k \in DOMAIN taken THEN taken[k] ELSE @[k]]]
    BY DEF alloc_blocks, first
  <2>2. BITMAP' = BITMAP \union {taken[k] : k \in DOMAIN taken} /\ FREE_BLOCKS' = FREE_BLOCKS - Cardinality(DOMAIN taken)
    BY DEF alloc_blocks, first
  <2>3. DOMAIN taken = M /\ \A k \in M : taken[k] = T(k)
    OBVIOUS
  <2>4. {taken[k] : k \in DOMAIN taken} = {T(k) : k \in M}
    BY <2>3
  <2>5. INODES' = [INODES EXCEPT ![i].blocks = [k \in DOMAIN INODES[i].blocks |-> IF k \in DOMAIN taken THEN taken[k] ELSE INODES[i].blocks[k]]]
    BY <1>1, <2>1 DEF InodeTable, InodeRecord
  <2>6. [k \in DOMAIN INODES[i].blocks |-> IF k \in DOMAIN taken THEN taken[k] ELSE INODES[i].blocks[k]]
        = [k \in Index |-> IF k \in M THEN T(k) ELSE INODES[i].blocks[k]]
    BY <1>12, <2>0
  <2> QED BY <2>2, <2>3, <2>4, <2>5, <2>6
<1>14. /\ IsFiniteSet({T(k) : k \in M}) /\ Cardinality({T(k) : k \in M}) = Cardinality(M)
  <2> DEFINE I == {T(k) : k \in M}
  <2>1. taken \in [M -> I] /\ \A x, y \in M : taken[x] = taken[y] => x = y
    BY <1>11
  <2>2. \A y \in I : \E x \in M : taken[x] = y
    OBVIOUS
  <2>3. IsFiniteSet(M)
    BY <1>4
  <2> HIDE DEF taken, M, T, I
  <2>4. IsFiniteSet(I) /\ Cardinality(I) = Cardinality(M)
    BY <2>1, <2>2, <2>3, Images
  <2> QED BY <2>4 DEF I
<1>15. {T(k) : k \in M} \intersect BITMAP = {} /\ {T(k) : k \in M} \subseteq Block
  BY <1>10 DEF FreeBlocks
<1>16. Cardinality(M) \in Nat
  BY <1>4, FS_CardinalityType
<1>17. Cardinality(BITMAP') = Cardinality(BITMAP) + Cardinality(M)
  <2> DEFINE N == {T(k) : k \in M}
  <2>1. IsFiniteSet(N) /\ Cardinality(N) = Cardinality(M) /\ N \intersect BITMAP = {} /\ BITMAP' = BITMAP \union N
    BY <1>13, <1>14, <1>15
  <2> HIDE DEF N
  <2>2. Cardinality(BITMAP \union N) = Cardinality(BITMAP) + Cardinality(N) - Cardinality(BITMAP \intersect N)
    BY <1>5, <2>1, FS_Union
  <2>3. BITMAP \intersect N = {}
    BY <2>1
  <2>4. Cardinality({}) = 0
    BY FS_EmptySet
  <2> HIDE DEF M
  <2>5. Cardinality(M) \in Nat /\ Cardinality(BITMAP) \in Nat
    BY <1>5, <1>16
  <2>6. Cardinality(BITMAP \union N) = Cardinality(BITMAP) + Cardinality(N) - 0
    BY <2>2, <2>3, <2>4, Zenon
  <2>7. Cardinality(N) = Cardinality(M)
    BY <2>1
  <2> QED BY <2>1, <2>5, <2>6, <2>7
<1>18. INODES' \in InodeTable
  <2> DEFINE b == [k \in Index |-> IF k \in M THEN T(k) ELSE INODES[i].blocks[k]]
  <2>1. b \in [Index -> Block]
    BY <1>2, <1>5, <1>10
  <2>2. INODES' = [INODES EXCEPT ![i].blocks = b]
    BY <1>13
  <2> HIDE DEF b
  <2> QED BY <1>1, <2>1, <2>2 DEF InodeTable, InodeRecord
<1>19. Grants(i, end)
  BY <1>7, <1>10, <1>11, <1>13, <1>16, <1>17 DEF Grants, Taken, first
<1>20. BITMAP' \in SUBSET Block
  BY <1>1, <1>13, <1>15
<1> QED BY <1>1, <1>13, <1>16, <1>18, <1>19, <1>20

LEMMA WriteTypes ==
  ASSUME Sole, StorageTypes, Write(me)
  PROVE  StorageTypes'
<1>1. UNCHANGED <<SCRATCH, MOUNTED, NODES, disk, file, calls>>
  BY DEF Write
<1>2. BITMAP \in SUBSET Block /\ FREE_BLOCKS \in Int /\ INODES \in InodeTable /\ mine \in CallRecord
  BY CallTyped DEF StorageTypes, DataTypes
<1>3. PICK i \in Inode :
           \/ UNCHANGED cache /\ Continues(<<>>)
           \/ /\ INODES[i].kind = "file" /\ EndOf(mine) <= MAX_FILE_SIZE
              /\ Cardinality(Missing(INODES[i], EndOf(mine))) <= Cardinality(FreeBlocks)
              /\ alloc_blocks(i, EndOf(mine))
              /\ \E s \in InPieces(mine, i, Last(mine.op)) : Continues(s) /\ todo' = s
  BY FlowWrite
<1>4. CASE UNCHANGED cache /\ Continues(<<>>)
  BY <1>1, <1>2, <1>4, OnlyTable DEF cache
<1>5. CASE /\ INODES[i].kind = "file" /\ EndOf(mine) <= MAX_FILE_SIZE
           /\ Cardinality(Missing(INODES[i], EndOf(mine))) <= Cardinality(FreeBlocks)
           /\ alloc_blocks(i, EndOf(mine))
           /\ \E s \in InPieces(mine, i, Last(mine.op)) : Continues(s) /\ todo' = s
  <2>1. EndOf(mine) \in Nat
    BY <1>2 DEF EndOf, CallRecord
  <2>2. INODES' \in InodeTable /\ BITMAP' \in SUBSET Block /\ FREE_BLOCKS' \in Int
    BY <1>5, <2>1, Allocates
  <2> QED BY <1>1, <1>5, <2>2, OnlyTable
<1> QED BY <1>3, <1>4, <1>5

LEMMA FetchTypes ==
  ASSUME Sole, StorageTypes, Fetch(me)
  PROVE  StorageTypes'
<1>1. UNCHANGED <<INODES, BITMAP, FREE_BLOCKS, MOUNTED, NODES, file, calls, disk>>
  BY DEF Fetch, cache
<1>2. PICK i \in Inode, n \in Index : First(me) = At("fetch", i, n) /\ \E s : Continues(s)
  BY FlowFetch
<1>3. SCRATCH' = disk.data[INODES[i].blocks[n]]
  BY <1>2 DEF Fetch, At
<1>4. SCRATCH' \in Content
  BY <1>3 DEF StorageTypes, DataTypes, InodeTable, InodeRecord
<1> QED BY <1>1, <1>2, <1>4, OnlyCall

LEMMA ClearTypes ==
  ASSUME Sole, StorageTypes, Clear(me)
  PROVE  StorageTypes'
<1>1. UNCHANGED <<INODES, BITMAP, FREE_BLOCKS, MOUNTED, NODES, file, calls, disk>> /\ SCRATCH' \in Content
  BY EmptyTypes DEF Clear, cache
<1>2. \E s : Continues(s)
  BY FlowClear
<1> QED BY <1>1, <1>2, OnlyCall

LEMMA TakeTypes ==
  ASSUME Sole, StorageTypes, Take(me)
  PROVE  StorageTypes'
<1>1. UNCHANGED <<INODES, BITMAP, FREE_BLOCKS, MOUNTED, NODES, file, calls, disk>> /\ SCRATCH' \in Content
  BY DEF Take, cache, StorageTypes, DataTypes
<1>2. Done(me) /\ Now(me, "take") /\ todo # <<>>
  BY DEF Take, Now, todo
<1>3. Continues(<<>>)
  BY <1>2, FlowLast
<1> QED BY <1>1, <1>3, OnlyCall

LEMMA StoreTypes ==
  ASSUME Sole, StorageTypes, Store(me)
  PROVE  StorageTypes'
<1>1. UNCHANGED <<INODES, BITMAP, FREE_BLOCKS, MOUNTED, NODES, file, calls>>
  BY DEF Store, cache
<1>2. PICK i \in Inode, n \in Index :
           /\ First(me) = StoreOf(mine, i, n) /\ Reaches(mine, n) /\ Writer(mine)
           /\ \E s \in InPieces(mine, i, Last(mine.op)) : Continues(s) /\ todo' = s
  BY FlowStore
<1>3. mine \in CallRecord /\ mine.data # <<>>
  BY <1>2, CallTyped DEF Writer
<1>4. /\ EndOf(mine) \in Nat /\ FromOf(mine, n) \in Nat /\ ToOf(mine, n) \in Nat
      /\ ToOf(mine, n) <= BLOCK_SIZE
      /\ mine.offset <= n * BLOCK_SIZE + FromOf(mine, n)
      /\ n * BLOCK_SIZE + ToOf(mine, n) <= EndOf(mine) /\ n * BLOCK_SIZE \in Nat
  BY <1>2, <1>3, Ranges
<1> DEFINE S == [k \in Cell |-> IF k \in FromOf(mine, n) .. ToOf(mine, n) - 1
                               THEN mine.data[n * BLOCK_SIZE + k - mine.offset + 1] ELSE SCRATCH[k]]
           d == [disk EXCEPT !.data[INODES[i].blocks[n]] = S]
<1>5. First(me).from = FromOf(mine, n) /\ First(me).to = ToOf(mine, n) /\ First(me).nth = n /\ First(me).inode = i
  BY <1>2 DEF StoreOf, Stores
<1>6. SCRATCH' = S /\ disk' = d
  BY <1>5 DEF Store, mine
<1>7. S \in Content
  <2>1. ASSUME NEW k \in Cell, k \in FromOf(mine, n) .. ToOf(mine, n) - 1
        PROVE  mine.data[n * BLOCK_SIZE + k - mine.offset + 1] \in Data
    <3>1. mine.data \in Seq(Data) /\ mine.offset \in Nat /\ Len(mine.data) \in Nat /\ EndOf(mine) = mine.offset + Len(mine.data)
      BY <1>3 DEF CallRecord, EndOf
    <3> DEFINE p == n * BLOCK_SIZE  f == FromOf(mine, n)  t == ToOf(mine, n)  o == mine.offset  l == Len(mine.data)
    <3>2. p \in Nat /\ f \in Nat /\ t \in Nat /\ o \in Nat /\ l \in Nat /\ o <= p + f /\ p + t <= o + l /\ k \in f .. t - 1
      BY <1>4, <2>1, <3>1
    <3> HIDE DEF p, f, t, o, l
    <3>3. (p + k - o + 1) \in 1 .. l
      BY <3>2
    <3> QED BY <3>1, <3>3 DEF p, o, l
  <2>2. SCRATCH \in Content
    BY DEF StorageTypes, DataTypes
  <2>3. \A k \in Cell : S[k] \in Data \union {Zero}
    BY <2>1, <2>2 DEF Content
  <2> QED BY <2>3 DEF Content
<1>8. d \in DiskRecord /\ d.formatted = disk.formatted
  <2> HIDE DEF S
  <2>1. disk \in DiskRecord /\ INODES[i].blocks[n] \in Block
    BY DEF StorageTypes, DataTypes, DiskRecord, InodeTable, InodeRecord
  <2> QED BY <1>7, <2>1 DEF DiskRecord
<1> HIDE DEF S, d
<1>9. DataTypes'
  BY <1>1, <1>6, <1>7, <1>8, DataKept DEF StorageTypes, DataTypes
<1>10. CallTypes'
  BY <1>1, <1>2, <1>6, <1>8, GoesOn
<1> QED BY <1>9, <1>10 DEF StorageTypes

LEMMA GrowTypes ==
  ASSUME Sole, StorageTypes, Grow(me)
  PROVE  StorageTypes'
<1>1. UNCHANGED <<BITMAP, FREE_BLOCKS, SCRATCH, MOUNTED, NODES, disk, file, calls>>
  BY DEF Grow
<1>2. BITMAP' \in SUBSET Block /\ FREE_BLOCKS' \in Int /\ INODES \in InodeTable
  BY <1>1 DEF StorageTypes, DataTypes
<1>3. PICK i \in Inode :
           /\ First(me) = Grows(i, EndOf(mine)) /\ EndOf(mine) <= MAX_FILE_SIZE
           /\ Continues(Cons(Out(1), Cons(Just("bitmap"), Last(mine.op))))
  BY FlowGrow
<1>4. EndOf(mine) \in 0 .. MAX_FILE_SIZE
  BY <1>3, CallTyped, Sizes DEF EndOf, CallRecord
<1>5. INODES' = [INODES EXCEPT ![i].size = IF EndOf(mine) > @ THEN EndOf(mine) ELSE @]
  BY <1>3 DEF Grow, Grows
<1>6. INODES' \in InodeTable
  <2> DEFINE z == IF EndOf(mine) > INODES[i].size THEN EndOf(mine) ELSE INODES[i].size
  <2>1. INODES' = [INODES EXCEPT ![i].size = z]
    BY <1>2, <1>5 DEF InodeTable, InodeRecord
  <2>2. z \in 0 .. MAX_FILE_SIZE
    BY <1>2, <1>4 DEF InodeTable, InodeRecord
  <2> HIDE DEF z
  <2> QED BY <1>2, <2>1, <2>2 DEF InodeTable, InodeRecord
<1> QED BY <1>1, <1>2, <1>3, <1>6, OnlyTable

\* The last step of a call, which changes the nodes.
LEMMA OnlyNodes ==
  ASSUME Sole, StorageTypes, Continues(<<>>), UNCHANGED <<cache, SCRATCH, MOUNTED, disk, calls>>,
         NODES' \in NodeLists, Len(NODES') >= Len(NODES), file' \in [User -> [node : Nat, offset : Nat]],
         file'[me].node = file[me].node
  PROVE  StorageTypes'
<1>1. me' = me
  BY DEF me
<1>2. file[me].node \in Nat /\ file[me].node <= Len(NODES) /\ Len(NODES) \in Nat /\ Len(NODES') \in Nat
  <2>1. NODES \in Seq(NodeRecord) /\ NODES' \in Seq(NodeRecord)
    BY DEF StorageTypes, DataTypes, NodeLists
  <2> QED BY <2>1, CallTyped DEF StorageTypes, DataTypes
<1>3. file'[me].node <= Len(NODES')
  BY <1>2
<1>4. DataTypes'
  BY <1>1, <1>3 DEF StorageTypes, DataTypes, cache
<1>5. CallTypes'
  BY GoesOn
<1> QED BY <1>4, <1>5 DEF StorageTypes

LEMMA AttachStepTypes ==
  ASSUME Sole, StorageTypes, Attach(me)
  PROVE  StorageTypes'
<1>1. Done(me) /\ todo # <<>> /\ Now(me, "attach")
  BY DEF Attach, Now, todo
<1>2. Continues(<<>>)
  BY <1>1, FlowLast
<1>3. PICK i \in Inode : First(me) = On("attach", i)
  BY <1>1, FlowLast
<1>4. mine.path \in Seq(Word) /\ 0 \in 0 .. MAX_FILE_SIZE
  BY CallTyped, Sizes DEF CallRecord
<1>5. NODES' = attach_disk_node(NODES, mine.path, i, 0)
  BY <1>3 DEF Attach, On, mine
<1>6. NODES' \in NodeLists /\ Len(NODES') >= Len(NODES)
  BY <1>4, <1>5, AttachTypes DEF StorageTypes, DataTypes
<1>7. file' = file /\ UNCHANGED <<cache, SCRATCH, MOUNTED, disk, calls>>
  BY DEF Attach
<1>8. file' \in [User -> [node : Nat, offset : Nat]] /\ file'[me].node = file[me].node
  BY <1>7 DEF StorageTypes, DataTypes
<1> QED BY <1>2, <1>6, <1>7, <1>8, OnlyNodes

LEMMA RefreshStepTypes ==
  ASSUME Sole, StorageTypes, Refresh(me)
  PROVE  StorageTypes'
<1>1. Done(me) /\ todo # <<>> /\ Now(me, "refresh")
  BY DEF Refresh, Now, todo
<1>2. Continues(<<>>)
  BY <1>1, FlowLast
<1>4. mine.path \in Seq(Word)
  BY CallTyped DEF CallRecord
<1>5. NODES' = refresh_disk_node(NODES, INODES, mine.path)
  BY DEF Refresh, mine
<1>6. NODES' \in NodeLists /\ Len(NODES') >= Len(NODES)
  BY <1>4, <1>5, RefreshTypes DEF StorageTypes, DataTypes
<1>7. file' = file /\ UNCHANGED <<cache, SCRATCH, MOUNTED, disk, calls>>
  BY DEF Refresh
<1>8. file' \in [User -> [node : Nat, offset : Nat]] /\ file'[me].node = file[me].node
  BY <1>7 DEF StorageTypes, DataTypes
<1> QED BY <1>2, <1>6, <1>7, <1>8, OnlyNodes

\* The node of the open file, when a call writes to it.
LEMMA OpenNode ==
  ASSUME Sole, StorageTypes, Writer(mine), mine.op = "write_at"
  PROVE  /\ file[me].node \in 1 .. Len(NODES) /\ NODES[file[me].node] \in NodeRecord
         /\ NODES[file[me].node].source = "disk" /\ NODES[file[me].node].inode \in Inode
<1>1. OpensDisk
  BY DEF Writer
<1>2. me \in User /\ NODES \in Seq(NodeRecord) /\ file[me].node \in Nat /\ file[me].node <= Len(NODES)
  BY CallTyped DEF StorageTypes, DataTypes, NodeLists
<1>3. file[me].node \in 1 .. Len(NODES)
  BY <1>1, <1>2 DEF OpensDisk, NoNode
<1> QED BY <1>1, <1>2, <1>3 DEF OpensDisk, StorageTypes, DataTypes, NodeLists

LEMMA AdvanceTypes ==
  ASSUME Sole, StorageTypes, Advance(me)
  PROVE  StorageTypes'
<1>1. Done(me) /\ todo # <<>> /\ Now(me, "advance")
  BY DEF Advance, Now, todo
<1>2. Continues(<<>>) /\ Writer(mine) /\ mine.op = "write_at"
  BY <1>1, FlowLast
<1> DEFINE n == file[me].node  r == [NODES[n] EXCEPT !.size = INODES[NODES[n].inode].size]
<1>3. n \in 1 .. Len(NODES) /\ NODES[n] \in NodeRecord /\ NODES[n].inode \in Inode /\ NODES \in NodeLists
  BY <1>2, OpenNode DEF StorageTypes, DataTypes
<1>4. r \in NodeRecord /\ r.inode = NODES[n].inode
  <2>1. INODES[NODES[n].inode].size \in 0 .. MAX_FILE_SIZE
    BY <1>3 DEF StorageTypes, DataTypes, InodeTable, InodeRecord
  <2> QED BY <1>3, <2>1 DEF NodeRecord
<1>5. NODES' = [NODES EXCEPT ![n] = r]
  BY <1>3 DEF Advance, NodeLists
<1> HIDE DEF r
<1>6. NODES' \in NodeLists /\ Len(NODES') = Len(NODES)
  BY <1>3, <1>4, <1>5, NodeSet
<1>7. file' = [file EXCEPT ![me].offset = @ + Len(mine.data)] /\ UNCHANGED <<cache, SCRATCH, MOUNTED, disk, calls>>
  BY DEF Advance, mine
<1>8. file' \in [User -> [node : Nat, offset : Nat]] /\ file'[me].node = file[me].node
  <2>1. file \in [User -> [node : Nat, offset : Nat]] /\ me \in User /\ Len(mine.data) \in Nat
    BY CallTyped DEF StorageTypes, DataTypes, CallRecord
  <2> QED BY <1>7, <2>1
<1>9. Len(NODES') >= Len(NODES)
  <2>1. Len(NODES) \in Nat
    BY <1>3 DEF NodeLists
  <2> QED BY <1>6, <2>1
<1> QED BY <1>2, <1>6, <1>7, <1>8, <1>9, OnlyNodes

LEMMA ForgetTypes ==
  ASSUME Sole, StorageTypes, Forget(me)
  PROVE  StorageTypes'
<1>1. Done(me) /\ todo # <<>> /\ Now(me, "forget")
  BY DEF Forget, Now, todo
<1>2. Continues(<<>>)
  BY <1>1, FlowLast
<1>3. PICK n \in 1 .. Len(NODES) : First(me) = Forgets(n)
  BY <1>1, FlowLast
<1> DEFINE r == [NODES[n] EXCEPT !.used = FALSE]
<1>4. NODES \in NodeLists /\ Len(NODES) \in Nat
  BY DEF StorageTypes, DataTypes, NodeLists
<1>5. r \in NodeRecord /\ (r.source = "disk" => r.inode \in Inode)
  <2>1. NODES[n] \in NodeRecord /\ (NODES[n].source = "disk" => NODES[n].inode \in Inode)
    BY <1>4 DEF NodeLists
  <2> QED BY <2>1 DEF NodeRecord
<1>6. NODES' = [NODES EXCEPT ![n] = r]
  BY <1>3, <1>4 DEF Forget, Forgets, NodeLists
<1> HIDE DEF r
<1>7. NODES' \in NodeLists /\ Len(NODES') >= Len(NODES)
  <2>1. NODES' \in NodeLists /\ Len(NODES') = Len(NODES)
    BY <1>4, <1>5, <1>6, NodeSet
  <2> QED BY <1>4, <2>1
<1>8. file' = file /\ UNCHANGED <<cache, SCRATCH, MOUNTED, disk, calls>>
  BY DEF Forget
<1>9. file' \in [User -> [node : Nat, offset : Nat]] /\ file'[me].node = file[me].node
  BY <1>8 DEF StorageTypes, DataTypes
<1> QED BY <1>2, <1>7, <1>8, <1>9, OnlyNodes

LEMMA WriteSuperTypes ==
  ASSUME Sole, StorageTypes, WriteSuper(me)
  PROVE  StorageTypes'
<1>1. /\ mine.op = "format" /\ Leaves(Directories(1))
      /\ job' \in [User -> [call : CallRecord, steps : Seq(Step)]]
  BY FlowSuper
<1>2. UNCHANGED <<INODES, BITMAP, FREE_BLOCKS, SCRATCH, NODES, file, calls>> /\ MOUNTED'
      /\ disk' = [disk EXCEPT !.formatted = TRUE] /\ me' = me /\ MOUNTED' = TRUE
  BY DEF WriteSuper, cache, me
<1>3. disk' \in DiskRecord /\ disk'.formatted
  BY <1>2 DEF StorageTypes, DataTypes, DiskRecord
<1>4. DataTypes'
  BY <1>2, <1>3 DEF StorageTypes, DataTypes, DiskRecord
<1>5. CASE Directories(1) = <<>>
  <2>1. mine' = Idle /\ todo' = <<>>
    BY <1>1, <1>5 DEF Leaves
  <2>2. Shape(mine, todo)'
    BY <2>1 DEF Shape, Idle
  <2>3. mine'.op = "idle"
    BY <2>1, IdleCall
  <2> QED BY <1>1, <1>4, <2>2, <2>3 DEF StorageTypes, CallTypes
<1>6. CASE Directories(1) # <<>>
  <2>1. mine' = mine /\ todo' = Directories(1)
    BY <1>1, <1>6 DEF Leaves
  <2>2. 1 <= Len(Skeleton) /\ Directories(1) = Cons(Dir(1), <<>>)
    BY <1>6, ListHeads
  <2>3. 1 \in 1 .. Len(Skeleton)
    BY <2>2, PathsAssumption
  <2>4. OfSkeleton(todo)'
    BY <2>1, <2>2, <2>3 DEF OfSkeleton
  <2>5. Shape(mine, todo)'
    BY <1>1, <1>2, <2>1, <2>4 DEF Shape
  <2>6. mine'.op = "format"
    BY <1>1, <2>1
  <2> QED BY <1>1, <1>4, <2>5, <2>6 DEF StorageTypes, CallTypes
<1> QED BY <1>5, <1>6

------------------------------------------------------------------------------
(* The calls *)

LEMMA ContentTypes ==
  ASSUME Sole, StorageTypes, NEW path \in Path
  PROVE  Files[path] \in FileContent
<1>1. Table \in InodeTable
  BY EmptyTypes DEF StorageTypes, DataTypes, Table
<1>2. disk.data \in [Block -> Content]
  BY DEF StorageTypes, DataTypes
<1>3. ASSUME NEW inode \in InodeRecord PROVE ContentOf(inode) \in Seq(Data \union {Zero})
  <2>1. inode.size \in Nat /\ inode.size <= MAX_FILE_SIZE /\ inode.blocks \in [Index -> Block]
        /\ BLOCK_SIZE \in Nat \ {0} /\ DIRECT_BLOCKS \in Nat \ {0} /\ MAX_FILE_SIZE = DIRECT_BLOCKS * BLOCK_SIZE
    BY Sizes DEF InodeRecord, MAX_FILE_SIZE
  <2>2. ASSUME NEW k \in 1 .. inode.size
        PROVE  (k - 1) \div BLOCK_SIZE \in Index /\ (k - 1) % BLOCK_SIZE \in Cell
    <3> DEFINE e == k - 1  q == e \div BLOCK_SIZE
    <3>1. e \in Nat /\ e < MAX_FILE_SIZE
      BY <2>1
    <3> HIDE DEF e
    <3>2. q \in Nat /\ e % BLOCK_SIZE \in 0 .. BLOCK_SIZE - 1 /\ q * BLOCK_SIZE <= e
      BY <2>1, <3>1, Quotient
    <3> HIDE DEF q
    <3>3. ~(DIRECT_BLOCKS <= q)
      <4>1. DIRECT_BLOCKS <= q => DIRECT_BLOCKS * BLOCK_SIZE <= q * BLOCK_SIZE
        BY <2>1, <3>2, Products
      <4>2. q * BLOCK_SIZE \in Int /\ MAX_FILE_SIZE \in Nat
        BY <2>1, <3>2, Products, Sizes
      <4> QED BY <2>1, <3>1, <3>2, <4>1, <4>2
    <3>4. q \in Index
      BY <2>1, <3>2, <3>3 DEF Index
    <3> QED BY <3>2, <3>4 DEF e, q, Cell
  <2>3. ASSUME NEW k \in 1 .. inode.size
        PROVE  disk.data[inode.blocks[(k - 1) \div BLOCK_SIZE]][(k - 1) % BLOCK_SIZE] \in Data \union {Zero}
    <3>1. inode.blocks[(k - 1) \div BLOCK_SIZE] \in Block
      BY <2>1, <2>2
    <3>2. disk.data[inode.blocks[(k - 1) \div BLOCK_SIZE]] \in [Cell -> Data \union {Zero}]
      BY <1>2, <3>1 DEF Content
    <3> QED BY <2>2, <3>2
  <2>4. ContentOf(inode) \in [1 .. inode.size -> Data \union {Zero}]
    BY <2>3 DEF ContentOf
  <2> QED BY <2>1, <2>4
<1> DEFINE i == lookup_file(Table, path)
<1>4. i \in Inode \union {NoInode}
  BY <1>1, Words, ResolveType
<1>5. Files[path] = IF i = NoInode THEN Absent ELSE ContentOf(Table[i])
  BY DEF Files
<1> HIDE DEF i
<1>6. i # NoInode => ContentOf(Table[i]) \in Seq(Data \union {Zero})
  BY <1>1, <1>3, <1>4 DEF InodeTable
<1> QED BY <1>5, <1>6 DEF FileContent

Operation == {"idle", "create_file", "write_file", "remove_file", "mkdir", "rmdir", "sync", "write_at",
              "read", "format"}

LEMMA Began ==
  ASSUME Sole, StorageTypes, NEW op \in Operation, NEW path \in Seq(Word), NEW offset \in Nat, NEW data \in Seq(Data),
         NEW steps \in Seq(Step), Begins(me, op, path, offset, data, steps)
  PROVE  /\ mine' \in CallRecord /\ todo' = steps
         /\ mine'.op = op /\ mine'.path = path /\ mine'.offset = offset /\ mine'.data = data
         /\ job' \in [User -> [call : CallRecord, steps : Seq(Step)]]
         /\ calls' \in Nat /\ mine = Idle /\ todo = <<>> /\ job[me] = NoJob
<1> DEFINE w == IF path \in Path THEN Files[path] ELSE Absent
           c == [op |-> op, path |-> path, offset |-> offset, data |-> data, was |-> w]
<1>1. w \in FileContent
  BY ContentTypes DEF FileContent
<1> HIDE DEF w
<1>2. c \in CallRecord
  BY <1>1 DEF CallRecord, Operation
<1>3. job' = [job EXCEPT ![me] = [call |-> c, steps |-> steps]] /\ calls' = calls + 1 /\ job[me] = NoJob
  BY DEF Begins, w
<1>4. c.op = op /\ c.path = path /\ c.offset = offset /\ c.data = data
  OBVIOUS
<1> HIDE DEF c
<1>5. me' = me /\ me \in User /\ job \in [User -> [call : CallRecord, steps : Seq(Step)]] /\ calls \in Nat
  BY CallTyped DEF me, StorageTypes, CallTypes, DataTypes
<1>6. job'[me] = [call |-> c, steps |-> steps] /\ job' \in [User -> [call : CallRecord, steps : Seq(Step)]]
  BY <1>2, <1>3, <1>5
<1>7. mine' = c /\ todo' = steps
  BY <1>5, <1>6 DEF mine, todo
<1>8. mine = Idle /\ todo = <<>>
  BY <1>3 DEF mine, todo, NoJob
<1> QED BY <1>2, <1>3, <1>4, <1>5, <1>6, <1>7, <1>8

\* The steps are those of such a call.
Fits(op, offset, data, steps) ==
  \A c \in CallRecord : c.op = op /\ c.offset = offset /\ c.data = data => Shape(c, steps)

LEMMA BeginTypes ==
  ASSUME Sole, StorageTypes, NEW op \in Operation, NEW path \in Seq(Word), NEW offset \in Nat, NEW data \in Seq(Data),
         NEW steps \in Seq(Step), Begins(me, op, path, offset, data, steps),
         op \in {"create_file", "write_file", "mkdir"} => path \in Path,
         Fits(op, offset, data, steps),
         INODES' \in InodeTable, BITMAP' \in SUBSET Block, FREE_BLOCKS' \in Int,
         UNCHANGED <<SCRATCH, MOUNTED, NODES, disk, file>>
  PROVE  StorageTypes'
<1>1. /\ mine' \in CallRecord /\ todo' = steps
      /\ mine'.op = op /\ mine'.path = path /\ mine'.offset = offset /\ mine'.data = data
      /\ job' \in [User -> [call : CallRecord, steps : Seq(Step)]] /\ calls' \in Nat
  BY Began
<1>2. me' = me
  BY DEF me
<1>3. DataTypes'
  BY <1>1, <1>2 DEF StorageTypes, DataTypes
<1>4. PICK c \in CallRecord : c = mine'
  BY <1>1
<1>5. Shape(c, steps)
  BY <1>1, <1>4 DEF Fits
<1>6. Shape(c, steps)'
  BY <1>5, ShapeKept
<1>7. Shape(mine, todo)'
  BY <1>1, <1>4, <1>6 DEF Shape
<1> QED BY <1>1, <1>3, <1>7 DEF StorageTypes, CallTypes

\* A call that changes nothing of the data when it begins.
LEMMA QuietBegin ==
  ASSUME Sole, StorageTypes, NEW op \in Operation, NEW path \in Seq(Word), NEW offset \in Nat, NEW data \in Seq(Data),
         NEW steps \in Seq(Step), Begins(me, op, path, offset, data, steps),
         op \in {"create_file", "write_file", "mkdir"} => path \in Path,
         Fits(op, offset, data, steps),
         UNCHANGED <<cache, SCRATCH, MOUNTED, NODES, disk, file>>
  PROVE  StorageTypes'
<1>1. INODES' \in InodeTable /\ BITMAP' \in SUBSET Block /\ FREE_BLOCKS' \in Int
  BY DEF StorageTypes, DataTypes, cache
<1> QED BY <1>1, BeginTypes DEF cache

LEMMA TextIn ==
  ASSUME NEW d \in Data, NEW n \in WriteSizes
  PROVE  Text(d, n) \in Seq(Data) /\ Text(d, n) # <<>> /\ <<>> \in Seq(Data) /\ 0 \in Nat
<1>1. n \in Nat /\ n # 0
  BY SizesAssumption
<1> QED BY <1>1 DEF Text

\* The list of steps each call begins with.
LEMMA FirstSteps ==
  /\ <<[do |-> "create"]>> = FromCreate
  /\ <<[do |-> "mkdir", nth |-> 1]>> = Cons(Dir(1), <<>>) /\ Cons(Dir(1), <<>>) \in Seq(Step)
  /\ <<[do |-> "rmdir"]>> = Cons(Just("rmdir"), <<>>) /\ Cons(Just("rmdir"), <<>>) \in Seq(Step)
  /\ flush_inodes \o flush_bitmap = Cons(Out(1), Cons(Just("bitmap"), <<>>))
  /\ flush_inodes \o flush_bitmap \in Seq(Step)
  /\ \A i \in Inode : <<[do |-> "remove", inode |-> i]>> \o FromCreate = Cons(On("remove", i), FromCreate)
  /\ <<>> \o FromCreate = FromCreate
  /\ \A i \in Inode : \A n \in Nat :
       <<[do |-> "remove", inode |-> i], [do |-> "forget", node |-> n]>> = Cons(On("remove", i), FromForget(n))
  /\ \A i \in Inode : <<[do |-> "write", inode |-> i], [do |-> "advance"]>> = Cons(On("write", i), Last("write_at"))
  /\ \A i \in Inode, n \in Index :
       <<[do |-> "fetch", inode |-> i, nth |-> n], [do |-> "take", inode |-> i, nth |-> n]>>
         = Cons(At("fetch", i, n), FromTake(i, n)) /\ Cons(At("fetch", i, n), FromTake(i, n)) \in Seq(Step)
  /\ flush_inodes \o flush_bitmap \o <<[do |-> "super"]>> \o Directories(1)
       = Cons(Out(1), Cons(Just("bitmap"), FromSuper))
<1>0. <<>> \in Seq(Step)
  OBVIOUS
<1>1. Just("create") \in Step /\ Just("rmdir") \in Step /\ Just("super") \in Step /\ Dir(1) \in Step /\ Just("advance") \in Step
  BY StepTypes
<1>2. <<[do |-> "create"]>> = FromCreate
  BY <1>0, <1>1, Joined DEF FromCreate, Just
<1>3. <<[do |-> "mkdir", nth |-> 1]>> = Cons(Dir(1), <<>>) /\ Cons(Dir(1), <<>>) \in Seq(Step)
  <2>1. <<Dir(1)>> = Cons(Dir(1), <<>>)
    BY <1>0, <1>1, Joined
  <2> QED BY <1>0, <1>1, <2>1, ConsFacts DEF Dir
<1>4. <<[do |-> "rmdir"]>> = Cons(Just("rmdir"), <<>>) /\ Cons(Just("rmdir"), <<>>) \in Seq(Step)
  <2>1. <<Just("rmdir")>> = Cons(Just("rmdir"), <<>>)
    BY <1>0, <1>1, Joined
  <2> QED BY <1>0, <1>1, <2>1, ConsFacts DEF Just
<1>5. flush_inodes \o flush_bitmap = Cons(Out(1), Cons(Just("bitmap"), <<>>)) /\ flush_inodes \o flush_bitmap \in Seq(Step)
  <2>1. (flush_inodes \o flush_bitmap) \o <<>> = Cons(Out(1), Cons(Just("bitmap"), <<>>))
    BY <1>0, FlushLists
  <2>2. flush_bitmap \in Seq(Step)
    BY <1>0, FlushLists
  <2>3. (flush_inodes \o flush_bitmap) \o <<>> = flush_inodes \o flush_bitmap /\ flush_inodes \o flush_bitmap \in Seq(Step)
    BY <2>2, FlushLists
  <2> QED BY <2>1, <2>3
<1>6. ASSUME NEW i \in Inode PROVE <<[do |-> "remove", inode |-> i]>> \o FromCreate = Cons(On("remove", i), FromCreate)
  BY DEF Cons, On
<1>7. <<>> \o FromCreate = FromCreate
  BY Lists
<1>8. ASSUME NEW i \in Inode, NEW n \in Nat
      PROVE  <<[do |-> "remove", inode |-> i], [do |-> "forget", node |-> n]>> = Cons(On("remove", i), FromForget(n))
  <2>1. On("remove", i) \in Step /\ Forgets(n) \in Step
    BY StepTypes
  <2>2. <<On("remove", i), Forgets(n)>> = Cons(On("remove", i), Cons(Forgets(n), <<>>))
    BY <1>0, <2>1, Joined
  <2> QED BY <2>2 DEF On, Forgets, FromForget
<1>9. ASSUME NEW i \in Inode
      PROVE  <<[do |-> "write", inode |-> i], [do |-> "advance"]>> = Cons(On("write", i), Last("write_at"))
  <2>1. On("write", i) \in Step
    BY StepTypes
  <2>2. <<On("write", i), Just("advance")>> = Cons(On("write", i), Cons(Just("advance"), <<>>))
    BY <1>0, <1>1, <2>1, Joined
  <2>3. Last("write_at") = Cons(Just("advance"), <<>>)
    BY Lists
  <2> QED BY <2>2, <2>3 DEF On, Just
<1>10. ASSUME NEW i \in Inode, NEW n \in Index
       PROVE  /\ <<[do |-> "fetch", inode |-> i, nth |-> n], [do |-> "take", inode |-> i, nth |-> n]>>
                  = Cons(At("fetch", i, n), FromTake(i, n))
              /\ Cons(At("fetch", i, n), FromTake(i, n)) \in Seq(Step)
  <2>1. At("fetch", i, n) \in Step /\ At("take", i, n) \in Step
    BY StepTypes
  <2>2. <<At("fetch", i, n), At("take", i, n)>> = Cons(At("fetch", i, n), Cons(At("take", i, n), <<>>))
    BY <1>0, <2>1, Joined
  <2>3. Cons(At("fetch", i, n), FromTake(i, n)) \in Seq(Step)
    BY <2>1, Lists, ConsFacts
  <2> QED BY <2>2, <2>3 DEF At, FromTake
<1>11. flush_inodes \o flush_bitmap \o <<[do |-> "super"]>> \o Directories(1)
         = Cons(Out(1), Cons(Just("bitmap"), FromSuper))
  <2> DEFINE F == flush_inodes \o flush_bitmap  S == <<[do |-> "super"]>>  D == Directories(1)
  <2>1. F \in Seq(Step) /\ S \in Seq(Step) /\ D \in Seq(Step)
    <3>1. Just("super") = [do |-> "super"]
      BY DEF Just
    <3>2. <<Just("super")>> \in Seq(Step)
      BY <1>1
    <3> QED BY <1>5, <3>1, <3>2, Lists
  <2>2. S \o D = FromSuper
    BY DEF FromSuper, Cons, Just
  <2>3. F \o FromSuper = Cons(Out(1), Cons(Just("bitmap"), FromSuper))
    BY Lists, FlushLists
  <2> HIDE DEF F, S, D
  <2>4. (F \o S) \o D = F \o (S \o D)
    BY <2>1, Associative, Zenon
  <2> QED BY <2>2, <2>3, <2>4 DEF F, S, D
<1> QED BY <1>2, <1>3, <1>4, <1>5, <1>6, <1>7, <1>8, <1>9, <1>10, <1>11

LEMMA MakingTypes ==
  ASSUME Sole, StorageTypes, NEW path \in Path,
         create_file(me, path) \/ make_directory(me, path) \/ remove_directory(me, path)
  PROVE  StorageTypes'
<1>1. path \in Seq(Word) /\ <<>> \in Seq(Data) /\ 0 \in Nat
  BY Words
<1>2. CASE create_file(me, path)
  <2>1. Begins(me, "create_file", path, 0, <<>>, FromCreate) /\ MOUNTED
    BY <1>2, FirstSteps DEF create_file
  <2>2. Fits("create_file", 0, <<>>, FromCreate)
    BY <2>1 DEF Fits, Shape, OfCreateFile
  <2>3. "create_file" \in Operation /\ FromCreate \in Seq(Step)
    BY Lists DEF Operation
  <2> QED BY <1>1, <1>2, <2>1, <2>2, <2>3, QuietBegin DEF create_file
<1>3. CASE make_directory(me, path)
  <2> DEFINE s == Cons(Dir(1), <<>>)
  <2>1. Begins(me, "mkdir", path, 0, <<>>, s) /\ MOUNTED /\ s \in Seq(Step)
    BY <1>3, FirstSteps DEF make_directory
  <2>2. Fits("mkdir", 0, <<>>, s)
    BY <2>1 DEF Fits, Shape
  <2>3. "mkdir" \in Operation
    BY DEF Operation
  <2> HIDE DEF s
  <2> QED BY <1>1, <1>3, <2>1, <2>2, <2>3, QuietBegin DEF make_directory
<1>4. CASE remove_directory(me, path)
  <2> DEFINE s == Cons(Just("rmdir"), <<>>)
  <2>1. Begins(me, "rmdir", path, 0, <<>>, s) /\ MOUNTED /\ s \in Seq(Step)
    BY <1>4, FirstSteps DEF remove_directory
  <2>2. Fits("rmdir", 0, <<>>, s)
    BY <2>1 DEF Fits, Shape
  <2>3. "rmdir" \in Operation
    BY DEF Operation
  <2> HIDE DEF s
  <2> QED BY <1>1, <1>4, <2>1, <2>2, <2>3, QuietBegin DEF remove_directory
<1> QED BY <1>2, <1>3, <1>4

LEMMA WriteFileTypes ==
  ASSUME Sole, StorageTypes, NEW path \in Path, NEW d \in Data, NEW n \in WriteSizes, write_file(me, path, Text(d, n))
  PROVE  StorageTypes'
<1> DEFINE i == lookup_file(INODES, path)
           s == IF i = NoInode THEN FromCreate ELSE Cons(On("remove", i), FromCreate)
           t == Text(d, n)
<1>0. path \in Seq(Word) /\ 0 \in Nat
  BY Words
<1>1. i \in Inode \union {NoInode}
  BY <1>0, ResolveType DEF StorageTypes, DataTypes
<1>2. <<[do |-> "create"]>> = FromCreate /\ <<>> \o FromCreate = FromCreate
  BY FirstSteps
<1>3. i # NoInode => <<[do |-> "remove", inode |-> i]>> \o FromCreate = Cons(On("remove", i), FromCreate)
  BY <1>1, FirstSteps
<1>4. Begins(me, "write_file", path, 0, t,
             (IF i = NoInode THEN <<>> ELSE <<[do |-> "remove", inode |-> i]>>) \o <<[do |-> "create"]>>)
  BY DEF write_file
<1>5. t \in Seq(Data) /\ t # <<>>
  BY TextIn
<1> HIDE DEF i, t
<1>6. (IF i = NoInode THEN <<>> ELSE <<[do |-> "remove", inode |-> i]>>) \o <<[do |-> "create"]>> = s
  BY <1>2, <1>3
<1>7. Begins(me, "write_file", path, 0, t, s)
  BY <1>4, <1>6
<1>8. s \in Seq(Step)
  BY <1>1, Lists
<1>9. Fits("write_file", 0, t, s)
  BY <1>1, <1>5 DEF Fits, Shape, OfWriteFile, write_file
<1> HIDE DEF s
<1>10. UNCHANGED <<cache, SCRATCH, MOUNTED, NODES, disk, file>>
  BY DEF write_file
<1>11. "write_file" \in Operation
  BY DEF Operation
<1> QED BY <1>0, <1>5, <1>7, <1>8, <1>9, <1>10, <1>11, QuietBegin

LEMMA RemoveFileTypes ==
  ASSUME Sole, StorageTypes, NEW path \in Path, remove_file(me, path)
  PROVE  StorageTypes'
<1> DEFINE n == lookup(NODES, path)  i == NODES[n].inode  s == Cons(On("remove", i), FromForget(n))
<1>1. path \in Seq(Word) /\ <<>> \in Seq(Data) /\ 0 \in Nat
  BY Words
<1>2. NODES \in NodeLists /\ Len(NODES) \in Nat
  BY DEF StorageTypes, DataTypes, NodeLists
<1>3. n \in 1 .. Len(NODES) /\ NODES[n].source = "disk"
  BY <1>2, LookupType DEF remove_file
<1>4. i \in Inode /\ n \in Nat
  BY <1>2, <1>3 DEF NodeLists
<1>5. Begins(me, "remove_file", path, 0, <<>>,
             <<[do |-> "remove", inode |-> i], [do |-> "forget", node |-> n]>>) /\ MOUNTED
  BY DEF remove_file
<1> HIDE DEF i, n
<1>6. Begins(me, "remove_file", path, 0, <<>>, s)
  BY <1>4, <1>5, FirstSteps
<1>7. FromForget(n) \in Seq(Step)
  BY <1>4, Lists
<1>8. s \in Seq(Step)
  BY <1>4, <1>7, Lists
<1>9. OfRemoveFile(s)
  BY <1>3, <1>4 DEF OfRemoveFile
<1>10. Fits("remove_file", 0, <<>>, s)
  BY <1>5, <1>9 DEF Fits, Shape
<1>11. UNCHANGED <<cache, SCRATCH, MOUNTED, NODES, disk, file>>
  BY DEF remove_file
<1>12. "remove_file" \in Operation
  BY DEF Operation
<1> HIDE DEF s
<1> QED BY <1>1, <1>6, <1>8, <1>10, <1>11, <1>12, QuietBegin

LEMMA SyncTypes ==
  ASSUME Sole, StorageTypes, sync(me)
  PROVE  StorageTypes'
<1> DEFINE s == Cons(Out(1), Cons(Just("bitmap"), <<>>))
<1>1. Begins(me, "sync", <<>>, 0, <<>>, s) /\ MOUNTED /\ s \in Seq(Step)
  BY FirstSteps DEF sync
<1>2. <<>> \in Seq(Word) /\ <<>> \in Seq(Data) /\ <<>> \in Seq(Step) /\ 0 \in Nat
  OBVIOUS
<1>3. s \in FlushBoth(<<>>)
  BY <1>2, FlushHeads, ChunkNumbers
<1>4. Fits("sync", 0, <<>>, s)
  BY <1>1, <1>3 DEF Fits, Shape
<1>5. UNCHANGED <<cache, SCRATCH, MOUNTED, NODES, disk, file>>
  BY DEF sync
<1>6. "sync" \in Operation
  BY DEF Operation
<1> HIDE DEF s
<1> QED BY <1>1, <1>2, <1>4, <1>5, <1>6, QuietBegin

LEMMA FormatTypes ==
  ASSUME Sole, StorageTypes, format(me)
  PROVE  StorageTypes' /\ ~disk.formatted /\ ~MOUNTED /\ mine = Idle /\ todo = <<>> /\ mine'.op = "format"
         /\ todo' = Cons(Out(1), Cons(Just("bitmap"), FromSuper))
         /\ INODES' = Fresh /\ BITMAP' = {} /\ FREE_BLOCKS' = TOTAL_BLOCKS
<1> DEFINE s == Cons(Out(1), Cons(Just("bitmap"), FromSuper))
<1>1. Begins(me, "format", <<>>, 0, <<>>, s)
  BY FirstSteps DEF format
<1>2. ~disk.formatted /\ ~MOUNTED
  BY DEF format, Sole, StorageTypes, DataTypes
<1>3. <<>> \in Seq(Word) /\ <<>> \in Seq(Data) /\ 0 \in Nat
  OBVIOUS
<1>4. FromSuper \in Seq(Step)
  BY Lists
<1>5. s \in FlushBoth(FromSuper)
  BY <1>4, FlushHeads, ChunkNumbers
<1>6. s \in Seq(Step)
  BY <1>4, Lists, ChunkNumbers
<1>7. Fits("format", 0, <<>>, s)
  BY <1>2, <1>5 DEF Fits, Shape
<1>8. UNCHANGED <<SCRATCH, MOUNTED, NODES, disk, file>> /\ INODES' = Fresh /\ BITMAP' = {} /\ FREE_BLOCKS' = TOTAL_BLOCKS
  BY DEF format, Fresh
<1>9. INODES' \in InodeTable /\ BITMAP' \in SUBSET Block /\ FREE_BLOCKS' \in Int
  BY <1>8, EmptyTypes, Sizes
<1>10. "format" \in Operation
  BY DEF Operation
<1> HIDE DEF s
<1>11. StorageTypes'
  BY <1>1, <1>3, <1>6, <1>7, <1>8, <1>9, <1>10, BeginTypes
<1>12. todo' = s /\ mine'.op = "format" /\ mine = Idle /\ todo = <<>>
  BY <1>1, <1>3, <1>6, <1>10, Began
<1> QED BY <1>2, <1>8, <1>11, <1>12 DEF s

LEMMA OnDiskNode ==
  ASSUME Sole, StorageTypes, OnDisk(me)
  PROVE  /\ OpensDisk /\ file[me].node \in 1 .. Len(NODES) /\ NODES[file[me].node].inode \in Inode
         /\ NODES[file[me].node].path \in Seq(Word) /\ file[me].offset \in Nat
<1>1. me \in User /\ NODES \in Seq(NodeRecord) /\ file[me].node \in Nat /\ file[me].node <= Len(NODES) /\ file[me].offset \in Nat
  BY CallTyped DEF StorageTypes, DataTypes, NodeLists
<1>2. OpensDisk
  BY DEF OnDisk, OpensDisk
<1>3. file[me].node \in 1 .. Len(NODES)
  BY <1>1, <1>2 DEF OpensDisk, NoNode
<1>4. NODES[file[me].node] \in NodeRecord
  BY <1>1, <1>3
<1> QED BY <1>1, <1>2, <1>3, <1>4 DEF OpensDisk, StorageTypes, DataTypes, NodeLists, NodeRecord

LEMMA WriteAtTypes ==
  ASSUME Sole, StorageTypes, NEW d \in Data, NEW n \in WriteSizes, write_at(me, Text(d, n))
  PROVE  StorageTypes'
<1> DEFINE i == NODES[file[me].node].inode  p == NODES[file[me].node].path  o == file[me].offset
           s == Cons(On("write", i), Last("write_at"))  t == Text(d, n)
<1>1. i \in Inode /\ p \in Seq(Word) /\ o \in Nat /\ OpensDisk
  BY OnDiskNode DEF write_at
<1>2. t \in Seq(Data) /\ t # <<>>
  BY TextIn
<1>3. Begins(me, "write_at", p, o, t, <<[do |-> "write", inode |-> i], [do |-> "advance"]>>) /\ MOUNTED
  BY DEF write_at
<1> HIDE DEF i, p, o, t
<1>4. Begins(me, "write_at", p, o, t, s)
  BY <1>1, <1>3, FirstSteps
<1>5. s \in Seq(Step)
  BY <1>1, Lists
<1>6. Fits("write_at", o, t, s)
  BY <1>1, <1>2, <1>3 DEF Fits, Shape, OfWriteAt, InWrite
<1>7. UNCHANGED <<cache, SCRATCH, MOUNTED, NODES, disk, file>>
  BY DEF write_at
<1>8. "write_at" \in Operation
  BY DEF Operation
<1> HIDE DEF s
<1> QED BY <1>1, <1>2, <1>4, <1>5, <1>6, <1>7, <1>8, QuietBegin

LEMMA ReadTypes ==
  ASSUME Sole, StorageTypes, read(me)
  PROVE  StorageTypes'
<1> DEFINE i == NODES[file[me].node].inode  p == NODES[file[me].node].path  o == file[me].offset
           n == o \div BLOCK_SIZE  s == Cons(At("fetch", i, n), FromTake(i, n))
<1>1. i \in Inode /\ p \in Seq(Word) /\ o \in Nat
  BY OnDiskNode DEF read
<1>2. Begins(me, "read", p, o, <<>>, <<[do |-> "fetch", inode |-> i, nth |-> n], [do |-> "take", inode |-> i, nth |-> n]>>)
      /\ MOUNTED /\ o < INODES[i].size
  BY DEF read
<1>3. INODES[i].size \in 0 .. MAX_FILE_SIZE
  BY <1>1 DEF StorageTypes, DataTypes, InodeTable, InodeRecord
<1>4. n \in Index
  <2> HIDE DEF o, i
  <2>1. BLOCK_SIZE \in Nat \ {0} /\ DIRECT_BLOCKS \in Nat \ {0} /\ MAX_FILE_SIZE = DIRECT_BLOCKS * BLOCK_SIZE /\ MAX_FILE_SIZE \in Nat
    BY Sizes DEF MAX_FILE_SIZE
  <2>2. n \in Nat /\ n * BLOCK_SIZE <= o
    BY <1>1, <2>1, Quotient
  <2> HIDE DEF n
  <2>3. DIRECT_BLOCKS <= n => DIRECT_BLOCKS * BLOCK_SIZE <= n * BLOCK_SIZE
    BY <2>1, <2>2, Products
  <2>4. n * BLOCK_SIZE \in Int
    BY <2>1, <2>2, Products
  <2>5. o < MAX_FILE_SIZE
    BY <1>1, <1>2, <1>3, <2>1
  <2>6. ~(DIRECT_BLOCKS <= n)
    BY <1>1, <2>1, <2>2, <2>3, <2>4, <2>5
  <2> QED BY <2>1, <2>2, <2>6 DEF Index
<1> HIDE DEF i, p, o, n
<1>5. Begins(me, "read", p, o, <<>>, s) /\ s \in Seq(Step)
  BY <1>1, <1>2, <1>4, FirstSteps
<1>6. Fits("read", o, <<>>, s)
  BY <1>1, <1>2, <1>4 DEF Fits, Shape, OfRead
<1>7. UNCHANGED <<cache, SCRATCH, MOUNTED, NODES, disk, file>>
  BY DEF read
<1>8. "read" \in Operation /\ <<>> \in Seq(Data)
  BY DEF Operation
<1> HIDE DEF s
<1> QED BY <1>1, <1>5, <1>6, <1>7, <1>8, QuietBegin

\* A step that leaves a call that is over with nothing to do.
LEMMA AtRest ==
  ASSUME Sole, StorageTypes, job'[me] = NoJob, job' \in [User -> [call : CallRecord, steps : Seq(Step)]], DataTypes'
  PROVE  StorageTypes' /\ mine' = Idle /\ todo' = <<>>
<1>1. mine' = Idle /\ todo' = <<>>
  BY DEF mine, todo, NoJob, me
<1>2. Shape(mine, todo)'
  BY <1>1 DEF Shape, Idle
<1>3. mine'.op = "idle"
  BY <1>1, IdleCall
<1> QED BY <1>1, <1>2, <1>3 DEF StorageTypes, CallTypes

LEMMA OpenTypes ==
  ASSUME Sole, StorageTypes, NEW path \in Path, open(me, path)
  PROVE  StorageTypes'
<1>1. job' = job /\ job[me] = NoJob /\ UNCHANGED <<cache, SCRATCH, MOUNTED, NODES, disk, calls>>
      /\ file' = [file EXCEPT ![me] = [node |-> lookup(NODES, path), offset |-> 0]] /\ me' = me
  BY DEF open, me
<1>2. NODES \in Seq(NodeRecord) /\ Len(NODES) \in Nat
  BY DEF StorageTypes, DataTypes, NodeLists
<1> DEFINE n == lookup(NODES, path)
<1>3. n \in Nat /\ n <= Len(NODES)
  BY <1>2, LookupType
<1> HIDE DEF n
<1>4. file' = [file EXCEPT ![me] = [node |-> n, offset |-> 0]]
  BY <1>1 DEF n
<1>5. file' \in [User -> [node : Nat, offset : Nat]] /\ file'[me].node = n
  BY <1>3, <1>4, CallTyped DEF StorageTypes, DataTypes
<1>6. DataTypes'
  BY <1>1, <1>3, <1>5 DEF StorageTypes, DataTypes, cache
<1>7. job' \in [User -> [call : CallRecord, steps : Seq(Step)]] /\ job'[me] = NoJob
  BY <1>1 DEF StorageTypes, CallTypes
<1> QED BY <1>6, <1>7, AtRest

LEMMA MountNodes ==
  ASSUME NEW nodes \in NodeLists, NEW table \in InodeTable
  PROVE  mount_disk_files(nodes, table) \in NodeLists /\ Len(mount_disk_files(nodes, table)) >= Len(nodes)
<1>1. PICK upto : /\ upto \in [0 .. MAX_INODES -> NodeLists] /\ upto[0] = nodes
                  /\ \A i \in 1 .. MAX_INODES : upto[i] = MountTurn(upto[i - 1], table, i - 1)
                  /\ mount_disk_files(nodes, table) = upto[MAX_INODES]
  BY MountLoop
<1>2. MAX_INODES \in Nat /\ \A v \in NodeLists : Len(v) \in Nat
  BY Sizes DEF NodeLists
<1> DEFINE S == {i \in 0 .. MAX_INODES : Len(upto[i]) >= Len(nodes)}
<1>3. 0 \in S
  BY <1>1, <1>2
<1>4. ASSUME NEW n \in 1 .. MAX_INODES, n - 1 \in S PROVE n \in S
  <2>1. n - 1 \in Inode /\ n - 1 \in 0 .. MAX_INODES /\ n \in 0 .. MAX_INODES
    BY <1>2 DEF Inode
  <2> DEFINE v == upto[n - 1]  i == n - 1
  <2>2. v \in NodeLists /\ upto[n] = MountTurn(v, table, i) /\ Len(v) >= Len(nodes)
    BY <1>1, <1>4, <2>1
  <2>3. i \in Inode /\ path_of(table, i) \in Seq(Word) /\ table[i].size \in 0 .. MAX_FILE_SIZE
    BY <2>1, PathType DEF InodeTable, InodeRecord
  <2> HIDE DEF v, i
  <2>4. Len(attach_disk_node(v, path_of(table, i), i, table[i].size)) >= Len(v)
        /\ attach_disk_node(v, path_of(table, i), i, table[i].size) \in NodeLists
    BY <2>2, <2>3, AttachTypes
  <2>5. Len(MountTurn(v, table, i)) >= Len(nodes)
    BY <1>2, <2>2, <2>4 DEF MountTurn
  <2> QED BY <2>1, <2>2, <2>5
<1> HIDE DEF S
<1>5. \A n \in 0 .. MAX_INODES : n \in S
  BY <1>2, <1>3, <1>4, InductionUpTo
<1>6. MAX_INODES \in S
  BY <1>2, <1>5
<1> QED BY <1>1, <1>2, <1>6 DEF S

LEMMA MountTypes ==
  ASSUME Sole, StorageTypes, mount
  PROVE  StorageTypes'
<1>1. /\ INODES' = disk.inodes /\ BITMAP' = disk.bitmap /\ FREE_BLOCKS' = Cardinality(Block \ disk.bitmap)
      /\ MOUNTED' = TRUE /\ disk.formatted /\ me \in User
      /\ NODES' = mount_disk_files(NODES, disk.inodes) /\ job[me] = NoJob
      /\ UNCHANGED <<SCRATCH, disk, file, job, calls>> /\ me' = me
  BY CallTyped DEF mount, me
<1>2. INODES' \in InodeTable /\ BITMAP' \in SUBSET Block /\ disk \in DiskRecord /\ NODES \in NodeLists
  BY <1>1 DEF StorageTypes, DataTypes, DiskRecord
<1>3. FREE_BLOCKS' \in Int
  <2>1. IsFiniteSet(Block)
    <3>1. TOTAL_BLOCKS - 1 \in Int
      BY Sizes
    <3> QED BY <3>1, FS_Interval DEF Block
  <2>2. Cardinality(Block \ disk.bitmap) \in Nat
    BY <2>1, FS_Subset, FS_CardinalityType
  <2> QED BY <1>1, <2>2
<1>4. NODES' \in NodeLists /\ Len(NODES') >= Len(NODES)
  BY <1>1, <1>2, MountNodes DEF DiskRecord
<1>5. file[me].node <= Len(NODES')
  <2>1. Len(NODES) \in Nat /\ Len(NODES') \in Nat /\ file[me].node \in Nat /\ file[me].node <= Len(NODES)
    BY <1>1, <1>2, <1>4 DEF StorageTypes, DataTypes, NodeLists
  <2> QED BY <1>4, <2>1
<1>6. DataTypes'
  BY <1>1, <1>2, <1>3, <1>4, <1>5 DEF StorageTypes, DataTypes
<1>7. job' \in [User -> [call : CallRecord, steps : Seq(Step)]] /\ job'[me] = NoJob
  BY <1>1 DEF StorageTypes, CallTypes
<1> QED BY <1>6, <1>7, AtRest

LEMMA RestTypes ==
  ASSUME me \in User
  PROVE  /\ [u \in User |-> NoJob] \in [User -> [call : CallRecord, steps : Seq(Step)]]
         /\ [u \in User |-> [node |-> NoNode, offset |-> 0]] \in [User -> [node : Nat, offset : Nat]]
         /\ \A l \in Nat : NoNode <= l
<1>1. NoJob \in [call : CallRecord, steps : Seq(Step)]
  BY IdleCall DEF NoJob
<1>2. NoNode \in Nat /\ \A l \in Nat : NoNode <= l
  BY DEF NoNode
<1> QED BY <1>1, <1>2

LEMMA RestartTypes ==
  ASSUME Sole, StorageTypes, Restart
  PROVE  StorageTypes' /\ mine' = Idle /\ todo' = <<>>
<1>1. /\ INODES' = [i \in Inode |-> Empty] /\ BITMAP' = {} /\ FREE_BLOCKS' = 0
      /\ SCRATCH' = Blank /\ MOUNTED' = FALSE /\ NODES' = RamNodes /\ calls' = calls + 1
      /\ file' = [u \in User |-> [node |-> NoNode, offset |-> 0]]
      /\ job' = [u \in User |-> NoJob] /\ disk' = disk /\ me' = me /\ me \in User
  BY CallTyped DEF Restart, me
<1>2. Len(NODES') \in Nat
  BY <1>1, EmptyTypes DEF NodeLists
<1>3. file' \in [User -> [node : Nat, offset : Nat]] /\ file'[me].node <= Len(NODES')
  BY <1>1, <1>2, RestTypes
<1>4. DataTypes'
  <2>1. disk \in DiskRecord /\ calls' \in Nat /\ {} \in SUBSET Block /\ FREE_BLOCKS' \in Int
    BY <1>1 DEF StorageTypes, DataTypes, DiskRecord
  <2>2. /\ INODES' \in InodeTable /\ BITMAP' \in SUBSET Block /\ SCRATCH' \in Content /\ MOUNTED' = FALSE /\ NODES' \in NodeLists
    BY <1>1, EmptyTypes
  <2> QED BY <1>1, <1>3, <2>1, <2>2 DEF DataTypes, DiskRecord
<1>5. job'[me] = NoJob /\ job' \in [User -> [call : CallRecord, steps : Seq(Step)]]
  BY <1>1, RestTypes
<1> QED BY <1>4, <1>5, AtRest

LEMMA InitTypes ==
  ASSUME Sole, Init
  PROVE  StorageTypes /\ mine = Idle /\ todo = <<>>
<1>1. me \in User
  BY DEF Sole
<1>2. Len(NODES) \in Nat
  BY EmptyTypes DEF NodeLists, Init
<1>3. file \in [User -> [node : Nat, offset : Nat]] /\ file[me].node <= Len(NODES)
  BY <1>1, <1>2, RestTypes DEF Init
<1>4. [b \in Block |-> Blank] \in [Block -> Content]
  BY EmptyTypes
<1>5. DataTypes
  <2>1. /\ INODES \in InodeTable /\ BITMAP \in SUBSET Block /\ FREE_BLOCKS \in Int /\ SCRATCH \in Content
        /\ MOUNTED = FALSE /\ NODES \in NodeLists /\ calls \in Nat
    BY EmptyTypes DEF Init
  <2>2. disk \in DiskRecord
    <3> DEFINE I == [i \in Inode |-> Empty]  D == [b \in Block |-> Blank]
    <3>1. disk = [formatted |-> FALSE, inodes |-> I, bitmap |-> {}, data |-> D]
      BY DEF Init
    <3>2. I \in InodeTable /\ D \in [Block -> Content]
      BY <1>4, EmptyTypes
    <3> HIDE DEF I, D
    <3> QED BY <3>1, <3>2 DEF DiskRecord
  <2> QED BY <1>3, <2>1, <2>2 DEF DataTypes, DiskRecord
<1>6. job \in [User -> [call : CallRecord, steps : Seq(Step)]]
  BY <1>1, RestTypes DEF Init
<1>7. mine = Idle /\ todo = <<>>
  BY <1>1 DEF Init, mine, todo, NoJob
<1>8. Shape(mine, todo)
  BY <1>7 DEF Shape
<1>9. mine.op = "idle"
  BY <1>7, IdleCall
<1> QED BY <1>5, <1>6, <1>7, <1>8, <1>9 DEF StorageTypes, CallTypes

LEMMA CallsTypes ==
  ASSUME Sole, StorageTypes, Calls(me)
  PROVE  StorageTypes'
<1>1. CASE sync(me) \/ format(me) \/ read(me)
  BY <1>1, SyncTypes, FormatTypes, ReadTypes
<1>2. CASE \E d \in Data, n \in WriteSizes : write_at(me, Text(d, n))
  BY <1>2, WriteAtTypes
<1>3. ASSUME NEW path \in Path, remove_file(me, path) \/ open(me, path) PROVE StorageTypes'
  BY <1>3, RemoveFileTypes, OpenTypes
<1>4. ASSUME NEW path \in Path, NEW d \in Data, NEW n \in WriteSizes, write_file(me, path, Text(d, n))
      PROVE  StorageTypes'
  BY <1>4, WriteFileTypes
<1> QED BY <1>1, <1>2, <1>3, <1>4, MakingTypes DEF Calls

LEMMA StepsTypes ==
  ASSUME Sole, StorageTypes, Steps(me)
  PROVE  StorageTypes'
BY WriteInodesTypes, WriteBitmapTypes, FailsTypes, WriteSuperTypes, CreateTypes, MkdirTypes, RmdirTypes, RemoveTypes,
   WriteTypes, FetchTypes, ClearTypes, StoreTypes, GrowTypes, TakeTypes, AttachStepTypes, RefreshStepTypes,
   AdvanceTypes, ForgetTypes DEF Steps

LEMMA StutterTypes ==
  ASSUME Sole, StorageTypes, UNCHANGED vars
  PROVE  StorageTypes' /\ mine' = mine /\ todo' = todo
<1>1. UNCHANGED <<INODES, BITMAP, FREE_BLOCKS, SCRATCH, MOUNTED, NODES, disk, file, job, calls>> /\ me' = me
  BY DEF vars, cache, me
<1>2. mine' = mine /\ todo' = todo
  BY <1>1 DEF mine, todo
<1>3. DataTypes'
  BY <1>1 DEF StorageTypes, DataTypes
<1>4. mine \in CallRecord /\ Shape(mine, todo)
  BY CallTyped
<1>5. PICK c, s : c \in CallRecord /\ c = mine /\ s = todo
  BY <1>4
<1>6. Shape(c, s)'
  BY <1>1, <1>4, <1>5, ShapeKept
<1>7. Shape(mine, todo)'
  BY <1>2, <1>5, <1>6 DEF Shape
<1>8. job' \in [User -> [call : CallRecord, steps : Seq(Step)]]
      /\ (mine'.op \in {"create_file", "write_file", "mkdir"} => mine'.path \in Path)
  BY <1>1, <1>2 DEF StorageTypes, CallTypes
<1> QED BY <1>2, <1>3, <1>7, <1>8 DEF StorageTypes, CallTypes

\* One user: its calls and its steps are all there is besides mount and Restart.
LEMMA Actions ==
  ASSUME Sole, [Next]_vars
  PROVE  mount \/ Restart \/ Calls(me) \/ Steps(me) \/ UNCHANGED vars
BY DEF Sole, Next

LEMMA NextTypes ==
  ASSUME Sole, StorageTypes, [Next]_vars
  PROVE  StorageTypes'
<1>1. CASE mount \/ Restart
  BY <1>1, MountTypes, RestartTypes
<1>2. CASE Calls(me) \/ Steps(me)
  BY <1>2, CallsTypes, StepsTypes
<1>3. CASE UNCHANGED vars
  BY <1>3, StutterTypes
<1> QED BY <1>1, <1>2, <1>3, Actions

------------------------------------------------------------------------------
(* Blocks: what the tables of inodes keep *)

LEMMA CountZero == block_count(0) = 0
<1>1. block_count(0) \in Nat /\ \A k \in Int : k < block_count(0) <=> k * BLOCK_SIZE < 0
  BY Counts
<1>2. 0 < block_count(0) <=> 0 * BLOCK_SIZE < 0
  BY <1>1
<1>3. 0 * BLOCK_SIZE = 0
  BY Sizes
<1> QED BY <1>1, <1>2, <1>3

LEMMA CountType ==
  ASSUME NEW a \in InodeRecord
  PROVE  /\ Count(a) \in Nat /\ Count(a) <= DIRECT_BLOCKS /\ 0 .. Count(a) - 1 \subseteq Index
         /\ Owned(a) = {a.blocks[k] : k \in 0 .. Count(a) - 1} /\ a.blocks \in [Index -> Block]
         /\ Owned(a) \subseteq Block
<1>1. a.size \in Nat /\ a.size <= MAX_FILE_SIZE /\ DIRECT_BLOCKS \in Nat /\ a.blocks \in [Index -> Block]
  BY Sizes DEF InodeRecord
<1>2. block_count(a.size) \in Nat /\ block_count(a.size) <= DIRECT_BLOCKS
  BY <1>1, Counts
<1>3. Count(a) \in Nat /\ Count(a) <= DIRECT_BLOCKS
  BY <1>1, <1>2 DEF Count
<1>4. 0 .. Count(a) - 1 \subseteq Index
  BY <1>1, <1>3 DEF Index
<1>5. Owned(a) = {a.blocks[k] : k \in 0 .. Count(a) - 1}
  <2>1. CASE a.kind = "file"
    BY <2>1 DEF Owned, Count
  <2>2. CASE a.kind # "file"
    <3>1. 0 .. Count(a) - 1 = {}
      BY <2>2 DEF Count
    <3> QED BY <2>2, <3>1 DEF Owned
  <2> QED BY <2>1, <2>2
<1> QED BY <1>1, <1>3, <1>4, <1>5

LEMMA SameFacts ==
  ASSUME NEW a \in InodeRecord, NEW b \in InodeRecord, Same(a, b)
  PROVE  /\ Count(b) = Count(a) /\ Owned(b) = Owned(a) /\ Same(b, a)
         /\ \A k \in 0 .. Count(a) - 1 : b.blocks[k] = a.blocks[k]
<1>1. Count(b) = Count(a) /\ \A k \in 0 .. Count(a) - 1 : b.blocks[k] = a.blocks[k]
  BY DEF Same, Count
<1>2. Owned(a) = {a.blocks[k] : k \in 0 .. Count(a) - 1} /\ Owned(b) = {b.blocks[k] : k \in 0 .. Count(b) - 1}
  BY CountType
<1>3. Owned(b) = Owned(a)
  BY <1>1, <1>2
<1> QED BY <1>1, <1>3 DEF Same

LEMMA SameSelf == \A a : Same(a, a)
BY DEF Same

LEMMA SameTables ==
  ASSUME NEW T \in InodeTable, NEW U \in InodeTable, \A i \in Inode : Same(T[i], U[i])
  PROVE  /\ OwnedOnce(T) => OwnedOnce(U)
         /\ \A S : Marked(T, S) => Marked(U, S)
<1>1. ASSUME NEW i \in Inode
      PROVE  Count(U[i]) = Count(T[i]) /\ Owned(U[i]) = Owned(T[i]) /\ \A k \in 0 .. Count(T[i]) - 1 : U[i].blocks[k] = T[i].blocks[k]
  <2>1. T[i] \in InodeRecord /\ U[i] \in InodeRecord
    BY DEF InodeTable
  <2> QED BY <2>1, SameFacts
<1>2. ASSUME OwnedOnce(T) PROVE OwnedOnce(U)
  <2>1. \A i, j \in Inode : i # j => Owned(U[i]) \intersect Owned(U[j]) = {}
    BY <1>1, <1>2 DEF OwnedOnce
  <2>2. ASSUME NEW i \in Inode, NEW k \in 0 .. Count(U[i]) - 1, NEW l \in 0 .. Count(U[i]) - 1, U[i].blocks[k] = U[i].blocks[l]
        PROVE  k = l
    BY <1>1, <1>2, <2>2 DEF OwnedOnce
  <2> QED BY <2>1, <2>2 DEF OwnedOnce
<1>3. ASSUME NEW S, Marked(T, S) PROVE Marked(U, S)
  BY <1>1, <1>3 DEF Marked
<1> QED BY <1>2, <1>3

\* Bare: an inode without blocks.
Bare(a) == Count(a) = 0 /\ Owned(a) = {}

LEMMA BareSet ==
  ASSUME NEW T \in InodeTable, NEW i \in Inode, NEW r \in InodeRecord, Bare(r)
  PROVE  /\ OwnedOnce(T) => OwnedOnce([T EXCEPT ![i] = r])
         /\ \A S : Marked(T, S) => Marked([T EXCEPT ![i] = r], S)
<1> DEFINE U == [T EXCEPT ![i] = r]
<1>1. U[i] = r /\ \A j \in Inode : j # i => U[j] = T[j]
  BY DEF InodeTable
<1> HIDE DEF U
<1>2. ASSUME OwnedOnce(T) PROVE OwnedOnce(U)
  <2>1. \A j, k \in Inode : j # k => Owned(U[j]) \intersect Owned(U[k]) = {}
    BY <1>1, <1>2 DEF OwnedOnce, Bare
  <2>2. ASSUME NEW j \in Inode, NEW k \in 0 .. Count(U[j]) - 1, NEW l \in 0 .. Count(U[j]) - 1, U[j].blocks[k] = U[j].blocks[l]
        PROVE  k = l
    <3>1. CASE j = i
      <4>1. 0 .. Count(U[j]) - 1 = {}
        BY <1>1, <3>1 DEF Bare
      <4> QED BY <4>1
    <3>2. CASE j # i
      BY <1>1, <1>2, <2>2, <3>2 DEF OwnedOnce
    <3> QED BY <3>1, <3>2
  <2> QED BY <2>1, <2>2 DEF OwnedOnce
<1>3. ASSUME NEW S, Marked(T, S) PROVE Marked(U, S)
  BY <1>1, <1>3 DEF Marked, Bare
<1> QED BY <1>2, <1>3 DEF U

LEMMA BareRecords ==
  /\ Bare(Empty) /\ Bare(Root)
  /\ \A path, kind : Bare(NewRecord(path, kind))
<1>1. ASSUME NEW a, a.size = 0 PROVE Bare(a)
  <2>1. Count(a) = 0
    BY <1>1, CountZero DEF Count
  <2>2. 0 .. block_count(0) - 1 = {}
    BY CountZero
  <2>3. Owned(a) = {}
    BY <1>1, <2>2 DEF Owned
  <2> QED BY <2>1, <2>3 DEF Bare
<1>2. Empty.size = 0 /\ Root.size = 0
  BY DEF Empty, Root
<1>3. ASSUME NEW path, NEW kind PROVE NewRecord(path, kind).size = 0
  BY DEF NewRecord, Empty
<1> QED BY <1>1, <1>2, <1>3

LEMMA BareTables ==
  ASSUME NEW T, \A i \in Inode : Bare(T[i]), NEW S
  PROVE  OwnedOnce(T) /\ Marked(T, S)
<1>1. \A i \in Inode : 0 .. Count(T[i]) - 1 = {} /\ Owned(T[i]) = {}
  BY DEF Bare
<1> QED BY <1>1 DEF OwnedOnce, Marked

LEMMA FreshTables ==
  /\ \A S : OwnedOnce(Fresh) /\ Marked(Fresh, S)
  /\ \A S : OwnedOnce([i \in Inode |-> Empty]) /\ Marked([i \in Inode |-> Empty], S)
<1>1. \A i \in Inode : Bare(Fresh[i]) /\ Bare([j \in Inode |-> Empty][i])
  BY BareRecords DEF Fresh
<1> QED BY <1>1, BareTables

\* The steps of a write can be told from all others and know their inode.
LEMMA PieceInode ==
  ASSUME NEW c \in CallRecord, c.data # <<>>, NEW i \in Inode, NEW j \in Inode, NEW rest \in Seq(Step),
         NEW s \in InPieces(c, i, rest), s \in InPieces(c, j, rest)
  PROVE  i = j
<1>1. \A x \in Inode : s \in InPieces(c, x, rest) /\ Head(s).do # "clear" => Head(s).inode = x
  <2> SUFFICES ASSUME NEW x \in Inode, s \in InPieces(c, x, rest), Head(s).do # "clear" PROVE Head(s).inode = x
    OBVIOUS
  <2>1. FromGrow(c, x, rest) \in Seq(Step)
    BY WriteLists
  <2>2. CASE s = FromGrow(c, x, rest)
    <3>1. Cons(Just("bitmap"), rest) \in Seq(Step)
      BY Lists
    <3>2. Cons(Out(1), Cons(Just("bitmap"), rest)) \in Seq(Step)
      BY <3>1, Lists, ChunkNumbers
    <3>3. Head(s) = Grows(x, EndOf(c))
      BY <2>2, <3>2, ConsFacts DEF FromGrow
    <3> QED BY <3>3 DEF Grows
  <2>3. ASSUME NEW n \in Index, Reaches(c, n),
               \/ s = FromStore(c, x, n, rest) \/ s = Cons(At("fetch", x, n), FromStore(c, x, n, rest))
               \/ s = Cons(Just("clear"), FromStore(c, x, n, rest))
        PROVE  Head(s).inode = x
    <3>1. FromStore(c, x, n, rest) \in Seq(Step)
      BY <2>3, WriteLists
    <3>2. CASE s = FromStore(c, x, n, rest)
      <4>1. Head(s) = StoreOf(c, x, n)
        BY <2>1, <3>2, ConsFacts DEF FromStore
      <4> QED BY <4>1 DEF StoreOf, Stores
    <3>3. CASE s = Cons(At("fetch", x, n), FromStore(c, x, n, rest))
      BY <3>1, <3>3, ConsFacts DEF At
    <3>4. CASE s = Cons(Just("clear"), FromStore(c, x, n, rest))
      BY <3>1, <3>4, ConsFacts DEF Just
    <3> QED BY <2>3, <3>2, <3>3, <3>4
  <2> QED BY <2>2, <2>3, PieceHeads
<1>2. CASE Head(s).do # "clear"
  BY <1>1, <1>2
<1>3. CASE Head(s).do = "clear"
  <2>1. ASSUME NEW x \in Inode, s \in InPieces(c, x, rest)
        PROVE  \E n \in Index : Reaches(c, n) /\ Tail(s) = FromStore(c, x, n, rest) /\ Head(Tail(s)).inode = x
    <3>1. PICK n \in Index : Reaches(c, n) /\ s = Cons(Just("clear"), FromStore(c, x, n, rest))
      <4>1. \A m \in Index : Reaches(c, m) /\ s = FromStore(c, x, m, rest) => Head(s).do = "store"
        <5> SUFFICES ASSUME NEW m \in Index, Reaches(c, m), s = FromStore(c, x, m, rest) PROVE Head(s).do = "store"
          OBVIOUS
        <5>1. FromGrow(c, x, rest) \in Seq(Step)
          BY WriteLists
        <5>2. Head(s) = StoreOf(c, x, m)
          BY <5>1, ConsFacts DEF FromStore
        <5> QED BY <5>2 DEF StoreOf, Stores
      <4>2. \A m \in Index : Reaches(c, m) /\ s = Cons(At("fetch", x, m), FromStore(c, x, m, rest)) => Head(s).do = "fetch"
        <5> SUFFICES ASSUME NEW m \in Index, Reaches(c, m), s = Cons(At("fetch", x, m), FromStore(c, x, m, rest))
                     PROVE  Head(s).do = "fetch"
          OBVIOUS
        <5>1. FromStore(c, x, m, rest) \in Seq(Step)
          BY WriteLists
        <5> QED BY <5>1, HeadDo
      <4> QED BY <1>3, <2>1, <4>1, <4>2, PieceHeads
    <3>2. FromStore(c, x, n, rest) \in Seq(Step) /\ FromGrow(c, x, rest) \in Seq(Step)
      BY <3>1, WriteLists
    <3>3. Tail(s) = FromStore(c, x, n, rest)
      BY <3>1, <3>2, ConsFacts
    <3>4. Head(FromStore(c, x, n, rest)) = StoreOf(c, x, n)
      BY <3>2, ConsFacts DEF FromStore
    <3>5. StoreOf(c, x, n).inode = x
      BY DEF StoreOf, Stores
    <3>6. Head(Tail(s)) = StoreOf(c, x, n)
      BY <3>3, <3>4
    <3> QED BY <3>1, <3>3, <3>5, <3>6
  <2> QED BY <2>1
<1> QED BY <1>2, <1>3

------------------------------------------------------------------------------
(* Blocks: the actions *)

AllOnDisk == \A i \in Inode : OnDiskToo(i)

LEMMA TablesTyped ==
  ASSUME StorageTypes
  PROVE  INODES \in InodeTable /\ disk.inodes \in InodeTable /\ BITMAP \in SUBSET Block /\ FREE_BLOCKS \in Int
BY DEF StorageTypes, DataTypes

\* Only when the table goes out is an inode not on the disk.
LEMMA NoneWaits ==
  ASSUME BlocksInv, Live, ~Now(me, "inodes") \/ mine.op = "sync"
  PROVE  AllOnDisk
BY DEF BlocksInv, DiskFollows, AllOnDisk

LEMMA AllFollow ==
  ASSUME AllOnDisk'
  PROVE  DiskFollows'
BY DEF AllOnDisk, DiskFollows

\* An action that leaves the tables as they are.
LEMMA Settled ==
  ASSUME Sole, StorageTypes, BlocksInv, UNCHANGED <<INODES, BITMAP, FREE_BLOCKS, MOUNTED>>,
         disk'.formatted = disk.formatted, disk'.inodes = disk.inodes,
         ~MOUNTED /\ disk.formatted => disk'.bitmap = disk.bitmap,
         Live' => Live /\ AllOnDisk,
         mine'.op \in {"write_file", "write_at"} => mine' = mine /\ \A i \in Inode : Filling(i)' => Filling(i)
  PROVE  BlocksInv'
<1>1. OwnedOnce(disk.inodes)'
  BY DEF BlocksInv, OwnedOnce
<1>2. Live' => OwnedOnce(INODES)' /\ Marked(INODES, BITMAP)' /\ FREE_BLOCKS' = TOTAL_BLOCKS - Cardinality(BITMAP')
  BY DEF BlocksInv, OwnedOnce, Marked
<1>3. Live' => DiskFollows'
  <2>1. AllOnDisk => AllOnDisk'
    BY DEF AllOnDisk, OnDiskToo
  <2> QED BY <2>1, AllFollow
<1>4. ~MOUNTED' /\ disk'.formatted => Marked(disk.inodes, disk.bitmap)'
  BY DEF BlocksInv, Marked
<1>5. ~disk'.formatted => (\A i \in Inode : disk'.inodes[i] \in {Empty, Fresh[i]}) /\ (Live' => INODES' = Fresh)
  BY DEF BlocksInv
<1>6. ASSUME NEW i \in Inode, Filling(i)'
      PROVE  INODES'[i].kind = "file" /\ OwnedOnce(Grown(i, EndOf(mine)))' /\ Marked(Grown(i, EndOf(mine)), BITMAP)'
  <2>1. Filling(i) /\ mine' = mine
    BY <1>6 DEF Filling
  <2>2. INODES[i].kind = "file" /\ OwnedOnce(Grown(i, EndOf(mine))) /\ Marked(Grown(i, EndOf(mine)), BITMAP)
    BY <2>1 DEF BlocksInv
  <2>3. EndOf(mine)' = EndOf(mine)
    BY <2>1 DEF EndOf
  <2>4. Grown(i, EndOf(mine))' = Grown(i, EndOf(mine))
    BY <2>3 DEF Grown
  <2> QED BY <2>2, <2>4 DEF OwnedOnce, Marked
<1>7. Fresh' = Fresh
  BY DEF Fresh
<1> QED BY <1>1, <1>2, <1>3, <1>4, <1>5, <1>6, <1>7 DEF BlocksInv

\* An action of a call on a mounted disk that changes one inode and then puts
\* the table out.
LEMMA OneBehind ==
  ASSUME Sole, StorageTypes, BlocksInv, MOUNTED, ~Now(me, "inodes"), NEW rest \in Seq(Step), NEW i \in Inode,
         UNCHANGED <<MOUNTED, disk>>, \A j \in Inode : j # i => INODES'[j] = INODES[j],
         mine.op # "sync", Continues(Cons(Out(1), rest)),
         OwnedOnce(INODES)', Marked(INODES, BITMAP)', FREE_BLOCKS' = TOTAL_BLOCKS - Cardinality(BITMAP')
  PROVE  BlocksInv'
<1>1. disk.formatted /\ Live
  BY DEF StorageTypes, DataTypes, Live
<1>2. AllOnDisk
  BY <1>1, NoneWaits
<1>3. mine' = mine /\ todo' = Cons(Out(1), rest)
  BY Stays
<1>4. First(me)' = Out(1) /\ Head(todo') = Out(1) /\ todo' # <<>>
  <2>1. me' = me
    BY DEF me
  <2>2. Head(todo') = Out(1) /\ todo' # <<>>
    BY <1>3, ConsFacts
  <2> QED BY <2>1, <2>2 DEF First, todo
<1>5. Now(me, "inodes")' /\ First(me)'.chunk = 1
  <2>1. me' = me
    BY DEF me
  <2> QED BY <1>4, <2>1 DEF Now, Out, todo
<1>6. \A j \in Inode : j # i => OnDiskToo(j)'
  BY <1>2 DEF AllOnDisk, OnDiskToo
<1>7. DiskFollows'
  <2>1. \A j \in Inode : ~(ChunkOf(j) < 1)
    BY ChunkNumbers
  <2>2. \A j \in Inode : ~(ChunkOf(j) < First(me)'.chunk)
    BY <1>5, <2>1
  <2> QED BY <1>3, <1>5, <1>6, <2>2 DEF DiskFollows
<1>8. OwnedOnce(disk.inodes)'
  BY DEF BlocksInv, OwnedOnce
<1>9. ASSUME NEW j \in Inode PROVE ~Filling(j)'
  <2>1. SUFFICES ASSUME mine.op \in {"write_file", "write_at"}, todo' \in InPieces(mine, j, Last(mine.op)) PROVE FALSE
    BY <1>3 DEF Filling
  <2>2. Head(todo').do = "inodes"
    BY <1>4 DEF Out
  <2>3. mine \in CallRecord /\ Last(mine.op) \in Seq(Step) /\ mine.data # <<>>
    <3>1. mine \in CallRecord /\ Shape(mine, todo)
      BY CallTyped
    <3>2. mine.data # <<>>
      BY <2>1, <3>1 DEF Shape, Idle
    <3> QED BY <2>1, <3>1, <3>2, Lists
  <2> QED BY <2>1, <2>2, <2>3, PieceHeads
<1> QED BY <1>1, <1>7, <1>8, <1>9 DEF BlocksInv

LEMMA AfterOut ==
  ASSUME NEW c \in CallRecord, NEW s, Shape(c, s), s # <<>>, Head(s).do \in {"inodes", "bitmap"},
         c.op \in {"write_file", "write_at"}, NEW i \in Inode
  PROVE  Tail(s) \notin InPieces(c, i, Last(c.op))
<1>0. c.data # <<>>
  BY DEF Shape, Idle
<1>1. Head(Last("write_file")).do = "refresh" /\ Head(Last("write_at")).do = "advance" /\ Head(FromCreate).do = "create"
      /\ Last("write_file") \in Seq(Step) /\ Last("write_at") \in Seq(Step) /\ FromCreate \in Seq(Step)
  BY Lists, ListHeads
<1>2. Head(Tail(s)).do \in {"bitmap", "create", "write", "refresh", "advance"}
  <2>1. ASSUME NEW rest \in {FromCreate, Last("write_file"), Last("write_at")}, s \in FlushBoth(rest)
        PROVE  Head(Tail(s)).do \in {"bitmap", Head(rest).do}
    <3>1. rest \in Seq(Step)
      BY <1>1
    <3>2. CASE s \in Flush(Cons(Just("bitmap"), rest))
      <4>1. Tail(s) = Cons(Just("bitmap"), rest)
        BY <3>1, <3>2, Lists, FlushHeads
      <4> QED BY <3>1, <4>1, HeadDo
    <3>3. CASE s = Cons(Just("bitmap"), rest) /\ Tail(s) = rest
      BY <3>3
    <3> QED BY <2>1, <3>1, <3>2, <3>3, FlushHeads
  <2>2. ASSUME NEW j \in Inode, NEW op \in {"write_file", "write_at"}, s \in InWrite(c, j, Last(op)) PROVE FALSE
    <3>1. Last(op) \in Seq(Step)
      BY <1>1
    <3>2. Head(s).do \in {"write", "grow", "store", "fetch", "clear"}
      BY <1>0, <2>2, <3>1, PieceHeads
    <3> QED BY <3>2
  <2>3. CASE c.op = "write_file"
    <3>1. OfWriteFile(c, s)
      BY <2>3 DEF Shape, Idle
    <3>2. \A j \in Inode : s # Cons(On("remove", j), FromCreate)
      BY <1>1, HeadDo
    <3>3. ASSUME NEW j \in Inode, s \in Flush(Cons(On("write", j), Last("write_file"))) PROVE Head(Tail(s)).do = "write"
      <4>1. Cons(On("write", j), Last("write_file")) \in Seq(Step)
        BY <1>1, Lists
      <4>2. Tail(s) = Cons(On("write", j), Last("write_file"))
        BY <3>3, <4>1, FlushHeads
      <4> QED BY <1>1, <4>2, HeadDo
    <3>4. s # FromCreate /\ s # Last("write_file")
      BY <1>1
    <3>5. s \in FlushBoth(FromCreate) => Head(Tail(s)).do \in {"bitmap", "create"}
      BY <1>1, <2>1
    <3>6. s \in FlushBoth(Last("write_file")) => Head(Tail(s)).do \in {"bitmap", "refresh"}
      BY <1>1, <2>1
    <3>7. \A j \in Inode : s \notin InWrite(c, j, Last("write_file"))
      BY <2>2
    <3> QED BY <3>1, <3>2, <3>3, <3>4, <3>5, <3>6, <3>7 DEF OfWriteFile
  <2>4. CASE c.op = "write_at"
    <3>1. OfWriteAt(c, s)
      BY <2>4 DEF Shape, Idle
    <3>2. s # Last("write_at")
      BY <1>1
    <3>3. s \in FlushBoth(Last("write_at")) => Head(Tail(s)).do \in {"bitmap", "advance"}
      BY <1>1, <2>1
    <3>4. \A j \in Inode : s \notin InWrite(c, j, Last("write_at"))
      BY <2>2
    <3> QED BY <3>1, <3>2, <3>3, <3>4 DEF OfWriteAt
  <2> QED BY <2>3, <2>4
<1>3. Last(c.op) \in Seq(Step)
  BY <1>1
<1>4. Tail(s) \in InPieces(c, i, Last(c.op)) => Head(Tail(s)).do \in {"grow", "store", "fetch", "clear"}
  BY <1>0, <1>3, PieceHeads
<1> QED BY <1>2, <1>4

\* Fresh on the disk, or not yet.
LEMMA WriteInodesBlocks ==
  ASSUME Sole, StorageTypes, BlocksInv, WriteInodes(me)
  PROVE  BlocksInv'
<1>1. PICK k \in 1 .. Chunks, rest \in Seq(Step) :
           /\ todo = Cons(Out(k), rest) /\ First(me).chunk = k
           /\ Leaves(IF k < Chunks THEN Cons(Out(k + 1), rest) ELSE rest)
  BY FlowInodes
<1>2. mine \in CallRecord /\ Shape(mine, todo) /\ todo # <<>> /\ Head(todo).do = "inodes" /\ Tail(todo) = rest
  <2>1. todo # <<>> /\ Tail(todo) = rest
    BY <1>1, ConsFacts
  <2>2. Head(todo).do = "inodes"
    BY <1>1, HeadDo
  <2> QED BY <2>1, <2>2, CallTyped
<1>3. Now(me, "inodes") /\ UNCHANGED <<INODES, BITMAP, FREE_BLOCKS, MOUNTED>> /\ me' = me
  BY DEF WriteInodes, cache, me
<1>4. Live
  BY <1>2 DEF Shape, Live
<1>5. INODES \in InodeTable /\ disk.inodes \in InodeTable
  BY TablesTyped
<1> DEFINE T == [i \in Inode |-> IF ChunkOf(i) = k THEN INODES[i] ELSE disk.inodes[i]]
<1>6. disk' = [disk EXCEPT !.inodes = T]
  BY <1>1 DEF WriteInodes
<1>7. disk'.inodes = T /\ disk'.formatted = disk.formatted /\ disk'.bitmap = disk.bitmap
  BY <1>6 DEF StorageTypes, DataTypes
<1>8. T \in InodeTable
  BY <1>5 DEF InodeTable
<1>9. \A i \in Inode : T[i] = IF ChunkOf(i) = k THEN INODES[i] ELSE disk.inodes[i]
  OBVIOUS
<1> HIDE DEF T
<1>10. \A i \in Inode : OnDiskToo(i) => OnDiskToo(i)'
  BY <1>3, <1>7, <1>9, SameSelf DEF OnDiskToo
<1>11. \A i \in Inode : ChunkOf(i) = k => OnDiskToo(i)'
  BY <1>3, <1>7, <1>9, SameSelf DEF OnDiskToo
<1>12. /\ \A i, j \in Inode : i # j => OnDiskToo(i) \/ OnDiskToo(j)
       /\ \A i \in Inode : ChunkOf(i) < k => OnDiskToo(i)
       /\ mine.op = "sync" => \A i \in Inode : OnDiskToo(i)
       /\ OwnedOnce(INODES) /\ OwnedOnce(disk.inodes)
  BY <1>1, <1>3, <1>4 DEF BlocksInv, DiskFollows
<1>13. OwnedOnce(T)
  <2>1. CASE \A i \in Inode : Same(INODES[i], T[i])
    BY <1>5, <1>8, <1>12, <2>1, SameTables
  <2>2. CASE \E i \in Inode : ~Same(INODES[i], T[i])
    <3>1. PICK i \in Inode : ~Same(INODES[i], T[i])
      BY <2>2
    <3>2. T[i] = disk.inodes[i] /\ ~OnDiskToo(i)
      BY <1>9, <3>1, SameSelf DEF OnDiskToo
    <3>3. ASSUME NEW j \in Inode PROVE Same(disk.inodes[j], T[j])
      <4>1. CASE j = i
        BY <3>2, <4>1, SameSelf
      <4>2. CASE j # i
        <5>1. Same(INODES[j], disk.inodes[j]) /\ INODES[j] \in InodeRecord /\ disk.inodes[j] \in InodeRecord
          BY <1>5, <1>12, <3>2, <4>2 DEF OnDiskToo, InodeTable
        <5>2. Same(disk.inodes[j], INODES[j])
          BY <5>1, SameFacts
        <5> QED BY <1>9, <5>2, SameSelf
      <4> QED BY <4>1, <4>2
    <3> QED BY <1>5, <1>8, <1>12, <3>3, SameTables
  <2> QED BY <2>1, <2>2
<1>14. mine' = mine \/ mine' = Idle
  BY <1>1 DEF Leaves
<1>15. mine'.op = "sync" \/ mine'.op = "format" \/ mine'.op \in {"write_file", "write_at"} => mine' = mine
  BY <1>14, IdleCall
<1>16. Live' => Live
  BY <1>4
<1>17. DiskFollows'
  <2>1. \A i, j \in Inode : i # j => OnDiskToo(i)' \/ OnDiskToo(j)'
    BY <1>10, <1>12
  <2>2. CASE k < Chunks
    <3>1. todo' = Cons(Out(k + 1), rest) /\ mine' = mine
      <4>1. Cons(Out(k + 1), rest) # <<>>
        BY ConsFacts
      <4> QED BY <1>1, <2>2, <4>1 DEF Leaves
    <3>2. First(me)' = Out(k + 1) /\ todo' # <<>>
      <4>1. Head(todo') = Out(k + 1) /\ todo' # <<>>
        BY <3>1, ConsFacts
      <4> QED BY <1>3, <4>1 DEF First, todo
    <3>3. Now(me, "inodes")' /\ First(me)'.chunk = k + 1
      BY <1>3, <3>2 DEF Now, Out, todo
    <3>4. ASSUME NEW i \in Inode, ChunkOf(i) < k + 1 PROVE OnDiskToo(i)'
      <4>1. ChunkOf(i) \in Int
        BY ChunkNumbers
      <4>2. ChunkOf(i) < k \/ ChunkOf(i) = k
        BY <3>4, <4>1
      <4> QED BY <1>10, <1>11, <1>12, <4>2
    <3>5. mine.op = "sync" => \A i \in Inode : OnDiskToo(i)'
      BY <1>10, <1>12
    <3> QED BY <2>1, <3>1, <3>3, <3>4, <3>5 DEF DiskFollows
  <2>3. CASE ~(k < Chunks)
    <3>1. ASSUME NEW i \in Inode PROVE OnDiskToo(i)'
      <4>1. ChunkOf(i) \in 1 .. Chunks /\ Chunks \in Nat
        BY ChunkNumbers
      <4>2. ChunkOf(i) < k \/ ChunkOf(i) = k
        BY <2>3, <4>1
      <4> QED BY <1>10, <1>11, <1>12, <4>2
    <3> QED BY <3>1 DEF DiskFollows
  <2> QED BY <2>2, <2>3
<1>18. ASSUME ~disk'.formatted
       PROVE  (\A i \in Inode : disk'.inodes[i] \in {Empty, Fresh[i]}) /\ (Live' => INODES' = Fresh)
  BY <1>3, <1>4, <1>7, <1>9, <1>18 DEF BlocksInv
<1>19. ~(~MOUNTED' /\ disk'.formatted)
  BY <1>2, <1>3, <1>7 DEF Shape
<1>20. ASSUME NEW i \in Inode PROVE ~Filling(i)'
  <2>1. SUFFICES ASSUME mine.op \in {"write_file", "write_at"}, mine' = mine, todo' \in InPieces(mine, i, Last(mine.op))
                 PROVE  FALSE
    BY <1>15 DEF Filling
  <2>2. CASE k < Chunks
    <3>1. Head(todo').do = "inodes"
      BY <1>1, <2>2, HeadDo DEF Leaves
    <3>2. mine.data # <<>> /\ Last(mine.op) \in Seq(Step)
      BY <1>2, <2>1, Lists DEF Shape, Idle
    <3> QED BY <1>2, <2>1, <3>1, <3>2, PieceHeads
  <2>3. CASE ~(k < Chunks)
    <3>1. todo' = Tail(todo)
      BY <1>1, <1>2, <2>3 DEF Leaves
    <3> QED BY <1>2, <2>1, <3>1, AfterOut
  <2> QED BY <2>2, <2>3
<1>21. OwnedOnce(INODES)' /\ Marked(INODES, BITMAP)' /\ FREE_BLOCKS' = TOTAL_BLOCKS - Cardinality(BITMAP')
  BY <1>3, <1>4 DEF BlocksInv, OwnedOnce, Marked
<1>22. OwnedOnce(disk.inodes)'
  BY <1>7, <1>13 DEF OwnedOnce
<1>23. Fresh' = Fresh
  BY DEF Fresh
<1> QED BY <1>17, <1>18, <1>19, <1>20, <1>21, <1>22, <1>23 DEF BlocksInv

LEMMA WriteBitmapBlocks ==
  ASSUME Sole, StorageTypes, BlocksInv, WriteBitmap(me)
  PROVE  BlocksInv'
<1>1. PICK rest \in Seq(Step) : todo = Cons(Just("bitmap"), rest) /\ Leaves(rest)
  BY FlowBitmap
<1>2. mine \in CallRecord /\ Shape(mine, todo) /\ todo # <<>> /\ Head(todo).do = "bitmap" /\ Tail(todo) = rest
  BY <1>1, CallTyped, ConsFacts, HeadDo
<1>3. UNCHANGED <<INODES, BITMAP, FREE_BLOCKS, MOUNTED>> /\ disk' = [disk EXCEPT !.bitmap = BITMAP]
  BY DEF WriteBitmap, cache
<1>4. disk'.formatted = disk.formatted /\ disk'.inodes = disk.inodes
  BY <1>3 DEF StorageTypes, DataTypes
<1>5. Live /\ ~(~MOUNTED /\ disk.formatted)
  BY <1>2 DEF Shape, Live
<1>6. ~Now(me, "inodes")
  BY <1>2 DEF Now, First, todo
<1>7. AllOnDisk
  BY <1>5, <1>6, NoneWaits
<1>8. mine'.op \in {"write_file", "write_at"} => mine' = mine
  BY <1>1, IdleCall DEF Leaves
<1>9. ASSUME NEW i \in Inode PROVE ~Filling(i)'
  <2>1. SUFFICES ASSUME mine.op \in {"write_file", "write_at"}, mine' = mine, todo' \in InPieces(mine, i, Last(mine.op))
                 PROVE  FALSE
    BY <1>8 DEF Filling
  <2>2. todo' = Tail(todo)
    BY <1>1, <1>2 DEF Leaves
  <2> QED BY <1>2, <2>1, <2>2, AfterOut
<1> QED BY <1>3, <1>4, <1>5, <1>7, <1>8, <1>9, Settled

\* A call that ends, or that only reads, leaves the tables as they are.
LEMMA EndsBlocks ==
  ASSUME Sole, StorageTypes, BlocksInv, UNCHANGED <<INODES, BITMAP, FREE_BLOCKS, MOUNTED, disk>>,
         mine' = Idle, Live => AllOnDisk
  PROVE  BlocksInv'
<1>1. mine'.op = "idle"
  BY IdleCall
<1>2. Live' => Live
  BY <1>1 DEF Live
<1> QED BY <1>1, <1>2, Settled

LEMMA FailsBlocks ==
  ASSUME Sole, StorageTypes, BlocksInv, FlushFails(me) \/ BlockFails(me)
  PROVE  BlocksInv'
<1>1. mine' = Idle /\ UNCHANGED <<INODES, BITMAP, FREE_BLOCKS, MOUNTED, disk>>
  BY FailedGoes DEF FlushFails, BlockFails, cache
<1>2. Live => AllOnDisk
  <2>1. FlushFails(me) => mine.op = "sync"
    BY DEF FlushFails, Sole, mine
  <2>2. BlockFails(me) => ~Now(me, "inodes")
    BY DEF BlockFails, Now
  <2> QED BY <2>1, <2>2, NoneWaits
<1> QED BY <1>1, <1>2, EndsBlocks

LEMMA LastBlocks ==
  ASSUME Sole, StorageTypes, BlocksInv, Take(me) \/ Attach(me) \/ Refresh(me) \/ Advance(me) \/ Forget(me)
  PROVE  BlocksInv'
<1>1. Done(me) /\ todo # <<>> /\ UNCHANGED <<INODES, BITMAP, FREE_BLOCKS, MOUNTED, disk>>
  BY DEF Take, Attach, Refresh, Advance, Forget, cache, Now, todo
<1>2. Now(me, "take") \/ Now(me, "attach") \/ Now(me, "refresh") \/ Now(me, "advance") \/ Now(me, "forget")
  BY DEF Take, Attach, Refresh, Advance, Forget
<1>3. mine' = Idle
  BY <1>1, <1>2, FlowLast
<1>4. ~Now(me, "inodes")
  BY <1>2 DEF Now
<1> QED BY <1>1, <1>3, <1>4, NoneWaits, EndsBlocks

\* The steps in the middle of a write.
LEMMA PieceBlocks ==
  ASSUME Sole, StorageTypes, BlocksInv, Fetch(me) \/ Clear(me) \/ Store(me)
  PROVE  BlocksInv'
<1>1. UNCHANGED <<INODES, BITMAP, FREE_BLOCKS, MOUNTED>>
      /\ disk'.formatted = disk.formatted /\ disk'.inodes = disk.inodes /\ disk'.bitmap = disk.bitmap
  BY DEF Fetch, Clear, Store, cache, StorageTypes, DataTypes
<1>2. ~Now(me, "inodes")
  BY DEF Fetch, Clear, Store, Now
<1>3. mine' = mine
  BY FlowFetch, FlowClear, FlowStore
<1>4. \/ MOUNTED /\ mine.op = "read"
      \/ Writer(mine) /\ \E i \in Inode : todo \in InPieces(mine, i, Last(mine.op)) /\ todo' \in InPieces(mine, i, Last(mine.op))
  <2>1. CASE Fetch(me)
    <3>1. PICK i \in Inode, n \in Index :
           \/ /\ Writer(mine) /\ todo \in InPieces(mine, i, Last(mine.op))
              /\ FromStore(mine, i, n, Last(mine.op)) \in InPieces(mine, i, Last(mine.op))
              /\ Continues(FromStore(mine, i, n, Last(mine.op))) /\ Reaches(mine, n)
           \/ MOUNTED /\ mine.op = "read"
      BY <2>1, FlowFetch
    <3>2. CASE /\ Writer(mine) /\ todo \in InPieces(mine, i, Last(mine.op))
               /\ FromStore(mine, i, n, Last(mine.op)) \in InPieces(mine, i, Last(mine.op))
               /\ Continues(FromStore(mine, i, n, Last(mine.op)))
      BY <3>2 DEF Continues, Leaves
    <3> QED BY <3>1, <3>2
  <2>2. CASE Clear(me)
    <3>1. PICK i \in Inode, n \in Index :
           /\ Writer(mine) /\ todo \in InPieces(mine, i, Last(mine.op))
           /\ FromStore(mine, i, n, Last(mine.op)) \in InPieces(mine, i, Last(mine.op))
           /\ Continues(FromStore(mine, i, n, Last(mine.op)))
      BY <2>2, FlowClear
    <3> QED BY <3>1 DEF Continues, Leaves
  <2>3. CASE Store(me)
    BY <2>3, FlowStore
  <2> QED BY <2>1, <2>2, <2>3
<1>5. MOUNTED
  BY <1>4 DEF Writer
<1>6. Live /\ AllOnDisk
  BY <1>2, <1>5, NoneWaits DEF Live
<1>7. ASSUME NEW j \in Inode, Filling(j)' PROVE Filling(j)
  <2>1. mine.op \in {"write_file", "write_at"} /\ todo' \in InPieces(mine, j, Last(mine.op))
    BY <1>3, <1>7 DEF Filling
  <2>2. PICK i \in Inode : todo \in InPieces(mine, i, Last(mine.op)) /\ todo' \in InPieces(mine, i, Last(mine.op)) /\ Writer(mine)
    BY <1>4, <2>1
  <2>3. mine \in CallRecord /\ mine.data # <<>> /\ Last(mine.op) \in Seq(Step)
    BY <2>1, <2>2, CallTyped, Lists DEF Writer
  <2>4. i = j
    BY <2>1, <2>2, <2>3, PieceInode
  <2> QED BY <2>1, <2>2, <2>4 DEF Filling
<1> QED BY <1>1, <1>3, <1>6, <1>7, Settled

LEMMA WriteSuperBlocks ==
  ASSUME Sole, StorageTypes, BlocksInv, WriteSuper(me)
  PROVE  BlocksInv'
<1>1. ~MOUNTED /\ ~disk.formatted /\ mine.op = "format" /\ Leaves(Directories(1)) /\ todo = FromSuper
  BY FlowSuper
<1>2. UNCHANGED <<INODES, BITMAP, FREE_BLOCKS>> /\ MOUNTED' = TRUE /\ disk'.formatted = TRUE
      /\ disk'.inodes = disk.inodes
  BY DEF WriteSuper, cache, StorageTypes, DataTypes
<1>3. Live /\ ~Now(me, "inodes")
  BY <1>1 DEF Live, WriteSuper, Now
<1>4. AllOnDisk
  BY <1>3, NoneWaits
<1>5. DiskFollows'
  BY <1>2, <1>4, AllFollow DEF AllOnDisk, OnDiskToo
<1>6. OwnedOnce(INODES)' /\ Marked(INODES, BITMAP)' /\ FREE_BLOCKS' = TOTAL_BLOCKS - Cardinality(BITMAP')
  BY <1>2, <1>3 DEF BlocksInv, OwnedOnce, Marked
<1>7. OwnedOnce(disk.inodes)'
  BY <1>2 DEF BlocksInv, OwnedOnce
<1>8. mine'.op \notin {"write_file", "write_at"}
  BY <1>1, IdleCall DEF Leaves
<1> QED BY <1>2, <1>5, <1>6, <1>7, <1>8 DEF BlocksInv, Filling

\* A step that takes an inode without blocks into the table.
LEMMA BareBlocks ==
  ASSUME Sole, StorageTypes, BlocksInv, MOUNTED, ~Now(me, "inodes"), NEW rest \in Seq(Step), NEW i \in Inode,
         UNCHANGED <<MOUNTED, disk, BITMAP, FREE_BLOCKS>>, NEW r \in InodeRecord, Bare(r), INODES' = [INODES EXCEPT ![i] = r],
         mine.op # "sync", Continues(Cons(Out(1), rest))
  PROVE  BlocksInv'
<1>1. INODES \in InodeTable /\ Live
  BY TablesTyped DEF Live
<1>2. OwnedOnce(INODES) /\ Marked(INODES, BITMAP) /\ FREE_BLOCKS = TOTAL_BLOCKS - Cardinality(BITMAP)
  BY <1>1 DEF BlocksInv
<1> DEFINE T == [INODES EXCEPT ![i] = r]
<1>3. OwnedOnce(T) /\ Marked(T, BITMAP)
  BY <1>1, <1>2, BareSet
<1>4. INODES' = T /\ \A j \in Inode : j # i => T[j] = INODES[j]
  BY <1>1 DEF InodeTable
<1> HIDE DEF T
<1>5. OwnedOnce(INODES)' /\ Marked(INODES, BITMAP)' /\ FREE_BLOCKS' = TOTAL_BLOCKS - Cardinality(BITMAP')
  BY <1>2, <1>3, <1>4 DEF OwnedOnce, Marked
<1>6. \A j \in Inode : j # i => INODES'[j] = INODES[j]
  BY <1>4
<1> QED BY <1>5, <1>6, OneBehind

LEMMA CreateBlocks ==
  ASSUME Sole, StorageTypes, BlocksInv, Create(me)
  PROVE  BlocksInv'
<1>1. UNCHANGED <<BITMAP, FREE_BLOCKS, MOUNTED, disk>> /\ ~Now(me, "inodes")
  BY DEF Create, Now
<1>2. AtCreate(mine, todo)
  BY FlowCreate
<1>3. MOUNTED /\ mine.op \in {"create_file", "write_file"} /\ mine.path \in Path
  BY <1>2 DEF AtCreate, Writer, StorageTypes, CallTypes
<1>4. CASE UNCHANGED INODES /\ mine' = Idle
  BY <1>1, <1>4, NoneWaits, EndsBlocks
<1>5. CASE /\ Makeable(mine.path) /\ NewInode(mine.path, "file")
           /\ Continues(Cons(Out(1), AfterCreate(mine, Lowest(FreeInodes))))
  <2> DEFINE i == Lowest(FreeInodes)  r == NewRecord(mine.path, "file")  rest == AfterCreate(mine, i)
  <2>1. i \in Inode /\ r \in InodeRecord /\ INODES' = [INODES EXCEPT ![i] = r]
    BY <1>3, <1>5, NewInodeTypes
  <2>2. Bare(r)
    BY BareRecords
  <2>3. rest \in Seq(Step)
    BY <2>1, Lists DEF AfterCreate
  <2> HIDE DEF i, r, rest
  <2>4. Continues(Cons(Out(1), rest))
    BY <1>5 DEF rest, i
  <2> QED BY <1>1, <1>3, <2>1, <2>2, <2>3, <2>4, BareBlocks
<1> QED BY <1>4, <1>5, FlowCreate

LEMMA MkdirBlocks ==
  ASSUME Sole, StorageTypes, BlocksInv, mkdir(me)
  PROVE  BlocksInv'
<1>1. UNCHANGED <<BITMAP, FREE_BLOCKS, MOUNTED, disk>> /\ ~Now(me, "inodes")
  BY DEF mkdir, Now
<1>2. PICK k \in Nat \ {0} :
           /\ MOUNTED /\ mine.op \in {"mkdir", "format"} /\ (mine.op = "format" => k <= Len(Skeleton))
           /\ \/ ~Makeable(PathOf(mine, k)) /\ UNCHANGED INODES /\ Continues(<<>>) /\ mine' = Idle
              \/ /\ Makeable(PathOf(mine, k)) /\ NewInode(PathOf(mine, k), "dir")
                 /\ Continues(Cons(Out(1), IF mine.op = "format" THEN Directories(k + 1) ELSE <<>>))
                 /\ mine' = mine
  BY FlowMkdir
<1>3. PathOf(mine, k) \in Path
  <2>1. mine.op = "mkdir" => mine.path \in Path
    BY DEF StorageTypes, CallTypes
  <2>2. mine.op = "format" => Skeleton[k] \in Path
    BY <1>2, PathsAssumption
  <2> QED BY <1>2, <2>1, <2>2 DEF PathOf
<1>4. CASE UNCHANGED INODES /\ mine' = Idle
  BY <1>1, <1>4, NoneWaits, EndsBlocks
<1>5. CASE /\ Makeable(PathOf(mine, k)) /\ NewInode(PathOf(mine, k), "dir")
           /\ Continues(Cons(Out(1), IF mine.op = "format" THEN Directories(k + 1) ELSE <<>>))
  <2> DEFINE i == Lowest(FreeInodes)  r == NewRecord(PathOf(mine, k), "dir")
             rest == IF mine.op = "format" THEN Directories(k + 1) ELSE <<>>
  <2>1. i \in Inode /\ r \in InodeRecord /\ INODES' = [INODES EXCEPT ![i] = r]
    BY <1>3, <1>5, NewInodeTypes
  <2>2. Bare(r)
    BY BareRecords
  <2>3. rest \in Seq(Step)
    BY Lists
  <2> HIDE DEF i, r, rest
  <2>4. Continues(Cons(Out(1), rest))
    BY <1>5 DEF rest
  <2> QED BY <1>1, <1>2, <2>1, <2>2, <2>3, <2>4, BareBlocks
<1> QED BY <1>2, <1>4, <1>5

LEMMA RmdirBlocks ==
  ASSUME Sole, StorageTypes, BlocksInv, rmdir(me)
  PROVE  BlocksInv'
<1>1. UNCHANGED <<BITMAP, FREE_BLOCKS, MOUNTED, disk>> /\ ~Now(me, "inodes")
  BY DEF rmdir, Now
<1> DEFINE i == resolve(INODES, mine.path)
<1>2. /\ MOUNTED /\ mine.op = "rmdir"
      /\ \/ ~IsEmptyDir(i) /\ UNCHANGED INODES /\ Continues(<<>>) /\ mine' = Idle
         \/ IsEmptyDir(i) /\ INODES' = [INODES EXCEPT ![i] = Empty] /\ Continues(Cons(Out(1), <<>>)) /\ mine' = mine
  BY FlowRmdir
<1>3. i \in Inode \union {NoInode}
  <2>1. mine.path \in Seq(Word)
    BY CallTyped DEF CallRecord
  <2> QED BY <2>1, TablesTyped, ResolveType
<1> HIDE DEF i
<1>4. CASE UNCHANGED INODES /\ mine' = Idle
  BY <1>1, <1>4, NoneWaits, EndsBlocks
<1>5. CASE IsEmptyDir(i) /\ INODES' = [INODES EXCEPT ![i] = Empty] /\ Continues(Cons(Out(1), <<>>))
  <2>1. i \in Inode
    BY <1>3, <1>5 DEF IsEmptyDir
  <2>2. Bare(Empty) /\ Empty \in InodeRecord /\ <<>> \in Seq(Step)
    BY BareRecords, EmptyTypes, Lists
  <2> QED BY <1>1, <1>2, <1>5, <2>1, <2>2, BareBlocks
<1> QED BY <1>2, <1>4, <1>5

LEMMA RemoveBlocks ==
  ASSUME Sole, StorageTypes, BlocksInv, Remove(me)
  PROVE  BlocksInv'
<1>1. UNCHANGED <<MOUNTED, disk>> /\ ~Now(me, "inodes")
  BY DEF Remove, Now
<1>2. PICK i \in Inode, rest \in Seq(Step) :
           /\ AfterRemove(mine, rest) /\ First(me) = On("remove", i)
           /\ \/ INODES[i].kind # "file" /\ UNCHANGED cache /\ Continues(<<>>) /\ mine' = Idle
              \/ /\ INODES[i].kind = "file"
                 /\ Continues(Cons(Out(1), Cons(Just("bitmap"), rest))) /\ mine' = mine
  BY FlowRemove
<1>3. MOUNTED /\ mine.op # "sync"
  BY <1>2 DEF AfterRemove, Writer
<1>4. CASE UNCHANGED cache /\ mine' = Idle
  BY <1>1, <1>4, NoneWaits, EndsBlocks DEF cache
<1>5. CASE INODES[i].kind = "file" /\ Continues(Cons(Out(1), Cons(Just("bitmap"), rest)))
  <2> DEFINE freed == Owned(INODES[i]) \intersect BITMAP  T == [INODES EXCEPT ![i] = Empty]
  <2>1. First(me).inode = i
    BY <1>2 DEF On
  <2>2. BITMAP' = BITMAP \ freed /\ FREE_BLOCKS' = FREE_BLOCKS + Cardinality(freed) /\ INODES' = T
    BY <1>5, <2>1 DEF Remove
  <2>3. INODES \in InodeTable /\ BITMAP \in SUBSET Block /\ Live
    BY <1>3, TablesTyped DEF Live
  <2>4. OwnedOnce(INODES) /\ Marked(INODES, BITMAP) /\ FREE_BLOCKS = TOTAL_BLOCKS - Cardinality(BITMAP)
    BY <2>3 DEF BlocksInv
  <2>5. T[i] = Empty /\ \A j \in Inode : j # i => T[j] = INODES[j]
    BY <2>3 DEF InodeTable
  <2>6. OwnedOnce(T)
    BY <2>3, <2>4, BareSet, BareRecords, EmptyTypes
  <2>7. Marked(T, BITMAP \ freed)
    <3>1. Owned(Empty) = {}
      BY BareRecords DEF Bare
    <3>2. ASSUME NEW j \in Inode, j # i PROVE Owned(INODES[j]) \subseteq BITMAP \ freed
      BY <2>4, <3>2 DEF OwnedOnce, Marked
    <3> QED BY <2>5, <3>1, <3>2 DEF Marked
  <2>8. FREE_BLOCKS' = TOTAL_BLOCKS - Cardinality(BITMAP')
    <3>1. IsFiniteSet(BITMAP) /\ Cardinality(BITMAP) \in Nat /\ TOTAL_BLOCKS \in Nat
      BY <2>3, FreeSet, Sizes
    <3>2. freed \subseteq BITMAP
      OBVIOUS
    <3> HIDE DEF freed
    <3>3. IsFiniteSet(freed) /\ Cardinality(freed) \in Nat
      BY <3>1, <3>2, FS_Subset, FS_CardinalityType
    <3>4. BITMAP \intersect freed = freed
      BY <3>2
    <3>5. Cardinality(BITMAP \ freed) = Cardinality(BITMAP) - Cardinality(BITMAP \intersect freed)
      BY <3>1, FS_Difference
    <3>6. Cardinality(BITMAP') = Cardinality(BITMAP) - Cardinality(freed)
      BY <2>2, <3>4, <3>5
    <3>7. FREE_BLOCKS' = (TOTAL_BLOCKS - Cardinality(BITMAP)) + Cardinality(freed)
      BY <2>2, <2>4
    <3> QED BY <3>1, <3>3, <3>6, <3>7
  <2> HIDE DEF freed, T
  <2>9. OwnedOnce(INODES)' /\ Marked(INODES, BITMAP)'
    BY <2>2, <2>6, <2>7 DEF OwnedOnce, Marked
  <2>10. \A j \in Inode : j # i => INODES'[j] = INODES[j]
    BY <2>2, <2>5
  <2>11. Cons(Just("bitmap"), rest) \in Seq(Step)
    BY Lists
  <2> QED BY <1>1, <1>3, <1>5, <2>8, <2>9, <2>10, <2>11, OneBehind
<1> QED BY <1>2, <1>4, <1>5

LEMMA WriteBlocks ==
  ASSUME Sole, StorageTypes, BlocksInv, Write(me)
  PROVE  BlocksInv'
<1>1. UNCHANGED <<MOUNTED, disk>> /\ ~Now(me, "inodes")
  BY DEF Write, Now
<1>2. PICK i \in Inode :
           /\ Writer(mine)
           /\ \/ UNCHANGED cache /\ mine' = Idle
              \/ /\ INODES[i].kind = "file" /\ EndOf(mine) <= MAX_FILE_SIZE
                 /\ Cardinality(Missing(INODES[i], EndOf(mine))) <= Cardinality(FreeBlocks)
                 /\ alloc_blocks(i, EndOf(mine)) /\ mine' = mine
                 /\ \E s \in InPieces(mine, i, Last(mine.op)) : Continues(s) /\ todo' = s
  BY FlowWrite
<1>3. MOUNTED /\ Live /\ disk.formatted /\ mine \in CallRecord /\ EndOf(mine) \in Nat /\ mine.data # <<>>
      /\ mine.op \in {"write_file", "write_at"}
  BY <1>2, CallTyped DEF Writer, Live, StorageTypes, DataTypes, EndOf, CallRecord
<1>4. AllOnDisk
  BY <1>1, <1>3, NoneWaits
<1>5. CASE UNCHANGED cache /\ mine' = Idle
  BY <1>1, <1>4, <1>5, EndsBlocks DEF cache
<1>6. CASE /\ INODES[i].kind = "file" /\ EndOf(mine) <= MAX_FILE_SIZE
           /\ Cardinality(Missing(INODES[i], EndOf(mine))) <= Cardinality(FreeBlocks)
           /\ alloc_blocks(i, EndOf(mine)) /\ mine' = mine
           /\ \E s \in InPieces(mine, i, Last(mine.op)) : Continues(s) /\ todo' = s
  <2> DEFINE end == EndOf(mine)  a == INODES[i]  M == Missing(a, end)  first == block_count(a.size)
             last == block_count(end)
             b == [k \in Index |-> IF k \in M THEN Taken(i, end, k) ELSE a.blocks[k]]
             T == [INODES EXCEPT ![i].blocks = b]
             z == IF end > a.size THEN end ELSE a.size
             G == [T EXCEPT ![i].size = z]
  <2>1. Grants(i, end) /\ INODES' \in InodeTable /\ BITMAP' \in SUBSET Block
    BY <1>3, <1>6, Allocates
  <2>2. /\ \A k \in M : k \in Index /\ k >= first /\ Taken(i, end, k) \in FreeBlocks
        /\ \A k, l \in M : Taken(i, end, k) = Taken(i, end, l) => k = l
        /\ INODES' = T /\ BITMAP' = BITMAP \union {Taken(i, end, k) : k \in M}
        /\ FREE_BLOCKS' = FREE_BLOCKS - Cardinality(M)
        /\ Cardinality(BITMAP') = Cardinality(BITMAP) + Cardinality(M) /\ Cardinality(M) \in Nat
    BY <2>1 DEF Grants
  <2>3. INODES \in InodeTable /\ BITMAP \in SUBSET Block
    BY TablesTyped
  <2>4. OwnedOnce(INODES) /\ Marked(INODES, BITMAP) /\ FREE_BLOCKS = TOTAL_BLOCKS - Cardinality(BITMAP)
    BY <1>3 DEF BlocksInv
  <2>5. a \in InodeRecord /\ a.kind = "file" /\ Count(a) = first /\ first \in Nat /\ a.size \in Nat
    BY <1>6, <2>3, Sizes, CountType DEF InodeTable, InodeRecord, Count
  <2>6. /\ last \in Nat /\ M = first .. last - 1 /\ end \in Nat
    BY <1>3, Counts DEF Missing
  <2>7. b \in [Index -> Block] /\ \A k \in Index : b[k] = IF k \in M THEN Taken(i, end, k) ELSE a.blocks[k]
    <3>1. \A k \in M : Taken(i, end, k) \in Block
      BY <2>2 DEF FreeBlocks
    <3> QED BY <2>5, <3>1 DEF InodeRecord
  <2>8. T[i] = [a EXCEPT !.blocks = b] /\ \A j \in Inode : j # i => T[j] = INODES[j]
    BY <2>3 DEF InodeTable
  <2>9. G[i] = [T[i] EXCEPT !.size = z] /\ (\A j \in Inode : j # i => G[j] = INODES[j]) /\ T \in InodeTable
    BY <2>1, <2>2, <2>8 DEF InodeTable
  <2> HIDE DEF b, T, G, M, a
  <2>10. \A k \in 0 .. first - 1 : k \in Index /\ k \notin M /\ b[k] = a.blocks[k]
    <3>1. 0 .. first - 1 \subseteq Index
      BY <2>5, CountType
    <3>2. \A k \in 0 .. first - 1 : k \notin M
      BY <2>5, <2>6
    <3> QED BY <2>7, <3>1, <3>2
  <2>11. Same(a, T[i])
    <3>1. T[i].kind = a.kind /\ T[i].size = a.size /\ T[i].parent = a.parent /\ T[i].name = a.name /\ T[i].blocks = b
      BY <2>5, <2>8 DEF InodeRecord
    <3>2. \A k \in 0 .. Count(a) - 1 : a.blocks[k] = T[i].blocks[k]
      BY <2>5, <2>10, <3>1
    <3> QED BY <3>1, <3>2 DEF Same
  <2>12. \A j \in Inode : Same(INODES[j], T[j])
    BY <2>8, <2>11, SameSelf DEF a
  <2>13. OwnedOnce(T) /\ Marked(T, BITMAP)
    BY <2>3, <2>4, <2>9, <2>12, SameTables
  <2>14. OwnedOnce(INODES)' /\ Marked(INODES, BITMAP)'
    BY <2>2, <2>13 DEF OwnedOnce, Marked
  <2>15. FREE_BLOCKS' = TOTAL_BLOCKS - Cardinality(BITMAP')
    <3>1. Cardinality(BITMAP) \in Nat /\ TOTAL_BLOCKS \in Nat
      BY <2>3, FreeSet, Sizes
    <3> QED BY <2>2, <2>4, <3>1
  <2>16. AllOnDisk'
    <3>1. \A j \in Inode : INODES[j] \in InodeRecord /\ T[j] \in InodeRecord /\ Same(INODES[j], disk.inodes[j])
      BY <1>4, <2>3, <2>9 DEF AllOnDisk, OnDiskToo, InodeTable
    <3>2. \A j \in Inode : Same(T[j], disk.inodes[j])
      BY <2>12, <3>1, SameFacts DEF Same
    <3> QED BY <1>1, <2>2, <3>2 DEF AllOnDisk, OnDiskToo
  <2>17. Count(G[i]) = IF last > first THEN last ELSE first
    <3>1. G[i].size = z /\ G[i].kind = "file"
      BY <2>5, <2>8, <2>9 DEF InodeRecord
    <3>2. Count(G[i]) = block_count(z)
      BY <3>1 DEF Count
    <3>3. \A k \in Int : k < first <=> k * BLOCK_SIZE < a.size
      BY <2>5, Counts DEF a
    <3>4. \A k \in Int : k < last <=> k * BLOCK_SIZE < end
      BY <2>6, Counts
    <3>5. CASE end > a.size
      <4>1. block_count(z) = last
        BY <3>5 DEF a
      <4>2. first <= last
        <5>1. SUFFICES ASSUME last < first PROVE FALSE
          BY <2>5, <2>6
        <5>2. last * BLOCK_SIZE < a.size
          BY <2>6, <3>3, <5>1
        <5>3. last * BLOCK_SIZE \in Int
          BY <2>6, Sizes
        <5>4. last * BLOCK_SIZE < end
          BY <2>5, <2>6, <3>5, <5>2, <5>3
        <5>5. last \in Int
          BY <2>6
        <5>6. last < last
          BY <3>4, <5>4, <5>5
        <5> QED BY <5>5, <5>6
      <4> QED BY <2>5, <2>6, <3>2, <4>1, <4>2
    <3>6. CASE ~(end > a.size)
      <4>1. block_count(z) = first
        BY <3>6 DEF a
      <4>2. last <= first
        <5>1. SUFFICES ASSUME first < last PROVE FALSE
          BY <2>5, <2>6
        <5>2. first \in Int
          BY <2>5
        <5>3. first * BLOCK_SIZE < end
          BY <3>4, <5>1, <5>2
        <5>4. first * BLOCK_SIZE \in Int
          BY <5>2, Sizes
        <5>5. first * BLOCK_SIZE < a.size
          BY <2>5, <2>6, <3>6, <5>3, <5>4
        <5>6. first < first
          BY <3>3, <5>2, <5>5
        <5> QED BY <5>2, <5>6
      <4> QED BY <2>5, <2>6, <3>2, <4>1, <4>2
    <3> QED BY <3>5, <3>6
  <2>18. G[i].blocks = b /\ G[i].kind = "file" /\ G[i] \in InodeRecord /\ G \in InodeTable
    <3>1. z \in 0 .. MAX_FILE_SIZE
      BY <1>6, <2>5, <2>6 DEF a, InodeRecord
    <3>0. T[i] \in InodeRecord /\ T[i].blocks = b /\ T[i].kind = "file"
      BY <2>5, <2>7, <2>8 DEF InodeRecord
    <3>2. G[i].blocks = b /\ G[i].kind = "file" /\ G[i] \in InodeRecord
      <4> HIDE DEF z
      <4> QED BY <2>9, <3>0, <3>1 DEF InodeRecord
    <3>3. G \in InodeTable
      BY <2>9, <3>1 DEF G, InodeTable, InodeRecord
    <3> QED BY <3>2, <3>3
  \* The blocks of the grown file: those it had, and those it takes.
  <2>19. ASSUME NEW k \in 0 .. Count(G[i]) - 1
         PROVE  k \in Index /\ \/ k \in 0 .. first - 1 /\ b[k] = a.blocks[k] /\ b[k] \in Owned(a)
                               \/ k \in M /\ b[k] = Taken(i, end, k) /\ b[k] \in FreeBlocks
    <3>1. k \in 0 .. first - 1 \/ k \in M
      BY <2>5, <2>6, <2>17
    <3>2. k \in 0 .. first - 1 => a.blocks[k] \in Owned(a)
      BY <2>5, CountType
    <3> QED BY <2>2, <2>7, <2>10, <3>1, <3>2
  <2>20. OwnedOnce(G) /\ Marked(G, BITMAP')
    <3>1. Owned(G[i]) = {b[k] : k \in 0 .. Count(G[i]) - 1}
      BY <2>18, CountType
    <3>2. Owned(G[i]) \subseteq Owned(a) \union {Taken(i, end, k) : k \in M}
      BY <2>19, <3>1
    <3>3. Owned(a) \subseteq BITMAP /\ \A k \in M : Taken(i, end, k) \notin BITMAP
      BY <2>2, <2>4 DEF a, Marked, FreeBlocks
    <3>4. ASSUME NEW j \in Inode, j # i PROVE Owned(G[j]) \intersect Owned(G[i]) = {} /\ Owned(G[j]) \subseteq BITMAP
      <4>1. Owned(G[j]) \subseteq BITMAP /\ Owned(G[j]) \intersect Owned(a) = {}
        BY <2>4, <2>9, <3>4 DEF a, OwnedOnce, Marked
      <4> QED BY <3>2, <3>3, <4>1
    <3>5. \A j, k \in Inode : j # k => Owned(G[j]) \intersect Owned(G[k]) = {}
      <4> SUFFICES ASSUME NEW j \in Inode, NEW k \in Inode, j # k PROVE Owned(G[j]) \intersect Owned(G[k]) = {}
        OBVIOUS
      <4>1. CASE j = i \/ k = i
        BY <3>4, <4>1
      <4>2. CASE j # i /\ k # i
        BY <2>4, <2>9, <4>2 DEF OwnedOnce
      <4> QED BY <4>1, <4>2
    <3>6. ASSUME NEW k \in 0 .. Count(G[i]) - 1, NEW l \in 0 .. Count(G[i]) - 1, b[k] = b[l] PROVE k = l
      <4>1. CASE k \in 0 .. first - 1 /\ l \in 0 .. first - 1
        <5>1. a.blocks[k] = a.blocks[l]
          BY <2>10, <3>6, <4>1
        <5> QED BY <2>4, <2>5, <4>1, <5>1 DEF a, OwnedOnce
      <4>2. CASE k \in M /\ l \in M
        <5>1. Taken(i, end, k) = Taken(i, end, l)
          BY <2>2, <2>7, <3>6, <4>2
        <5> QED BY <2>2, <4>2, <5>1
      <4>3. CASE (k \in 0 .. first - 1 /\ l \in M) \/ (k \in M /\ l \in 0 .. first - 1)
        <5>1. (b[k] \in Owned(a) /\ b[l] \in FreeBlocks) \/ (b[k] \in FreeBlocks /\ b[l] \in Owned(a))
          BY <2>10, <2>19, <4>3
        <5>2. \A x : ~(x \in Owned(a) /\ x \in FreeBlocks)
          BY <3>3 DEF FreeBlocks
        <5> QED BY <3>6, <5>1, <5>2
      <4> QED BY <2>19, <4>1, <4>2, <4>3
    <3>7. \A j \in Inode : \A k, l \in 0 .. Count(G[j]) - 1 : G[j].blocks[k] = G[j].blocks[l] => k = l
      BY <2>4, <2>9, <2>18, <3>6 DEF OwnedOnce
    <3>8. Marked(G, BITMAP')
      BY <2>2, <3>2, <3>3, <3>4 DEF Marked
    <3> QED BY <3>5, <3>7, <3>8 DEF OwnedOnce
  <2>21. Grown(i, EndOf(mine))' = G
    <3>1. EndOf(mine)' = end
      BY <1>6 DEF EndOf
    <3>2. T[i].size = a.size
      BY <2>5, <2>8 DEF InodeRecord
    <3>3. Grown(i, EndOf(mine))' = [T EXCEPT ![i].size = IF end > @ THEN end ELSE @]
      BY <2>2, <3>1 DEF Grown
    <3> QED BY <2>9, <3>2, <3>3 DEF G, InodeTable
  <2>22. ASSUME NEW j \in Inode, Filling(j)' PROVE j = i
    <3>1. todo' \in InPieces(mine, j, Last(mine.op)) /\ todo' \in InPieces(mine, i, Last(mine.op))
      BY <1>6, <2>22 DEF Filling
    <3>2. Last(mine.op) \in Seq(Step)
      BY <1>3, Lists
    <3> QED BY <1>3, <3>1, <3>2, PieceInode
  <2>23. INODES'[i].kind = "file" /\ OwnedOnce(Grown(i, EndOf(mine)))' /\ Marked(Grown(i, EndOf(mine)), BITMAP)'
    <3>1. INODES'[i].kind = "file"
      BY <2>2, <2>5, <2>11 DEF Same
    <3> QED BY <2>20, <2>21, <3>1 DEF OwnedOnce, Marked
  <2>24. DiskFollows'
    BY <2>16, AllFollow
  <2>25. OwnedOnce(disk.inodes)'
    BY <1>1 DEF BlocksInv, OwnedOnce
  <2> QED BY <1>1, <1>3, <2>14, <2>15, <2>22, <2>23, <2>24, <2>25 DEF BlocksInv
<1> QED BY <1>2, <1>5, <1>6

LEMMA GrowBlocks ==
  ASSUME Sole, StorageTypes, BlocksInv, Grow(me)
  PROVE  BlocksInv'
<1>1. UNCHANGED <<BITMAP, FREE_BLOCKS, MOUNTED, disk>> /\ ~Now(me, "inodes")
  BY DEF Grow, Now
<1>2. PICK i \in Inode :
           /\ First(me) = Grows(i, EndOf(mine)) /\ Writer(mine)
           /\ todo \in InPieces(mine, i, Last(mine.op))
           /\ Continues(Cons(Out(1), Cons(Just("bitmap"), Last(mine.op))))
  BY FlowGrow
<1>3. MOUNTED /\ Live /\ mine.op \in {"write_file", "write_at"}
  BY <1>2 DEF Writer, Live
<1>4. INODES' = Grown(i, EndOf(mine))
  BY <1>2 DEF Grow, Grows, Grown
<1>5. OwnedOnce(Grown(i, EndOf(mine))) /\ Marked(Grown(i, EndOf(mine)), BITMAP) /\ FREE_BLOCKS = TOTAL_BLOCKS - Cardinality(BITMAP)
  BY <1>2, <1>3 DEF BlocksInv, Filling
<1>6. OwnedOnce(INODES)' /\ Marked(INODES, BITMAP)' /\ FREE_BLOCKS' = TOTAL_BLOCKS - Cardinality(BITMAP')
  BY <1>1, <1>4, <1>5 DEF OwnedOnce, Marked
<1>7. \A j \in Inode : j # i => INODES'[j] = INODES[j]
  BY <1>4, TablesTyped DEF Grown, InodeTable
<1>8. Cons(Just("bitmap"), Last(mine.op)) \in Seq(Step)
  BY <1>3, Lists
<1> QED BY <1>1, <1>2, <1>3, <1>6, <1>7, <1>8, OneBehind

LEMMA StepsBlocks ==
  ASSUME Sole, StorageTypes, BlocksInv, Steps(me)
  PROVE  BlocksInv'
BY WriteInodesBlocks, WriteBitmapBlocks, FailsBlocks, LastBlocks, PieceBlocks, WriteSuperBlocks, CreateBlocks, MkdirBlocks,
   RmdirBlocks, RemoveBlocks, WriteBlocks, GrowBlocks DEF Steps

\* What every call but open begins with.
LEMMA Begun ==
  ASSUME Sole, StorageTypes, NEW op, NEW path, NEW offset, NEW data, NEW steps, Begins(me, op, path, offset, data, steps)
  PROVE  /\ mine'.op = op /\ mine'.path = path /\ mine'.offset = offset /\ mine'.data = data /\ todo' = steps
         /\ mine = Idle /\ todo = <<>>
<1>1. me' = me /\ me \in User /\ job[me] = NoJob
  BY CallTyped DEF me, Begins
<1>2. job'[me].call.op = op /\ job'[me].call.path = path /\ job'[me].call.offset = offset /\ job'[me].call.data = data
      /\ job'[me].steps = steps
  BY <1>1 DEF Begins, StorageTypes, CallTypes
<1>3. mine = Idle /\ todo = <<>>
  BY <1>1 DEF mine, todo, NoJob
<1> QED BY <1>1, <1>2, <1>3 DEF mine, todo

\* A call that begins changes nothing; only format writes a new table in memory.
QuietCall ==
  /\ MOUNTED /\ mine = Idle /\ todo = <<>>
  /\ UNCHANGED <<INODES, BITMAP, FREE_BLOCKS, SCRATCH, MOUNTED, NODES, disk, file>>
  /\ mine'.op # "format"
  /\ mine'.op \in {"write_file", "write_at"} => Head(todo').do \in {"create", "remove", "write"} /\ mine'.data # <<>>

LEMMA CallBegins ==
  ASSUME Sole, StorageTypes, Calls(me)
  PROVE  \/ QuietCall
         \/ format(me)
         \/ \E path \in Path : open(me, path)
<1>1. CASE format(me) \/ \E path \in Path : open(me, path)
  BY <1>1
<1>2. ASSUME NEW op, NEW path, NEW offset, NEW data, NEW steps, Begins(me, op, path, offset, data, steps), MOUNTED,
             UNCHANGED <<cache, SCRATCH, MOUNTED, NODES, disk, file>>, op # "format",
             op \in {"write_file", "write_at"} => Head(steps).do \in {"create", "remove", "write"} /\ data # <<>>
      PROVE  QuietCall
  BY <1>2, Begun DEF QuietCall, cache
<1>3. CASE sync(me)
  BY <1>2, <1>3 DEF sync
<1>4. CASE read(me)
  BY <1>2, <1>4 DEF read
<1>5. ASSUME NEW path \in Path, create_file(me, path) \/ remove_file(me, path) \/ make_directory(me, path) \/ remove_directory(me, path)
      PROVE  QuietCall
  <2>1. CASE create_file(me, path)
    BY <1>2, <2>1 DEF create_file
  <2>2. CASE remove_file(me, path)
    BY <1>2, <2>2 DEF remove_file
  <2>3. CASE make_directory(me, path)
    BY <1>2, <2>3 DEF make_directory
  <2>4. CASE remove_directory(me, path)
    BY <1>2, <2>4 DEF remove_directory
  <2> QED BY <1>5, <2>1, <2>2, <2>3, <2>4
<1>6. ASSUME NEW path \in Path, NEW d \in Data, NEW n \in WriteSizes, write_file(me, path, Text(d, n)) PROVE QuietCall
  <2> DEFINE i == lookup_file(INODES, path)
             s == (IF i = NoInode THEN <<>> ELSE <<[do |-> "remove", inode |-> i]>>) \o <<[do |-> "create"]>>
  <2>1. Begins(me, "write_file", path, 0, Text(d, n), s) /\ MOUNTED /\ UNCHANGED <<cache, SCRATCH, MOUNTED, NODES, disk, file>>
    BY <1>6 DEF write_file
  <2>2. Head(s).do \in {"create", "remove"}
    OBVIOUS
  <2>3. Text(d, n) # <<>>
    BY TextIn
  <2> HIDE DEF s
  <2> QED BY <1>2, <2>1, <2>2, <2>3
<1>7. ASSUME NEW d \in Data, NEW n \in WriteSizes, write_at(me, Text(d, n)) PROVE QuietCall
  <2> DEFINE s == <<[do |-> "write", inode |-> NODES[file[me].node].inode], [do |-> "advance"]>>
             p == NODES[file[me].node].path  o == file[me].offset
  <2>1. Begins(me, "write_at", p, o, Text(d, n), s) /\ MOUNTED /\ UNCHANGED <<cache, SCRATCH, MOUNTED, NODES, disk, file>>
    BY <1>7 DEF write_at
  <2>2. Head(s).do = "write" /\ Text(d, n) # <<>>
    BY TextIn
  <2> HIDE DEF s, p, o
  <2> QED BY <1>2, <2>1, <2>2
<1> QED BY <1>1, <1>3, <1>4, <1>5, <1>6, <1>7 DEF Calls

LEMMA CallsBlocks ==
  ASSUME Sole, StorageTypes, BlocksInv, Calls(me)
  PROVE  BlocksInv'
<1>1. CASE QuietCall
  <2>1. ~Now(me, "inodes")
    BY <1>1 DEF QuietCall, Now, todo
  <2>2. Live /\ AllOnDisk
    BY <1>1, <2>1, NoneWaits DEF Live, QuietCall
  <2>3. UNCHANGED <<INODES, BITMAP, FREE_BLOCKS, MOUNTED, disk>> /\ MOUNTED
    BY <1>1 DEF QuietCall
  <2>4. ASSUME NEW i \in Inode PROVE ~Filling(i)'
    <3>1. SUFFICES ASSUME mine'.op \in {"write_file", "write_at"}, todo' \in InPieces(mine', i, Last(mine'.op)) PROVE FALSE
      BY DEF Filling
    <3>2. StorageTypes'
      BY CallsTypes
    <3>3. mine' \in CallRecord
      BY <3>2 DEF StorageTypes, CallTypes, mine, me, Sole
    <3>4. PICK c \in CallRecord : c = mine'
      BY <3>3
    <3>5. c.data # <<>> /\ todo' \in InPieces(c, i, Last(c.op)) /\ Last(c.op) \in Seq(Step)
      BY <1>1, <3>1, <3>4, Lists DEF QuietCall
    <3>6. Head(todo').do \in {"grow", "store", "fetch", "clear"}
      BY <3>5, PieceHeads
    <3> QED BY <1>1, <3>1, <3>6 DEF QuietCall
  <2>5. OwnedOnce(disk.inodes)' /\ Fresh' = Fresh
    BY <2>3 DEF BlocksInv, OwnedOnce, Fresh
  <2>6. OwnedOnce(INODES)' /\ Marked(INODES, BITMAP)' /\ FREE_BLOCKS' = TOTAL_BLOCKS - Cardinality(BITMAP')
    BY <2>2, <2>3 DEF BlocksInv, OwnedOnce, Marked
  <2>7. DiskFollows'
    BY <2>2, <2>3, AllFollow DEF AllOnDisk, OnDiskToo
  <2>8. disk'.formatted /\ MOUNTED'
    BY <2>3 DEF StorageTypes, DataTypes
  <2> QED BY <2>4, <2>5, <2>6, <2>7, <2>8 DEF BlocksInv
<1>2. CASE \E path \in Path : open(me, path)
  <2>1. UNCHANGED <<INODES, BITMAP, FREE_BLOCKS, MOUNTED, disk, job>> /\ me' = me /\ job[me] = NoJob
    BY <1>2 DEF open, cache, me
  <2>2. mine' = mine /\ todo' = todo /\ mine = Idle /\ todo = <<>>
    BY <2>1 DEF mine, todo, NoJob
  <2>3. ~Now(me, "inodes")
    BY <2>2 DEF Now, todo
  <2> QED BY <2>1, <2>2, <2>3, NoneWaits, EndsBlocks
<1>3. CASE format(me)
  <2>1. /\ ~disk.formatted /\ ~MOUNTED /\ mine'.op = "format"
        /\ todo' = Cons(Out(1), Cons(Just("bitmap"), FromSuper))
        /\ INODES' = Fresh /\ BITMAP' = {} /\ FREE_BLOCKS' = TOTAL_BLOCKS
    BY <1>3, FormatTypes
  <2>2. disk' = disk /\ MOUNTED' = MOUNTED /\ me' = me /\ Fresh' = Fresh
    BY <1>3 DEF format, me, Fresh
  <2>3. OwnedOnce(INODES)' /\ Marked(INODES, BITMAP)'
    <3>1. OwnedOnce(Fresh) /\ Marked(Fresh, {})
      BY FreshTables
    <3>2. OwnedOnce(INODES)' <=> OwnedOnce(INODES')
      BY DEF OwnedOnce
    <3>3. Marked(INODES, BITMAP)' <=> Marked(INODES', BITMAP')
      BY DEF Marked
    <3> QED BY <2>1, <3>1, <3>2, <3>3
  <2>4. FREE_BLOCKS' = TOTAL_BLOCKS - Cardinality(BITMAP')
    BY <2>1, FS_EmptySet, Sizes
  <2>5. \A i \in Inode : disk.inodes[i] \in {Empty, Fresh[i]}
    BY <2>1 DEF BlocksInv
  <2>6. \A i \in Inode : i # ROOT_INODE => OnDiskToo(i)'
    BY <2>1, <2>2, <2>5, SameSelf DEF OnDiskToo, Fresh
  <2>7. Now(me, "inodes")' /\ First(me)'.chunk = 1
    <3>1. Cons(Just("bitmap"), FromSuper) \in Seq(Step)
      BY Lists
    <3>2. todo' # <<>> /\ Head(todo') = Out(1)
      BY <2>1, <3>1, ConsFacts
    <3> QED BY <2>2, <3>2 DEF Now, First, Out, todo
  <2>8. DiskFollows'
    <3>1. \A i \in Inode : ~(ChunkOf(i) < First(me)'.chunk)
      BY <2>7, ChunkNumbers
    <3> QED BY <2>1, <2>6, <2>7, <3>1 DEF DiskFollows
  <2>9. OwnedOnce(disk.inodes)'
    BY <2>2 DEF BlocksInv, OwnedOnce
  <2>10. \A i \in Inode : ~Filling(i)'
    BY <2>1 DEF Filling
  <2> QED BY <2>1, <2>2, <2>3, <2>4, <2>5, <2>8, <2>9, <2>10 DEF BlocksInv
<1> QED BY <1>1, <1>2, <1>3, CallBegins

LEMMA FreeCount ==
  ASSUME NEW S \in SUBSET Block
  PROVE  Cardinality(Block \ S) = TOTAL_BLOCKS - Cardinality(S)
<1>1. TOTAL_BLOCKS \in Nat \ {0}
  BY Sizes
<1>2. IsFiniteSet(Block) /\ Cardinality(Block) = TOTAL_BLOCKS
  <2>1. 0 \in Int /\ TOTAL_BLOCKS - 1 \in Int /\ Block = 0 .. (TOTAL_BLOCKS - 1)
    BY <1>1 DEF Block
  <2>2. IsFiniteSet(Block) /\ Cardinality(Block) = IF 0 > TOTAL_BLOCKS - 1 THEN 0 ELSE (TOTAL_BLOCKS - 1) - 0 + 1
    BY <2>1, FS_Interval
  <2> QED BY <1>1, <2>2
<1>3. Cardinality(Block \ S) = Cardinality(Block) - Cardinality(Block \intersect S)
  BY <1>2, FS_Difference
<1>4. Block \intersect S = S
  OBVIOUS
<1> QED BY <1>2, <1>3, <1>4

LEMMA MountBlocks ==
  ASSUME Sole, StorageTypes, BlocksInv, mount
  PROVE  BlocksInv'
<1>1. /\ INODES' = disk.inodes /\ BITMAP' = disk.bitmap /\ FREE_BLOCKS' = Cardinality(Block \ disk.bitmap)
      /\ MOUNTED' = TRUE /\ disk.formatted /\ ~MOUNTED /\ disk' = disk /\ job' = job /\ job[me] = NoJob /\ me' = me
  BY CallTyped DEF mount, me
<1>2. mine'.op = "idle"
  BY <1>1 DEF mine, NoJob, Idle
<1>3. AllOnDisk'
  BY <1>1, SameSelf DEF AllOnDisk, OnDiskToo
<1>4. disk.bitmap \in SUBSET Block
  BY DEF StorageTypes, DataTypes
<1>5. FREE_BLOCKS' = TOTAL_BLOCKS - Cardinality(BITMAP')
  BY <1>1, <1>4, FreeCount
<1>6. OwnedOnce(INODES)' /\ Marked(INODES, BITMAP)' /\ OwnedOnce(disk.inodes)'
  BY <1>1 DEF BlocksInv, OwnedOnce, Marked
<1> QED BY <1>1, <1>2, <1>3, <1>5, <1>6, AllFollow DEF BlocksInv, Filling

LEMMA RestartBlocks ==
  ASSUME Sole, StorageTypes, BlocksInv, Restart
  PROVE  BlocksInv'
<1>1. MOUNTED' = FALSE /\ disk' = disk /\ mine' = Idle
  BY RestartTypes DEF Restart
<1>2. ~Live' /\ mine'.op = "idle" /\ Fresh' = Fresh
  BY <1>1, IdleCall DEF Live, Fresh
<1>3. Marked(disk.inodes, disk.bitmap)
  <2>1. ~Torn
    BY DEF Restart, Sole
  <2> QED BY <2>1 DEF Torn, Marked
<1>4. Marked(disk.inodes, disk.bitmap)' /\ OwnedOnce(disk.inodes)'
  BY <1>1, <1>3 DEF BlocksInv, Marked, OwnedOnce
<1> QED BY <1>1, <1>2, <1>4 DEF BlocksInv, Filling

LEMMA InitBlocks ==
  ASSUME Sole, Init
  PROVE  BlocksInv
<1>1. mine = Idle /\ MOUNTED = FALSE /\ disk.inodes = [i \in Inode |-> Empty] /\ disk.formatted = FALSE
  BY InitTypes DEF Init
<1>2. ~Live /\ mine.op = "idle"
  BY <1>1, IdleCall DEF Live
<1>3. OwnedOnce(disk.inodes)
  BY <1>1, FreshTables
<1> QED BY <1>1, <1>2, <1>3 DEF BlocksInv, Filling

LEMMA StutterBlocks ==
  ASSUME Sole, StorageTypes, BlocksInv, UNCHANGED vars
  PROVE  BlocksInv'
<1>1. UNCHANGED <<INODES, BITMAP, FREE_BLOCKS, MOUNTED, disk>> /\ mine' = mine /\ todo' = todo /\ me' = me
  BY StutterTypes DEF vars, cache, me
<1>2. job' = job
  BY DEF vars
<1>3. EndOf(mine)' = EndOf(mine) /\ \A i \in Inode : Grown(i, EndOf(mine))' = Grown(i, EndOf(mine))
  BY <1>1 DEF EndOf, Grown
<1>4. DiskFollows' <=> DiskFollows
  BY <1>1, <1>2 DEF DiskFollows, OnDiskToo, Now, First
<1>5. (Live' <=> Live) /\ \A i \in Inode : Filling(i)' <=> Filling(i)
  BY <1>1 DEF Live, Filling
<1>6. Fresh' = Fresh
  BY DEF Fresh
<1>7. OwnedOnce(disk.inodes)'
  BY <1>1 DEF BlocksInv, OwnedOnce
<1>8. Live' => /\ OwnedOnce(INODES)' /\ Marked(INODES, BITMAP)'
               /\ FREE_BLOCKS' = TOTAL_BLOCKS - Cardinality(BITMAP') /\ DiskFollows'
  BY <1>1, <1>4, <1>5 DEF BlocksInv, OwnedOnce, Marked
<1>9. ~MOUNTED' /\ disk'.formatted => Marked(disk.inodes, disk.bitmap)'
  BY <1>1 DEF BlocksInv, Marked
<1>10. ~disk'.formatted => (\A i \in Inode : disk'.inodes[i] \in {Empty, Fresh[i]}) /\ (Live' => INODES' = Fresh)
  BY <1>1, <1>5 DEF BlocksInv
<1>11. ASSUME NEW i \in Inode, Filling(i)'
       PROVE  INODES'[i].kind = "file" /\ OwnedOnce(Grown(i, EndOf(mine)))' /\ Marked(Grown(i, EndOf(mine)), BITMAP)'
  <2>1. INODES[i].kind = "file" /\ OwnedOnce(Grown(i, EndOf(mine))) /\ Marked(Grown(i, EndOf(mine)), BITMAP)
    BY <1>5, <1>11 DEF BlocksInv
  <2>2. Grown(i, EndOf(mine))' = Grown(i, EndOf(mine))
    BY <1>3
  <2> QED BY <1>1, <2>1, <2>2 DEF OwnedOnce, Marked
<1> QED BY <1>6, <1>7, <1>8, <1>9, <1>10, <1>11 DEF BlocksInv

LEMMA NextBlocks ==
  ASSUME Sole, StorageTypes, BlocksInv, [Next]_vars
  PROVE  BlocksInv'
BY Actions, MountBlocks, RestartBlocks, CallsBlocks, StepsBlocks, StutterBlocks

------------------------------------------------------------------------------
(* The invariant of the run *)

LEMMA OwnedCount ==
  ASSUME NEW table \in InodeTable, OwnedOnce(table), NEW i \in Inode
  PROVE  Cardinality(Owned(table[i])) = IF table[i].kind = "file" THEN block_count(table[i].size) ELSE 0
<1> DEFINE K == 0 .. Count(table[i]) - 1
           f == [k \in K |-> table[i].blocks[k]]
<1>1. table[i] \in InodeRecord
  BY DEF InodeTable
<1>2. Count(table[i]) \in Nat /\ Owned(table[i]) = {table[i].blocks[k] : k \in K}
  BY <1>1, CountType
<1>3. IsFiniteSet(K) /\ Cardinality(K) = Count(table[i])
  <2>1. 0 \in Int /\ Count(table[i]) - 1 \in Int
    BY <1>2
  <2>2. IsFiniteSet(K) /\ Cardinality(K) = IF 0 > Count(table[i]) - 1 THEN 0 ELSE (Count(table[i]) - 1) - 0 + 1
    BY <2>1, FS_Interval
  <2> QED BY <1>2, <2>2
<1>4. f \in [K -> Owned(table[i])]
  BY <1>2
<1>5. \A x, y \in K : f[x] = f[y] => x = y
  BY DEF OwnedOnce
<1>6. \A b \in Owned(table[i]) : \E x \in K : f[x] = b
  BY <1>2
<1> HIDE DEF f, K
<1>7. Cardinality(Owned(table[i])) = Cardinality(K)
  BY <1>3, <1>4, <1>5, <1>6, Images
<1> QED BY <1>3, <1>7 DEF Count

LEMMA TableFacts ==
  ASSUME StorageTypes, BlocksInv
  PROVE  Table \in InodeTable /\ OwnedOnce(Table)
<1>1. CASE MOUNTED
  BY <1>1, TablesTyped DEF Table, BlocksInv, Live
<1>2. CASE ~MOUNTED /\ disk.formatted
  BY <1>2, TablesTyped DEF Table, BlocksInv
<1>3. CASE ~MOUNTED /\ ~disk.formatted
  <2>1. Table = [i \in Inode |-> Empty]
    BY <1>3 DEF Table
  <2>2. \A i \in Inode : Bare(Table[i]) /\ Table[i] \in InodeRecord
    BY <2>1, BareRecords, EmptyTypes
  <2>3. Table \in InodeTable
    BY <2>1, <2>2 DEF InodeTable
  <2>4. OwnedOnce(Table)
    <3> HIDE DEF Table
    <3> QED BY <2>2, BareTables
  <2> QED BY <2>3, <2>4
<1> QED BY <1>1, <1>2, <1>3

LEMMA InvFollows ==
  ASSUME Sole, StorageTypes, BlocksInv
  PROVE  StorageInv
<1>1. StorageTypeOK
  <2>1. INODES \in InodeTable
    BY TablesTyped
  <2>2. INODES \in [Inode -> [kind : {"free", "file", "dir"}, size : 0 .. MAX_FILE_SIZE, parent : Inode,
                              name : {Empty.name} \union UNION {{p[k] : k \in 1 .. Len(p)} : p \in Path},
                              blocks : [0 .. DIRECT_BLOCKS - 1 -> Block]]]
    BY <2>1 DEF InodeTable, InodeRecord, Name, Index
  <2>3. MOUNTED => FREE_BLOCKS = TOTAL_BLOCKS - Cardinality(BITMAP)
    BY DEF BlocksInv, Live
  <2>4. Len(NODES) <= MAX_NODES /\ \A n \in 1 .. Len(NODES) : NODES[n].size \in 0 .. MAX_FILE_SIZE
    <3>1. NODES \in Seq(NodeRecord) /\ Len(NODES) <= MAX_NODES
      BY DEF StorageTypes, DataTypes, NodeLists
    <3>2. \A n \in 1 .. Len(NODES) : NODES[n] \in NodeRecord
      BY <3>1
    <3> QED BY <3>1, <3>2 DEF NodeRecord
  <2>5. \A u \in User : file[u].node \in 0 .. Len(NODES)
    <3>1. NODES \in Seq(NodeRecord) /\ me \in User /\ User = {me}
      BY DEF StorageTypes, DataTypes, NodeLists, Sole
    <3>2. file[me].node \in Nat /\ file[me].node <= Len(NODES) /\ Len(NODES) \in Nat
      BY <3>1 DEF StorageTypes, DataTypes
    <3> QED BY <3>1, <3>2
  <2> QED BY <2>2, <2>3, <2>4, <2>5 DEF StorageTypeOK, StorageTypes, DataTypes
<1>2. BlocksOwnedOnce
  <2>1. Table \in InodeTable /\ OwnedOnce(Table)
    BY TableFacts
  <2>2. \A i, j \in Inode : i # j => Owned(Table[i]) \intersect Owned(Table[j]) = {}
    BY <2>1 DEF OwnedOnce
  <2>3. \A i \in Inode : Cardinality(Owned(Table[i])) = IF Table[i].kind = "file" THEN block_count(Table[i].size) ELSE 0
    <3> HIDE DEF Table
    <3> QED BY <2>1, OwnedCount
  <2>4. MOUNTED => \A i \in Inode : Owned(INODES[i]) \subseteq BITMAP
    BY DEF BlocksInv, Live, Marked
  <2> QED BY <2>2, <2>3, <2>4 DEF BlocksOwnedOnce
<1> QED BY <1>1, <1>2 DEF StorageInv

\* What tcmkfs.rs has in memory, what vfs.rs has over it, what is on the partition
\* and the steps that a call has left are of their types in every state that one
\* task can reach, errors of the drive in write_file and sync and losses of power
\* counted: the steps follow each other as the statements of the call do.
THEOREM Typed ==
  ASSUME Sole
  PROVE  Spec => []StorageTypes
<1>1. Init => StorageTypes
  BY InitTypes
<1>2. StorageTypes /\ [Next]_vars => StorageTypes'
  BY NextTypes
<1> QED BY <1>1, <1>2, PTL DEF Spec

\* Every block has one owner at most and is marked in the bitmap, in memory and
\* on the disk, and the count of free blocks is that of the bitmap (alloc_blocks,
\* remove, mount): for every size of the disk and of the table, with write_file
\* failing half way, sync failing and the power lost between any two sectors but
\* those of the table and of the bitmap.
THEOREM Consistent ==
  ASSUME Sole
  PROVE  Spec => []StorageInv
<1> DEFINE I == StorageTypes /\ BlocksInv
<1>1. Init => I
  BY InitTypes, InitBlocks
<1>2. I /\ [Next]_vars => I'
  BY NextTypes, NextBlocks
<1>3. I => StorageInv
  BY InvFollows
<1> QED BY <1>1, <1>2, <1>3, PTL DEF Spec

------------------------------------------------------------------------------
(* The tree: paths lead to their inodes *)

\* Two walks along the same names are at the same places.
LEMMA WalksAgree ==
  ASSUME NEW table \in InodeTable, NEW p \in Seq(Word), NEW q \in Seq(Word), Len(p) <= Len(q),
         \A n \in 1 .. Len(p) : p[n] = q[n], NEW a, NEW b, Walk(table, p, a), Walk(table, q, b)
  PROVE  \A n \in 0 .. Len(p) : a[n] = b[n]
<1> DEFINE N == Len(p)  S == {n \in 0 .. N : a[n] = b[n]}
<1>1. N \in Nat /\ 0 \in 0 .. N
  OBVIOUS
<1>2. 0 \in S
  BY <1>1 DEF Walk
<1>3. ASSUME NEW n \in 1 .. N, n - 1 \in S PROVE n \in S
  <2>1. n \in 1 .. Len(q) /\ p[n] = q[n] /\ a[n - 1] = b[n - 1] /\ n \in 0 .. N
    BY <1>3
  <2>2. a[n] = Enter(table, a[n - 1], p[n]) /\ b[n] = Enter(table, b[n - 1], q[n])
    BY <1>3, <2>1 DEF Walk
  <2> QED BY <2>1, <2>2
<1> HIDE DEF S
<1>4. \A n \in 0 .. N : n \in S
  BY <1>1, <1>2, <1>3, InductionUpTo
<1> QED BY <1>4 DEF S

\* One name more: one directory further.
LEMMA ResolveStep ==
  ASSUME NEW table \in InodeTable, NEW p \in Seq(Word), NEW w \in Word, Len(p) + 1 <= MAX_DEPTH
  PROVE  resolve(table, Append(p, w)) = Enter(table, resolve(table, p), w)
<1> DEFINE q == Append(p, w)  N == Len(p)
<1>1. q \in Seq(Word) /\ Len(q) = N + 1 /\ (\A n \in 1 .. N : q[n] = p[n]) /\ q[N + 1] = w /\ N \in Nat
  OBVIOUS
<1>2. N <= MAX_DEPTH /\ Len(q) <= MAX_DEPTH
  BY <1>1, Sizes
<1> HIDE DEF q
<1>3. PICK a : Walk(table, p, a) /\ resolve(table, p) = a[N]
  BY <1>2, ResolveWalk
<1>4. PICK b : Walk(table, q, b) /\ resolve(table, q) = b[Len(q)]
  BY <1>1, <1>2, ResolveWalk
<1>5. a[N] = b[N]
  <2>1. \A n \in 0 .. Len(p) : a[n] = b[n]
    BY <1>1, <1>3, <1>4, WalksAgree
  <2> QED BY <1>1, <2>1
<1>6. b[N + 1] = Enter(table, b[N + 1 - 1], q[N + 1])
  <2>1. N + 1 \in 1 .. Len(q)
    BY <1>1
  <2> QED BY <1>4, <2>1 DEF Walk
<1>7. N + 1 - 1 = N
  BY <1>1
<1> QED BY <1>1, <1>3, <1>4, <1>5, <1>6, <1>7 DEF q

LEMMA ResolveRoot ==
  ASSUME NEW table \in InodeTable
  PROVE  resolve(table, <<>>) = ROOT_INODE
<1>1. <<>> \in Seq(Word) /\ Len(<<>>) = 0 /\ 0 <= MAX_DEPTH
  BY Sizes
<1>2. PICK a : Walk(table, <<>>, a) /\ resolve(table, <<>>) = a[Len(<<>>)]
  BY <1>1, ResolveWalk
<1> QED BY <1>1, <1>2 DEF Walk

\* A used inode that is not the root: what the tree says of it.
LEMMA TreeEntry ==
  ASSUME NEW T \in InodeTable, NEW at \in [Inode -> Seq(Name)], Tree(T, at),
         NEW i \in Inode \ {ROOT_INODE}, T[i].kind # "free"
  PROVE  /\ T[i].parent \in Inode /\ T[i].name \in Name /\ T[T[i].parent].kind = "dir"
         /\ at[T[i].parent] \in Seq(Name) /\ at[i] = Append(at[T[i].parent], T[i].name)
         /\ Len(at[i]) = Len(at[T[i].parent]) + 1 /\ Len(at[i]) <= MAX_DEPTH
         /\ at[i][Len(at[i])] = T[i].name
         /\ \A k \in 1 .. Len(at[T[i].parent]) : at[i][k] = at[T[i].parent][k]
<1>1. T[i].parent \in Inode /\ T[i].name \in Name
  BY DEF InodeTable, InodeRecord
<1>2. T[T[i].parent].kind = "dir" /\ at[i] = Append(at[T[i].parent], T[i].name) /\ Len(at[i]) <= MAX_DEPTH
  BY DEF Tree
<1>3. at[T[i].parent] \in Seq(Name)
  BY <1>1
<1> QED BY <1>1, <1>2, <1>3

LEMMA NameWords == \A p \in Seq(Name) : p \in Seq(Word)
<1>1. Name \subseteq Word
  BY DEF Word
<1> QED BY <1>1

\* The path of an inode leads to it.
LEMMA TreeResolves ==
  ASSUME NEW T \in InodeTable, NEW at \in [Inode -> Seq(Name)], Tree(T, at),
         NEW i \in Inode, T[i].kind # "free"
  PROVE  resolve(T, at[i]) = i /\ Len(at[i]) <= MAX_DEPTH
<1> DEFINE Good(n) == \A j \in Inode : T[j].kind # "free" /\ Len(at[j]) = n => resolve(T, at[j]) = j
           S == {n \in 0 .. MAX_DEPTH : Good(n)}
<1>1. ASSUME NEW j \in Inode, T[j].kind # "free" PROVE Len(at[j]) \in 0 .. MAX_DEPTH
  <2>1. CASE j = ROOT_INODE
    BY <2>1, Sizes DEF Tree
  <2>2. CASE j # ROOT_INODE
    BY <1>1, <2>2, TreeEntry, Sizes
  <2> QED BY <2>1, <2>2
<1>2. ASSUME NEW j \in Inode \ {ROOT_INODE}, T[j].kind # "free", resolve(T, at[T[j].parent]) = T[j].parent
      PROVE  resolve(T, at[j]) = j
  <2> DEFINE d == T[j].parent  w == T[j].name
  <2>1. /\ d \in Inode /\ w \in Name /\ T[d].kind = "dir" /\ at[d] \in Seq(Name)
        /\ at[j] = Append(at[d], w) /\ Len(at[d]) + 1 <= MAX_DEPTH
    BY <1>2, TreeEntry
  <2>2. resolve(T, at[j]) = Enter(T, d, w)
    <3>1. at[d] \in Seq(Word) /\ w \in Word
      BY <2>1, NameWords DEF Word
    <3> HIDE DEF d, w
    <3>2. resolve(T, Append(at[d], w)) = Enter(T, resolve(T, at[d]), w)
      BY <2>1, <3>1, ResolveStep
    <3> QED BY <2>1, <3>2, <1>2 DEF d
  <2>3. Enter(T, d, w) = child_of(T, d, w)
    <3>1. d # NoInode
      <4>1. \A x \in Inode : x # NoInode
        BY Sizes DEF Inode, NoInode
      <4> QED BY <2>1, <4>1
    <3> QED BY <2>1, <3>1 DEF Enter
  <2>4. child_of(T, d, w) = j
    <3> DEFINE c == child_of(T, d, w)
    <3>1. /\ c = NoInode \/ (/\ c \in Inode \ {ROOT_INODE} /\ T[c].kind # "free" /\ T[c].parent = d /\ T[c].name = w)
          /\ c = NoInode => \A k \in Inode \ {ROOT_INODE} : T[k].kind = "free" \/ T[k].parent # d \/ T[k].name # w
      BY ChildOf
    <3> HIDE DEF c
    <3>2. c \in Inode \ {ROOT_INODE} /\ T[c].kind # "free" /\ T[c].parent = d /\ T[c].name = w
      BY <1>2, <3>1
    <3>3. c = j
      BY <1>2, <3>2 DEF Tree
    <3> QED BY <3>3 DEF c
  <2> QED BY <2>2, <2>3, <2>4
<1>3. 0 \in S
  <2>1. ASSUME NEW j \in Inode, T[j].kind # "free", Len(at[j]) = 0 PROVE resolve(T, at[j]) = j
    <3>1. j = ROOT_INODE
      BY <2>1, TreeEntry
    <3>2. at[j] = <<>>
      BY <3>1 DEF Tree
    <3> QED BY <3>1, <3>2, ResolveRoot
  <2> QED BY <2>1, Sizes
<1>4. ASSUME NEW n \in 1 .. MAX_DEPTH, n - 1 \in S PROVE n \in S
  <2>1. ASSUME NEW j \in Inode, T[j].kind # "free", Len(at[j]) = n PROVE resolve(T, at[j]) = j
    <3>1. j # ROOT_INODE
      BY <2>1 DEF Tree
    <3>2. T[j].parent \in Inode /\ T[T[j].parent].kind # "free" /\ Len(at[T[j].parent]) = n - 1
      BY <2>1, <3>1, TreeEntry
    <3>3. resolve(T, at[T[j].parent]) = T[j].parent
      BY <1>4, <3>2
    <3> QED BY <1>2, <2>1, <3>1, <3>3
  <2> QED BY <2>1
<1> HIDE DEF S
<1>5. \A n \in 0 .. MAX_DEPTH : n \in S
  BY <1>3, <1>4, InductionUpTo, Sizes
<1>6. Len(at[i]) \in 0 .. MAX_DEPTH
  BY <1>1
<1> QED BY <1>5, <1>6 DEF S

\* Where a path leads is an inode of that path.
LEMMA TreeOnly ==
  ASSUME NEW T \in InodeTable, NEW at \in [Inode -> Seq(Name)], Tree(T, at),
         NEW p \in Seq(Word), resolve(T, p) # NoInode
  PROVE  /\ resolve(T, p) \in Inode /\ T[resolve(T, p)].kind # "free"
         /\ p = at[resolve(T, p)] /\ Len(p) <= MAX_DEPTH
<1>1. Len(p) <= MAX_DEPTH /\ Len(p) \in Nat
  <2>1. Len(p) > MAX_DEPTH => resolve(T, p) = NoInode
    BY DEF resolve
  <2> QED BY <2>1, Sizes
<1>2. PICK w : Walk(T, p, w) /\ resolve(T, p) = w[Len(p)]
  BY <1>1, ResolveWalk
<1> DEFINE N == Len(p)
           Right(n) == w[n] # NoInode => /\ w[n] \in Inode /\ T[w[n]].kind # "free" /\ Len(at[w[n]]) = n
                                         /\ \A k \in 1 .. n : at[w[n]][k] = p[k]
           S == {n \in 0 .. N : Right(n)}
<1>3. 0 \in S
  <2>1. w[0] = ROOT_INODE /\ ROOT_INODE \in Inode
    BY <1>2, Sizes DEF Walk, Inode, ROOT_INODE
  <2>2. T[ROOT_INODE].kind = "dir" /\ at[ROOT_INODE] = <<>>
    BY DEF Tree
  <2>3. Right(0)
    BY <2>1, <2>2
  <2> QED BY <1>1, <2>3
<1>4. ASSUME NEW n \in 1 .. N, n - 1 \in S PROVE n \in S
  <2>0. n \in 0 .. N
    BY <1>4, <1>1
  <2>1. SUFFICES ASSUME w[n] # NoInode
                 PROVE  /\ w[n] \in Inode /\ T[w[n]].kind # "free" /\ Len(at[w[n]]) = n
                        /\ \A k \in 1 .. n : at[w[n]][k] = p[k]
    BY <2>0
  <2> DEFINE d == w[n - 1]  c == w[n]
  <2>2. c = Enter(T, d, p[n])
    BY <1>2 DEF Walk
  <2>3. Right(n - 1)
    BY <1>4
  <2> HIDE DEF c, d
  <2>4. d # NoInode /\ c = child_of(T, d, p[n]) /\ c # NoInode
    BY <2>1, <2>2 DEF Enter, c
  <2>5. d \in Inode /\ T[d].kind # "free" /\ Len(at[d]) = n - 1 /\ \A k \in 1 .. n - 1 : at[d][k] = p[k]
    BY <2>3, <2>4 DEF d
  <2>6. c \in Inode \ {ROOT_INODE} /\ T[c].kind # "free" /\ T[c].parent = d /\ T[c].name = p[n]
    BY <2>4, ChildOf
  <2>7. Len(at[c]) = n /\ at[c][n] = p[n] /\ \A k \in 1 .. n - 1 : at[c][k] = p[k]
    <3>1. /\ Len(at[c]) = Len(at[d]) + 1 /\ at[c][Len(at[c])] = T[c].name
          /\ \A k \in 1 .. Len(at[d]) : at[c][k] = at[d][k]
      BY <2>6, TreeEntry
    <3> QED BY <3>1, <2>5, <2>6
  <2>8. \A k \in 1 .. n : at[c][k] = p[k]
    BY <2>7
  <2> QED BY <2>6, <2>7, <2>8 DEF c
<1> HIDE DEF S
<1>5. \A n \in 0 .. N : n \in S
  BY <1>1, <1>3, <1>4, InductionUpTo
<1>6. Right(N)
  BY <1>1, <1>5 DEF S
<1> DEFINE r == resolve(T, p)
<1>7. r \in Inode /\ T[r].kind # "free" /\ Len(at[r]) = Len(p) /\ \A k \in 1 .. Len(p) : at[r][k] = p[k]
  BY <1>2, <1>6
<1> HIDE DEF r
<1>8. at[r] \in Seq(Word)
  BY <1>7, NameWords
<1>9. p = at[r]
  BY <1>7, <1>8
<1> QED BY <1>1, <1>7, <1>9 DEF r

\* What path_of gives is that path.
LEMMA TreePath ==
  ASSUME NEW T \in InodeTable, NEW at \in [Inode -> Seq(Name)], Tree(T, at),
         NEW i \in Inode, T[i].kind # "free"
  PROVE  path_of(T, i) = at[i]
<1> DEFINE D(up) == {n \in 0 .. MAX_DEPTH : up[n] = ROOT_INODE}
<1>1. PICK up : /\ Climb(T, i, up)
                /\ D(up) = {} => path_of(T, i) = NoPath
                /\ D(up) # {} => path_of(T, i) = [k \in 1 .. Lowest(D(up)) |-> T[up[Lowest(D(up)) - k]].name]
  BY PathClimb
<1> DEFINE N == Len(at[i])
           Right(n) == /\ T[up[n]].kind # "free" /\ Len(at[up[n]]) = N - n
                       /\ \A k \in 1 .. N - n : at[up[n]][k] = at[i][k]
           S == {n \in 0 .. N : Right(n)}
<1>2. N \in 0 .. MAX_DEPTH /\ N \in Nat /\ at[i] \in Seq(Name) /\ MAX_DEPTH \in Nat
  <2>1. Len(at[i]) <= MAX_DEPTH
    BY TreeResolves
  <2> QED BY <2>1, Sizes
<1>3. up \in [0 .. MAX_DEPTH -> Inode] /\ up[0] = i /\ \A n \in 1 .. MAX_DEPTH : up[n] = T[up[n - 1]].parent
  BY <1>1 DEF Climb
<1>4. 0 \in S
  BY <1>2, <1>3
<1>5. ASSUME NEW n \in 1 .. N, n - 1 \in S PROVE n \in S
  <2>1. n \in 1 .. MAX_DEPTH /\ n - 1 \in 0 .. MAX_DEPTH /\ n \in 0 .. N
    BY <1>2
  <2> DEFINE c == up[n - 1]  d == up[n]
  <2>2. c \in Inode /\ d = T[c].parent
    BY <1>3, <2>1
  <2>3. T[c].kind # "free" /\ Len(at[c]) = N - (n - 1) /\ \A k \in 1 .. N - (n - 1) : at[c][k] = at[i][k]
    BY <1>5
  <2> HIDE DEF c, d
  <2>4. c # ROOT_INODE
    <3>1. Len(at[c]) > 0
      BY <1>2, <2>3
    <3> QED BY <3>1 DEF Tree
  <2>5. /\ T[d].kind = "dir" /\ at[d] \in Seq(Name) /\ Len(at[c]) = Len(at[d]) + 1
        /\ \A k \in 1 .. Len(at[d]) : at[c][k] = at[d][k]
    <3>1. c \in Inode \ {ROOT_INODE}
      BY <2>2, <2>4
    <3>2. /\ T[T[c].parent].kind = "dir" /\ at[T[c].parent] \in Seq(Name) /\ Len(at[c]) = Len(at[T[c].parent]) + 1
          /\ \A k \in 1 .. Len(at[T[c].parent]) : at[c][k] = at[T[c].parent][k]
      BY <2>3, <3>1, TreeEntry
    <3> QED BY <2>2, <3>2
  <2>6. Len(at[d]) = N - n
    <3>1. Len(at[d]) \in Nat
      BY <2>5
    <3> QED BY <1>2, <2>3, <2>5, <3>1
  <2>7. \A k \in 1 .. N - n : at[d][k] = at[i][k]
    BY <1>2, <2>3, <2>5, <2>6
  <2>8. Right(n)
    BY <2>5, <2>6, <2>7 DEF d
  <2> QED BY <2>1, <2>8
<1> HIDE DEF S
<1>6. \A n \in 0 .. N : n \in S
  BY <1>2, <1>4, <1>5, InductionUpTo
<1>7. ASSUME NEW n \in 0 .. N PROVE up[n] \in Inode /\ Right(n)
  <2>1. n \in 0 .. MAX_DEPTH
    BY <1>2
  <2>2. up[n] \in Inode
    BY <1>3, <2>1
  <2>3. n \in S
    BY <1>6
  <2>4. Right(n)
    BY <2>3 DEF S
  <2> QED BY <2>2, <2>4
<1>8. ASSUME NEW n \in 0 .. N PROVE up[n] = ROOT_INODE <=> n = N
  <2>1. up[n] \in Inode /\ T[up[n]].kind # "free" /\ Len(at[up[n]]) = N - n
    BY <1>7
  <2>2. at[ROOT_INODE] = <<>>
    BY DEF Tree
  <2>3. up[n] # ROOT_INODE => Len(at[up[n]]) # 0
    <3>1. SUFFICES ASSUME up[n] \in Inode \ {ROOT_INODE} PROVE Len(at[up[n]]) # 0
      BY <2>1
    <3> DEFINE u == up[n]
    <3>2. u \in Inode \ {ROOT_INODE} /\ T[u].kind # "free"
      BY <2>1, <3>1
    <3> HIDE DEF u
    <3>3. at[T[u].parent] \in Seq(Name) /\ Len(at[u]) = Len(at[T[u].parent]) + 1
      BY <3>2, TreeEntry
    <3>4. Len(at[u]) # 0
      BY <3>3
    <3> QED BY <3>4 DEF u
  <2> QED BY <1>2, <2>1, <2>2, <2>3
<1> DEFINE Depths == D(up)  L == Lowest(Depths)
<1>9. L = N /\ Depths # {}
  <2>1. N \in Depths
    BY <1>2, <1>8
  <2>2. Depths \subseteq Nat
    OBVIOUS
  <2>3. \A n \in Depths : n < N => up[n] # ROOT_INODE
    BY <1>2, <1>8
  <2>4. \A n \in Depths : up[n] = ROOT_INODE
    OBVIOUS
  <2> HIDE DEF Depths
  <2>5. Lowest(Depths) \in Depths /\ \A j \in Depths : Lowest(Depths) <= j
    BY <2>1, <2>2, LowestIn
  <2> DEFINE l == Lowest(Depths)
  <2>6. l \in Depths /\ l \in Nat /\ l <= N
    BY <2>1, <2>2, <2>5
  <2> HIDE DEF l
  <2>7. ~(l < N)
    BY <2>3, <2>4, <2>6
  <2>8. l = N
    BY <1>2, <2>6, <2>7
  <2> QED BY <2>1, <2>8 DEF l
<1>10. path_of(T, i) = [k \in 1 .. N |-> T[up[N - k]].name]
  BY <1>1, <1>9
<1>11. ASSUME NEW k \in 1 .. N PROVE T[up[N - k]].name = at[i][k]
  <2> DEFINE n == N - k  u == up[n]
  <2>1. n \in 0 .. N /\ n # N /\ k \in 1 .. N - n /\ N - n = k
    BY <1>2
  <2>2. u \in Inode /\ u # ROOT_INODE /\ T[u].kind # "free" /\ Len(at[u]) = k /\ at[u][k] = at[i][k]
    BY <2>1, <1>7, <1>8
  <2> HIDE DEF u
  <2>3. at[u][Len(at[u])] = T[u].name
    BY <2>2, TreeEntry
  <2> QED BY <2>2, <2>3 DEF u
<1>12. at[i] = [k \in 1 .. N |-> at[i][k]]
  BY <1>2
<1> QED BY <1>10, <1>11, <1>12

\* The root is where the empty path leads; no entry has the path NoPath.
LEMMA NamedPaths ==
  ASSUME NEW p \in Seq(Name) PROVE p # NoPath
<1>1. NoPath = <<"/">>
  BY DEF NoPath
<1>2. "/" \notin Name
  <2>1. Empty.name = "-"
    BY DEF Empty
  <2>2. "-" # "/"
    OBVIOUS
  <2> QED BY <2>1, <2>2, PathsAssumption DEF Name
<1>3. p # <<>> => p[1] \in Name
  OBVIOUS
<1> QED BY <1>1, <1>2, <1>3

------------------------------------------------------------------------------
(* The tree: entries come and go *)

\* Two entries of the same kind, place and name.
Alike(a, b) == a.kind = b.kind /\ a.parent = b.parent /\ a.name = b.name

LEMMA AlikeTree ==
  ASSUME NEW T, NEW U, \A i \in Inode : Alike(T[i], U[i]), IsTree(T), T \in InodeTable
  PROVE  IsTree(U)
<1>1. PICK at \in [Inode -> Seq(Name)] : Tree(T, at)
  BY DEF IsTree
<1>2. \A i \in Inode : U[i].kind = T[i].kind /\ U[i].parent = T[i].parent /\ U[i].name = T[i].name /\ T[i].parent \in Inode
  BY DEF Alike, InodeTable, InodeRecord
<1>3. ROOT_INODE \in Inode
  BY Sizes DEF Inode, ROOT_INODE
<1>4. U[ROOT_INODE].kind = "dir" /\ at[ROOT_INODE] = <<>>
  BY <1>1, <1>2, <1>3 DEF Tree
<1>5. ASSUME NEW i \in Inode \ {ROOT_INODE}, U[i].kind # "free"
      PROVE  /\ U[U[i].parent].kind = "dir" /\ at[i] = Append(at[U[i].parent], U[i].name) /\ Len(at[i]) <= MAX_DEPTH
             /\ T[i].kind # "free" /\ U[i].parent = T[i].parent /\ U[i].name = T[i].name
  <2>1. T[i].kind # "free" /\ T[i].parent \in Inode /\ U[i].parent = T[i].parent /\ U[i].name = T[i].name
    BY <1>2, <1>5
  <2>2. T[T[i].parent].kind = "dir" /\ at[i] = Append(at[T[i].parent], T[i].name) /\ Len(at[i]) <= MAX_DEPTH
    BY <1>1, <2>1 DEF Tree
  <2>3. U[T[i].parent].kind = "dir"
    BY <1>2, <2>1, <2>2
  <2> QED BY <2>1, <2>2, <2>3
<1>6. ASSUME NEW i \in Inode \ {ROOT_INODE}, U[i].kind # "free", NEW j \in Inode \ {ROOT_INODE, i}, U[j].kind # "free"
      PROVE  U[j].parent # U[i].parent \/ U[j].name # U[i].name
  <2>1. T[i].kind # "free" /\ T[j].kind # "free"
    BY <1>5, <1>6
  <2>2. T[j].parent # T[i].parent \/ T[j].name # T[i].name
    BY <1>1, <2>1 DEF Tree
  <2> QED BY <1>5, <1>6, <2>2
<1>7. Tree(U, at)
  BY <1>4, <1>5, <1>6 DEF Tree
<1> QED BY <1>7 DEF IsTree

\* format: the root alone.
LEMMA FreshTree == IsTree(Fresh)
<1> DEFINE at == [i \in Inode |-> <<>>]
<1>1. at \in [Inode -> Seq(Name)]
  OBVIOUS
<1>2. ROOT_INODE \in Inode
  BY Sizes DEF Inode, ROOT_INODE
<1>3. Fresh[ROOT_INODE].kind = "dir" /\ \A i \in Inode \ {ROOT_INODE} : Fresh[i].kind = "free"
  BY <1>2 DEF Fresh, Root, Empty
<1>4. Tree(Fresh, at)
  BY <1>2, <1>3 DEF Tree
<1> QED BY <1>1, <1>4 DEF IsTree

\* The directory of a path and its last name.
LEMMA SplitPath ==
  ASSUME NEW T \in InodeTable, NEW p \in Seq(Word), split_parent(T, p) # NoInode
  PROVE  LET front == SubSeq(p, 1, Len(p) - 1)
         IN  /\ p # <<>> /\ Len(p) <= MAX_DEPTH /\ front \in Seq(Word) /\ p[Len(p)] \in Word
             /\ p = Append(front, p[Len(p)]) /\ Len(front) + 1 = Len(p)
             /\ resolve(T, front) = split_parent(T, p) /\ T[split_parent(T, p)].kind = "dir"
             /\ split_parent(T, p) \in Inode
<1> DEFINE front == SubSeq(p, 1, Len(p) - 1)  dir == resolve(T, front)
<1>1. split_parent(T, p) = IF p = <<>> \/ Len(p) > MAX_DEPTH THEN NoInode
                           ELSE IF dir # NoInode /\ T[dir].kind = "dir" THEN dir ELSE NoInode
  BY DEF split_parent
<1>2. p # <<>> /\ ~(Len(p) > MAX_DEPTH)
  BY <1>1
<1>3. Len(p) \in Nat /\ Len(p) # 0 /\ Len(p) <= MAX_DEPTH
  BY <1>2, Sizes
<1>4. front \in Seq(Word) /\ p[Len(p)] \in Word /\ p = Append(front, p[Len(p)]) /\ Len(front) + 1 = Len(p)
  <2>0. Len(p) - 1 \in 0 .. Len(p) /\ Len(p) \in 1 .. Len(p)
    BY <1>3
  <2>1. front \in Seq(Word) /\ Len(front) = Len(p) - 1 /\ p[Len(p)] \in Word
    <3>1. p[Len(p)] \in Word
      BY <2>0
    <3>2. front \in Seq(Word)
      BY <1>2
    <3>3. Len(front) = Len(p) - 1
      <4>1. 1 \in Int /\ Len(p) - 1 \in Int /\ \A i \in 1 .. Len(p) - 1 : p[i] \in Word
        BY <1>3
      <4> DEFINE n == Len(p) - 1
      <4> HIDE DEF n
      <4>2. Len(SubSeq(p, 1, n)) = IF 1 <= n THEN n - 1 + 1 ELSE 0
        BY <4>1, SubSeqProperties DEF n
      <4>3. n \in Nat /\ n = Len(p) - 1 /\ front = SubSeq(p, 1, n)
        BY <1>3 DEF n
      <4> HIDE DEF front
      <4>4. Len(front) = n
        <5>1. Len(front) = IF 1 <= n THEN n - 1 + 1 ELSE 0
          BY <4>2, <4>3
        <5> QED BY <4>3, <5>1
      <4> QED BY <4>3, <4>4
    <3> QED BY <3>1, <3>2, <3>3
  <2>2. \A k \in 1 .. Len(front) : front[k] = p[k]
    BY <1>3
  <2> HIDE DEF front
  <2>3. p = Append(front, p[Len(p)])
    BY <1>3, <2>1, <2>2
  <2> QED BY <1>3, <2>1, <2>3
<1> HIDE DEF dir
<1>5. split_parent(T, p) = dir /\ T[dir].kind = "dir"
  BY <1>1, <1>2
<1> QED BY <1>2, <1>3, <1>4, <1>5, ResolveType DEF dir

\* What a path that could be made leads to: nothing, and its directory has no entry
\* of that name.
LEMMA NoEntry ==
  ASSUME NEW T \in InodeTable, NEW p \in Seq(Word), split_parent(T, p) # NoInode
  PROVE  /\ resolve(T, p) = child_of(T, split_parent(T, p), p[Len(p)])
         /\ resolve(T, p) = NoInode => \A j \in Inode \ {ROOT_INODE} :
              T[j].kind # "free" => T[j].parent # split_parent(T, p) \/ T[j].name # p[Len(p)]
<1> DEFINE front == SubSeq(p, 1, Len(p) - 1)  d == split_parent(T, p)  w == p[Len(p)]
<1>1. /\ Len(p) <= MAX_DEPTH /\ front \in Seq(Word) /\ w \in Word /\ p = Append(front, w) /\ Len(front) + 1 = Len(p)
      /\ resolve(T, front) = d /\ T[d].kind = "dir" /\ d \in Inode
  BY SplitPath
<1>2. d # NoInode
  OBVIOUS
<1> HIDE DEF front, d, w
<1>3. resolve(T, p) = Enter(T, d, w)
  <2>1. resolve(T, Append(front, w)) = Enter(T, resolve(T, front), w)
    BY <1>1, ResolveStep
  <2> QED BY <1>1, <2>1
<1>4. resolve(T, p) = child_of(T, d, w)
  BY <1>1, <1>2, <1>3 DEF Enter
<1>5. child_of(T, d, w) = NoInode => \A j \in Inode \ {ROOT_INODE} : T[j].kind = "free" \/ T[j].parent # d \/ T[j].name # w
  BY ChildOf
<1> QED BY <1>4, <1>5 DEF d, w

\* create and mkdir: an entry under a name that its directory does not have.
LEMMA TreeGrows ==
  ASSUME NEW T \in InodeTable, NEW at \in [Inode -> Seq(Name)], Tree(T, at),
         NEW p \in Seq(Word), p # <<>>, p[Len(p)] \in Name,
         split_parent(T, p) # NoInode, resolve(T, p) = NoInode,
         NEW i \in Inode \ {ROOT_INODE}, T[i].kind = "free",
         NEW r \in InodeRecord, r.parent = split_parent(T, p), r.name = p[Len(p)], r.kind # "free"
  PROVE  Tree([T EXCEPT ![i] = r], [at EXCEPT ![i] = p]) /\ p \in Seq(Name)
<1> DEFINE U == [T EXCEPT ![i] = r]  to == [at EXCEPT ![i] = p]  d == split_parent(T, p)
           front == SubSeq(p, 1, Len(p) - 1)
<1>1. /\ Len(p) <= MAX_DEPTH /\ front \in Seq(Word) /\ p = Append(front, p[Len(p)])
      /\ resolve(T, front) = d /\ T[d].kind = "dir" /\ d \in Inode /\ d # NoInode
  BY SplitPath
<1>2. U[i] = r /\ to[i] = p /\ \A j \in Inode : j # i => U[j] = T[j] /\ to[j] = at[j]
  BY DEF InodeTable
<1>3. \A j \in Inode \ {ROOT_INODE} : T[j].kind # "free" => T[j].parent # d \/ T[j].name # p[Len(p)]
  BY NoEntry
<1> HIDE DEF U, to, d, front
<1>4. d # i /\ front = at[d]
  <2>1. resolve(T, front) # NoInode
    BY <1>1
  <2>2. front = at[resolve(T, front)]
    BY <1>1, <2>1, TreeOnly
  <2> QED BY <1>1, <2>2
<1>5. p = Append(at[d], p[Len(p)]) /\ at[d] \in Seq(Name)
  BY <1>1, <1>4
<1>6. p \in Seq(Name)
  <2>1. Append(at[d], p[Len(p)]) \in Seq(Name)
    BY <1>5
  <2> QED BY <1>5, <2>1
<1>7. ASSUME NEW j \in Inode \ {ROOT_INODE}, U[j].kind # "free"
      PROVE  /\ U[U[j].parent].kind = "dir" /\ to[j] = Append(to[U[j].parent], U[j].name) /\ Len(to[j]) <= MAX_DEPTH
  <2>1. CASE j = i
    <3>1. U[j].parent = d /\ U[j].name = p[Len(p)] /\ to[j] = p
      BY <1>2, <2>1 DEF d
    <3>2. U[d] = T[d] /\ to[d] = at[d]
      BY <1>1, <1>2, <1>4
    <3> QED BY <1>1, <1>5, <3>1, <3>2
  <2>2. CASE j # i
    <3>1. U[j] = T[j] /\ to[j] = at[j] /\ T[j].kind # "free"
      BY <1>2, <1>7, <2>2
    <3>2. T[j].parent \in Inode /\ T[T[j].parent].kind = "dir" /\ at[j] = Append(at[T[j].parent], T[j].name) /\ Len(at[j]) <= MAX_DEPTH
      BY <3>1, TreeEntry
    <3>3. T[j].parent # i
      BY <3>2
    <3>4. U[T[j].parent] = T[T[j].parent] /\ to[T[j].parent] = at[T[j].parent]
      BY <1>2, <3>2, <3>3
    <3> QED BY <3>1, <3>2, <3>4
  <2> QED BY <2>1, <2>2
<1>8. ASSUME NEW j \in Inode \ {ROOT_INODE}, U[j].kind # "free", NEW k \in Inode \ {ROOT_INODE, j}, U[k].kind # "free"
      PROVE  U[k].parent # U[j].parent \/ U[k].name # U[j].name
  <2>0. U[i].parent = d /\ U[i].name = p[Len(p)]
    BY <1>2 DEF d
  <2>1. CASE j = i
    <3>1. k # i /\ U[k] = T[k]
      BY <1>2, <2>1
    <3> QED BY <1>3, <1>8, <2>0, <2>1, <3>1
  <2>2. CASE k = i
    <3>1. j # i /\ U[j] = T[j]
      BY <1>2, <2>2
    <3> QED BY <1>3, <1>8, <2>0, <2>2, <3>1
  <2>3. CASE j # i /\ k # i
    <3>1. U[j] = T[j] /\ U[k] = T[k]
      BY <1>2, <2>3
    <3> QED BY <1>8, <3>1 DEF Tree
  <2> QED BY <2>1, <2>2, <2>3
<1>9. U[ROOT_INODE].kind = "dir" /\ to[ROOT_INODE] = <<>>
  <2>1. ROOT_INODE \in Inode
    BY Sizes DEF Inode, ROOT_INODE
  <2> QED BY <1>2, <2>1 DEF Tree
<1>10. Tree(U, to)
  BY <1>7, <1>8, <1>9 DEF Tree
<1> QED BY <1>6, <1>10 DEF U, to

\* rmdir and remove: an entry without others in it goes.
LEMMA TreeShrinks ==
  ASSUME NEW T \in InodeTable, NEW at \in [Inode -> Seq(Name)], Tree(T, at),
         NEW i \in Inode \ {ROOT_INODE},
         \A j \in Inode \ {i} : T[j].kind = "free" \/ T[j].parent # i \/ T[i].kind # "dir"
  PROVE  Tree([T EXCEPT ![i] = Empty], at)
<1> DEFINE U == [T EXCEPT ![i] = Empty]
<1>1. U[i].kind = "free" /\ \A j \in Inode : j # i => U[j] = T[j]
  BY DEF InodeTable, Empty
<1>2. ROOT_INODE \in Inode
  BY Sizes DEF Inode, ROOT_INODE
<1> HIDE DEF U
<1>3. ASSUME NEW j \in Inode \ {ROOT_INODE}, U[j].kind # "free"
      PROVE  /\ U[U[j].parent].kind = "dir" /\ at[j] = Append(at[U[j].parent], U[j].name) /\ Len(at[j]) <= MAX_DEPTH
             /\ U[j] = T[j]
  <2>1. j # i /\ U[j] = T[j] /\ T[j].kind # "free"
    BY <1>1, <1>3
  <2>2. T[j].parent \in Inode /\ T[T[j].parent].kind = "dir" /\ at[j] = Append(at[T[j].parent], T[j].name) /\ Len(at[j]) <= MAX_DEPTH
    BY <2>1, TreeEntry
  <2>3. T[j].parent # i
    BY <2>1, <2>2
  <2> QED BY <1>1, <2>1, <2>2, <2>3
<1>4. \A j \in Inode \ {ROOT_INODE} : U[j].kind # "free" => T[j].kind # "free"
  BY <1>3
<1>5. U[ROOT_INODE].kind = "dir"
  BY <1>1, <1>2 DEF Tree
<1>6. ASSUME NEW j \in Inode \ {ROOT_INODE}, U[j].kind # "free", NEW k \in Inode \ {ROOT_INODE, j}, U[k].kind # "free"
      PROVE  U[k].parent # U[j].parent \/ U[k].name # U[j].name
  <2>1. U[j] = T[j] /\ U[k] = T[k] /\ T[j].kind # "free" /\ T[k].kind # "free"
    BY <1>3, <1>6
  <2> QED BY <2>1 DEF Tree
<1>7. at[ROOT_INODE] = <<>>
  BY DEF Tree
<1>8. Tree(U, at)
  BY <1>3, <1>5, <1>6, <1>7 DEF Tree
<1> QED BY <1>8 DEF U

\* Every entry has a path that leads to it.
LEMMA TreeIsConnected ==
  ASSUME NEW T \in InodeTable, IsTree(T), NEW i \in Inode, T[i].kind # "free"
  PROVE  path_of(T, i) # NoPath /\ resolve(T, path_of(T, i)) = i
<1>1. PICK at \in [Inode -> Seq(Name)] : Tree(T, at)
  BY DEF IsTree
<1>2. path_of(T, i) = at[i] /\ resolve(T, at[i]) = i
  BY <1>1, TreePath, TreeResolves
<1>3. at[i] # NoPath
  BY NamedPaths
<1> QED BY <1>2, <1>3

------------------------------------------------------------------------------
(* The tree: the actions *)

\* A step ends the call or leaves it as it is.
LEMMA LeftCall ==
  ASSUME Sole, StorageTypes, NEW before, Left(me, before) \/ Failed(me)
  PROVE  mine' \in {mine, Idle} /\ me' = me
<1>1. me' = me /\ job = [u \in User |-> job[me]] /\ me \in User /\ job[me] = [call |-> mine, steps |-> todo]
  <2>1. User = {me} /\ job \in [User -> [call : CallRecord, steps : Seq(Step)]] /\ me' = me
    BY DEF Sole, StorageTypes, CallTypes, me
  <2>2. job[me] = [call |-> job[me].call, steps |-> job[me].steps]
    BY <2>1
  <2> QED BY <2>1, <2>2, CallTyped DEF mine, todo
<1>2. CASE Failed(me)
  BY <1>1, <1>2 DEF Failed, mine, NoJob
<1>3. CASE Left(me, before)
  <2> DEFINE s == before \o Tail(job[me].steps)
  <2>1. job' = [job EXCEPT ![me] = IF s = <<>> THEN NoJob ELSE [@ EXCEPT !.steps = s]]
    BY <1>3 DEF Left
  <2> HIDE DEF s
  <2>2. job'[me] = NoJob \/ job'[me] = [job[me] EXCEPT !.steps = s]
    BY <1>1, <2>1
  <2>3. NoJob.call = Idle /\ [job[me] EXCEPT !.steps = s].call = mine
    BY <1>1 DEF NoJob
  <2>4. job'[me].call = mine \/ job'[me].call = Idle
    <3>1. job'[me] = NoJob => job'[me].call = Idle
      BY <2>3
    <3>2. job'[me] = [job[me] EXCEPT !.steps = s] => job'[me].call = mine
      BY <2>3, Zenon
    <3> QED BY <2>2, <3>1, <3>2
  <2> QED BY <1>1, <2>4 DEF mine
<1> QED BY <1>2, <1>3

LEMMA StepCall ==
  ASSUME Sole, StorageTypes, Steps(me)
  PROVE  mine' \in {mine, Idle} /\ todo # <<>> /\ Live
<1>1. todo # <<>>
  <2>1. \E do : Now(me, do)
    <3>1. CASE WriteInodes(me) \/ WriteBitmap(me) \/ FlushFails(me) \/ WriteSuper(me)
      BY <3>1 DEF WriteInodes, WriteBitmap, FlushFails, WriteSuper
    <3>2. CASE Create(me) \/ mkdir(me) \/ rmdir(me) \/ Remove(me) \/ Write(me)
      BY <3>2 DEF Create, mkdir, rmdir, Remove, Write
    <3>3. CASE Fetch(me) \/ Clear(me) \/ Store(me) \/ BlockFails(me) \/ Grow(me) \/ Take(me)
      BY <3>3 DEF Fetch, Clear, Store, BlockFails, Grow, Take
    <3>4. CASE Attach(me) \/ Refresh(me) \/ Advance(me) \/ Forget(me)
      BY <3>4 DEF Attach, Refresh, Advance, Forget
    <3> QED BY <3>1, <3>2, <3>3, <3>4 DEF Steps
  <2> QED BY <2>1 DEF Now, todo
<1>2. (\E before : Left(me, before)) \/ Failed(me)
  <2>1. CASE WriteInodes(me) \/ WriteBitmap(me) \/ FlushFails(me) \/ WriteSuper(me) \/ Grow(me) \/ Fetch(me) \/ Clear(me)
    BY <2>1 DEF WriteInodes, WriteBitmap, FlushFails, WriteSuper, Grow, Fetch, Clear, Done
  <2>2. CASE Create(me)
    BY <2>2 DEF Create
  <2>3. CASE mkdir(me)
    BY <2>3 DEF mkdir
  <2>4. CASE rmdir(me) \/ Remove(me)
    BY <2>4 DEF rmdir, Remove
  <2>5. CASE Write(me) \/ Store(me)
    BY <2>5 DEF Write, Store
  <2>6. CASE BlockFails(me) \/ Take(me) \/ Attach(me) \/ Refresh(me) \/ Advance(me) \/ Forget(me)
    BY <2>6 DEF BlockFails, Take, Attach, Refresh, Advance, Forget, Done
  <2> QED BY <2>1, <2>2, <2>3, <2>4, <2>5, <2>6 DEF Steps
<1>3. mine' \in {mine, Idle}
  BY <1>2, LeftCall
<1>4. Live
  <2>1. Shape(mine, todo)
    BY CallTyped
  <2> QED BY <1>1, <2>1 DEF Shape, Live
<1> QED BY <1>1, <1>3, <1>4

LEMMA TreePrimed == (IsTree(INODES)' <=> IsTree(INODES')) /\ (IsTree(disk.inodes)' <=> IsTree(disk'.inodes))
<1>1. IsTree(INODES)' <=> IsTree(INODES')
  BY DEF IsTree, Tree
<1>2. IsTree(disk.inodes)' <=> IsTree(disk'.inodes)
  BY DEF IsTree, Tree
<1> QED BY <1>1, <1>2

\* An action that moves nothing in the tree.
LEMMA KeepsTree ==
  ASSUME Sole, StorageTypes, TreeInv, Live' => Live, \A i \in Inode : Alike(INODES[i], INODES'[i]),
         disk'.formatted = disk.formatted, disk'.inodes = disk.inodes
  PROVE  TreeInv'
<1>1. Live' => IsTree(INODES')
  BY TablesTyped, AlikeTree DEF TreeInv
<1>2. disk'.formatted => IsTree(disk'.inodes)
  BY DEF TreeInv
<1> QED BY <1>1, <1>2, TreePrimed DEF TreeInv

LEMMA AlikeSelf == \A a : Alike(a, a)
BY DEF Alike

\* An action that changes the table in memory only.
LEMMA NewTree ==
  ASSUME TreeInv, IsTree(INODES'), disk'.formatted = disk.formatted, disk'.inodes = disk.inodes
  PROVE  TreeInv'
BY TreePrimed DEF TreeInv

LEMMA MadeTree ==
  ASSUME StorageTypes, IsTree(INODES), NEW path \in Path, NEW kind \in {"file", "dir"}, Makeable(path), NewInode(path, kind)
  PROVE  IsTree(INODES')
<1> DEFINE i == Lowest(FreeInodes)  r == NewRecord(path, kind)
<1>1. /\ i \in Inode \ {ROOT_INODE} /\ i \in FreeInodes /\ path # <<>> /\ path \in Seq(Word)
      /\ r \in InodeRecord /\ INODES' = [INODES EXCEPT ![i] = r]
  BY NewInodeTypes
<1>2. r.parent = split_parent(INODES, path) /\ r.name = path[Len(path)] /\ r.kind # "free"
  BY DEF NewRecord, Empty
<1>3. INODES[i].kind = "free" /\ path[Len(path)] \in Name /\ INODES \in InodeTable
  BY <1>1, Words, TablesTyped DEF FreeInodes
<1>4. resolve(INODES, path) = NoInode /\ split_parent(INODES, path) # NoInode
  BY DEF Makeable
<1> HIDE DEF i, r
<1>5. PICK at \in [Inode -> Seq(Name)] : Tree(INODES, at)
  BY DEF IsTree
<1>6. Tree([INODES EXCEPT ![i] = r], [at EXCEPT ![i] = path]) /\ path \in Seq(Name)
  BY <1>1, <1>2, <1>3, <1>4, <1>5, TreeGrows
<1>7. [at EXCEPT ![i] = path] \in [Inode -> Seq(Name)]
  BY <1>6
<1> QED BY <1>1, <1>6, <1>7 DEF IsTree

LEMMA GoneTree ==
  ASSUME StorageTypes, IsTree(INODES), NEW i \in Inode \ {ROOT_INODE},
         \A j \in Inode \ {i} : INODES[j].kind = "free" \/ INODES[j].parent # i \/ INODES[i].kind # "dir",
         INODES' = [INODES EXCEPT ![i] = Empty]
  PROVE  IsTree(INODES')
<1>1. INODES \in InodeTable
  BY TablesTyped
<1>2. PICK at \in [Inode -> Seq(Name)] : Tree(INODES, at)
  BY DEF IsTree
<1>3. Tree([INODES EXCEPT ![i] = Empty], at)
  BY <1>1, <1>2, TreeShrinks
<1> QED BY <1>3 DEF IsTree

LEMMA MakingTree ==
  ASSUME Sole, StorageTypes, TreeInv, Create(me) \/ mkdir(me)
  PROVE  TreeInv'
<1>1. disk' = disk /\ MOUNTED' = MOUNTED
  BY DEF Create, mkdir
<1>2. Live /\ (Live' => Live)
  BY <1>1, StepCall, IdleCall DEF Steps, Live
<1>3. IsTree(INODES)
  BY <1>2 DEF TreeInv
<1>4. CASE UNCHANGED INODES
  BY <1>1, <1>2, <1>4, KeepsTree, AlikeSelf
<1>5. CASE \E path \in Path, kind \in {"file", "dir"} : Makeable(path) /\ NewInode(path, kind)
  BY <1>1, <1>3, <1>5, MadeTree, NewTree
<1>6. CASE Create(me)
  <2>1. AtCreate(mine, todo)
    BY <1>6, FlowCreate
  <2>2. mine.path \in Path
    BY <2>1 DEF AtCreate, Writer, StorageTypes, CallTypes
  <2>3. UNCHANGED INODES \/ (Makeable(mine.path) /\ NewInode(mine.path, "file"))
    BY <1>6, FlowCreate
  <2> QED BY <1>4, <1>5, <2>2, <2>3
<1>7. CASE mkdir(me)
  <2>1. PICK k \in Nat \ {0} :
           /\ MOUNTED /\ mine.op \in {"mkdir", "format"} /\ (mine.op = "format" => k <= Len(Skeleton))
           /\ \/ ~Makeable(PathOf(mine, k)) /\ UNCHANGED INODES /\ Continues(<<>>) /\ mine' = Idle
              \/ /\ Makeable(PathOf(mine, k)) /\ NewInode(PathOf(mine, k), "dir")
                 /\ Continues(Cons(Out(1), IF mine.op = "format" THEN Directories(k + 1) ELSE <<>>))
                 /\ mine' = mine
    BY <1>7, FlowMkdir
  <2>2. PathOf(mine, k) \in Path
    <3>1. mine.op = "mkdir" => mine.path \in Path
      BY DEF StorageTypes, CallTypes
    <3>2. mine.op = "format" => Skeleton[k] \in Path
      BY <2>1, PathsAssumption
    <3> QED BY <2>1, <3>1, <3>2 DEF PathOf
  <2>3. UNCHANGED INODES \/ (Makeable(PathOf(mine, k)) /\ NewInode(PathOf(mine, k), "dir"))
    BY <2>1
  <2> QED BY <1>4, <1>5, <2>2, <2>3
<1> QED BY <1>6, <1>7

LEMMA RmdirTree ==
  ASSUME Sole, StorageTypes, TreeInv, rmdir(me)
  PROVE  TreeInv'
<1>1. disk' = disk /\ MOUNTED' = MOUNTED
  BY DEF rmdir
<1>2. Live /\ (Live' => Live)
  BY <1>1, StepCall, IdleCall DEF Steps, Live
<1>3. IsTree(INODES)
  BY <1>2 DEF TreeInv
<1> DEFINE i == resolve(INODES, mine.path)
<1>4. UNCHANGED INODES \/ (IsEmptyDir(i) /\ INODES' = [INODES EXCEPT ![i] = Empty])
  BY FlowRmdir
<1>5. i \in Inode \union {NoInode}
  <2>1. mine.path \in Seq(Word)
    BY CallTyped DEF CallRecord
  <2> QED BY <2>1, TablesTyped, ResolveType
<1> HIDE DEF i
<1>6. CASE UNCHANGED INODES
  BY <1>1, <1>2, <1>6, KeepsTree, AlikeSelf
<1>7. CASE IsEmptyDir(i) /\ INODES' = [INODES EXCEPT ![i] = Empty]
  <2>1. i \in Inode \ {ROOT_INODE} /\ \A j \in Inode \ {i} : INODES[j].kind = "free" \/ INODES[j].parent # i
    BY <1>5, <1>7 DEF IsEmptyDir
  <2>2. IsTree(INODES')
    BY <1>3, <1>7, <2>1, GoneTree
  <2> QED BY <1>1, <2>2, NewTree
<1> QED BY <1>4, <1>6, <1>7

LEMMA RemoveTree ==
  ASSUME Sole, StorageTypes, TreeInv, Remove(me)
  PROVE  TreeInv'
<1>1. disk' = disk /\ MOUNTED' = MOUNTED
  BY DEF Remove
<1>2. Live /\ (Live' => Live)
  BY <1>1, StepCall, IdleCall DEF Steps, Live
<1>3. IsTree(INODES)
  BY <1>2 DEF TreeInv
<1>4. PICK i \in Inode : First(me).inode = i /\ (UNCHANGED cache \/ INODES[i].kind = "file")
  <2>1. PICK i \in Inode, rest \in Seq(Step) : First(me) = On("remove", i) /\ (UNCHANGED cache \/ INODES[i].kind = "file")
    BY FlowRemove
  <2> QED BY <2>1 DEF On
<1>5. CASE UNCHANGED INODES
  BY <1>1, <1>2, <1>5, KeepsTree, AlikeSelf
<1>6. CASE INODES[i].kind = "file"
  <2>1. INODES' = [INODES EXCEPT ![i] = Empty]
    BY <1>4, <1>6 DEF Remove
  <2>2. i # ROOT_INODE
    BY <1>3, <1>6 DEF IsTree, Tree
  <2>3. IsTree(INODES')
    BY <1>3, <1>6, <2>1, <2>2, GoneTree
  <2> QED BY <1>1, <2>3, NewTree
<1> QED BY <1>4, <1>5, <1>6 DEF cache

\* A write changes blocks and sizes.
\* A write takes blocks, and then changes the size of its file: the tree is what it was.
LEMMA WriteAlike ==
  ASSUME Sole, StorageTypes, Write(me)
  PROVE  \A j \in Inode : Alike(INODES[j], INODES'[j]) /\ INODES'[j].size = INODES[j].size
<1>1. INODES \in InodeTable
  BY TablesTyped
<1>2. ASSUME NEW i, NEW bs, INODES' = [INODES EXCEPT ![i].blocks = bs]
      PROVE  \A j \in Inode : Alike(INODES[j], INODES'[j]) /\ INODES'[j].size = INODES[j].size
  BY <1>1, <1>2 DEF Alike, InodeTable, InodeRecord
<1>3. PICK i \in Inode : UNCHANGED cache \/ alloc_blocks(i, EndOf(mine))
  BY FlowWrite
<1>4. CASE UNCHANGED cache
  BY <1>4, AlikeSelf DEF cache
<1>5. CASE alloc_blocks(i, EndOf(mine))
  <2> DEFINE M == Missing(INODES[i], EndOf(mine))
             t == [k \in M |-> NthLowest(FreeBlocks, k - block_count(INODES[i].size))]
             bs == [k \in DOMAIN INODES[i].blocks |-> IF k \in DOMAIN t THEN t[k] ELSE INODES[i].blocks[k]]
  <2>1. INODES' = [INODES EXCEPT ![i].blocks = bs]
    BY <1>1, <1>5 DEF alloc_blocks, InodeTable
  <2> HIDE DEF M, t, bs
  <2> QED BY <1>2, <2>1
<1> QED BY <1>3, <1>4, <1>5

LEMMA GrowAlike ==
  ASSUME StorageTypes, Grow(me)
  PROVE  \A j \in Inode : Alike(INODES[j], INODES'[j]) /\ (j # First(me).inode => INODES'[j].size = INODES[j].size)
<1>1. INODES \in InodeTable
  BY TablesTyped
<1>2. ASSUME NEW i, NEW z, INODES' = [INODES EXCEPT ![i].size = z]
      PROVE  \A j \in Inode : Alike(INODES[j], INODES'[j]) /\ (j # i => INODES'[j].size = INODES[j].size)
  BY <1>1, <1>2 DEF Alike, InodeTable, InodeRecord
<1> DEFINE i == First(me).inode  z == IF First(me).end > INODES[i].size THEN First(me).end ELSE INODES[i].size
<1>3. INODES' = [INODES EXCEPT ![i].size = z]
  BY <1>1 DEF Grow, InodeTable
<1> HIDE DEF z
<1> QED BY <1>2, <1>3

LEMMA WritingTree ==
  ASSUME Sole, StorageTypes, TreeInv, Write(me) \/ Grow(me)
  PROVE  TreeInv'
<1>1. disk' = disk /\ MOUNTED' = MOUNTED
  BY DEF Write, Grow
<1>2. Live' => Live
  BY StepCall DEF Steps
<1>3. \A i \in Inode : Alike(INODES[i], INODES'[i])
  BY WriteAlike, GrowAlike
<1> QED BY <1>1, <1>2, <1>3, KeepsTree

LEMMA SameAlike == \A a, b : Same(a, b) => Alike(a, b) /\ Alike(b, a)
BY DEF Same, Alike

\* The table goes out chunk by chunk: with each, the disk has the tree that it had
\* or the one in memory.
LEMMA WriteInodesTree ==
  ASSUME Sole, StorageTypes, BlocksInv, TreeInv, WriteInodes(me)
  PROVE  TreeInv'
<1>1. PICK k \in 1 .. Chunks : First(me).chunk = k
  BY FlowInodes
<1>2. INODES' = INODES /\ MOUNTED' = MOUNTED
  BY DEF WriteInodes, cache
<1>3. Live /\ (Live' => Live)
  BY StepCall DEF Steps
<1>4. INODES \in InodeTable /\ disk.inodes \in InodeTable
  BY TablesTyped
<1> DEFINE T == [i \in Inode |-> IF ChunkOf(i) = k THEN INODES[i] ELSE disk.inodes[i]]
<1>5. disk'.inodes = T /\ disk'.formatted = disk.formatted
  <2>1. disk' = [disk EXCEPT !.inodes = T]
    BY <1>1 DEF WriteInodes
  <2> HIDE DEF T
  <2> QED BY <2>1 DEF StorageTypes, DataTypes
<1>6. \A i \in Inode : T[i] = IF ChunkOf(i) = k THEN INODES[i] ELSE disk.inodes[i]
  OBVIOUS
<1> HIDE DEF T
<1>7. \A i, j \in Inode : i # j => OnDiskToo(i) \/ OnDiskToo(j)
  BY <1>3 DEF BlocksInv, DiskFollows
<1>8. IsTree(INODES) /\ (disk.formatted => IsTree(disk.inodes))
  BY <1>3 DEF TreeInv
<1>9. CASE \A i \in Inode : Alike(INODES[i], T[i])
  <2>1. IsTree(T)
    BY <1>4, <1>8, <1>9, AlikeTree
  <2>2. IsTree(INODES)' /\ IsTree(disk.inodes)'
    BY <1>2, <1>5, <1>8, <2>1, TreePrimed
  <2> QED BY <2>2 DEF TreeInv
<1>10. CASE \A i \in Inode : Alike(disk.inodes[i], T[i])
  <2>1. disk.formatted => IsTree(T)
    BY <1>4, <1>8, <1>10, AlikeTree
  <2>2. IsTree(INODES)' /\ (disk'.formatted => IsTree(disk.inodes)')
    BY <1>2, <1>5, <1>8, <2>1, TreePrimed
  <2> QED BY <2>2 DEF TreeInv
<1>11. ASSUME NEW i \in Inode, ~Alike(INODES[i], T[i]), NEW j \in Inode PROVE Alike(disk.inodes[j], T[j])
  <2>1. T[i] = disk.inodes[i] /\ ~OnDiskToo(i)
    BY <1>6, <1>11, AlikeSelf, SameAlike DEF OnDiskToo
  <2>2. CASE j = i
    BY <2>1, <2>2, AlikeSelf
  <2>3. CASE j # i
    <3>1. Alike(disk.inodes[j], INODES[j])
      BY <1>7, <2>1, <2>3, SameAlike DEF OnDiskToo
    <3> QED BY <1>6, <3>1, AlikeSelf
  <2> QED BY <2>2, <2>3
<1> QED BY <1>9, <1>10, <1>11

\* format has written the whole table when it writes the superblock.
LEMMA WriteSuperTree ==
  ASSUME Sole, StorageTypes, BlocksInv, TreeInv, WriteSuper(me)
  PROVE  TreeInv'
<1>1. INODES' = INODES /\ disk'.inodes = disk.inodes
  BY DEF WriteSuper, cache, StorageTypes, DataTypes
<1>2. Live /\ ~Now(me, "inodes")
  BY StepCall DEF Steps, WriteSuper, Now
<1>3. AllOnDisk
  BY <1>2, NoneWaits
<1>4. \A i \in Inode : Alike(INODES[i], disk.inodes[i])
  BY <1>3, SameAlike DEF AllOnDisk, OnDiskToo
<1>5. IsTree(INODES) /\ IsTree(disk.inodes)
  BY <1>2, <1>4, TablesTyped, AlikeTree DEF TreeInv
<1>6. IsTree(INODES)' /\ IsTree(disk.inodes)'
  BY <1>1, <1>5, TreePrimed
<1> QED BY <1>6 DEF TreeInv

\* The steps that leave the table as it is, in memory and on the disk.
LEMMA OtherStepsTree ==
  ASSUME Sole, StorageTypes, TreeInv,
         \/ WriteBitmap(me) \/ FlushFails(me) \/ Fetch(me) \/ Clear(me) \/ Store(me) \/ BlockFails(me) \/ Take(me)
         \/ Attach(me) \/ Refresh(me) \/ Advance(me) \/ Forget(me)
  PROVE  TreeInv'
<1>1. INODES' = INODES /\ disk'.formatted = disk.formatted /\ disk'.inodes = disk.inodes
  <2>1. disk \in [formatted : BOOLEAN, inodes : InodeTable, bitmap : SUBSET Block, data : [Block -> Content]]
    BY DEF StorageTypes, DataTypes
  <2>2. CASE WriteBitmap(me)
    BY <2>1, <2>2 DEF WriteBitmap, cache
  <2>3. CASE Store(me)
    <3>1. \E v : disk' = [disk EXCEPT !.data = v]
      BY <2>3 DEF Store
    <3> QED BY <2>1, <2>3, <3>1 DEF Store, cache
  <2>4. CASE FlushFails(me) \/ Fetch(me) \/ Clear(me) \/ BlockFails(me) \/ Take(me)
    BY <2>4 DEF FlushFails, Fetch, Clear, BlockFails, Take, cache
  <2>5. CASE Attach(me) \/ Refresh(me) \/ Advance(me) \/ Forget(me)
    BY <2>5 DEF Attach, Refresh, Advance, Forget, cache
  <2> QED BY <2>2, <2>3, <2>4, <2>5
<1>2. Live
  BY StepCall DEF Steps
<1> QED BY <1>1, <1>2, KeepsTree, AlikeSelf

LEMMA StepsTree ==
  ASSUME Sole, StorageTypes, BlocksInv, TreeInv, Steps(me)
  PROVE  TreeInv'
BY WriteInodesTree, WriteSuperTree, OtherStepsTree, MakingTree, RmdirTree, RemoveTree, WritingTree DEF Steps

LEMMA CallsTree ==
  ASSUME Sole, StorageTypes, TreeInv, Calls(me)
  PROVE  TreeInv'
<1>1. CASE QuietCall
  <2>1. Live /\ INODES' = INODES /\ disk' = disk
    BY <1>1 DEF QuietCall, Live
  <2> QED BY <2>1, KeepsTree, AlikeSelf
<1>2. CASE \E path \in Path : open(me, path)
  <2>1. UNCHANGED <<INODES, MOUNTED, disk, job>> /\ me' = me
    BY <1>2 DEF open, cache, me
  <2>2. Live' => Live
    BY <2>1 DEF Live, mine
  <2> QED BY <2>1, <2>2, KeepsTree, AlikeSelf
<1>3. CASE format(me)
  <2>1. INODES' = Fresh /\ ~disk.formatted /\ disk' = disk
    BY <1>3, FormatTypes DEF format
  <2> QED BY <2>1, FreshTree, NewTree
<1> QED BY <1>1, <1>2, <1>3, CallBegins

LEMMA RestTree ==
  ASSUME Sole, StorageTypes, TreeInv, mount \/ Restart \/ UNCHANGED vars
  PROVE  TreeInv'
<1>1. CASE mount
  <2>1. INODES' = disk.inodes /\ disk' = disk /\ disk.formatted
    BY <1>1 DEF mount
  <2>2. IsTree(INODES')
    BY <2>1 DEF TreeInv
  <2> QED BY <2>1, <2>2, NewTree
<1>2. CASE Restart
  <2>1. MOUNTED' = FALSE /\ disk' = disk /\ mine' = Idle
    BY <1>2, RestartTypes DEF Restart
  <2>2. ~Live'
    BY <2>1, IdleCall DEF Live
  <2>3. disk'.formatted => IsTree(disk.inodes)'
    BY <2>1, TreePrimed DEF TreeInv
  <2> QED BY <2>2, <2>3 DEF TreeInv
<1>3. CASE UNCHANGED vars
  <2>1. UNCHANGED <<INODES, MOUNTED, disk>> /\ mine' = mine
    BY <1>3, StutterTypes DEF vars, cache
  <2>2. Live' => Live
    BY <2>1 DEF Live
  <2> QED BY <2>1, <2>2, KeepsTree, AlikeSelf
<1> QED BY <1>1, <1>2, <1>3

LEMMA NextTree ==
  ASSUME Sole, StorageTypes, BlocksInv, TreeInv, [Next]_vars
  PROVE  TreeInv'
BY Actions, StepsTree, CallsTree, RestTree

LEMMA InitTree ==
  ASSUME Sole, Init
  PROVE  TreeInv
<1>1. mine = Idle /\ MOUNTED = FALSE /\ disk.formatted = FALSE
  BY InitTypes DEF Init
<1> QED BY <1>1, IdleCall DEF TreeInv, Live

LEMMA ConnectedFollows ==
  ASSUME StorageTypes, TreeInv
  PROVE  TreeConnected
<1>1. CASE MOUNTED
  BY <1>1, TablesTyped, TreeIsConnected DEF TreeConnected, TreeInv, Live, Table
<1>2. CASE ~MOUNTED /\ disk.formatted
  BY <1>2, TablesTyped, TreeIsConnected DEF TreeConnected, TreeInv, Table
<1>3. CASE ~MOUNTED /\ ~disk.formatted
  <2>1. Table = [i \in Inode |-> Empty] /\ Empty.kind = "free"
    BY <1>3 DEF Table, Empty
  <2>2. \A i \in Inode : Table[i].kind = "free"
    BY <2>1
  <2> QED BY <2>2 DEF TreeConnected
<1> QED BY <1>1, <1>2, <1>3

\* Whatever is in the table, in memory or on the disk, is found from the root under
\* the path that path_of gives it: create, mkdir, rmdir and remove leave no loose
\* parts, and a loss of power finds on the disk a tree too, whichever chunks of the
\* table were out by then.
THEOREM Reachable ==
  ASSUME Sole
  PROVE  Spec => []TreeConnected
<1> DEFINE I == StorageTypes /\ BlocksInv /\ TreeInv
<1>1. Init => I
  BY InitTypes, InitBlocks, InitTree
<1>2. I /\ [Next]_vars => I'
  BY NextTypes, NextBlocks, NextTree
<1>3. I => TreeConnected
  BY ConnectedFollows
<1> QED BY <1>1, <1>2, <1>3, PTL DEF Spec

------------------------------------------------------------------------------
(* Where the paths of files lead *)

\* The files of path p.
Under(T, at, p) == {i \in Inode : T[i].kind = "file" /\ at[i] = p}

LEMMA LookupTree ==
  ASSUME NEW T \in InodeTable, NEW at \in [Inode -> Seq(Name)], Tree(T, at), NEW p \in Seq(Word)
  PROVE  /\ lookup_file(T, p) \in Inode \union {NoInode}
         /\ Under(T, at, p) = {lookup_file(T, p)} \ {NoInode}
<1> DEFINE r == resolve(T, p)
<1>1. lookup_file(T, p) = IF r # NoInode /\ T[r].kind = "file" THEN r ELSE NoInode
  BY DEF lookup_file
<1>2. \A i \in Inode : i # NoInode
  BY Sizes DEF Inode, NoInode
<1>3. r # NoInode => r \in Inode /\ p = at[r]
  BY TreeOnly
<1>4. ASSUME NEW i \in Inode, T[i].kind = "file", at[i] = p PROVE r = i
  BY <1>4, TreeResolves
<1> HIDE DEF r
<1>5. ASSUME NEW i \in Inode, lookup_file(T, p) = i PROVE T[i].kind = "file" /\ at[i] = p
  BY <1>1, <1>2, <1>3, <1>5
<1>6. ASSUME NEW i \in Inode, T[i].kind = "file", at[i] = p PROVE lookup_file(T, p) = i
  BY <1>1, <1>2, <1>4, <1>6
<1> QED BY <1>1, <1>2, <1>3, <1>5, <1>6 DEF Under

LEMMA SameLookup ==
  ASSUME NEW T \in InodeTable, NEW at \in [Inode -> Seq(Name)], Tree(T, at),
         NEW U \in InodeTable, NEW to \in [Inode -> Seq(Name)], Tree(U, to), NEW p \in Seq(Word),
         Under(U, to, p) = Under(T, at, p)
  PROVE  lookup_file(U, p) = lookup_file(T, p)
<1>1. Under(T, at, p) = {lookup_file(T, p)} \ {NoInode}
  BY LookupTree
<1>2. Under(U, to, p) = {lookup_file(U, p)} \ {NoInode}
  BY LookupTree
<1> DEFINE l == lookup_file(T, p)  m == lookup_file(U, p)
<1> HIDE DEF l, m
<1>3. {m} \ {NoInode} = {l} \ {NoInode}
  BY <1>1, <1>2 DEF l, m
<1>4. m \in {m} \ {NoInode} \/ m = NoInode
  OBVIOUS
<1>5. l \in {l} \ {NoInode} \/ l = NoInode
  OBVIOUS
<1>6. l = m
  BY <1>3, <1>4, <1>5
<1> QED BY <1>6 DEF l, m

\* Two files are not under one path.
LEMMA OneInode ==
  ASSUME NEW T \in InodeTable, IsTree(T), NEW p \in Seq(Word), NEW q \in Seq(Word),
         lookup_file(T, p) = lookup_file(T, q), lookup_file(T, p) # NoInode
  PROVE  p = q
<1>1. PICK at \in [Inode -> Seq(Name)] : Tree(T, at)
  BY DEF IsTree
<1>2. Under(T, at, p) = {lookup_file(T, p)} \ {NoInode}
  BY <1>1, LookupTree
<1>3. Under(T, at, q) = {lookup_file(T, q)} \ {NoInode}
  BY <1>1, LookupTree
<1> DEFINE l == lookup_file(T, p)
<1>4. l \in {l} \ {NoInode} /\ lookup_file(T, q) = l
  OBVIOUS
<1> HIDE DEF l
<1>5. l \in Under(T, at, p) /\ l \in Under(T, at, q)
  BY <1>2, <1>3, <1>4 DEF l
<1> QED BY <1>5 DEF Under

LEMMA AlikeLookup ==
  ASSUME NEW T \in InodeTable, NEW U \in InodeTable, \A i \in Inode : Alike(T[i], U[i]), IsTree(T), NEW p \in Seq(Word)
  PROVE  lookup_file(U, p) = lookup_file(T, p)
<1>1. PICK at \in [Inode -> Seq(Name)] : Tree(T, at)
  BY DEF IsTree
<1>2. PICK to \in [Inode -> Seq(Name)] : Tree(U, to) /\ to = at
  <2>1. \A i \in Inode : U[i].kind = T[i].kind /\ U[i].parent = T[i].parent /\ U[i].name = T[i].name /\ T[i].parent \in Inode
    BY DEF Alike, InodeTable, InodeRecord
  <2>2. ROOT_INODE \in Inode
    BY Sizes DEF Inode, ROOT_INODE
  <2>3. U[ROOT_INODE].kind = "dir" /\ at[ROOT_INODE] = <<>>
    BY <1>1, <2>1, <2>2 DEF Tree
  <2>4. ASSUME NEW i \in Inode \ {ROOT_INODE}, U[i].kind # "free"
        PROVE  /\ U[U[i].parent].kind = "dir" /\ at[i] = Append(at[U[i].parent], U[i].name) /\ Len(at[i]) <= MAX_DEPTH
               /\ T[i].kind # "free" /\ U[i].parent = T[i].parent /\ U[i].name = T[i].name
    <3>1. T[i].kind # "free" /\ T[i].parent \in Inode /\ U[i].parent = T[i].parent /\ U[i].name = T[i].name
      BY <2>1, <2>4
    <3>2. T[T[i].parent].kind = "dir" /\ at[i] = Append(at[T[i].parent], T[i].name) /\ Len(at[i]) <= MAX_DEPTH
      BY <1>1, <3>1 DEF Tree
    <3>3. U[T[i].parent].kind = "dir"
      BY <2>1, <3>1, <3>2
    <3> QED BY <3>1, <3>2, <3>3
  <2>5. ASSUME NEW i \in Inode \ {ROOT_INODE}, U[i].kind # "free", NEW j \in Inode \ {ROOT_INODE, i}, U[j].kind # "free"
        PROVE  U[j].parent # U[i].parent \/ U[j].name # U[i].name
    <3>1. T[i].kind # "free" /\ T[j].kind # "free"
      BY <2>4, <2>5
    <3>2. T[j].parent # T[i].parent \/ T[j].name # T[i].name
      BY <1>1, <3>1 DEF Tree
    <3> QED BY <2>4, <2>5, <3>2
  <2> QED BY <2>3, <2>4, <2>5 DEF Tree
<1>3. Under(U, to, p) = Under(T, at, p)
  BY <1>2 DEF Alike, Under
<1> QED BY <1>1, <1>2, <1>3, SameLookup

\* A new file is under its path; all other paths lead where they led.
LEMMA MadeLookup ==
  ASSUME StorageTypes, IsTree(INODES), NEW path \in Path, NEW kind \in {"file", "dir"}, Makeable(path), NewInode(path, kind),
         NEW p \in Seq(Word)
  PROVE  /\ (p # path \/ kind = "dir") => lookup_file(INODES', p) = lookup_file(INODES, p)
         /\ kind = "file" => lookup_file(INODES', path) = Lowest(FreeInodes) /\ INODES'[Lowest(FreeInodes)].size = 0
         /\ lookup_file(INODES, path) = NoInode
         /\ Lowest(FreeInodes) \in Inode /\ INODES[Lowest(FreeInodes)].kind = "free"
         /\ \A j \in Inode : j # Lowest(FreeInodes) => INODES'[j] = INODES[j]
<1> DEFINE i == Lowest(FreeInodes)  r == NewRecord(path, kind)
<1>1. /\ i \in Inode \ {ROOT_INODE} /\ i \in FreeInodes /\ path # <<>> /\ path \in Seq(Word)
      /\ r \in InodeRecord /\ INODES' = [INODES EXCEPT ![i] = r] /\ INODES' \in InodeTable
  BY NewInodeTypes
<1>2. r.parent = split_parent(INODES, path) /\ r.name = path[Len(path)] /\ r.kind = kind /\ r.size = 0
  BY DEF NewRecord, Empty
<1>3. INODES[i].kind = "free" /\ path[Len(path)] \in Name /\ INODES \in InodeTable
  BY <1>1, Words, TablesTyped DEF FreeInodes
<1>4. resolve(INODES, path) = NoInode /\ split_parent(INODES, path) # NoInode
  BY DEF Makeable
<1> HIDE DEF i, r
<1>5. PICK at \in [Inode -> Seq(Name)] : Tree(INODES, at)
  BY DEF IsTree
<1> DEFINE U == [INODES EXCEPT ![i] = r]  to == [at EXCEPT ![i] = path]
<1>6. Tree(U, to) /\ path \in Seq(Name)
  BY <1>1, <1>2, <1>3, <1>4, <1>5, TreeGrows
<1>7. to \in [Inode -> Seq(Name)] /\ U \in InodeTable /\ INODES' = U
  BY <1>1, <1>6
<1>8. U[i] = r /\ to[i] = path /\ \A j \in Inode : j # i => U[j] = INODES[j] /\ to[j] = at[j]
  <2>1. U[i] = r /\ \A j \in Inode : j # i => U[j] = INODES[j]
    BY <1>1, <1>3 DEF InodeTable
  <2>2. to[i] = path /\ \A j \in Inode : j # i => to[j] = at[j]
    BY <1>1
  <2> QED BY <2>1, <2>2
<1> HIDE DEF U, to
<1>9. (p # path \/ kind = "dir") => lookup_file(U, p) = lookup_file(INODES, p)
  <2>1. SUFFICES ASSUME p # path \/ kind = "dir" PROVE lookup_file(U, p) = lookup_file(INODES, p)
    OBVIOUS
  <2>2. Under(U, to, p) = Under(INODES, at, p)
    BY <1>2, <1>3, <1>8, <2>1 DEF Under
  <2> QED BY <1>3, <1>5, <1>6, <1>7, <2>2, SameLookup
<1>10. kind = "file" => lookup_file(U, path) = i
  <2>1. i \in Inode /\ path \in Seq(Word) /\ U \in InodeTable /\ to \in [Inode -> Seq(Name)] /\ Tree(U, to)
    BY <1>1, <1>6, <1>7
  <2>2. Under(U, to, path) = {lookup_file(U, path)} \ {NoInode}
    BY <2>1, LookupTree
  <2> QED BY <1>2, <1>8, <2>1, <2>2 DEF Under
<1>11. lookup_file(INODES, path) = NoInode
  BY <1>4 DEF lookup_file
<1> QED BY <1>1, <1>2, <1>3, <1>7, <1>8, <1>9, <1>10, <1>11 DEF i

\* An inode goes: a file that goes was under one path, which can be made again.
LEMMA GoneLookup ==
  ASSUME NEW T \in InodeTable, IsTree(T), NEW i \in Inode \ {ROOT_INODE},
         \A j \in Inode \ {i} : T[j].kind = "free" \/ T[j].parent # i \/ T[i].kind # "dir", NEW p \in Seq(Word)
  PROVE  LET U == [T EXCEPT ![i] = Empty]
         IN  /\ lookup_file(T, p) # i => lookup_file(U, p) = lookup_file(T, p)
             /\ lookup_file(T, p) = i => /\ lookup_file(U, p) = NoInode
                                         /\ resolve(U, p) = NoInode /\ split_parent(U, p) # NoInode
<1> DEFINE U == [T EXCEPT ![i] = Empty]
<1>1. PICK at \in [Inode -> Seq(Name)] : Tree(T, at)
  BY DEF IsTree
<1>2. Tree(U, at) /\ U \in InodeTable
  BY <1>1, TreeShrinks, EmptyTypes DEF InodeTable
<1>3. U[i].kind = "free" /\ \A j \in Inode : j # i => U[j] = T[j]
  BY DEF InodeTable, Empty
<1> HIDE DEF U
<1>4. Under(T, at, p) = {lookup_file(T, p)} \ {NoInode}
  BY <1>1, LookupTree
<1>5. ASSUME lookup_file(T, p) # i PROVE lookup_file(U, p) = lookup_file(T, p)
  <2>1. i \notin Under(T, at, p)
    BY <1>4, <1>5
  <2>2. Under(U, at, p) = Under(T, at, p)
    BY <1>3, <2>1 DEF Under
  <2> QED BY <1>1, <1>2, <2>2, SameLookup
<1>6. ASSUME lookup_file(T, p) = i
      PROVE  lookup_file(U, p) = NoInode /\ resolve(U, p) = NoInode /\ split_parent(U, p) # NoInode
  <2>1. T[i].kind = "file" /\ at[i] = p
    <3>1. i # NoInode
      BY Sizes DEF Inode, NoInode
    <3>2. i \in Under(T, at, p)
      BY <1>4, <1>6, <3>1
    <3> QED BY <3>2 DEF Under
  <2>2. resolve(U, p) = NoInode
    <3>1. SUFFICES ASSUME resolve(U, p) # NoInode PROVE FALSE
      OBVIOUS
    <3> DEFINE r == resolve(U, p)
    <3>2. r \in Inode /\ U[r].kind # "free" /\ p = at[r]
      BY <1>2, <3>1, TreeOnly
    <3> HIDE DEF r
    <3>3. r # i /\ T[r].kind # "free"
      BY <1>3, <3>2
    <3>4. resolve(T, at[r]) = r /\ resolve(T, at[i]) = i
      BY <1>1, <2>1, <3>2, <3>3, TreeResolves
    <3> QED BY <2>1, <3>2, <3>3, <3>4
  <2>3. lookup_file(U, p) = NoInode
    BY <2>2 DEF lookup_file
  <2> DEFINE d == T[i].parent
  <2>4. d \in Inode /\ T[d].kind = "dir" /\ at[d] \in Seq(Name) /\ p = Append(at[d], T[i].name) /\ Len(p) <= MAX_DEPTH
        /\ T[i].name \in Name
    BY <1>1, <2>1, TreeEntry
  <2> HIDE DEF d
  <2>5. d # i /\ U[d].kind = "dir" /\ resolve(U, at[d]) = d
    <3>1. d # i /\ U[d].kind = "dir"
      BY <1>3, <2>1, <2>4
    <3> QED BY <1>2, <2>4, <3>1, TreeResolves
  <2>6. SubSeq(p, 1, Len(p) - 1) = at[d] /\ p # <<>> /\ ~(Len(p) > MAX_DEPTH)
    <3>1. p # <<>>
      BY <2>4
    <3>3. ~(Len(p) > MAX_DEPTH)
      <4>1. Len(p) \in Nat /\ MAX_DEPTH \in Nat /\ Len(p) <= MAX_DEPTH
        BY <2>4, Sizes
      <4> QED BY <4>1
    <3>2. SubSeq(Append(at[d], T[i].name), 1, Len(Append(at[d], T[i].name)) - 1) = at[d]
      BY <2>4
    <3> QED BY <2>4, <3>1, <3>2, <3>3
  <2>7. split_parent(U, p) = d
    <3>1. d # NoInode
      <4>1. \A x \in Inode : x # NoInode
        BY Sizes DEF Inode, NoInode
      <4> QED BY <2>4, <4>1
    <3> QED BY <2>5, <2>6, <3>1 DEF split_parent
  <2> QED BY <2>2, <2>3, <2>4, <2>7, Sizes DEF Inode, NoInode
<1> QED BY <1>5, <1>6 DEF U

------------------------------------------------------------------------------
(* What a call still has to do *)

Faultless == User = {me} /\ Ops = {}

Vital == {"create", "remove", "attach", "write", "grow", "forget"}
Named == {"create_file", "write_file", "remove_file", "write_at"}

KeepsDues == \A x : x.do \in Vital => (Has(todo', x) <=> Has(todo, x))

LEMMA HasCons ==
  ASSUME NEW s, NEW rest \in Seq(Step), NEW x
  PROVE  ~Has(<<>>, x) /\ (Has(Cons(s, rest), x) <=> x = s \/ Has(rest, x))
<1> DEFINE c == Cons(s, rest)
<1>1. Len(c) = Len(rest) + 1 /\ c[1] = s /\ \A k \in 1 .. Len(rest) : c[k + 1] = rest[k]
  BY DEF Cons
<1>2. Len(rest) \in Nat
  OBVIOUS
<1> HIDE DEF c
<1>3. ~Has(<<>>, x)
  BY DEF Has
<1>4. ASSUME Has(c, x) PROVE x = s \/ Has(rest, x)
  <2>1. PICK k \in 1 .. Len(c) : c[k] = x
    BY <1>4 DEF Has
  <2>2. CASE k = 1
    BY <1>1, <2>1, <2>2
  <2>3. CASE k # 1
    <3>1. k - 1 \in 1 .. Len(rest) /\ (k - 1) + 1 = k
      BY <1>1, <1>2, <2>3
    <3>2. rest[k - 1] = x
      BY <1>1, <2>1, <3>1
    <3> QED BY <3>1, <3>2 DEF Has
  <2> QED BY <2>2, <2>3
<1>5. ASSUME x = s \/ Has(rest, x) PROVE Has(c, x)
  <2>1. CASE x = s
    <3>1. 1 \in 1 .. Len(c)
      BY <1>1, <1>2
    <3> QED BY <1>1, <2>1, <3>1 DEF Has
  <2>2. CASE Has(rest, x)
    <3>1. PICK k \in 1 .. Len(rest) : rest[k] = x
      BY <2>2 DEF Has
    <3>2. k + 1 \in 1 .. Len(c) /\ c[k + 1] = x
      BY <1>1, <1>2, <3>1
    <3> QED BY <3>2 DEF Has
  <2> QED BY <1>5, <2>1, <2>2
<1> QED BY <1>3, <1>4, <1>5 DEF c

LEMMA HasEither ==
  ASSUME NEW a \in Seq(Step), NEW b \in Seq(Step), NEW x
  PROVE  Has(a \o b, x) <=> Has(a, x) \/ Has(b, x)
<1> DEFINE c == a \o b
<1>1. /\ Len(c) = Len(a) + Len(b) /\ Len(a) \in Nat /\ Len(b) \in Nat
      /\ \A k \in 1 .. Len(c) : c[k] = IF k <= Len(a) THEN a[k] ELSE b[k - Len(a)]
  OBVIOUS
<1> HIDE DEF c
<1>2. ASSUME Has(c, x) PROVE Has(a, x) \/ Has(b, x)
  <2>1. PICK k \in 1 .. Len(c) : c[k] = x
    BY <1>2 DEF Has
  <2>2. CASE k <= Len(a)
    <3>1. k \in 1 .. Len(a) /\ a[k] = x
      BY <1>1, <2>1, <2>2
    <3> QED BY <3>1 DEF Has
  <2>3. CASE ~(k <= Len(a))
    <3>1. k - Len(a) \in 1 .. Len(b) /\ b[k - Len(a)] = x
      BY <1>1, <2>1, <2>3
    <3> QED BY <3>1 DEF Has
  <2> QED BY <2>2, <2>3
<1>3. ASSUME Has(a, x) PROVE Has(c, x)
  <2>1. PICK k \in 1 .. Len(a) : a[k] = x
    BY <1>3 DEF Has
  <2>2. k \in 1 .. Len(c) /\ c[k] = x
    BY <1>1, <2>1
  <2> QED BY <2>2 DEF Has
<1>4. ASSUME Has(b, x) PROVE Has(c, x)
  <2>1. PICK k \in 1 .. Len(b) : b[k] = x
    BY <1>4 DEF Has
  <2> DEFINE j == k + Len(a)
  <2>3. j \in 1 .. Len(c) /\ ~(j <= Len(a)) /\ j - Len(a) = k
    BY <1>1
  <2> HIDE DEF j
  <2>2. j \in 1 .. Len(c) /\ c[j] = x
    BY <1>1, <2>1, <2>3
  <2> QED BY <2>2 DEF Has
<1> QED BY <1>2, <1>3, <1>4 DEF c

LEMMA DueOwed ==
  ASSUME NEW w
  PROVE  (Due(w) <=> \E x : Has(todo, x) /\ x.do = w) /\ (Due(w)' <=> \E x : Has(todo', x) /\ x.do = w)
<1>1. Due(w) <=> \E x : Has(todo, x) /\ x.do = w
  BY DEF Due, Has
<1>2. Due(w)' <=> \E x : Has(todo', x) /\ x.do = w
  BY DEF Due, Has
<1> QED BY <1>1, <1>2

LEMMA StepsOf ==
  /\ \A k : Out(k).do = "inodes"
  /\ \A w : Just(w).do = w
  /\ \A w, i : On(w, i).do = w /\ On(w, i).inode = i
  /\ \A w, i, n : At(w, i, n).do = w
  /\ \A k : Dir(k).do = "mkdir"
  /\ \A n : Forgets(n).do = "forget" /\ Forgets(n).node = n
  /\ \A i, e : Grows(i, e).do = "grow" /\ Grows(i, e).inode = i
  /\ \A i, n, f, t : Stores(i, n, f, t).do = "store"
BY DEF Out, Just, On, At, Dir, Forgets, Grows, Stores

\* In a call on a file the last step is one that a table keeps.
LEMMA Unfinished ==
  ASSUME NEW c \in CallRecord, NEW s, Shape(c, s), s # <<>>, c.op \in Named,
         Head(s).do \notin {"create", "attach", "refresh", "advance", "forget"}
  PROVE  Tail(s) # <<>>
<1> DEFINE B(rest) == Cons(Just("bitmap"), rest)
<1>1. c.op # "idle" /\ c.op # "format" /\ c.op # "mkdir" /\ c.op # "rmdir" /\ c.op # "sync" /\ c.op # "read"
  BY DEF Named
<1>2. ASSUME NEW rest \in Seq(Step), rest # <<>>, s \in Flush(rest) PROVE Tail(s) # <<>>
  BY <1>2, FlushHeads
<1>3. ASSUME NEW rest \in Seq(Step), rest # <<>>, s \in FlushBoth(rest) PROVE Tail(s) # <<>>
  <2>1. B(rest) \in Seq(Step) /\ B(rest) # <<>>
    BY Lists, ConsFacts, Zenon
  <2>2. s \in Flush(B(rest)) => Tail(s) # <<>>
    BY <1>2, <2>1
  <2>3. s \in Flush(B(rest)) \/ Tail(s) = rest
    BY <1>3, FlushHeads
  <2> QED BY <1>3, <2>2, <2>3
<1>4. /\ FromCreate \in Seq(Step) /\ FromCreate # <<>> /\ Head(FromCreate).do = "create"
      /\ \A i \in Inode : FromAttach(i) \in Seq(Step) /\ FromAttach(i) # <<>> /\ Head(FromAttach(i)).do = "attach"
      /\ \A n \in Nat : FromForget(n) \in Seq(Step) /\ FromForget(n) # <<>> /\ Head(FromForget(n)).do = "forget"
  <2>1. <<>> \in Seq(Step)
    OBVIOUS
  <2>2. FromCreate # <<>> /\ (\A i \in Inode : FromAttach(i) # <<>>) /\ (\A n \in Nat : FromForget(n) # <<>>)
    BY <2>1, ConsFacts DEF FromCreate, FromAttach, FromForget
  <2> QED BY <2>2, Lists, ListHeads
<1>5. \A w \in {"write_file", "write_at"} :
        Last(w) \in Seq(Step) /\ Last(w) # <<>> /\ Head(Last(w)).do \in {"refresh", "advance"}
  <2>1. <<>> \in Seq(Step)
    OBVIOUS
  <2>2. Last("write_file") # <<>> /\ Last("write_at") # <<>>
    BY <2>1, ConsFacts, Lists
  <2> QED BY <2>2, Lists, ListHeads
<1>6. CASE c.op = "create_file"
  <2>1. OfCreateFile(s)
    BY <1>1, <1>6 DEF Shape
  <2> QED BY <1>2, <1>4, <2>1 DEF OfCreateFile
<1>7. ASSUME NEW i \in Inode, NEW rest \in Seq(Step), rest # <<>>, c.data # <<>>, s \in InWrite(c, i, rest) PROVE Tail(s) # <<>>
  <2>1. CASE s = Cons(On("write", i), rest)
    BY <1>7, <2>1, ConsFacts
  <2>2. CASE s \in InPieces(c, i, rest)
    <3>1. FromGrow(c, i, rest) \in Seq(Step) /\ \A n \in Index : Reaches(c, n) => FromStore(c, i, n, rest) \in Seq(Step)
      BY <1>7, WriteLists
    <3>2. FromGrow(c, i, rest) # <<>> /\ \A n \in Index : Reaches(c, n) => FromStore(c, i, n, rest) # <<>>
      <4>1. Cons(Out(1), Cons(Just("bitmap"), rest)) \in Seq(Step)
        BY Lists, ChunkNumbers
      <4> QED BY <3>1, <4>1, ConsFacts DEF FromGrow, FromStore
    <3>3. CASE s = FromGrow(c, i, rest)
      <4>1. Cons(Out(1), Cons(Just("bitmap"), rest)) \in Seq(Step) /\ Cons(Just("bitmap"), rest) \in Seq(Step)
        BY Lists, ChunkNumbers
      <4>2. Tail(s) = Cons(Out(1), Cons(Just("bitmap"), rest))
        BY <3>3, <4>1, ConsFacts DEF FromGrow
      <4> QED BY <4>1, <4>2, ConsFacts
    <3>4. ASSUME NEW n \in Index, Reaches(c, n), s = FromStore(c, i, n, rest) PROVE Tail(s) # <<>>
      BY <3>1, <3>2, <3>4, ConsFacts DEF FromStore
    <3>5. ASSUME NEW n \in Index, Reaches(c, n),
                 s \in {Cons(At("fetch", i, n), FromStore(c, i, n, rest)), Cons(Just("clear"), FromStore(c, i, n, rest))}
          PROVE Tail(s) # <<>>
      <4> DEFINE r == FromStore(c, i, n, rest)
      <4>1. r \in Seq(Step) /\ r # <<>> /\ \E t : s = Cons(t, r)
        BY <3>1, <3>2, <3>5
      <4> HIDE DEF r
      <4> QED BY <4>1, ConsFacts
    <3>6. \/ s = FromGrow(c, i, rest)
          \/ \E n \in Index : /\ Reaches(c, n)
                              /\ s \in {FromStore(c, i, n, rest), Cons(At("fetch", i, n), FromStore(c, i, n, rest)),
                                         Cons(Just("clear"), FromStore(c, i, n, rest))}
      BY <2>2 DEF InPieces
    <3> QED BY <3>3, <3>4, <3>5, <3>6
  <2> QED BY <1>7, <2>1, <2>2 DEF InWrite
<1>8. CASE c.op = "write_file"
  <2>1. OfWriteFile(c, s) /\ c.data # <<>>
    BY <1>1, <1>8 DEF Shape
  <2>2. \A i \in Inode : Cons(On("write", i), Last("write_file")) \in Seq(Step) /\ Cons(On("write", i), Last("write_file")) # <<>>
    BY <1>5, Lists, ConsFacts, Zenon
  <2>3. CASE \E i \in Inode : s = Cons(On("remove", i), FromCreate)
    <3>1. PICK i \in Inode : s = Cons(On("remove", i), FromCreate)
      BY <2>3
    <3>2. FromCreate \in Seq(Step)
      BY <1>4
    <3>3. Tail(s) = FromCreate
      BY <3>1, <3>2, ConsFacts
    <3> QED BY <1>4, <3>3
  <2>4. CASE s \in FlushBoth(FromCreate) \union {FromCreate}
    BY <1>3, <1>4, <2>4
  <2>5. ASSUME NEW i \in Inode, s \in Flush(Cons(On("write", i), Last("write_file"))) PROVE Tail(s) # <<>>
    BY <1>2, <2>2, <2>5
  <2>6. ASSUME NEW i \in Inode, s \in InWrite(c, i, Last("write_file")) PROVE Tail(s) # <<>>
    BY <1>5, <1>7, <2>1, <2>6
  <2>7. CASE s \in FlushBoth(Last("write_file")) \union {Last("write_file")}
    BY <1>3, <1>5, <2>7
  <2> QED BY <2>1, <2>3, <2>4, <2>5, <2>6, <2>7 DEF OfWriteFile
<1>9. CASE c.op = "remove_file"
  <2>1. OfRemoveFile(s)
    BY <1>1, <1>9 DEF Shape
  <2>2. PICK n \in 1 .. Len(NODES) :
          \/ \E i \in Inode : s = Cons(On("remove", i), FromForget(n))
          \/ s \in FlushBoth(FromForget(n)) \union {FromForget(n)}
    BY <2>1 DEF OfRemoveFile
  <2>3. n \in Nat
    OBVIOUS
  <2>4. FromForget(n) \in Seq(Step) /\ FromForget(n) # <<>> /\ Head(FromForget(n)).do = "forget"
    BY <1>4, <2>3
  <2>5. CASE \E i \in Inode : s = Cons(On("remove", i), FromForget(n))
    <3>1. PICK i \in Inode : s = Cons(On("remove", i), FromForget(n))
      BY <2>5
    <3>2. Tail(s) = FromForget(n)
      BY <2>4, <3>1, ConsFacts
    <3> QED BY <2>4, <3>2
  <2>6. CASE s \in FlushBoth(FromForget(n)) \union {FromForget(n)}
    BY <1>3, <2>4, <2>6
  <2> QED BY <2>2, <2>5, <2>6
<1>10. CASE c.op = "write_at"
  <2>1. OfWriteAt(c, s) /\ c.data # <<>>
    BY <1>1, <1>10 DEF Shape
  <2>2. ASSUME NEW i \in Inode, s \in InWrite(c, i, Last("write_at")) PROVE Tail(s) # <<>>
    BY <1>5, <1>7, <2>1, <2>2
  <2>3. CASE s \in FlushBoth(Last("write_at")) \union {Last("write_at")}
    BY <1>3, <1>5, <2>3
  <2> QED BY <2>1, <2>2, <2>3 DEF OfWriteAt
<1> QED BY <1>6, <1>8, <1>9, <1>10 DEF Named

AllMatch == \A n \in 1 .. Len(NODES) : Leads(n) => Matches(n)

\* A call ends.
LEMMA Rests ==
  ASSUME OnePath', AllMatch', mine' = Idle, ~MOUNTED' => NODES' = RamNodes
  PROVE  NodesInv'
<1>1. Idle.op = "idle"
  BY DEF Idle
<1>2. OthersMatch'
  BY DEF OthersMatch, AllMatch
<1> QED BY <1>1, <1>2 DEF NodesInv

LEMMA DuesKept ==
  ASSUME KeepsDues
  PROVE  \A w \in Vital : Due(w)' <=> Due(w)
<1> SUFFICES ASSUME NEW w \in Vital PROVE Due(w)' <=> Due(w)
  OBVIOUS
<1>1. \A x : x.do = w => (Has(todo', x) <=> Has(todo, x))
  BY DEF KeepsDues
<1> QED BY <1>1, DueOwed

\* A step that is about nothing that the invariant speaks of.
LEMMA Waits ==
  ASSUME NodesInv, UNCHANGED <<INODES, NODES, MOUNTED, file>>, mine' = mine, KeepsDues
  PROVE  NodesInv'
<1>1. me' = me
  BY DEF me
<1>2. OnePath' /\ OthersMatch'
  BY DEF NodesInv, OnePath, OthersMatch, OfCall, Leads, Matches
<1>3. \A w \in Vital : Due(w)' <=> Due(w)
  BY DuesKept
<1>4. /\ \A i : /\ Has(todo', On("attach", i)) <=> Has(todo, On("attach", i))
                /\ Has(todo', On("write", i)) <=> Has(todo, On("write", i))
                /\ Has(todo', On("remove", i)) <=> Has(todo, On("remove", i))
                /\ Has(todo', Forgets(i)) <=> Has(todo, Forgets(i))
                /\ \A e : Has(todo', Grows(i, e)) <=> Has(todo, Grows(i, e))
  BY StepsOf DEF KeepsDues, Vital
<1>5. /\ Due("create")' <=> Due("create") 
      /\ Due("remove")' <=> Due("remove")
      /\ Due("write")' <=> Due("write")
      /\ Due("grow")' <=> Due("grow")
  BY <1>3 DEF Vital
<1>6. WritesInode => WritesInode'
  BY <1>4 DEF WritesInode, Owes, EndOf
<1>7. CreatesFile => CreatesFile'
  BY <1>4 DEF CreatesFile, Owes
<1>8. WritesFile => WritesFile'
  BY <1>4, <1>5, <1>6 DEF WritesFile, Owes, Makeable, FreeInodes
<1>9. RemovesFile => RemovesFile'
  BY <1>4 DEF RemovesFile, Owes, Leads, Matches
<1>10. WritesAt => WritesAt'
  BY <1>1, <1>5, <1>6 DEF WritesAt, Leads, Matches
<1> QED BY <1>2, <1>7, <1>8, <1>9, <1>10 DEF NodesInv

LEMMA AllMatched ==
  ASSUME NodesInv, mine.op \notin Named
  PROVE  AllMatch /\ OnePath
BY DEF NodesInv, OthersMatch, OfCall, Named, AllMatch

\* A step of Left that is not one of those in Vital, and puts none of them in.
LEMMA Quiet ==
  ASSUME Faultless, StorageTypes, NodesInv, UNCHANGED <<INODES, NODES, MOUNTED, file>>,
         NEW before \in Seq(Step), todo # <<>>, Left(me, before),
         Head(todo).do \notin Vital \union {"refresh", "advance"},
         \A x : Has(before, x) => x.do \notin Vital
  PROVE  NodesInv'
<1>1. Sole
  BY DEF Sole, Faultless
<1>2. todo \in Seq(Step) /\ Shape(mine, todo) /\ mine \in CallRecord
  BY <1>1, CallTyped
<1>3. Leaves(before \o Tail(todo))
  BY <1>1, Effect
<1> DEFINE h == Head(todo)  rest == Tail(todo)
<1>4. todo = Cons(h, rest) /\ rest \in Seq(Step) /\ todo' = before \o rest
  BY <1>2, <1>3 DEF Leaves, Cons
<1> HIDE DEF h, rest
<1>5. KeepsDues
  <2>1. ASSUME NEW x, x.do \in Vital PROVE Has(todo', x) <=> Has(todo, x)
    <3>1. x # h /\ ~Has(before, x)
      BY <2>1 DEF h
    <3>2. Has(todo, x) <=> Has(rest, x)
      BY <1>4, <3>1, HasCons
    <3>3. Has(todo', x) <=> Has(rest, x)
      BY <1>4, <3>1, HasEither
    <3> QED BY <3>2, <3>3
  <2> QED BY <2>1 DEF KeepsDues
<1>6. CASE todo' # <<>>
  BY <1>3, <1>4, <1>5, <1>6, Waits DEF Leaves, rest
<1>7. CASE todo' = <<>>
  <2>1. mine' = Idle
    BY <1>3, <1>4, <1>7 DEF Leaves, rest
  <2>2. rest = <<>>
    <3>1. Len(before \o rest) = Len(before) + Len(rest) /\ Len(before) \in Nat /\ Len(rest) \in Nat
      BY <1>4
    <3>2. Len(before \o rest) = 0
      BY <1>4, <1>7
    <3>3. Len(rest) = 0
      BY <3>1, <3>2
    <3> QED BY <1>4, <3>3, EmptySeq
  <2>3. mine.op \notin Named
    BY <1>2, <2>2, Unfinished DEF rest, Vital
  <2>4. AllMatch /\ OnePath
    BY <2>3, AllMatched
  <2>5. AllMatch' /\ OnePath'
    BY <2>4 DEF AllMatch, OnePath, Leads, Matches
  <2>6. ~MOUNTED' => NODES' = RamNodes
    BY DEF NodesInv
  <2> QED BY <2>1, <2>5, <2>6, Rests
<1> QED BY <1>6, <1>7

LEMMA OwedNone == \A x : ~Has(<<>>, x)
BY DEF Has

LEMMA PieceOwes ==
  ASSUME NEW i \in Inode, NEW k, NEW offset, NEW len, NEW have, NEW x, Has(Piece(i, k, offset, len, have), x)
  PROVE  x.do \in {"store", "fetch", "clear"}
<1> DEFINE from == IF offset > k * BLOCK_SIZE THEN offset - k * BLOCK_SIZE ELSE 0
           to == IF offset + len < (k + 1) * BLOCK_SIZE THEN offset + len - k * BLOCK_SIZE ELSE BLOCK_SIZE
           store == [do |-> "store", inode |-> i, nth |-> k, from |-> from, to |-> to]
           fetch == [do |-> "fetch", inode |-> i, nth |-> k]
           clear == [do |-> "clear"]
<1>1. Piece(i, k, offset, len, have) \in {<<store>>, <<fetch, store>>, <<clear, store>>}
  BY DEF Piece
<1>2. store.do = "store" /\ fetch.do = "fetch" /\ clear.do = "clear"
  OBVIOUS
<1> HIDE DEF store, fetch, clear
<1>3. x \in {store, fetch, clear}
  BY <1>1 DEF Has
<1> QED BY <1>2, <1>3

LEMMA WaitingNodes ==
  ASSUME Faultless, StorageTypes, NodesInv,
         WriteInodes(me) \/ WriteBitmap(me) \/ Fetch(me) \/ Clear(me) \/ Take(me)
  PROVE  NodesInv'
<1>1. Sole
  BY DEF Sole, Faultless
<1>2. <<>> \in Seq(Step) /\ \A x : ~Has(<<>>, x)
  BY OwedNone
<1>3. CASE WriteBitmap(me) \/ Fetch(me) \/ Clear(me) \/ Take(me)
  <2>1. UNCHANGED <<INODES, NODES, MOUNTED, file>> /\ Left(me, <<>>)
    BY <1>3 DEF WriteBitmap, Fetch, Clear, Take, Done, cache
  <2>2. todo # <<>> /\ Head(todo).do \notin Vital \union {"refresh", "advance"}
    BY <1>3 DEF WriteBitmap, Fetch, Clear, Take, Now, First, todo, Vital
  <2> QED BY <1>2, <2>1, <2>2, Quiet
<1>4. CASE WriteInodes(me)
  <2>1. PICK k \in 1 .. Chunks : First(me).chunk = k
    BY <1>1, <1>4, FlowInodes
  <2>2. PICK rest \in Seq(Step) : todo = Cons(Out(First(me).chunk), rest)
    BY <1>1, <1>4, FlowInodes
  <2> DEFINE before == IF First(me).chunk < Chunks THEN <<[First(me) EXCEPT !.chunk = @ + 1]>> ELSE <<>>
  <2>3. UNCHANGED <<INODES, NODES, MOUNTED, file>> /\ Left(me, before)
    BY <1>4 DEF WriteInodes, cache
  <2>4. todo # <<>> /\ Head(todo).do \notin Vital \union {"refresh", "advance"}
    <3>1. Now(me, "inodes")
      BY <1>4 DEF WriteInodes
    <3> QED BY <3>1 DEF Now, First, todo, Vital
  <2>5. First(me) = Out(k)
    BY <2>1, <2>2, ConsFacts DEF First, todo
  <2>6. before = IF k < Chunks THEN <<Out(k + 1)>> ELSE <<>>
    BY <2>5 DEF Out
  <2> HIDE DEF before
  <2>7. before \in Seq(Step) /\ \A x : Has(before, x) => x.do = "inodes"
    <3>1. CASE k < Chunks
      <4>1. k + 1 \in 1 .. Chunks
        BY <3>1, ChunkNumbers
      <4>2. Out(k + 1) \in Step /\ Out(k + 1).do = "inodes"
        BY <4>1, StepTypes, StepsOf
      <4> QED BY <2>6, <3>1, <4>2 DEF Has
    <3>2. CASE ~(k < Chunks)
      BY <1>2, <2>6, <3>2
    <3> QED BY <3>1, <3>2
  <2>8. "inodes" \notin Vital
    BY DEF Vital
  <2> QED BY <2>3, <2>4, <2>7, <2>8, Quiet
<1> QED BY <1>3, <1>4

LEMMA StoreNodes ==
  ASSUME Faultless, StorageTypes, NodesInv, Store(me)
  PROVE  NodesInv'
<1>1. Sole
  BY DEF Sole, Faultless
<1>2. PICK i \in Inode, n \in Index : /\ First(me) = StoreOf(mine, i, n) /\ Reaches(mine, n) /\ Writer(mine)
                                      /\ todo \in InPieces(mine, i, Last(mine.op))
  BY <1>1, FlowStore
<1> DEFINE piece == Piece(i, n + 1, mine.offset, Len(mine.data), block_count(INODES[i].size))
           before == IF (n + 1) * BLOCK_SIZE < EndOf(mine) THEN piece ELSE <<>>
<1>3. First(me).inode = i /\ First(me).nth = n /\ First(me).do = "store"
  BY <1>2 DEF StoreOf, Stores
<1>4. UNCHANGED <<INODES, NODES, MOUNTED, file>> /\ Left(me, before)
  BY <1>3 DEF Store, cache, mine, EndOf
<1>5. todo # <<>> /\ Head(todo).do \notin Vital \union {"refresh", "advance"}
  <2>1. Now(me, "store")
    BY DEF Store
  <2> QED BY <2>1 DEF Now, First, todo, Vital
<1>6. before \in Seq(Step)
  <2>1. mine \in CallRecord /\ mine.data # <<>> /\ Last(mine.op) \in Seq(Step)
    BY <1>1, <1>2, CallTyped, WriterShapes
  <2>2. EndOf(mine) <= MAX_FILE_SIZE
    BY <1>2, <2>1, PieceHeads
  <2>3. (n + 1) * BLOCK_SIZE < EndOf(mine) => n + 1 \in Index /\ Reaches(mine, n + 1)
    BY <1>2, <2>1, <2>2, FirstReached
  <2>4. (n + 1) * BLOCK_SIZE < EndOf(mine) => piece \in Seq(Step)
    BY <2>1, <2>2, <2>3, PieceGoes
  <2> QED BY <2>4
<1>7. \A x : Has(before, x) => x.do \notin Vital
  <2> SUFFICES ASSUME NEW x, Has(before, x) PROVE x.do \notin Vital
    OBVIOUS
  <2>1. Has(piece, x)
    BY OwedNone
  <2> HIDE DEF before
  <2>2. x.do \in {"store", "fetch", "clear"}
    BY <2>1, PieceOwes
  <2> QED BY <2>2 DEF Vital
<1> HIDE DEF before
<1> QED BY <1>4, <1>5, <1>6, <1>7, Quiet

------------------------------------------------------------------------------
(* Steps that change the table of inodes *)

\* The paths outside of S lead where they led, to a file of the size it had.
Beside(S) ==
  \A p \in Seq(Word) : p \notin S =>
    /\ lookup_file(INODES', p) = lookup_file(INODES, p)
    /\ lookup_file(INODES, p) # NoInode =>
         INODES'[lookup_file(INODES, p)].size = INODES[lookup_file(INODES, p)].size

LEMMA NodeFacts ==
  ASSUME StorageTypes, NEW n \in 1 .. Len(NODES)
  PROVE  /\ NODES[n].path \in Seq(Word) /\ NODES[n].used \in BOOLEAN /\ NODES[n] \in NodeRecord
         /\ Leads(n) => NODES[n].inode \in Inode /\ NODES[n].inode # NoInode
<1>1. NODES \in Seq(NodeRecord) /\ \A m \in 1 .. Len(NODES) : NODES[m].source = "disk" => NODES[m].inode \in Inode
  BY DEF StorageTypes, DataTypes, NodeLists
<1>2. NODES[n] \in NodeRecord
  BY <1>1
<1>3. \A i \in Inode : i # NoInode
  BY Sizes DEF Inode, NoInode
<1> QED BY <1>1, <1>2, <1>3 DEF NodeRecord, Leads

LEMMA StillMatches ==
  ASSUME StorageTypes, NODES' = NODES, NEW S, Beside(S), NEW n \in 1 .. Len(NODES), Leads(n), Matches(n), NODES[n].path \notin S
  PROVE  Matches(n)'
<1>1. NODES[n].path \in Seq(Word) /\ NODES[n].inode # NoInode
  BY NodeFacts
<1>2. lookup_file(INODES, NODES[n].path) = NODES[n].inode /\ NODES[n].size = INODES[NODES[n].inode].size
  BY DEF Matches
<1>3. lookup_file(INODES', NODES[n].path) = NODES[n].inode /\ INODES'[NODES[n].inode].size = INODES[NODES[n].inode].size
  BY <1>1, <1>2 DEF Beside
<1> QED BY <1>2, <1>3 DEF Matches

LEMMA OthersStill ==
  ASSUME StorageTypes, NODES' = NODES, NodesInv, NEW S, Beside(S)
  PROVE  /\ OnePath'
         /\ \A n \in 1 .. Len(NODES) : Leads(n) /\ ~OfCall(NODES[n].path) /\ NODES[n].path \notin S => Matches(n)'
<1>1. OnePath'
  BY DEF NodesInv, OnePath, Leads
<1>2. \A n \in 1 .. Len(NODES) : Leads(n) /\ ~OfCall(NODES[n].path) => Matches(n)
  BY DEF NodesInv, OthersMatch
<1>3. ASSUME NEW n \in 1 .. Len(NODES), Leads(n), ~OfCall(NODES[n].path), NODES[n].path \notin S PROVE Matches(n)'
  BY <1>2, <1>3, StillMatches
<1> QED BY <1>1, <1>3

\* A step of a call on another thing than a file.
LEMMA OtherCall ==
  ASSUME StorageTypes, NODES' = NODES, MOUNTED' = MOUNTED, NodesInv, Beside({}), mine.op \notin Named, mine' \in {mine, Idle}
  PROVE  NodesInv'
<1>1. OnePath' /\ \A n \in 1 .. Len(NODES) : Leads(n) /\ ~OfCall(NODES[n].path) => Matches(n)'
  BY OthersStill
<1>2. \A path : ~OfCall(path)
  BY DEF OfCall, Named
<1>3. AllMatch'
  BY <1>1, <1>2 DEF AllMatch, Leads
<1>4. mine'.op \notin Named
  BY DEF Named, Idle
<1>5. ~MOUNTED' => NODES' = RamNodes
  BY DEF NodesInv
<1>6. OthersMatch'
  BY <1>3 DEF OthersMatch, AllMatch
<1> QED BY <1>1, <1>4, <1>5, <1>6 DEF NodesInv, Named

LEMMA SameBeside ==
  ASSUME INODES' = INODES
  PROVE  Beside({})
BY DEF Beside

LEMMA MadeBeside ==
  ASSUME StorageTypes, IsTree(INODES), NEW path \in Path, NEW kind \in {"file", "dir"}, Makeable(path), NewInode(path, kind)
  PROVE  /\ Beside({path}) /\ (kind = "dir" => Beside({}))
         /\ kind = "file" => /\ lookup_file(INODES', path) = Lowest(FreeInodes)
                             /\ INODES'[Lowest(FreeInodes)].size = 0 /\ Lowest(FreeInodes) \in Inode
<1>1. path \in Seq(Word) /\ INODES \in InodeTable
  BY Words, TablesTyped
<1>2. /\ kind = "file" => lookup_file(INODES', path) = Lowest(FreeInodes) /\ INODES'[Lowest(FreeInodes)].size = 0
      /\ lookup_file(INODES, path) = NoInode
      /\ Lowest(FreeInodes) \in Inode /\ INODES[Lowest(FreeInodes)].kind = "free"
      /\ \A j \in Inode : j # Lowest(FreeInodes) => INODES'[j] = INODES[j]
  BY <1>1, MadeLookup
<1>3. ASSUME NEW p \in Seq(Word), p # path \/ kind = "dir"
      PROVE  /\ lookup_file(INODES', p) = lookup_file(INODES, p)
             /\ lookup_file(INODES, p) # NoInode =>
                  INODES'[lookup_file(INODES, p)].size = INODES[lookup_file(INODES, p)].size
  <2>1. lookup_file(INODES', p) = lookup_file(INODES, p)
    BY <1>3, MadeLookup
  <2> DEFINE j == lookup_file(INODES, p)
  <2>2. j # NoInode => j \in Inode /\ INODES[j].kind = "file"
    BY <1>1, ResolveType
  <2> HIDE DEF j
  <2>3. j # NoInode => INODES'[j] = INODES[j]
    BY <1>2, <2>2
  <2> QED BY <2>1, <2>3 DEF j
<1> QED BY <1>2, <1>3 DEF Beside

LEMMA GoneBeside ==
  ASSUME StorageTypes, IsTree(INODES), NEW i \in Inode \ {ROOT_INODE},
         \A j \in Inode \ {i} : INODES[j].kind = "free" \/ INODES[j].parent # i \/ INODES[i].kind # "dir",
         INODES' = [INODES EXCEPT ![i] = Empty]
  PROVE  /\ Beside({p \in Seq(Word) : lookup_file(INODES, p) = i})
         /\ \A p \in Seq(Word) : lookup_file(INODES, p) = i =>
              resolve(INODES', p) = NoInode /\ split_parent(INODES', p) # NoInode
<1>1. INODES \in InodeTable
  BY TablesTyped
<1>2. \A j \in Inode : j # i => INODES'[j] = INODES[j]
  BY <1>1 DEF InodeTable
<1>3. \A p \in Seq(Word) :
        /\ lookup_file(INODES, p) # i => lookup_file(INODES', p) = lookup_file(INODES, p)
        /\ lookup_file(INODES, p) = i => resolve(INODES', p) = NoInode /\ split_parent(INODES', p) # NoInode
  BY <1>1, GoneLookup
<1>4. ASSUME NEW p \in Seq(Word), lookup_file(INODES, p) # i, lookup_file(INODES, p) # NoInode
      PROVE  INODES'[lookup_file(INODES, p)].size = INODES[lookup_file(INODES, p)].size
  <2>1. lookup_file(INODES, p) \in Inode
    BY <1>1, <1>4, ResolveType
  <2> QED BY <1>2, <1>4, <2>1
<1> QED BY <1>3, <1>4 DEF Beside

LEMMA AlikeBeside ==
  ASSUME StorageTypes, IsTree(INODES), INODES' \in InodeTable, \A i \in Inode : Alike(INODES[i], INODES'[i]),
         NEW S, \A i \in Inode : INODES'[i].size = INODES[i].size \/ \E p \in S : lookup_file(INODES, p) = i, S \subseteq Seq(Word)
  PROVE  Beside(S) /\ \A p \in Seq(Word) : lookup_file(INODES', p) = lookup_file(INODES, p)
<1>1. INODES \in InodeTable
  BY TablesTyped
<1>2. \A p \in Seq(Word) : lookup_file(INODES', p) = lookup_file(INODES, p)
  BY <1>1, AlikeLookup
<1>3. ASSUME NEW p \in Seq(Word), p \notin S, lookup_file(INODES, p) # NoInode
      PROVE  INODES'[lookup_file(INODES, p)].size = INODES[lookup_file(INODES, p)].size
  <2>1. lookup_file(INODES, p) \in Inode
    BY <1>1, <1>3, ResolveType
  <2>2. ASSUME NEW q \in S, lookup_file(INODES, q) = lookup_file(INODES, p) PROVE FALSE
    <3>1. q = p
      BY <1>1, <1>3, <2>2, OneInode
    <3> QED BY <1>3, <3>1
  <2> QED BY <2>1, <2>2
<1> QED BY <1>2, <1>3 DEF Beside

LEMMA LiveTree ==
  ASSUME TreeInv, MOUNTED
  PROVE  IsTree(INODES)
BY DEF TreeInv, Live

LEMMA MkdirNodes ==
  ASSUME Faultless, StorageTypes, TreeInv, NodesInv, mkdir(me)
  PROVE  NodesInv'
<1>1. Sole
  BY DEF Sole, Faultless
<1>2. PICK k \in Nat \ {0} :
        /\ MOUNTED /\ mine.op \in {"mkdir", "format"} /\ (mine.op = "format" => k <= Len(Skeleton))
        /\ \/ ~Makeable(PathOf(mine, k)) /\ UNCHANGED INODES /\ mine' = Idle
           \/ Makeable(PathOf(mine, k)) /\ NewInode(PathOf(mine, k), "dir") /\ mine' = mine
  BY <1>1, FlowMkdir
<1>3. NODES' = NODES /\ MOUNTED' = MOUNTED /\ IsTree(INODES) /\ mine.op \notin Named
  BY <1>2, LiveTree DEF mkdir, Named
<1>4. PathOf(mine, k) \in Path
  <2>1. mine.op = "mkdir" => mine.path \in Path
    BY DEF StorageTypes, CallTypes
  <2>2. mine.op = "format" => Skeleton[k] \in Path
    BY <1>2, PathsAssumption
  <2> QED BY <1>2, <2>1, <2>2 DEF PathOf
<1>5. Beside({})
  <2>1. CASE Makeable(PathOf(mine, k)) /\ NewInode(PathOf(mine, k), "dir")
    BY <1>3, <1>4, <2>1, MadeBeside
  <2> QED BY <1>2, <2>1, SameBeside
<1> QED BY <1>2, <1>3, <1>5, OtherCall

LEMMA RmdirNodes ==
  ASSUME Faultless, StorageTypes, TreeInv, NodesInv, rmdir(me)
  PROVE  NodesInv'
<1>1. Sole
  BY DEF Sole, Faultless
<1> DEFINE i == resolve(INODES, mine.path)
<1>2. /\ MOUNTED /\ mine.op = "rmdir"
      /\ \/ UNCHANGED INODES /\ mine' = Idle
         \/ IsEmptyDir(i) /\ INODES' = [INODES EXCEPT ![i] = Empty] /\ mine' = mine
  <2>1. /\ MOUNTED /\ mine.op = "rmdir"
        /\ \/ ~IsEmptyDir(i) /\ UNCHANGED INODES /\ Continues(<<>>) /\ mine' = Idle
           \/ IsEmptyDir(i) /\ INODES' = [INODES EXCEPT ![i] = Empty] /\ Continues(Cons(Out(1), <<>>)) /\ mine' = mine
    BY <1>1, FlowRmdir
  <2> QED BY <2>1
<1>3. NODES' = NODES /\ MOUNTED' = MOUNTED /\ IsTree(INODES) /\ mine.op \notin Named
  BY <1>2, LiveTree DEF rmdir, Named
<1>4. Beside({})
  <2>1. CASE IsEmptyDir(i) /\ INODES' = [INODES EXCEPT ![i] = Empty]
    <3>0. INODES \in InodeTable /\ mine.path \in Seq(Word)
      BY <1>1, TablesTyped, CallTyped DEF CallRecord
    <3>1. i \in Inode \union {NoInode}
      BY <3>0, ResolveType
    <3> HIDE DEF i
    <3>2. i \in Inode \ {ROOT_INODE} /\ INODES[i].kind = "dir"
          /\ \A j \in Inode \ {i} : INODES[j].kind = "free" \/ INODES[j].parent # i \/ INODES[i].kind # "dir"
      BY <2>1, <3>1 DEF IsEmptyDir
    <3>3. Beside({p \in Seq(Word) : lookup_file(INODES, p) = i})
      BY <1>3, <2>1, <3>2, GoneBeside
    <3>4. \A p \in Seq(Word) : lookup_file(INODES, p) # i
      <4> SUFFICES ASSUME NEW p \in Seq(Word), lookup_file(INODES, p) = i PROVE FALSE
        OBVIOUS
      <4>1. i # NoInode
        BY <3>2, Sizes DEF Inode, NoInode
      <4>2. INODES[i].kind = "file"
        BY <3>0, <4>1, ResolveType
      <4> QED BY <3>2, <4>2
    <3>5. {p \in Seq(Word) : lookup_file(INODES, p) = i} = {}
      BY <3>4
    <3> QED BY <3>3, <3>5
  <2> QED BY <1>2, <2>1, SameBeside
<1> QED BY <1>2, <1>3, <1>4, OtherCall

\* What the file calls leave to do.
LEMMA CreatedOwes ==
  ASSUME NEW c, NEW i \in Inode, NEW x, Has(Cons(Out(1), AfterCreate(c, i)), x), x.do \in Vital
  PROVE  x = IF c.op = "create_file" THEN On("attach", i) ELSE On("write", i)
<1>1. <<>> \in Seq(Step) /\ FromAttach(i) \in Seq(Step) /\ Last("write_file") \in Seq(Step)
      /\ Cons(On("write", i), Last("write_file")) \in Seq(Step)
      /\ Last("write_file") = Cons(Just("refresh"), <<>>)
  BY Lists, Zenon
<1>2. AfterCreate(c, i) \in Seq(Step)
  BY <1>1 DEF AfterCreate
<1>3. Has(AfterCreate(c, i), x)
  <2>1. x # Out(1)
    BY StepsOf DEF Vital
  <2> QED BY <1>2, <2>1, HasCons
<1>4. CASE c.op = "create_file"
  <2>1. Has(Cons(On("attach", i), <<>>), x)
    BY <1>3, <1>4 DEF AfterCreate, FromAttach
  <2> QED BY <1>1, <1>4, <2>1, HasCons
<1>5. CASE c.op # "create_file"
  <2>1. Has(Cons(On("write", i), Last("write_file")), x)
    BY <1>3, <1>5 DEF AfterCreate
  <2>2. x = On("write", i) \/ Has(Cons(Just("refresh"), <<>>), x)
    BY <1>1, <2>1, HasCons
  <2>3. x # Just("refresh")
    BY StepsOf DEF Vital
  <2>4. ~Has(Cons(Just("refresh"), <<>>), x)
    BY <1>1, <2>3, HasCons
  <2> QED BY <1>5, <2>2, <2>4
<1> QED BY <1>4, <1>5

\* A call on a path ends: what is under other paths matches, and so does a node of its own.
LEMMA PathRests ==
  ASSUME StorageTypes, NODES' = NODES, MOUNTED' = MOUNTED, INODES' = INODES, NodesInv, mine' = Idle,
         \A n \in 1 .. Len(NODES) : Leads(n) /\ NODES[n].path = mine.path => Matches(n)
  PROVE  NodesInv'
<1>1. OnePath' /\ \A n \in 1 .. Len(NODES) : Leads(n) /\ ~OfCall(NODES[n].path) => Matches(n)'
  BY SameBeside, OthersStill
<1>2. \A n \in 1 .. Len(NODES) : Leads(n) /\ NODES[n].path = mine.path => Matches(n)'
  BY DEF Matches
<1>3. AllMatch'
  BY <1>1, <1>2 DEF AllMatch, Leads, OfCall
<1>4. ~MOUNTED' => NODES' = RamNodes
  BY DEF NodesInv
<1> QED BY <1>1, <1>3, <1>4, Rests

LEMMA NoNodeNone ==
  ASSUME StorageTypes, NEW path, lookup(NODES, path) = NoNode
  PROVE  \A n \in 1 .. Len(NODES) : ~(Leads(n) /\ NODES[n].path = path)
<1>1. Len(NODES) \in Nat
  BY DEF StorageTypes, DataTypes, NodeLists
<1> QED BY <1>1, LookupType DEF Leads

LEMMA OthersMatchAfter ==
  ASSUME StorageTypes, NODES' = NODES, NodesInv, mine.op \in Named, mine' = mine, Beside({mine.path})
  PROVE  OnePath' /\ OthersMatch'
<1>1. OnePath' /\ \A n \in 1 .. Len(NODES) : Leads(n) /\ ~OfCall(NODES[n].path) /\ NODES[n].path \notin {mine.path} => Matches(n)'
  BY OthersStill
<1> QED BY <1>1 DEF OthersMatch, OfCall, Leads, Named

LEMMA CreateNodes ==
  ASSUME Faultless, StorageTypes, TreeInv, NodesInv, Create(me)
  PROVE  NodesInv'
<1>1. Sole
  BY DEF Sole, Faultless
<1>2. AtCreate(mine, todo)
      /\ \/ ~Makeable(mine.path) /\ UNCHANGED INODES /\ mine' = Idle
         \/ /\ Makeable(mine.path) /\ NewInode(mine.path, "file") /\ mine' = mine
            /\ Continues(Cons(Out(1), AfterCreate(mine, Lowest(FreeInodes))))
  BY <1>1, FlowCreate
<1>3. NODES' = NODES /\ MOUNTED' = MOUNTED
  BY DEF Create
<1>4. MOUNTED /\ mine.op \in {"create_file", "write_file"} /\ todo = FromCreate /\ IsTree(INODES) /\ mine.op \in Named
  BY <1>2, LiveTree DEF AtCreate, Writer, Named
<1>5. mine.path \in Path
  BY <1>4 DEF StorageTypes, CallTypes
<1>6. ~MOUNTED' => NODES' = RamNodes
  BY <1>3 DEF NodesInv
<1>7. CASE ~Makeable(mine.path) /\ UNCHANGED INODES /\ mine' = Idle
  <2>1. lookup(NODES, mine.path) = NoNode
    <3>1. CASE mine.op = "create_file"
      BY <3>1 DEF NodesInv, CreatesFile
    <3>2. CASE mine.op = "write_file"
      <4>1. <<>> \in Seq(Step) /\ \A x : ~Has(<<>>, x)
        BY OwedNone
      <4>2. \A x : Has(todo, x) <=> x = Just("create")
        BY <1>4, <4>1, HasCons DEF FromCreate
      <4>3. Due("create") /\ ~Due("remove")
        BY <4>2, DueOwed, StepsOf
      <4> QED BY <1>7, <3>2, <4>3 DEF NodesInv, WritesFile
    <3> QED BY <1>4, <3>1, <3>2
  <2>2. \A n \in 1 .. Len(NODES) : ~(Leads(n) /\ NODES[n].path = mine.path)
    BY <2>1, NoNodeNone
  <2> QED BY <1>3, <1>7, <2>2, PathRests
<1>8. CASE /\ Makeable(mine.path) /\ NewInode(mine.path, "file") /\ mine' = mine
           /\ Continues(Cons(Out(1), AfterCreate(mine, Lowest(FreeInodes))))
  <2> DEFINE i == Lowest(FreeInodes)
  <2>1. /\ Beside({mine.path}) /\ lookup_file(INODES', mine.path) = i
        /\ INODES'[i].size = 0 /\ i \in Inode
    BY <1>4, <1>5, <1>8, MadeBeside
  <2>2. todo' = Cons(Out(1), AfterCreate(mine, i))
    BY <1>8 DEF Continues, Leaves
  <2> HIDE DEF i
  <2>3. OnePath' /\ OthersMatch'
    BY <1>3, <1>4, <1>8, <2>1, OthersMatchAfter
  <2>4. \A x : Has(todo', x) /\ x.do \in Vital => x = IF mine.op = "create_file" THEN On("attach", i) ELSE On("write", i)
    BY <2>1, <2>2, CreatedOwes
  <2>5. CASE mine.op = "create_file"
    <3>1. ASSUME NEW j \in Inode, Has(todo', On("attach", j)) PROVE j = i
      BY <2>4, <2>5, <3>1, StepsOf DEF Vital
    <3>2. lookup(NODES, mine.path) = NoNode
      BY <2>5 DEF NodesInv, CreatesFile
    <3>3. CreatesFile'
      BY <1>3, <1>8, <2>1, <3>1, <3>2 DEF CreatesFile, Owes
    <3> QED BY <1>6, <1>8, <2>3, <2>5, <3>3 DEF NodesInv
  <2>6. CASE mine.op = "write_file"
    <3>1. \A x : Has(todo', x) /\ x.do \in Vital => x = On("write", i)
      BY <2>4, <2>6
    <3>2. \A j : ~Has(todo', On("remove", j)) /\ (\A e : ~Has(todo', Grows(j, e))) /\ (Has(todo', On("write", j)) => j = i)
      <4>1. \A j : On("remove", j).do = "remove" /\ On("write", j).do = "write" /\ On("write", j).inode = j
                   /\ \A e : Grows(j, e).do = "grow"
        BY StepsOf
      <4>2. \A j : ~Has(todo', On("remove", j))
        BY <3>1, <4>1 DEF Vital
      <4>3. \A j, e : ~Has(todo', Grows(j, e))
        BY <3>1, <4>1 DEF Vital
      <4>4. \A j : Has(todo', On("write", j)) => j = i
        BY <3>1, <4>1 DEF Vital
      <4> QED BY <4>2, <4>3, <4>4
    <3>3. ~Due("create")'
      BY <3>1, DueOwed, StepsOf DEF Vital
    <3>4. lookup(NODES, mine.path) # NoNode => NODES[lookup(NODES, mine.path)].source = "disk"
      BY <2>6 DEF NodesInv, WritesFile
    <3>5. i # NoInode
      BY <2>1, Sizes DEF Inode, NoInode
    <3>6. WritesInode'
      BY <1>8, <2>1, <3>2 DEF WritesInode, Owes
    <3>7. WritesFile'
      BY <1>3, <1>8, <2>1, <3>2, <3>3, <3>4, <3>5, <3>6 DEF WritesFile, Owes
    <3> QED BY <1>6, <1>8, <2>3, <2>6, <3>7 DEF NodesInv
  <2> QED BY <1>4, <2>5, <2>6
<1> QED BY <1>2, <1>7, <1>8

LEMMA OutOwes ==
  ASSUME NEW rest \in Seq(Step), NEW x, x.do \in Vital, todo' = Cons(Out(1), Cons(Just("bitmap"), rest))
  PROVE  Has(todo', x) <=> Has(rest, x)
<1>1. Cons(Just("bitmap"), rest) \in Seq(Step)
  BY Lists, Zenon
<1>2. x # Out(1) /\ x # Just("bitmap")
  BY StepsOf DEF Vital
<1>3. Has(Cons(Just("bitmap"), rest), x) <=> Has(rest, x)
  BY <1>2, HasCons
<1>4. Has(todo', x) <=> Has(Cons(Just("bitmap"), rest), x)
  BY <1>1, <1>2, HasCons
<1> QED BY <1>3, <1>4

\* The inode that goes is that of the path.
LEMMA RemovesInode ==
  ASSUME StorageTypes, NodesInv, NEW i \in Inode, NEW rest \in Seq(Step), todo = Cons(On("remove", i), rest), AfterRemove(mine, rest)
  PROVE  lookup_file(INODES, mine.path) = i
<1>1. Owes(On("remove", i))
  BY HasCons DEF Owes
<1>2. CASE mine.op = "write_file"
  BY <1>1, <1>2 DEF NodesInv, WritesFile
<1>3. CASE mine.op = "remove_file"
  <2>1. PICK n \in 1 .. Len(NODES) : rest = FromForget(n)
    BY <1>3 DEF AfterRemove
  <2>2. <<>> \in Seq(Step)
    OBVIOUS
  <2>3. Has(rest, Forgets(n))
    BY <2>1, <2>2, HasCons DEF FromForget
  <2>4. Owes(Forgets(n))
    BY <2>3, HasCons DEF Owes
  <2>5. NODES[n].path = mine.path /\ Matches(n) /\ NODES[n].inode = i
    BY <1>1, <1>3, <2>4 DEF NodesInv, RemovesFile
  <2> QED BY <2>5 DEF Matches
<1> QED BY <1>2, <1>3 DEF AfterRemove

LEMMA RemoveNodes ==
  ASSUME Faultless, StorageTypes, TreeInv, NodesInv, Remove(me)
  PROVE  NodesInv'
<1>1. Sole
  BY DEF Sole, Faultless
<1>2. PICK i \in Inode, rest \in Seq(Step) :
        /\ AfterRemove(mine, rest) /\ todo = Cons(On("remove", i), rest) /\ First(me) = On("remove", i)
        /\ \/ INODES[i].kind # "file" /\ UNCHANGED cache /\ Continues(<<>>) /\ mine' = Idle
           \/ /\ INODES[i].kind = "file"
              /\ Continues(Cons(Out(1), Cons(Just("bitmap"), rest))) /\ mine' = mine
  BY <1>1, FlowRemove
<1>3. NODES' = NODES /\ MOUNTED' = MOUNTED
  BY DEF Remove
<1>4. MOUNTED /\ mine.op \in {"write_file", "remove_file"} /\ mine.op \in Named /\ IsTree(INODES)
  BY <1>2, LiveTree DEF AfterRemove, Writer, Named
<1>5. INODES \in InodeTable /\ mine.path \in Seq(Word)
  BY <1>1, TablesTyped, CallTyped DEF CallRecord
<1>6. lookup_file(INODES, mine.path) = i
  BY <1>2, RemovesInode
<1>7. INODES[i].kind = "file" /\ i # NoInode
  <2>1. i # NoInode
    BY Sizes DEF Inode, NoInode
  <2> QED BY <1>5, <1>6, <2>1, ResolveType
<1>8. todo' = Cons(Out(1), Cons(Just("bitmap"), rest)) /\ mine' = mine
  <2>1. Cons(Just("bitmap"), rest) \in Seq(Step)
    BY Lists, Zenon
  <2>2. Cons(Out(1), Cons(Just("bitmap"), rest)) # <<>>
    BY <2>1, ConsFacts
  <2> QED BY <1>2, <1>7, <2>2 DEF Continues, Leaves
<1>9. INODES' = [INODES EXCEPT ![i] = Empty]
  <2>1. First(me).inode = i
    BY <1>2, StepsOf
  <2> QED BY <1>7, <2>1 DEF Remove
<1>10. i # ROOT_INODE
  BY <1>4, <1>7 DEF IsTree, Tree
<1>11. /\ Beside({p \in Seq(Word) : lookup_file(INODES, p) = i})
       /\ \A p \in Seq(Word) : lookup_file(INODES, p) = i =>
            resolve(INODES', p) = NoInode /\ split_parent(INODES', p) # NoInode
  BY <1>4, <1>7, <1>9, <1>10, GoneBeside
<1>12. {p \in Seq(Word) : lookup_file(INODES, p) = i} = {mine.path}
  <2>1. ASSUME NEW p \in Seq(Word), lookup_file(INODES, p) = i PROVE p = mine.path
    BY <1>4, <1>5, <1>6, <1>7, <2>1, OneInode
  <2> QED BY <1>5, <1>6, <2>1
<1>13. OnePath' /\ OthersMatch'
  BY <1>3, <1>4, <1>8, <1>11, <1>12, OthersMatchAfter
<1>14. \A x : x.do \in Vital => (Has(todo', x) <=> Has(rest, x))
  BY <1>8, OutOwes
<1>15. <<>> \in Seq(Step) /\ (\A x : ~Has(<<>>, x)) /\ (~MOUNTED' => NODES' = RamNodes)
  BY <1>3, OwedNone DEF NodesInv
<1>16. CASE mine.op = "write_file"
  <2>1. rest = Cons(Just("create"), <<>>)
    BY <1>2, <1>16 DEF AfterRemove, FromCreate
  <2>2. \A x : x.do \in Vital => (Has(todo', x) <=> x = Just("create"))
    BY <1>14, <1>15, <2>1, HasCons
  <2>3. \A j : ~Has(todo', On("remove", j)) /\ ~Has(todo', On("write", j)) /\ \A e : ~Has(todo', Grows(j, e))
    <3>1. /\ Just("create").do = "create" 
          /\ \A j : On("remove", j).do = "remove" /\ On("write", j).do = "write" /\ \A e : Grows(j, e).do = "grow"
      BY StepsOf
    <3>2. \A j : ~Has(todo', On("remove", j))
      BY <2>2, <3>1 DEF Vital
    <3>3. \A j : ~Has(todo', On("write", j))
      BY <2>2, <3>1 DEF Vital
    <3>4. \A j, e : ~Has(todo', Grows(j, e))
      BY <2>2, <3>1 DEF Vital
    <3> QED BY <3>2, <3>3, <3>4
  <2>4. Due("create")'
    <3>1. Just("create").do = "create" /\ Has(todo', Just("create"))
      BY <2>2, StepsOf DEF Vital
    <3> QED BY <3>1, DueOwed
  <2>5. Makeable(mine.path)'
    <3>1. INODES'[i].kind = "free"
      BY <1>5, <1>9 DEF InodeTable, Empty
    <3>2. FreeInodes' # {}
      BY <1>10, <3>1 DEF FreeInodes
    <3>3. resolve(INODES', mine.path) = NoInode /\ split_parent(INODES', mine.path) # NoInode
      BY <1>5, <1>6, <1>11
    <3> QED BY <1>8, <3>2, <3>3 DEF Makeable
  <2>6. lookup(NODES, mine.path) # NoNode => NODES[lookup(NODES, mine.path)].source = "disk"
    BY <1>16 DEF NodesInv, WritesFile
  <2>7. WritesInode'
    BY <2>3 DEF WritesInode, Owes
  <2>8. WritesFile'
    BY <1>3, <1>8, <2>3, <2>4, <2>5, <2>6, <2>7 DEF WritesFile, Owes
  <2> QED BY <1>8, <1>13, <1>15, <1>16, <2>8 DEF NodesInv
<1>17. CASE mine.op = "remove_file"
  <2>1. PICK n \in 1 .. Len(NODES) : rest = Cons(Forgets(n), <<>>)
    BY <1>2, <1>17 DEF AfterRemove, FromForget
  <2>2. \A x : x.do \in Vital => (Has(todo', x) <=> x = Forgets(n))
    BY <1>14, <1>15, <2>1, HasCons
  <2>3. /\ \A j : ~Has(todo', On("remove", j))
        /\ \A m : Has(todo', Forgets(m)) => m = n
    <3>1. \A j : On("remove", j).do = "remove" /\ Forgets(j).do = "forget" /\ Forgets(j).node = j
      BY StepsOf
    <3>2. \A j : ~Has(todo', On("remove", j))
      BY <2>2, <3>1 DEF Vital
    <3>3. \A m : Has(todo', Forgets(m)) => m = n
      BY <2>2, <3>1 DEF Vital
    <3> QED BY <3>2, <3>3
  <2>4. Leads(n) /\ NODES[n].path = mine.path
    <3>1. Has(rest, Forgets(n))
      BY <1>15, <2>1, HasCons
    <3>2. Owes(Forgets(n))
      BY <1>2, <3>1, HasCons DEF Owes
    <3> QED BY <1>17, <3>2 DEF NodesInv, RemovesFile
  <2>5. RemovesFile'
    BY <1>3, <1>8, <2>3, <2>4 DEF RemovesFile, Owes, Leads
  <2> QED BY <1>8, <1>13, <1>15, <1>17, <2>5 DEF NodesInv
<1> QED BY <1>4, <1>16, <1>17

------------------------------------------------------------------------------
(* Writing *)

LEMMA LastOwes ==
  ASSUME NEW w \in {"write_file", "write_at"}, NEW x, x.do \in Vital
  PROVE  Last(w) \in Seq(Step) /\ ~Has(Last(w), x)
<1>1. <<>> \in Seq(Step) /\ ~Has(<<>>, x)
  BY OwedNone
<1>2. x # Just("refresh") /\ x # Just("advance")
  BY StepsOf DEF Vital
<1>3. ~Has(Cons(Just("refresh"), <<>>), x) /\ ~Has(Cons(Just("advance"), <<>>), x)
  BY <1>1, <1>2, HasCons
<1> QED BY <1>3, Lists

LEMMA PiecesOwe ==
  ASSUME NEW c \in CallRecord, c.data # <<>>, c.op \in {"write_file", "write_at"}, NEW i \in Inode,
         NEW s \in InPieces(c, i, Last(c.op)), NEW x, x.do \in Vital
  PROVE  Has(s, x) <=> x = Grows(i, EndOf(c))
<1> DEFINE L == Last(c.op)  B == Cons(Just("bitmap"), L)  O == Cons(Out(1), B)  G == FromGrow(c, i, L)
<1>1. L \in Seq(Step) /\ ~Has(L, x)
  BY LastOwes
<1>2. B \in Seq(Step) /\ O \in Seq(Step)
  BY <1>1, Lists, ChunkNumbers
<1>3. G = Cons(Grows(i, EndOf(c)), O) /\ G \in Seq(Step)
        /\ \A n \in Index : Reaches(c, n) => FromStore(c, i, n, L) \in Seq(Step)
  <2>1. G \in Seq(Step) /\ \A n \in Index : Reaches(c, n) => FromStore(c, i, n, L) \in Seq(Step)
    BY <1>1, WriteLists
  <2> QED BY <2>1 DEF FromGrow
<1>4. x # Just("bitmap") /\ x # Out(1) /\ x # Just("clear")
      /\ \A n : x # At("fetch", i, n) /\ \A f, t : x # Stores(i, n, f, t)
  BY StepsOf DEF Vital
<1> HIDE DEF L
<1>5. ~Has(B, x)
  BY <1>1, <1>4, HasCons
<1> HIDE DEF B
<1>6. ~Has(O, x)
  BY <1>2, <1>4, <1>5, HasCons
<1> HIDE DEF O
<1>7. Has(G, x) <=> x = Grows(i, EndOf(c))
  BY <1>2, <1>3, <1>6, HasCons
<1> HIDE DEF G
<1>8. ASSUME NEW n \in Index, Reaches(c, n) PROVE Has(FromStore(c, i, n, L), x) <=> Has(G, x)
  <2>1. FromStore(c, i, n, L) = Cons(StoreOf(c, i, n), G)
    BY DEF FromStore, G
  <2>2. x # StoreOf(c, i, n)
    BY <1>4 DEF StoreOf
  <2> QED BY <1>3, <2>1, <2>2, HasCons
<1>9. ASSUME NEW n \in Index, Reaches(c, n)
      PROVE  /\ Has(Cons(At("fetch", i, n), FromStore(c, i, n, L)), x) <=> Has(G, x)
             /\ Has(Cons(Just("clear"), FromStore(c, i, n, L)), x) <=> Has(G, x)
  <2> DEFINE r == FromStore(c, i, n, L)
  <2>1. r \in Seq(Step) /\ (Has(r, x) <=> Has(G, x))
    BY <1>3, <1>8, <1>9
  <2> HIDE DEF r
  <2>2. (Has(Cons(At("fetch", i, n), r), x) <=> Has(G, x)) /\ (Has(Cons(Just("clear"), r), x) <=> Has(G, x))
    BY <1>4, <2>1, HasCons
  <2> QED BY <2>2 DEF r
<1>10. \/ s = G
       \/ \E n \in Index : /\ Reaches(c, n)
                           /\ \/ s = FromStore(c, i, n, L)
                              \/ s = Cons(At("fetch", i, n), FromStore(c, i, n, L))
                              \/ s = Cons(Just("clear"), FromStore(c, i, n, L))
  BY DEF InPieces, L, G
<1> QED BY <1>7, <1>8, <1>9, <1>10

\* Before its end a write_at has left the node of the file as it was.
LEMMA OpenMatches ==
  ASSUME NodesInv, mine.op = "write_at", Due("write") \/ Due("grow"), StorageTypes, Sole, Writer(mine)
  PROVE  /\ \A n \in 1 .. Len(NODES) : Leads(n) /\ NODES[n].path = mine.path => Matches(n)
         /\ Matches(file[me].node)
<1> DEFINE m == file[me].node
<1>1. Leads(m) /\ NODES[m].path = mine.path /\ Matches(m)
  BY DEF NodesInv, WritesAt
<1>2. m \in 1 .. Len(NODES)
  BY OpenNode
<1> HIDE DEF m
<1>3. OnePath
  BY DEF NodesInv
<1>4. \A n \in 1 .. Len(NODES) : Leads(n) /\ NODES[n].path = mine.path => n = m
  BY <1>1, <1>2, <1>3 DEF OnePath, Leads
<1> QED BY <1>1, <1>4 DEF m

\* The inode that is written is that of the path.
LEMMA WrittenInode ==
  ASSUME NodesInv, StorageTypes, Writer(mine), NEW i \in Inode, Has(todo, On("write", i)) \/ Has(todo, Grows(i, EndOf(mine)))
  PROVE  lookup_file(INODES, mine.path) = i
<1>1. WritesInode
  BY DEF NodesInv, WritesFile, WritesAt, Writer
<1> QED BY <1>1 DEF WritesInode, Owes

\* A write that goes on: only the file of the path can have changed, and it is still
\* under the path.
LEMMA WriteGoesOn ==
  ASSUME StorageTypes, NodesInv, Writer(mine), NODES' = NODES, MOUNTED' = MOUNTED, file' = file, mine' = mine,
         NEW i \in Inode, lookup_file(INODES, mine.path) = i, lookup_file(INODES', mine.path) = i,
         Beside({mine.path}), \A x : x.do \in Vital /\ Has(todo', x) => x = Grows(i, EndOf(mine)),
         ~Due("grow")' \/ mine.op = "write_file" \/ Matches(file[me].node)'
  PROVE  NodesInv'
<1>1. mine.op \in {"write_file", "write_at"} /\ mine.op \in Named
  BY DEF Writer, Named
<1>2. OnePath' /\ OthersMatch'
  BY <1>1, OthersMatchAfter
<1>3. ~MOUNTED' => NODES' = RamNodes
  BY DEF NodesInv
<1>4. \A w \in Vital \ {"grow"} : ~Due(w)'
  <2> SUFFICES ASSUME NEW w \in Vital \ {"grow"}, Due(w)' PROVE FALSE
    OBVIOUS
  <2>1. PICK x : Has(todo', x) /\ x.do = w
    BY DueOwed
  <2>2. x = Grows(i, EndOf(mine))
    BY <2>1
  <2> QED BY <2>1, <2>2, StepsOf
<1>5. \A j : /\ ~Has(todo', On("remove", j)) /\ ~Has(todo', On("write", j))
             /\ \A e : Has(todo', Grows(j, e)) => j = i
  <2>1. /\ \A j : On("remove", j).do = "remove" /\ On("write", j).do = "write"
        /\ \A j, e : Grows(j, e).do = "grow" /\ Grows(j, e).inode = j
    BY StepsOf
  <2>2. \A j : ~Has(todo', On("remove", j))
    BY <2>1 DEF Vital
  <2>3. \A j : ~Has(todo', On("write", j))
    BY <2>1 DEF Vital
  <2>4. \A j, e : Has(todo', Grows(j, e)) => j = i
    BY <2>1 DEF Vital
  <2> QED BY <2>2, <2>3, <2>4
<1>6. WritesInode'
  BY <1>5 DEF WritesInode, Owes
<1>7. ~Due("create")' /\ ~Due("write")'
  BY <1>4 DEF Vital
<1>8. CASE mine.op = "write_file"
  <2>1. lookup(NODES, mine.path) # NoNode => NODES[lookup(NODES, mine.path)].source = "disk"
    BY <1>8 DEF NodesInv, WritesFile
  <2>2. i # NoInode
    BY Sizes DEF Inode, NoInode
  <2>3. WritesFile'
    BY <1>5, <1>6, <1>7, <2>1, <2>2 DEF WritesFile, Owes
  <2> QED BY <1>2, <1>3, <1>8, <2>3 DEF NodesInv
<1>9. CASE mine.op = "write_at"
  <2> DEFINE n == file[me].node
  <2>1. me' = me
    BY DEF me
  <2>2. Leads(n) /\ NODES[n].path = mine.path /\ NODES[n].inode = i
    BY <1>9 DEF NodesInv, WritesAt
  <2>3. (Due("write") \/ Due("grow"))' => Matches(n)'
    BY <1>7, <1>9
  <2>4. WritesAt'
    BY <1>6, <2>1, <2>2, <2>3 DEF WritesAt, Leads, Matches
  <2> QED BY <1>2, <1>3, <1>9, <2>4 DEF NodesInv
<1> QED BY <1>1, <1>8, <1>9

LEMMA WriteNodes ==
  ASSUME Faultless, StorageTypes, TreeInv, NodesInv, Write(me)
  PROVE  NodesInv'
<1>1. Sole
  BY DEF Sole, Faultless
<1>2. PICK i \in Inode :
        /\ Writer(mine) /\ todo = Cons(On("write", i), Last(mine.op))
        /\ \/ MayFail(me) /\ UNCHANGED cache /\ Continues(<<>>) /\ mine' = Idle
           \/ mine' = mine /\ \E s \in InPieces(mine, i, Last(mine.op)) : Continues(s) /\ todo' = s
  BY <1>1, FlowWrite
<1>3. NODES' = NODES /\ MOUNTED' = MOUNTED /\ file' = file
  BY DEF Write
<1>4. mine.op \in {"write_file", "write_at"} /\ MOUNTED /\ mine.data # <<>> /\ IsTree(INODES)
  BY <1>2, LiveTree DEF Writer
<1>5. Last(mine.op) \in Seq(Step) /\ mine \in CallRecord /\ mine.path \in Seq(Word) /\ INODES \in InodeTable
  BY <1>1, <1>4, Lists, CallTyped, TablesTyped DEF CallRecord
<1>6. Has(todo, On("write", i)) /\ Due("write")
  <2>1. Has(todo, On("write", i))
    BY <1>2, <1>5, HasCons
  <2> QED BY <2>1, DueOwed, StepsOf
<1>7. lookup_file(INODES, mine.path) = i
  BY <1>2, <1>6, WrittenInode
<1>8. CASE MayFail(me) /\ UNCHANGED cache /\ mine' = Idle
  <2>1. mine.op = "write_at"
    BY <1>4, <1>8 DEF MayFail, Faultless, mine
  <2>2. \A n \in 1 .. Len(NODES) : Leads(n) /\ NODES[n].path = mine.path => Matches(n)
    BY <1>1, <1>2, <1>6, <2>1, OpenMatches
  <2>3. INODES' = INODES
    BY <1>8 DEF cache
  <2> QED BY <1>3, <1>8, <2>2, <2>3, PathRests
<1>9. ASSUME mine' = mine, NEW s \in InPieces(mine, i, Last(mine.op)), todo' = s PROVE NodesInv'
  <2>1. INODES' \in InodeTable
    BY <1>1, WriteTypes DEF StorageTypes, DataTypes
  <2>2. Beside({}) /\ lookup_file(INODES', mine.path) = i
    <3>1. \A j \in Inode : Alike(INODES[j], INODES'[j]) /\ INODES'[j].size = INODES[j].size
      BY <1>1, WriteAlike
    <3>2. Beside({}) /\ \A p \in Seq(Word) : lookup_file(INODES', p) = lookup_file(INODES, p)
      BY <1>4, <2>1, <3>1, AlikeBeside
    <3> QED BY <1>5, <1>7, <3>2
  <2>3. Beside({mine.path})
    BY <2>2 DEF Beside
  <2>4. \A x : x.do \in Vital /\ Has(todo', x) => x = Grows(i, EndOf(mine))
    BY <1>4, <1>5, <1>9, PiecesOwe
  <2>5. mine.op = "write_at" => Matches(file[me].node)'
    <3> SUFFICES ASSUME mine.op = "write_at" PROVE Matches(file[me].node)'
      OBVIOUS
    <3> DEFINE n == file[me].node
    <3>1. Matches(n) /\ Leads(n)
      BY <1>1, <1>2, <1>6, OpenMatches DEF NodesInv, WritesAt
    <3>2. n \in 1 .. Len(NODES) /\ n' = n
      BY <1>1, <1>2, <1>3, OpenNode DEF me
    <3> HIDE DEF n
    <3>3. Matches(n)'
      BY <1>3, <2>2, <3>1, <3>2, StillMatches
    <3> QED BY <3>3 DEF n
  <2> QED BY <1>2, <1>3, <1>4, <1>7, <1>9, <2>2, <2>3, <2>4, <2>5, WriteGoesOn
<1> QED BY <1>2, <1>8, <1>9

LEMMA GrowNodes ==
  ASSUME Faultless, StorageTypes, TreeInv, NodesInv, Grow(me)
  PROVE  NodesInv'
<1>1. Sole
  BY DEF Sole, Faultless
<1>2. PICK i \in Inode :
        /\ First(me) = Grows(i, EndOf(mine)) /\ Writer(mine) /\ mine' = mine
        /\ todo = FromGrow(mine, i, Last(mine.op)) /\ todo \in InPieces(mine, i, Last(mine.op))
        /\ Continues(Cons(Out(1), Cons(Just("bitmap"), Last(mine.op))))
  BY <1>1, FlowGrow
<1>3. NODES' = NODES /\ MOUNTED' = MOUNTED /\ file' = file
  BY DEF Grow
<1>4. mine.op \in {"write_file", "write_at"} /\ MOUNTED /\ mine.data # <<>> /\ IsTree(INODES)
  BY <1>2, LiveTree DEF Writer
<1>5. Last(mine.op) \in Seq(Step) /\ mine \in CallRecord /\ mine.path \in Seq(Word) /\ INODES \in InodeTable
  BY <1>1, <1>4, Lists, CallTyped, TablesTyped DEF CallRecord
<1>6. Has(todo, Grows(i, EndOf(mine)))
  <2>1. Grows(i, EndOf(mine)).do \in Vital
    BY StepsOf DEF Vital
  <2> QED BY <1>2, <1>4, <1>5, <2>1, PiecesOwe
<1>7. lookup_file(INODES, mine.path) = i
  BY <1>2, <1>6, WrittenInode
<1>8. INODES' \in InodeTable
  BY <1>1, GrowTypes DEF StorageTypes, DataTypes
<1>9. Beside({mine.path}) /\ lookup_file(INODES', mine.path) = i
  <2>1. First(me).inode = i
    BY <1>2, StepsOf
  <2>2. \A j \in Inode : Alike(INODES[j], INODES'[j]) /\ (j # i => INODES'[j].size = INODES[j].size)
    BY <2>1, GrowAlike
  <2> DEFINE S == {mine.path}
  <2>3. S \subseteq Seq(Word) /\ \A j \in Inode : INODES'[j].size = INODES[j].size \/ \E p \in S : lookup_file(INODES, p) = j
    BY <1>5, <1>7, <2>2
  <2> HIDE DEF S
  <2>4. Beside(S) /\ \A p \in Seq(Word) : lookup_file(INODES', p) = lookup_file(INODES, p)
    BY <1>4, <1>8, <2>2, <2>3, AlikeBeside
  <2> QED BY <1>5, <1>7, <2>4 DEF S
<1>10. todo' = Cons(Out(1), Cons(Just("bitmap"), Last(mine.op)))
  BY <1>2 DEF Continues, Leaves
<1>11. \A x : x.do \in Vital => ~Has(todo', x)
  <2> SUFFICES ASSUME NEW x, x.do \in Vital PROVE ~Has(todo', x)
    OBVIOUS
  <2>1. ~Has(Last(mine.op), x)
    BY <1>4, LastOwes
  <2> QED BY <1>5, <1>10, <2>1, OutOwes
<1>12. ~Due("grow")'
  BY <1>11, DueOwed DEF Vital
<1> QED BY <1>2, <1>3, <1>7, <1>9, <1>11, <1>12, WriteGoesOn

LEMMA FailsNodes ==
  ASSUME Faultless, StorageTypes, NodesInv, FlushFails(me) \/ BlockFails(me)
  PROVE  NodesInv'
<1>1. Sole
  BY DEF Sole, Faultless
<1>2. UNCHANGED <<INODES, NODES, MOUNTED>> /\ Failed(me)
  BY DEF FlushFails, BlockFails, cache
<1>3. mine' = Idle
  BY <1>1, <1>2, FailedEffect
<1>4. CASE mine.op \notin Named
  <2>1. AllMatch
    BY <1>4, AllMatched
  <2> QED BY <1>2, <1>3, <2>1, PathRests DEF AllMatch
<1>5. CASE FlushFails(me)
  <2>1. mine.op = "sync"
    BY <1>5 DEF FlushFails, Faultless, mine
  <2> QED BY <1>4, <2>1 DEF Named
<1>6. CASE BlockFails(me)
  <2>1. mine.op # "write_file" /\ (Now(me, "fetch") \/ Now(me, "store"))
    BY <1>6 DEF BlockFails, MayFail, Faultless, mine
  <2>2. todo # <<>> /\ Head(todo).do \in {"fetch", "store"} /\ mine \in CallRecord /\ Shape(mine, todo)
    BY <1>1, <2>1, CallTyped DEF Now, First, todo
  <2>3. AtPiece(mine, todo) \/ AtRead(mine, todo)
    BY <2>2, PlaceOf
  <2>4. CASE AtRead(mine, todo)
    BY <1>4, <2>4 DEF AtRead, Named
  <2>5. CASE AtPiece(mine, todo)
    <3>1. PICK i \in Inode : todo \in InPieces(mine, i, Last(mine.op))
      BY <2>5 DEF AtPiece
    <3>2. Writer(mine) /\ mine.op = "write_at" /\ mine.data # <<>>
      BY <2>1, <2>5 DEF AtPiece, Writer
    <3>3. Grows(i, EndOf(mine)).do = "grow" /\ Grows(i, EndOf(mine)).do \in Vital
      BY StepsOf DEF Vital
    <3>4. Has(todo, Grows(i, EndOf(mine)))
      BY <2>2, <3>1, <3>2, <3>3, PiecesOwe
    <3>5. Due("grow")
      BY <3>3, <3>4, DueOwed
    <3>6. \A n \in 1 .. Len(NODES) : Leads(n) /\ NODES[n].path = mine.path => Matches(n)
      BY <1>1, <3>2, <3>5, OpenMatches
    <3> QED BY <1>2, <1>3, <3>6, PathRests
  <2> QED BY <2>3, <2>4, <2>5
<1> QED BY <1>5, <1>6

------------------------------------------------------------------------------
(* What VFS does at the end of a call *)

LEMMA PathMatches ==
  ASSUME NodesInv, NEW n \in 1 .. Len(NODES), Leads(n), NODES[n].path # mine.path
  PROVE  Matches(n)
BY DEF NodesInv, OthersMatch, OfCall

\* The nodes agree with a table: a path leads to one node, and to its file.
Agree(nodes, table) ==
  \A n \in 1 .. Len(nodes) : nodes[n].used /\ nodes[n].source = "disk" =>
    /\ \A m \in 1 .. Len(nodes) : nodes[m].used /\ nodes[m].path = nodes[n].path => n = m
    /\ lookup_file(table, nodes[n].path) = nodes[n].inode
    /\ nodes[n].size = table[nodes[n].inode].size

LEMMA Agreed == (Agree(NODES, INODES) <=> OnePath /\ AllMatch) /\ (Agree(NODES', INODES') <=> OnePath' /\ AllMatch')
BY DEF Agree, OnePath, AllMatch, Leads, Matches

\* A new node for a path that has none.
LEMMA AgreeAttached ==
  ASSUME NEW nodes \in Seq(NodeRecord), NEW table, Agree(nodes, table), NEW path, lookup(nodes, path) = NoNode,
         NEW i, lookup_file(table, path) = i
  PROVE  Agree(attach_disk_node(nodes, path, i, table[i].size), table)
<1> DEFINE N == Len(nodes)
           r == [path |-> path, source |-> "disk", inode |-> i, size |-> table[i].size, used |-> TRUE]
           new == attach_disk_node(nodes, path, i, table[i].size)
<1>1. N \in Nat /\ \A n \in 1 .. N : ~(nodes[n].used /\ nodes[n].path = path)
  BY LookupType
<1>2. r.path = path /\ r.inode = i /\ r.size = table[i].size
  OBVIOUS
<1>3. new = nodes \/ new = Append(nodes, r)
  BY DEF attach_disk_node
<1> HIDE DEF r, new
<1>4. CASE new = Append(nodes, r)
  <2>1. /\ Len(new) = N + 1 /\ new[N + 1] = r /\ (\A n \in 1 .. N : new[n] = nodes[n])
        /\ \A n \in 1 .. N + 1 : n \in 1 .. N \/ n = N + 1
    BY <1>1, <1>4
  <2>2. ASSUME NEW n \in 1 .. N, new[n].used, new[n].source = "disk"
        PROVE  /\ \A m \in 1 .. N + 1 : new[m].used /\ new[m].path = new[n].path => n = m
               /\ lookup_file(table, new[n].path) = new[n].inode /\ new[n].size = table[new[n].inode].size
    <3>1. new[n] = nodes[n] /\ nodes[n].path # path
      BY <1>1, <2>1, <2>2
    <3>2. new[N + 1].path # new[n].path
      BY <1>2, <2>1, <3>1
    <3> QED BY <2>1, <2>2, <3>1, <3>2 DEF Agree
  <2>3. \A m \in 1 .. N + 1 : new[m].used /\ new[m].path = new[N + 1].path => N + 1 = m
    BY <1>1, <1>2, <2>1
  <2>4. lookup_file(table, new[N + 1].path) = new[N + 1].inode /\ new[N + 1].size = table[new[N + 1].inode].size
    BY <1>2, <2>1
  <2> HIDE DEF N
  <2>5. ASSUME NEW n \in 1 .. N + 1, new[n].used, new[n].source = "disk"
        PROVE  /\ \A m \in 1 .. N + 1 : new[m].used /\ new[m].path = new[n].path => n = m
               /\ lookup_file(table, new[n].path) = new[n].inode /\ new[n].size = table[new[n].inode].size
    <3>1. CASE n \in 1 .. N
      BY <2>2, <2>5, <3>1
    <3>2. CASE n = N + 1
      BY <2>3, <2>4, <3>2
    <3> QED BY <2>1, <3>1, <3>2
  <2>6. Agree(new, table)
    BY <2>1, <2>5 DEF Agree
  <2> QED BY <2>6 DEF new
<1>5. CASE new = nodes
  BY <1>5 DEF new
<1> QED BY <1>3, <1>4, <1>5

LEMMA Attaches ==
  ASSUME StorageTypes, NodesInv, INODES' = INODES, MOUNTED, MOUNTED' = MOUNTED, mine' = Idle,
         lookup(NODES, mine.path) = NoNode, NEW i \in Inode, lookup_file(INODES, mine.path) = i,
         NODES' = attach_disk_node(NODES, mine.path, i, INODES[i].size)
  PROVE  NodesInv'
<1>1. NODES \in Seq(NodeRecord) /\ Len(NODES) \in Nat /\ OnePath
  BY DEF StorageTypes, DataTypes, NodeLists, NodesInv
<1>2. AllMatch
  BY <1>1, LookupType, PathMatches DEF AllMatch, Leads
<1>3. OnePath' /\ AllMatch'
  BY <1>1, <1>2, Agreed, AgreeAttached
<1> QED BY <1>3, Rests

LEMMA AttachNodes ==
  ASSUME Faultless, StorageTypes, NodesInv, Attach(me)
  PROVE  NodesInv'
<1>1. Sole
  BY DEF Sole, Faultless
<1>2. Now(me, "attach") /\ Done(me) /\ INODES' = INODES /\ MOUNTED' = MOUNTED
      /\ NODES' = attach_disk_node(NODES, mine.path, First(me).inode, 0)
  BY DEF Attach, cache, mine
<1>3. todo # <<>>
  BY <1>2 DEF Now, todo
<1>4. mine' = Idle /\ MOUNTED /\ mine.op = "create_file"
      /\ \E i \in Inode : First(me) = On("attach", i) /\ todo = FromAttach(i)
  BY <1>1, <1>2, <1>3, FlowLast
<1>5. PICK i \in Inode : First(me) = On("attach", i) /\ todo = FromAttach(i)
  BY <1>4
<1>6. <<>> \in Seq(Step)
  OBVIOUS
<1>7. Owes(On("attach", i))
  BY <1>5, <1>6, HasCons DEF FromAttach, Owes
<1>8. lookup(NODES, mine.path) = NoNode /\ lookup_file(INODES, mine.path) = i /\ INODES[i].size = 0
  BY <1>4, <1>7 DEF NodesInv, CreatesFile
<1>9. NODES' = attach_disk_node(NODES, mine.path, i, INODES[i].size)
  BY <1>2, <1>5, <1>8, StepsOf
<1> QED BY <1>2, <1>4, <1>8, <1>9, Attaches

\* A node whose path, source and use stay keeps its place among the paths.
LEMMA SetsNode ==
  ASSUME StorageTypes, NodesInv, INODES' = INODES, MOUNTED, MOUNTED' = MOUNTED, mine' = Idle,
         NEW n \in 1 .. Len(NODES), Leads(n), NODES[n].path = mine.path,
         NEW r, NODES' = [NODES EXCEPT ![n] = r], r.path = mine.path, r.used = TRUE, r.source = "disk",
         lookup_file(INODES, mine.path) = r.inode, r.size = INODES[r.inode].size
  PROVE  NodesInv'
<1>1. NODES \in Seq(NodeRecord) /\ OnePath
  BY DEF StorageTypes, DataTypes, NodeLists, NodesInv
<1>2. Len(NODES') = Len(NODES) /\ NODES'[n] = r /\ \A m \in 1 .. Len(NODES) : m # n => NODES'[m] = NODES[m]
  BY <1>1
<1>3. \A m \in 1 .. Len(NODES) : /\ NODES'[m].used <=> NODES[m].used
                                 /\ NODES'[m].source = NODES[m].source /\ NODES'[m].path = NODES[m].path
  BY <1>2 DEF Leads
<1>4. OnePath'
  BY <1>1, <1>2, <1>3 DEF OnePath, Leads
<1>5. AllMatch'
  <2>1. ASSUME NEW m \in 1 .. Len(NODES), NODES'[m].used, NODES'[m].source = "disk"
        PROVE  /\ lookup_file(INODES, NODES'[m].path) = NODES'[m].inode
               /\ NODES'[m].size = INODES[NODES'[m].inode].size
    <3>1. CASE m = n
      BY <1>2, <3>1
    <3>2. CASE m # n
      <4>1. NODES'[m] = NODES[m] /\ Leads(m)
        BY <1>2, <2>1, <3>2 DEF Leads
      <4>2. NODES[m].path # mine.path
        BY <1>1, <3>2, <4>1 DEF OnePath, Leads
      <4>3. Matches(m)
        BY <4>1, <4>2, PathMatches
      <4> QED BY <4>1, <4>3 DEF Matches
    <3> QED BY <3>1, <3>2
  <2> QED BY <1>2, <2>1 DEF AllMatch, Leads, Matches
<1> QED BY <1>4, <1>5, Rests

LEMMA RefreshNodes ==
  ASSUME Faultless, StorageTypes, NodesInv, Refresh(me)
  PROVE  NodesInv'
<1>1. Sole
  BY DEF Sole, Faultless
<1>2. Now(me, "refresh") /\ Done(me) /\ INODES' = INODES /\ MOUNTED' = MOUNTED
      /\ NODES' = refresh_disk_node(NODES, INODES, mine.path)
  BY DEF Refresh, cache, mine
<1>3. todo # <<>>
  BY <1>2 DEF Now, todo
<1>4. mine' = Idle /\ Writer(mine) /\ mine.op = "write_file" /\ todo = Last("write_file")
  BY <1>1, <1>2, <1>3, FlowLast
<1> DEFINE i == lookup_file(INODES, mine.path)  n == lookup(NODES, mine.path)
<1>5. i # NoInode /\ (n # NoNode => NODES[n].source = "disk")
  <2>1. ~Due("create")
    BY <1>4, LastOwes, DueOwed DEF Vital
  <2> QED BY <1>4, <2>1 DEF NodesInv, WritesFile
<1>6. MOUNTED /\ INODES \in InodeTable /\ mine.path \in Seq(Word) /\ NODES \in Seq(NodeRecord) /\ Len(NODES) \in Nat
  BY <1>1, <1>4, TablesTyped, CallTyped DEF CallRecord, Writer, StorageTypes, DataTypes, NodeLists
<1>7. i \in Inode
  BY <1>5, <1>6, ResolveType
<1>8. n # NoNode => n \in 1 .. Len(NODES) /\ NODES[n].used /\ NODES[n].path = mine.path
  BY <1>6, LookupType
<1>9. /\ n = NoNode => NODES' = attach_disk_node(NODES, mine.path, i, INODES[i].size)
      /\ n # NoNode => NODES' = [NODES EXCEPT ![n].inode = i, ![n].size = INODES[i].size, ![n].source = "disk"]
  BY <1>2, <1>5 DEF refresh_disk_node
<1> HIDE DEF i, n
<1>10. CASE n = NoNode
  BY <1>2, <1>4, <1>6, <1>7, <1>9, <1>10, Attaches DEF i, n
<1>11. CASE n # NoNode
  <2> DEFINE r == [NODES[n] EXCEPT !.inode = i, !.size = INODES[i].size, !.source = "disk"]
  <2>1. n \in 1 .. Len(NODES) /\ Leads(n) /\ NODES[n].path = mine.path /\ NODES[n] \in NodeRecord
    BY <1>5, <1>6, <1>8, <1>11 DEF Leads, n
  <2>2. NODES' = [NODES EXCEPT ![n] = r]
    BY <1>9, <1>11, <2>1
  <2>3. r.path = mine.path /\ r.used = TRUE /\ r.source = "disk" /\ r.inode = i /\ r.size = INODES[i].size
    BY <2>1 DEF NodeRecord, Leads
  <2> HIDE DEF r
  <2>4. lookup_file(INODES, mine.path) = r.inode /\ r.size = INODES[r.inode].size
    BY <2>3 DEF i
  <2> QED BY <1>2, <1>4, <1>6, <2>1, <2>2, <2>3, <2>4, SetsNode
<1> QED BY <1>10, <1>11

LEMMA AdvanceNodes ==
  ASSUME Faultless, StorageTypes, NodesInv, Advance(me)
  PROVE  NodesInv'
<1>1. Sole
  BY DEF Sole, Faultless
<1> DEFINE n == file[me].node
<1>2. Now(me, "advance") /\ Done(me) /\ INODES' = INODES /\ MOUNTED' = MOUNTED
      /\ NODES' = [NODES EXCEPT ![n].size = INODES[NODES[n].inode].size]
  BY DEF Advance, cache
<1>3. todo # <<>>
  BY <1>2 DEF Now, todo
<1>4. mine' = Idle /\ Writer(mine) /\ mine.op = "write_at" /\ MOUNTED
  BY <1>1, <1>2, <1>3, FlowLast DEF Writer
<1>5. n \in 1 .. Len(NODES) /\ NODES[n] \in NodeRecord
  BY <1>1, <1>4, OpenNode
<1>6. Leads(n) /\ NODES[n].path = mine.path /\ lookup_file(INODES, mine.path) = NODES[n].inode
  BY <1>4 DEF NodesInv, WritesAt
<1> HIDE DEF n
<1> DEFINE r == [NODES[n] EXCEPT !.size = INODES[NODES[n].inode].size]
<1>7. NODES' = [NODES EXCEPT ![n] = r]
  BY <1>2, <1>5
<1>8. r.path = mine.path /\ r.used = TRUE /\ r.source = "disk" /\ r.inode = NODES[n].inode /\ r.size = INODES[NODES[n].inode].size
  BY <1>5, <1>6 DEF NodeRecord, Leads
<1> HIDE DEF r
<1> QED BY <1>2, <1>4, <1>5, <1>6, <1>7, <1>8, SetsNode

LEMMA ForgetNodes ==
  ASSUME Faultless, StorageTypes, NodesInv, Forget(me)
  PROVE  NodesInv'
<1>1. Sole
  BY DEF Sole, Faultless
<1>2. Now(me, "forget") /\ Done(me) /\ INODES' = INODES /\ MOUNTED' = MOUNTED
      /\ NODES' = [NODES EXCEPT ![First(me).node].used = FALSE]
  BY DEF Forget, cache
<1>3. todo # <<>>
  BY <1>2 DEF Now, todo
<1>4. mine' = Idle /\ MOUNTED /\ mine.op = "remove_file"
      /\ \E n \in 1 .. Len(NODES) : First(me) = Forgets(n) /\ todo = FromForget(n)
  BY <1>1, <1>2, <1>3, FlowLast
<1>5. PICK n \in 1 .. Len(NODES) : First(me) = Forgets(n) /\ todo = FromForget(n)
  BY <1>4
<1>6. <<>> \in Seq(Step) /\ NODES \in Seq(NodeRecord) /\ OnePath
  BY DEF StorageTypes, DataTypes, NodeLists, NodesInv
<1>7. Owes(Forgets(n))
  BY <1>5, <1>6, HasCons DEF FromForget, Owes
<1>8. Leads(n) /\ NODES[n].path = mine.path
  BY <1>4, <1>7 DEF NodesInv, RemovesFile
<1>9. NODES' = [NODES EXCEPT ![n].used = FALSE]
  <2>1. First(me).node = n
    BY <1>5, StepsOf
  <2> QED BY <1>2, <2>1
<1>10. Len(NODES') = Len(NODES) /\ NODES[n] \in NodeRecord
       /\ NODES'[n] = [NODES[n] EXCEPT !.used = FALSE] /\ \A m \in 1 .. Len(NODES) : m # n => NODES'[m] = NODES[m]
  <2>1. NODES[n] \in NodeRecord
    BY <1>6
  <2> DEFINE r == [NODES[n] EXCEPT !.used = FALSE]
  <2>2. NODES' = [NODES EXCEPT ![n] = r]
    BY <1>9
  <2> HIDE DEF r
  <2>3. Len(NODES') = Len(NODES) /\ NODES'[n] = r /\ \A m \in 1 .. Len(NODES) : m # n => NODES'[m] = NODES[m]
    BY <1>6, <2>2
  <2> QED BY <2>1, <2>3 DEF r
<1>11. NODES'[n].used = FALSE
  BY <1>10 DEF NodeRecord
<1>12. OnePath'
  <2>1. \A m \in 1 .. Len(NODES) : NODES'[m].used => m # n /\ NODES'[m] = NODES[m]
    BY <1>10, <1>11
  <2> QED BY <1>6, <1>10, <2>1 DEF OnePath, Leads
<1>13. AllMatch'
  <2>1. ASSUME NEW m \in 1 .. Len(NODES), NODES'[m].used, NODES'[m].source = "disk"
        PROVE  Matches(m) /\ NODES'[m] = NODES[m]
    <3>1. m # n /\ NODES'[m] = NODES[m] /\ Leads(m)
      BY <1>10, <1>11, <2>1 DEF Leads
    <3>2. NODES[m].path # mine.path
      BY <1>6, <1>8, <3>1 DEF OnePath, Leads
    <3> QED BY <3>1, <3>2, PathMatches
  <2> QED BY <1>2, <1>10, <2>1 DEF AllMatch, Leads, Matches
<1> QED BY <1>2, <1>4, <1>12, <1>13, Rests

LEMMA RamLeads ==
  ASSUME NEW nodes, nodes = RamNodes
  PROVE  \A n \in 1 .. Len(nodes) : nodes[n].source # "disk"
<1>1. Len(RamNodes) = Len(RamFiles) /\ \A k \in 1 .. Len(RamFiles) : RamNodes[k].source = "ram"
  BY PathsAssumption DEF RamNodes
<1> QED BY <1>1

\* Only the files of the kernel image are there.
LEMMA OnlyRam ==
  ASSUME NODES' = RamNodes, mine'.op \notin Named
  PROVE  NodesInv'
<1>1. \A n \in 1 .. Len(NODES') : NODES'[n].source # "disk"
  BY RamLeads
<1>2. OnePath' /\ OthersMatch'
  BY <1>1 DEF OnePath, OthersMatch, Leads
<1> QED BY <1>2 DEF NodesInv, Named

LEMMA WriteSuperNodes ==
  ASSUME Faultless, StorageTypes, NodesInv, WriteSuper(me)
  PROVE  NodesInv'
<1>1. Sole
  BY DEF Sole, Faultless
<1>2. ~MOUNTED /\ mine.op = "format" /\ NODES' = NODES
  BY <1>1, FlowSuper DEF WriteSuper
<1>3. mine' \in {mine, Idle}
  BY <1>1, StepCall DEF Steps
<1>4. mine'.op \notin Named
  BY <1>2, <1>3 DEF Named, Idle
<1>5. NODES' = RamNodes
  BY <1>2 DEF NodesInv
<1> QED BY <1>4, <1>5, OnlyRam

LEMMA StepsNodes ==
  ASSUME Faultless, StorageTypes, TreeInv, NodesInv, Steps(me)
  PROVE  NodesInv'
BY WaitingNodes, StoreNodes, MkdirNodes, RmdirNodes, CreateNodes, RemoveNodes, WriteNodes, GrowNodes, FailsNodes,
   AttachNodes, RefreshNodes, AdvanceNodes, ForgetNodes, WriteSuperNodes
   DEF Steps

------------------------------------------------------------------------------
(* A call begins *)

NamesSteps(op, path, steps) ==
  /\ mine'.op = op /\ mine'.path = path /\ todo' = steps
  /\ OnePath' /\ OthersMatch' /\ (~MOUNTED' => NODES' = RamNodes)
  /\ UNCHANGED <<INODES, NODES, MOUNTED, file>>

LEMMA BeginsNodes ==
  ASSUME Faultless, StorageTypes, NodesInv, UNCHANGED <<INODES, NODES, MOUNTED, file>>,
         NEW op, NEW path, NEW offset, NEW data, NEW steps, Begins(me, op, path, offset, data, steps)
  PROVE  /\ NamesSteps(op, path, steps) /\ AllMatch /\ OnePath
         /\ op \notin Named => NodesInv'
<1>1. Sole
  BY DEF Sole, Faultless
<1>2. mine'.op = op /\ mine'.path = path /\ todo' = steps /\ mine = Idle
  BY <1>1, Begun
<1>3. AllMatch /\ OnePath
  BY <1>2, AllMatched DEF Idle, Named
<1>4. OnePath' /\ OthersMatch'
  BY <1>3 DEF OnePath, AllMatch, OthersMatch, Leads, Matches
<1>5. ~MOUNTED' => NODES' = RamNodes
  BY DEF NodesInv
<1> QED BY <1>2, <1>3, <1>4, <1>5 DEF NamesSteps, NodesInv, Named

LEMMA CreateFileNodes ==
  ASSUME Faultless, StorageTypes, NodesInv, NEW path \in Path, create_file(me, path)
  PROVE  NodesInv'
<1>1. NamesSteps("create_file", path, FromCreate)
  BY BeginsNodes, FirstSteps DEF create_file, cache
<1>2. \A x : Has(FromCreate, x) => x = Just("create")
  <2>1. <<>> \in Seq(Step)
    OBVIOUS
  <2> QED BY <2>1, HasCons DEF FromCreate
<1>3. \A i : ~Has(todo', On("attach", i))
  BY <1>1, <1>2, StepsOf DEF NamesSteps
<1>4. CreatesFile'
  BY <1>1, <1>3 DEF CreatesFile, Owes, NamesSteps, create_file
<1> QED BY <1>1, <1>4 DEF NodesInv, NamesSteps

LEMMA WriteFileNodes ==
  ASSUME Faultless, StorageTypes, NodesInv, NEW path \in Path, NEW d \in Data, NEW n \in WriteSizes, write_file(me, path, Text(d, n))
  PROVE  NodesInv'
<1> DEFINE i == lookup_file(INODES, path)  m == lookup(NODES, path)
           s == (IF i = NoInode THEN <<>> ELSE <<[do |-> "remove", inode |-> i]>>) \o <<[do |-> "create"]>>
<1>1. NamesSteps("write_file", path, s) /\ AllMatch
  BY BeginsNodes DEF write_file, cache
<1>2. i \in Inode \union {NoInode} /\ FromCreate \in Seq(Step)
  BY Words, TablesTyped, ResolveType, Lists
<1>3. s = IF i = NoInode THEN FromCreate ELSE Cons(On("remove", i), FromCreate)
  BY <1>2, FirstSteps
<1>4. m # NoNode => NODES[m].source = "disk"
  BY DEF write_file
<1>5. m # NoNode => i # NoInode
  <2>0. Len(NODES) \in Nat
    BY DEF StorageTypes, DataTypes, NodeLists
  <2>1. m # NoNode => m \in 1 .. Len(NODES) /\ NODES[m].used /\ NODES[m].path = path
    BY <2>0, LookupType
  <2>2. m # NoNode => Leads(m) /\ Matches(m)
    BY <1>1, <1>4, <2>1 DEF AllMatch, Leads
  <2> QED BY <2>1, <2>2, NodeFacts DEF Matches
<1> HIDE DEF i, m, s
<1>6. \A x : Has(FromCreate, x) <=> x = Just("create")
  <2>1. <<>> \in Seq(Step)
    OBVIOUS
  <2> QED BY <2>1, HasCons DEF FromCreate
<1>7. \A x : Has(todo', x) <=> x = Just("create") \/ (i # NoInode /\ x = On("remove", i))
  BY <1>1, <1>2, <1>3, <1>6, HasCons DEF NamesSteps
<1>8. Due("create")' /\ (i # NoInode => Due("remove")')
  BY <1>7, DueOwed, StepsOf
<1>9. \A j : /\ Has(todo', On("remove", j)) => j = i
             /\ ~Has(todo', On("write", j)) /\ \A e : ~Has(todo', Grows(j, e))
  <2>1. \A j : /\ On("remove", j).do = "remove" /\ On("remove", j).inode = j /\ On("write", j).do = "write"
               /\ \A e : Grows(j, e).do = "grow"
    BY StepsOf
  <2>2. Just("create").do = "create"
    BY StepsOf
  <2> QED BY <1>7, <2>1, <2>2
<1>10. INODES' = INODES /\ NODES' = NODES /\ mine'.path = path
  BY <1>1 DEF NamesSteps
<1>11. lookup(NODES', mine'.path) = m /\ lookup_file(INODES', mine'.path) = i
  BY <1>10 DEF i, m
<1>12. WritesFile'
  BY <1>4, <1>5, <1>8, <1>9, <1>10, <1>11 DEF WritesFile, WritesInode, Owes
<1> QED BY <1>1, <1>12 DEF NodesInv, NamesSteps

LEMMA RemoveFileNodes ==
  ASSUME Faultless, StorageTypes, NodesInv, NEW path \in Path, remove_file(me, path)
  PROVE  NodesInv'
<1> DEFINE n == lookup(NODES, path)  i == NODES[n].inode
           s == <<[do |-> "remove", inode |-> i], [do |-> "forget", node |-> n]>>
<1>1. NamesSteps("remove_file", path, s) /\ AllMatch
  BY BeginsNodes DEF remove_file, cache
<1>2. n \in 1 .. Len(NODES) /\ Leads(n) /\ NODES[n].path = path
  BY LookupType DEF remove_file, Leads, StorageTypes, DataTypes, NodeLists
<1>3. Matches(n)
  BY <1>1, <1>2 DEF AllMatch
<1>4. i \in Inode /\ n \in Nat /\ <<>> \in Seq(Step)
  BY <1>2, NodeFacts
<1> HIDE DEF n
<1>5. s = Cons(On("remove", i), FromForget(n)) /\ FromForget(n) \in Seq(Step)
  BY <1>4, FirstSteps, Lists
<1> HIDE DEF i, s
<1>6. \A x : Has(todo', x) => x = On("remove", i) \/ x = Forgets(n)
  BY <1>1, <1>4, <1>5, HasCons DEF NamesSteps, FromForget
<1>7. \A j : (Has(todo', On("remove", j)) => j = i) /\ (Has(todo', Forgets(j)) => j = n)
  <2>1. \A j : /\ On("remove", j).do = "remove" /\ On("remove", j).inode = j
               /\ Forgets(j).do = "forget" /\ Forgets(j).node = j
    BY StepsOf
  <2> QED BY <1>6, <2>1
<1>8. INODES' = INODES /\ NODES' = NODES /\ mine'.path = path
  BY <1>1 DEF NamesSteps
<1>9. RemovesFile'
  BY <1>2, <1>3, <1>7, <1>8 DEF RemovesFile, Owes, Leads, Matches, i
<1> QED BY <1>1, <1>9 DEF NodesInv, NamesSteps

LEMMA WriteAtNodes ==
  ASSUME Faultless, StorageTypes, NodesInv, NEW d \in Data, NEW k \in WriteSizes, write_at(me, Text(d, k))
  PROVE  NodesInv'
<1> DEFINE n == file[me].node  i == NODES[n].inode
           s == <<[do |-> "write", inode |-> i], [do |-> "advance"]>>
<1>1. NamesSteps("write_at", NODES[n].path, s) /\ AllMatch
  BY BeginsNodes DEF write_at, cache
<1>2. n \in 1 .. Len(NODES) /\ Leads(n) /\ i \in Inode
  BY OnDiskNode DEF Sole, Faultless, write_at, OnDisk, Leads
<1>3. Matches(n)
  BY <1>1, <1>2 DEF AllMatch
<1>4. s = Cons(On("write", i), Last("write_at"))
  BY <1>2, FirstSteps
<1>5. \A x : x.do \in Vital => Last("write_at") \in Seq(Step) /\ ~Has(Last("write_at"), x)
  BY LastOwes
<1> HIDE DEF i, s
<1>6. \A x : Has(todo', x) /\ x.do \in Vital => x = On("write", i)
  BY <1>1, <1>4, <1>5, HasCons DEF NamesSteps
<1>7. \A j : (Has(todo', On("write", j)) => j = i) /\ \A e : ~Has(todo', Grows(j, e))
  <2>1. \A j : /\ On("write", j).do = "write" /\ On("write", j).inode = j
               /\ \A e : Grows(j, e).do = "grow"
    BY StepsOf
  <2> QED BY <1>6, <2>1 DEF Vital
<1>8. INODES' = INODES /\ NODES' = NODES /\ mine'.path = NODES[n].path /\ file' = file /\ me' = me
  BY <1>1 DEF NamesSteps, me
<1>9. WritesInode'
  BY <1>3, <1>7, <1>8 DEF WritesInode, Owes, Matches, i
<1>10. WritesAt'
  BY <1>2, <1>3, <1>8, <1>9 DEF WritesAt, Leads, Matches, i
<1> QED BY <1>1, <1>10 DEF NodesInv, NamesSteps

LEMMA CallsNodes ==
  ASSUME Faultless, StorageTypes, NodesInv, Calls(me)
  PROVE  NodesInv'
<1>1. Sole
  BY DEF Sole, Faultless
<1>2. CASE sync(me) \/ read(me) \/ \E path \in Path : make_directory(me, path) \/ remove_directory(me, path)
  BY <1>2, BeginsNodes DEF sync, read, make_directory, remove_directory, cache, Named
<1>3. CASE format(me)
  <2>1. ~MOUNTED /\ mine'.op = "format" /\ NODES' = NODES
    BY <1>1, <1>3, FormatTypes DEF format
  <2> QED BY <2>1, OnlyRam DEF NodesInv, Named
<1>4. ASSUME NEW path \in Path, open(me, path) PROVE NodesInv'
  <2>1. UNCHANGED <<INODES, NODES, MOUNTED>> /\ mine = Idle /\ mine' = Idle
    BY <1>4 DEF open, cache, mine, me, NoJob
  <2>2. AllMatch /\ OnePath
    BY <2>1, AllMatched DEF Idle, Named
  <2>3. AllMatch' /\ OnePath' /\ (~MOUNTED' => NODES' = RamNodes)
    BY <2>1, <2>2 DEF OnePath, AllMatch, Leads, Matches, NodesInv
  <2> QED BY <2>1, <2>3, Rests
<1> QED BY <1>2, <1>3, <1>4, CreateFileNodes, WriteFileNodes, RemoveFileNodes, WriteAtNodes DEF Calls

------------------------------------------------------------------------------
(* A boot *)

\* The loop over the inodes of the disk gives every file its path.
LEMMA MountAgrees ==
  ASSUME NEW nodes \in NodeLists, NEW table \in InodeTable, IsTree(table), Agree(nodes, table)
  PROVE  Agree(mount_disk_files(nodes, table), table)
<1>1. PICK upto : /\ upto \in [0 .. MAX_INODES -> NodeLists] /\ upto[0] = nodes
                  /\ \A i \in 1 .. MAX_INODES : upto[i] = MountTurn(upto[i - 1], table, i - 1)
                  /\ mount_disk_files(nodes, table) = upto[MAX_INODES]
  BY MountLoop
<1>2. MAX_INODES \in Nat
  BY Sizes
<1> DEFINE S == {i \in 0 .. MAX_INODES : Agree(upto[i], table)}
<1>3. 0 \in S
  BY <1>1, <1>2
<1>4. ASSUME NEW n \in 1 .. MAX_INODES, n - 1 \in S PROVE n \in S
  <2>1. n - 1 \in Inode /\ n - 1 \in 0 .. MAX_INODES /\ n \in 0 .. MAX_INODES
    BY <1>2 DEF Inode
  <2> DEFINE v == upto[n - 1]  i == n - 1  path == path_of(table, i)
  <2>2. v \in NodeLists /\ upto[n] = MountTurn(v, table, i) /\ Agree(v, table)
    BY <1>1, <1>4, <2>1
  <2>3. i \in Inode
    BY <2>1
  <2> HIDE DEF v, i
  <2>4. CASE table[i].kind = "file" /\ lookup(v, path) = NoNode
    <3>1. table[i].kind # "free" /\ i # NoInode
      BY <1>2, <2>3, <2>4 DEF Inode, NoInode
    <3>2. resolve(table, path) = i
      BY <2>3, <3>1, TreeIsConnected
    <3>3. lookup_file(table, path) = i
      BY <2>4, <3>1, <3>2 DEF lookup_file
    <3>4. v \in Seq(NodeRecord)
      BY <2>2 DEF NodeLists
    <3>5. Agree(attach_disk_node(v, path, i, table[i].size), table)
      BY <2>2, <2>4, <3>3, <3>4, AgreeAttached
    <3>6. MountTurn(v, table, i) \in {v, attach_disk_node(v, path, i, table[i].size)}
      BY DEF MountTurn
    <3> QED BY <2>1, <2>2, <3>5, <3>6
  <2>5. CASE ~(table[i].kind = "file" /\ lookup(v, path) = NoNode)
    BY <2>1, <2>2, <2>5 DEF MountTurn
  <2> QED BY <2>4, <2>5
<1> HIDE DEF S
<1>5. \A n \in 0 .. MAX_INODES : n \in S
  BY <1>2, <1>3, <1>4, InductionUpTo
<1>6. MAX_INODES \in S
  BY <1>2, <1>5
<1> QED BY <1>1, <1>2, <1>6 DEF S

LEMMA MountedNodes ==
  ASSUME Faultless, StorageTypes, TreeInv, NodesInv, mount
  PROVE  NodesInv'
<1>1. /\ NODES' = mount_disk_files(NODES, disk.inodes) /\ INODES' = disk.inodes /\ MOUNTED' = TRUE
      /\ ~MOUNTED /\ disk.formatted /\ UNCHANGED <<job, me>> /\ job[me] = NoJob
  BY DEF mount, Faultless, me
<1>2. NODES = RamNodes /\ IsTree(disk.inodes) /\ disk.inodes \in InodeTable /\ NODES \in NodeLists
  BY <1>1, TablesTyped DEF NodesInv, TreeInv, StorageTypes, DataTypes
<1>3. Agree(NODES, disk.inodes)
  BY <1>2, RamLeads DEF Agree
<1>4. Agree(NODES', INODES')
  BY <1>1, <1>2, <1>3, MountAgrees
<1>5. mine' = Idle
  BY <1>1 DEF mine, NoJob
<1> QED BY <1>1, <1>4, <1>5, Agreed, Rests

LEMMA RestNodes ==
  ASSUME Faultless, StorageTypes, TreeInv, NodesInv, mount \/ Restart \/ UNCHANGED vars
  PROVE  NodesInv'
<1>1. Sole
  BY DEF Sole, Faultless
<1>2. CASE Restart
  <2>1. NODES' = RamNodes /\ mine' = Idle
    BY <1>1, <1>2, RestartTypes DEF Restart
  <2> QED BY <2>1, OnlyRam DEF Idle, Named
<1>3. CASE UNCHANGED vars
  <2>1. UNCHANGED <<INODES, NODES, MOUNTED, file>> /\ mine' = mine /\ todo' = todo
    BY <1>1, <1>3, StutterTypes DEF vars, cache
  <2> QED BY <2>1, Waits DEF KeepsDues
<1> QED BY <1>2, <1>3, MountedNodes

LEMMA NextNodes ==
  ASSUME Faultless, StorageTypes, TreeInv, NodesInv, [Next]_vars
  PROVE  NodesInv'
<1>1. mount \/ Restart \/ Calls(me) \/ Steps(me) \/ UNCHANGED vars
  BY Actions DEF Sole, Faultless
<1> QED BY <1>1, StepsNodes, CallsNodes, RestNodes

LEMMA InitNodes ==
  ASSUME Faultless, Init
  PROVE  NodesInv
<1>1. NODES = RamNodes /\ mine = Idle
  BY InitTypes DEF Init, Sole, Faultless
<1>2. \A n \in 1 .. Len(NODES) : NODES[n].source # "disk"
  BY <1>1, RamLeads
<1> QED BY <1>1, <1>2 DEF NodesInv, OnePath, OthersMatch, Leads, Idle

LEMMA MatchFollows ==
  ASSUME Faultless, NodesInv
  PROVE  NodesMatch
<1>1. ASSUME NEW n \in 1 .. Len(NODES), Leads(n), \A u \in User : job[u].call.path # NODES[n].path
      PROVE  Matches(n)
  <2>1. ~OfCall(NODES[n].path)
    BY <1>1 DEF Faultless, OfCall, mine
  <2> QED BY <1>1, <2>1 DEF NodesInv, OthersMatch
<1> QED BY <1>1 DEF NodesMatch, Leads, Matches

\* A path that VFS has for the disk leads to the inode of that path and knows the
\* size of the file, through create_file, write_file, remove_file, write_at and a
\* boot, of which each changes the inode table and the nodes in steps of their
\* own: with no failure in the middle of a call, only a call on the very path
\* finds it otherwise.
THEOREM InStep ==
  ASSUME Faultless
  PROVE  Spec => []NodesMatch
<1> DEFINE I == StorageTypes /\ BlocksInv /\ TreeInv /\ NodesInv
<1>1. Sole
  BY DEF Sole, Faultless
<1>2. Init => I
  BY <1>1, InitTypes, InitBlocks, InitTree, InitNodes
<1>3. I /\ [Next]_vars => I'
  BY <1>1, NextTypes, NextBlocks, NextTree, NextNodes
<1>4. I => NodesMatch
  BY MatchFollows
<1> QED BY <1>2, <1>3, <1>4, PTL DEF Spec
====
