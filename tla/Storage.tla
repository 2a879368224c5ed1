------------------------------ MODULE Storage ------------------------------
(***************************************************************************)
(* The writable file system TCMKFS (src/kernel/src/level0a/core/tcmkfs.rs) *)
(* and the table of paths VFS keeps over it (core/vfs.rs).                 *)
(*                                                                         *)
(* TCMKFS holds its inode table and its bitmap in memory and writes them   *)
(* through; every read and write of the drive may wait, and the machine    *)
(* may lose its power there.  A call is therefore a list of steps, of      *)
(* which each ends at the drive at the latest.  Faulty_x is a mistake in x *)
(* that a run has to find.                                                 *)
(***************************************************************************)
EXTENDS Integers, Sequences, FiniteSets

CONSTANTS
  User,            \* the tasks that call the file system
  Path,            \* the paths they use: sequences of names
  Data,            \* what a cell of a file can hold besides Zero
  MAX_INODES,
  TOTAL_BLOCKS,    \* what capacity_blocks makes of the partition
  BLOCK_SIZE,      \* in cells
  DIRECT_BLOCKS,
  MAX_DEPTH,
  MAX_NODES,
  ChunkInodes,     \* inodes that one write of flush_inodes covers
  RamFiles,        \* the paths of the files in the kernel image
  Skeleton,        \* the directories format makes
  WriteSizes,      \* bound: the lengths of the writes
  MaxCalls,        \* bound: calls, losses of power counted
  Ops              \* what an instance lets happen, see OpsAssumption

\* Each of these leads to one of the states the README describes:
\*   torn           the power fails between the inode table and the bitmap
\*   flush_error    a write of the table or the bitmap fails in another call than sync
\*   rewrite_fails  the data of write_file does not fit or is not written
\*   reformat       a disk whose files are in use is formatted
ASSUME OpsAssumption == Ops \subseteq {"torn", "flush_error", "rewrite_fails", "reformat"}
ASSUME SizesAssumption ==
  /\ {MAX_INODES, TOTAL_BLOCKS, BLOCK_SIZE, DIRECT_BLOCKS, ChunkInodes} \subseteq Nat \ {0}
  /\ {MAX_DEPTH, MAX_NODES, MaxCalls} \subseteq Nat
  /\ WriteSizes \subseteq Nat \ {0}
ASSUME PathsAssumption ==
  /\ Path \subseteq Seq(STRING) /\ Skeleton \in Seq(Path)
  /\ RamFiles \in Seq(Seq(STRING)) /\ Len(RamFiles) <= MAX_NODES
  /\ \A path \in Path : \A k \in 1 .. Len(path) : path[k] # "/"
ASSUME DataAssumption == -1 \notin Data   \* it is in the content of no file

VARIABLES
  INODES, BITMAP, FREE_BLOCKS, SCRATCH, MOUNTED,   \* what tcmkfs.rs has in memory
  NODES,      \* the nodes of vfs.rs
  disk,       \* the partition: superblock written, inode table, bitmap, blocks
  file,       \* per user, an open file: its node and the offset
  job,        \* per user, the call in progress and the steps left of it
  calls       \* calls so far

cache == <<INODES, BITMAP, FREE_BLOCKS>>
vars == <<cache, SCRATCH, MOUNTED, NODES, disk, file, job, calls>>

------------------------------------------------------------------------------
(* Inodes and paths *)

Inode == 0 .. MAX_INODES - 1
Block == 0 .. TOTAL_BLOCKS - 1
Cell == 0 .. BLOCK_SIZE - 1
Zero == 0
Content == [Cell -> Data \union {Zero}]
Blank == [k \in Cell |-> Zero]

ROOT_INODE == 0
NoInode == -1
MAX_FILE_SIZE == DIRECT_BLOCKS * BLOCK_SIZE

\* All bytes zero; a name of zero bytes is "-".
Empty == [kind |-> "free", size |-> 0, parent |-> ROOT_INODE, name |-> "-",
          blocks |-> [k \in 0 .. DIRECT_BLOCKS - 1 |-> 0]]
Root == [Empty EXCEPT !.kind = "dir"]

block_count(size) == (size + BLOCK_SIZE - 1) \div BLOCK_SIZE

\* The blocks of an inode.
Owned(inode) ==
  IF inode.kind = "file" THEN {inode.blocks[k] : k \in 0 .. block_count(inode.size) - 1} ELSE {}

Lowest(S) == CHOOSE i \in S : \A j \in S : i <= j

child_of(table, dir, name) ==
  LET children == {i \in Inode \ {ROOT_INODE} :
                     table[i].kind # "free" /\ table[i].parent = dir /\ table[i].name = name}
  IN  IF children = {} THEN NoInode ELSE Lowest(children)

\* From the root down, one name after the other.
resolve(table, path) ==
  LET at[n \in 0 .. Len(path)] ==
        IF n = 0 THEN ROOT_INODE
        ELSE LET dir == at[n - 1]
             IN  IF dir = NoInode \/ table[dir].kind # "dir" THEN NoInode ELSE child_of(table, dir, path[n])
  IN  IF Len(path) > MAX_DEPTH THEN NoInode ELSE at[Len(path)]

\* The inode of a file, as opposed to a directory.
lookup_file(table, path) ==
  LET i == resolve(table, path) IN IF i # NoInode /\ table[i].kind = "file" THEN i ELSE NoInode

\* The directory a new path would be in.
split_parent(table, path) ==
  IF path = <<>> \/ Len(path) > MAX_DEPTH THEN NoInode
  ELSE LET dir == resolve(table, SubSeq(path, 1, Len(path) - 1))
       IN  IF dir # NoInode /\ table[dir].kind = "dir" THEN dir ELSE NoInode

\* No path: a name has no "/".
NoPath == <<"/">>

\* From the inode up to the root.
path_of(table, i) ==
  LET up[n \in 0 .. MAX_DEPTH] == IF n = 0 THEN i ELSE table[up[n - 1]].parent
      depths == {n \in 0 .. MAX_DEPTH : up[n] = ROOT_INODE}
  IN  IF depths = {} THEN NoPath
      ELSE [k \in 1 .. Lowest(depths) |-> table[up[Lowest(depths) - k]].name]

------------------------------------------------------------------------------
(* The nodes of VFS *)

RamNodes == [k \in 1 .. Len(RamFiles) |->
               [path |-> RamFiles[k], source |-> "ram", inode |-> NoInode, size |-> 0, used |-> TRUE]]

NoNode == 0

\* node is the first of its path that is in use.
lookup(nodes, path) ==
  LET found == {n \in 1 .. Len(nodes) : nodes[n].used /\ nodes[n].path = path}
  IN  IF found = {} THEN NoNode ELSE Lowest(found)

\* A full table takes no node; one that is given up is not used again.
attach_disk_node(nodes, path, i, size) ==
  IF Len(nodes) >= MAX_NODES THEN nodes
  ELSE Append(nodes, [path |-> path, source |-> "disk", inode |-> i, size |-> size, used |-> TRUE])

\* The files of the disk in the order of their inodes; a path of the kernel
\* image is not hidden by one of the disk.
mount_disk_files(nodes, table) ==
  LET upto[i \in 0 .. MAX_INODES] ==
        IF i = 0 THEN nodes
        ELSE LET before == upto[i - 1]
                 path == path_of(table, i - 1)
             IN  IF table[i - 1].kind # "file" \/ path = NoPath \/ lookup(before, path) # NoNode
                 THEN before
                 ELSE attach_disk_node(before, path, i - 1, table[i - 1].size)
  IN  upto[MAX_INODES]

\* Fault: a path that is there already keeps its inode.
Faulty_refresh_disk_node(nodes, table, path) ==
  LET i == lookup_file(table, path)
      n == lookup(nodes, path)
  IN  CASE i = NoInode -> nodes
        [] i # NoInode /\ n # NoNode -> [nodes EXCEPT ![n].size = table[i].size]
        [] OTHER -> attach_disk_node(nodes, path, i, table[i].size)

refresh_disk_node(nodes, table, path) ==
  LET i == lookup_file(table, path)
      n == lookup(nodes, path)
  IN  CASE i = NoInode -> nodes
        [] i # NoInode /\ n # NoNode ->
             [nodes EXCEPT ![n].inode = i, ![n].size = table[i].size, ![n].source = "disk"]
        [] OTHER -> attach_disk_node(nodes, path, i, table[i].size)

------------------------------------------------------------------------------
(* Steps of a call *)

Idle == [op |-> "idle", path |-> <<>>, offset |-> 0, data |-> <<>>, was |-> <<>>]
NoJob == [call |-> Idle, steps |-> <<>>]

Chunks == (MAX_INODES + ChunkInodes - 1) \div ChunkInodes
ChunkOf(i) == i \div ChunkInodes + 1

\* The table goes out chunk by chunk: WriteInodes leaves the next one.
flush_inodes == <<[do |-> "inodes", chunk |-> 1]>>
flush_bitmap == <<[do |-> "bitmap"]>>

First(u) == Head(job[u].steps)
Now(u, do) == job[u].steps # <<>> /\ First(u).do = do

\* The step is done and leaves the steps before the rest; a call without steps
\* is over.
Left(u, before) ==
  LET steps == before \o Tail(job[u].steps)
  IN  job' = [job EXCEPT ![u] = IF steps = <<>> THEN NoJob ELSE [@ EXCEPT !.steps = steps]]
Done(u) == Left(u, <<>>)

\* An error ends the call.
Failed(u) == job' = [job EXCEPT ![u] = NoJob]

WriteInodes(u) ==
  /\ Now(u, "inodes")
  /\ disk' = [disk EXCEPT !.inodes = [i \in Inode |-> IF ChunkOf(i) = First(u).chunk THEN INODES[i] ELSE @[i]]]
  /\ Left(u, IF First(u).chunk < Chunks THEN <<[First(u) EXCEPT !.chunk = @ + 1]>> ELSE <<>>)
  /\ UNCHANGED <<cache, SCRATCH, MOUNTED, NODES, file, calls>>

WriteBitmap(u) ==
  /\ Now(u, "bitmap")
  /\ disk' = [disk EXCEPT !.bitmap = BITMAP]
  /\ Done(u)
  /\ UNCHANGED <<cache, SCRATCH, MOUNTED, NODES, file, calls>>

FlushFails(u) ==
  /\ job[u].call.op = "sync" \/ "flush_error" \in Ops
  /\ Now(u, "inodes") \/ Now(u, "bitmap")
  /\ Failed(u)
  /\ UNCHANGED <<cache, SCRATCH, MOUNTED, NODES, disk, file, calls>>

\* allocate_inode: the lowest that is free, the root never.
FreeInodes == {i \in Inode \ {ROOT_INODE} : INODES[i].kind = "free"}

NewInode(path, kind) ==
  INODES' = [INODES EXCEPT ![Lowest(FreeInodes)] =
               [Empty EXCEPT !.kind = kind, !.parent = split_parent(INODES, path), !.name = path[Len(path)]]]

\* tcmkfs::create and mkdir: then says what follows once the table is flushed.
Makeable(path) ==
  resolve(INODES, path) = NoInode /\ split_parent(INODES, path) # NoInode /\ FreeInodes # {}

Create(u) ==
  /\ Now(u, "create")
  /\ LET c == job[u].call
     IN  IF ~Makeable(c.path) THEN Failed(u) /\ UNCHANGED INODES
         ELSE /\ NewInode(c.path, "file")
              /\ Left(u, flush_inodes
                          \o (IF c.op = "create_file"
                              THEN <<[do |-> "attach", inode |-> Lowest(FreeInodes)]>>
                              ELSE <<[do |-> "write", inode |-> Lowest(FreeInodes)], [do |-> "refresh"]>>))
  /\ UNCHANGED <<BITMAP, FREE_BLOCKS, SCRATCH, MOUNTED, NODES, disk, file, calls>>

\* Of format: the k-th directory and those after it.
Directories(k) == IF k <= Len(Skeleton) THEN <<[do |-> "mkdir", nth |-> k]>> ELSE <<>>

mkdir(u) ==
  /\ Now(u, "mkdir")
  /\ LET c == job[u].call
         nth == First(u).nth
         path == IF c.op = "format" THEN Skeleton[nth] ELSE c.path
     IN  IF ~Makeable(path) THEN Failed(u) /\ UNCHANGED INODES
         ELSE /\ NewInode(path, "dir")
              /\ Left(u, flush_inodes \o (IF c.op = "format" THEN Directories(nth + 1) ELSE <<>>))
  /\ UNCHANGED <<BITMAP, FREE_BLOCKS, SCRATCH, MOUNTED, NODES, disk, file, calls>>

\* Fault: files are left without a directory.
Faulty_IsEmptyDir(i) == i \notin {NoInode, ROOT_INODE} /\ INODES[i].kind = "dir"

IsEmptyDir(i) ==
  /\ i \notin {NoInode, ROOT_INODE}
  /\ INODES[i].kind = "dir"
  /\ \A j \in Inode \ {i} : INODES[j].kind = "free" \/ INODES[j].parent # i

rmdir(u) ==
  /\ Now(u, "rmdir")
  /\ LET i == resolve(INODES, job[u].call.path)
     IN  IF ~IsEmptyDir(i) THEN Failed(u) /\ UNCHANGED INODES
         ELSE INODES' = [INODES EXCEPT ![i] = Empty] /\ Left(u, flush_inodes)
  /\ UNCHANGED <<BITMAP, FREE_BLOCKS, SCRATCH, MOUNTED, NODES, disk, file, calls>>

\* tcmkfs::remove.
Remove(u) ==
  /\ Now(u, "remove")
  /\ LET i == First(u).inode
         freed == Owned(INODES[i]) \intersect BITMAP
     IN  IF INODES[i].kind # "file" THEN Failed(u) /\ UNCHANGED cache
         ELSE /\ BITMAP' = BITMAP \ freed
              /\ FREE_BLOCKS' = FREE_BLOCKS + Cardinality(freed)
              /\ INODES' = [INODES EXCEPT ![i] = Empty]
              /\ Left(u, flush_inodes \o flush_bitmap)
  /\ UNCHANGED <<SCRATCH, MOUNTED, NODES, disk, file, calls>>

------------------------------------------------------------------------------
(* Writing and reading *)

\* The blocks a file of this size needs besides those it has, the lowest free
\* ones in their order.
Missing(inode, end) == block_count(inode.size) .. block_count(end) - 1

FreeBlocks == Block \ BITMAP

\* The one that has k of the set below it.
NthLowest(S, k) == CHOOSE b \in S : Cardinality({c \in S : c < b}) = k

\* Fault: the blocks are counted, but stay free in the bitmap.
Faulty_alloc_blocks(i, end) ==
  LET first == block_count(INODES[i].size)
  IN  /\ INODES' = [INODES EXCEPT ![i].blocks =
                      [k \in DOMAIN @ |-> IF k \in Missing(INODES[i], end)
                                         THEN NthLowest(FreeBlocks, k - first) ELSE @[k]]]
      /\ FREE_BLOCKS' = FREE_BLOCKS - Cardinality(Missing(INODES[i], end))
      /\ UNCHANGED BITMAP

alloc_blocks(i, end) ==
  LET first == block_count(INODES[i].size)
      taken == [k \in Missing(INODES[i], end) |-> NthLowest(FreeBlocks, k - first)]
  IN  /\ INODES' = [INODES EXCEPT ![i].blocks =
                      [k \in DOMAIN @ |-> IF k \in DOMAIN taken THEN taken[k] ELSE @[k]]]
      /\ BITMAP' = BITMAP \union {taken[k] : k \in DOMAIN taken}
      /\ FREE_BLOCKS' = FREE_BLOCKS - Cardinality(DOMAIN taken)

\* The part of the data that goes into the k-th block of the file: one step, or
\* two where the block has to be read or cleared first.
Piece(i, k, offset, len, have) ==
  LET from == IF offset > k * BLOCK_SIZE THEN offset - k * BLOCK_SIZE ELSE 0
      to == IF offset + len < (k + 1) * BLOCK_SIZE THEN offset + len - k * BLOCK_SIZE ELSE BLOCK_SIZE
      store == [do |-> "store", inode |-> i, nth |-> k, from |-> from, to |-> to]
  IN  CASE to - from = BLOCK_SIZE -> <<store>>
        [] to - from < BLOCK_SIZE /\ k < have -> <<[do |-> "fetch", inode |-> i, nth |-> k], store>>
        [] OTHER -> <<[do |-> "clear"], store>>

\* Fault: the file has its new size before its data.
Faulty_WriteSteps(i, offset, len, have) ==
  <<[do |-> "grow", inode |-> i, end |-> offset + len]>>
    \o Piece(i, offset \div BLOCK_SIZE, offset, len, have) \o flush_inodes \o flush_bitmap

\* The first of the pieces: Store leaves the next one.
WriteSteps(i, offset, len, have) ==
  Piece(i, offset \div BLOCK_SIZE, offset, len, have)
    \o <<[do |-> "grow", inode |-> i, end |-> offset + len]>> \o flush_inodes \o flush_bitmap

MayFail(u) == job[u].call.op = "write_file" => "rewrite_fails" \in Ops

\* tcmkfs::write: all its blocks, or none of them.
Write(u) ==
  /\ Now(u, "write")
  /\ LET c == job[u].call
         i == First(u).inode
         end == c.offset + Len(c.data)
     IN  IF INODES[i].kind # "file" \/ end > MAX_FILE_SIZE
            \/ Cardinality(Missing(INODES[i], end)) > Cardinality(FreeBlocks)
         THEN MayFail(u) /\ Failed(u) /\ UNCHANGED cache
         ELSE /\ alloc_blocks(i, end)
              /\ Left(u, WriteSteps(i, c.offset, Len(c.data), block_count(INODES[i].size)))
  /\ UNCHANGED <<SCRATCH, MOUNTED, NODES, disk, file, calls>>

\* read_block into the one buffer all calls share.
Fetch(u) ==
  /\ Now(u, "fetch")
  /\ SCRATCH' = disk.data[INODES[First(u).inode].blocks[First(u).nth]]
  /\ Done(u)
  /\ UNCHANGED <<cache, MOUNTED, NODES, disk, file, calls>>

Clear(u) ==
  /\ Now(u, "clear")
  /\ SCRATCH' = Blank
  /\ Done(u)
  /\ UNCHANGED <<cache, MOUNTED, NODES, disk, file, calls>>

\* The data is put into the buffer and the buffer on the disk.
Store(u) ==
  /\ Now(u, "store")
  /\ LET s == First(u)
         c == job[u].call
     IN  /\ SCRATCH' = [k \in Cell |-> IF k \in s.from .. s.to - 1
                                       THEN c.data[s.nth * BLOCK_SIZE + k - c.offset + 1] ELSE SCRATCH[k]]
         /\ disk' = [disk EXCEPT !.data[INODES[s.inode].blocks[s.nth]] = SCRATCH']
         /\ Left(u, IF (s.nth + 1) * BLOCK_SIZE < c.offset + Len(c.data)
                    THEN Piece(s.inode, s.nth + 1, c.offset, Len(c.data), block_count(INODES[s.inode].size))
                    ELSE <<>>)
  /\ UNCHANGED <<cache, MOUNTED, NODES, file, calls>>

\* A block that cannot be read or written ends the call.
BlockFails(u) ==
  /\ Now(u, "fetch") \/ Now(u, "store")
  /\ MayFail(u)
  /\ Failed(u)
  /\ UNCHANGED <<cache, SCRATCH, MOUNTED, NODES, disk, file, calls>>

Grow(u) ==
  /\ Now(u, "grow")
  /\ INODES' = [INODES EXCEPT ![First(u).inode].size = IF First(u).end > @ THEN First(u).end ELSE @]
  /\ Done(u)
  /\ UNCHANGED <<BITMAP, FREE_BLOCKS, SCRATCH, MOUNTED, NODES, disk, file, calls>>

\* What was read goes to the caller.
Take(u) ==
  /\ Now(u, "take")
  /\ Done(u)
  /\ UNCHANGED <<cache, SCRATCH, MOUNTED, NODES, disk, file, calls>>

------------------------------------------------------------------------------
(* What VFS does at the end *)

\* A file that gets no node stays on the disk.
Attach(u) ==
  /\ Now(u, "attach")
  /\ NODES' = attach_disk_node(NODES, job[u].call.path, First(u).inode, 0)
  /\ Done(u)
  /\ UNCHANGED <<cache, SCRATCH, MOUNTED, disk, file, calls>>

Refresh(u) ==
  /\ Now(u, "refresh")
  /\ NODES' = refresh_disk_node(NODES, INODES, job[u].call.path)
  /\ Done(u)
  /\ UNCHANGED <<cache, SCRATCH, MOUNTED, disk, file, calls>>

\* write_at: the node takes over the size, and the offset of the file moves on.
Advance(u) ==
  /\ Now(u, "advance")
  /\ NODES' = [NODES EXCEPT ![file[u].node].size = INODES[NODES[file[u].node].inode].size]
  /\ file' = [file EXCEPT ![u].offset = @ + Len(job[u].call.data)]
  /\ Done(u)
  /\ UNCHANGED <<cache, SCRATCH, MOUNTED, disk, calls>>

Forget(u) ==
  /\ Now(u, "forget")
  /\ NODES' = [NODES EXCEPT ![First(u).node].used = FALSE]
  /\ Done(u)
  /\ UNCHANGED <<cache, SCRATCH, MOUNTED, disk, file, calls>>

WriteSuper(u) ==
  /\ Now(u, "super")
  /\ disk' = [disk EXCEPT !.formatted = TRUE]
  /\ MOUNTED' = TRUE
  /\ Done(u)
  /\ UNCHANGED <<cache, SCRATCH, NODES, file, calls>>

------------------------------------------------------------------------------
(* Calls *)

\* The files there are: in memory once mounted, else what a mount would find.
Table == IF MOUNTED THEN INODES ELSE IF disk.formatted THEN disk.inodes ELSE [i \in Inode |-> Empty]
Absent == <<-1>>   \* no content of a file
ContentOf(inode) ==
  [k \in 1 .. inode.size |-> disk.data[inode.blocks[(k - 1) \div BLOCK_SIZE]][(k - 1) % BLOCK_SIZE]]
Files ==
  [p \in Path |-> LET i == lookup_file(Table, p) IN IF i = NoInode THEN Absent ELSE ContentOf(Table[i])]

\* A user that is in no call begins one.
Begins(u, op, path, offset, data, steps) ==
  /\ job[u] = NoJob
  /\ calls < MaxCalls
  /\ calls' = calls + 1
  /\ job' = [job EXCEPT ![u] =
       [call |-> [op |-> op, path |-> path, offset |-> offset, data |-> data,
                  was |-> IF path \in Path THEN Files[path] ELSE Absent],
        steps |-> steps]]

Text(d, n) == [k \in 1 .. n |-> d]

create_file(u, path) ==
  /\ MOUNTED
  /\ lookup(NODES, path) = NoNode
  /\ Begins(u, "create_file", path, 0, <<>>, <<[do |-> "create"]>>)
  /\ UNCHANGED <<cache, SCRATCH, MOUNTED, NODES, disk, file>>

\* write_file: the file is removed and made again.
write_file(u, path, data) ==
  /\ MOUNTED
  /\ LET n == lookup(NODES, path) IN n # NoNode => NODES[n].source = "disk"
  /\ LET i == lookup_file(INODES, path)
     IN  Begins(u, "write_file", path, 0, data,
                (IF i = NoInode THEN <<>> ELSE <<[do |-> "remove", inode |-> i]>>) \o <<[do |-> "create"]>>)
  /\ UNCHANGED <<cache, SCRATCH, MOUNTED, NODES, disk, file>>

remove_file(u, path) ==
  /\ MOUNTED
  /\ LET n == lookup(NODES, path)
     IN  /\ n # NoNode /\ NODES[n].source = "disk"
         /\ Begins(u, "remove_file", path, 0, <<>>,
                   <<[do |-> "remove", inode |-> NODES[n].inode], [do |-> "forget", node |-> n]>>)
  /\ UNCHANGED <<cache, SCRATCH, MOUNTED, NODES, disk, file>>

make_directory(u, path) ==
  /\ MOUNTED
  /\ Begins(u, "mkdir", path, 0, <<>>, <<[do |-> "mkdir", nth |-> 1]>>)
  /\ UNCHANGED <<cache, SCRATCH, MOUNTED, NODES, disk, file>>

remove_directory(u, path) ==
  /\ MOUNTED
  /\ Begins(u, "rmdir", path, 0, <<>>, <<[do |-> "rmdir"]>>)
  /\ UNCHANGED <<cache, SCRATCH, MOUNTED, NODES, disk, file>>

sync(u) ==
  /\ MOUNTED
  /\ Begins(u, "sync", <<>>, 0, <<>>, flush_inodes \o flush_bitmap)
  /\ UNCHANGED <<cache, SCRATCH, MOUNTED, NODES, disk, file>>

\* open of a path that is there.
open(u, path) ==
  /\ job[u] = NoJob
  /\ lookup(NODES, path) # NoNode
  /\ file' = [file EXCEPT ![u] = [node |-> lookup(NODES, path), offset |-> 0]]
  /\ UNCHANGED <<cache, SCRATCH, MOUNTED, NODES, disk, job, calls>>

\* The node of the open file, if it is one of the disk that is still in use.
OnDisk(u) == file[u].node # NoNode /\ NODES[file[u].node].used /\ NODES[file[u].node].source = "disk"

write_at(u, data) ==
  /\ MOUNTED /\ OnDisk(u)
  /\ Begins(u, "write_at", NODES[file[u].node].path, file[u].offset, data,
            <<[do |-> "write", inode |-> NODES[file[u].node].inode], [do |-> "advance"]>>)
  /\ UNCHANGED <<cache, SCRATCH, MOUNTED, NODES, disk, file>>

\* One block of a read.
read(u) ==
  /\ MOUNTED /\ OnDisk(u)
  /\ LET i == NODES[file[u].node].inode
     IN  /\ INODES[i].kind = "file" /\ file[u].offset < INODES[i].size
         /\ Begins(u, "read", NODES[file[u].node].path, file[u].offset, <<>>,
                   <<[do |-> "fetch", inode |-> i, nth |-> file[u].offset \div BLOCK_SIZE],
                     [do |-> "take", inode |-> i, nth |-> file[u].offset \div BLOCK_SIZE]>>)
  /\ UNCHANGED <<cache, SCRATCH, MOUNTED, NODES, disk, file>>

format(u) ==
  /\ disk.formatted => "reformat" \in Ops
  /\ Begins(u, "format", <<>>, 0, <<>>,
            flush_inodes \o flush_bitmap \o <<[do |-> "super"]>> \o Directories(1))
  /\ INODES' = [i \in Inode |-> IF i = ROOT_INODE THEN Root ELSE Empty]
  /\ BITMAP' = {} /\ FREE_BLOCKS' = TOTAL_BLOCKS
  /\ UNCHANGED <<SCRATCH, MOUNTED, NODES, disk, file>>

\* At boot: the count of free blocks is taken from the bitmap.
mount ==
  /\ ~MOUNTED /\ disk.formatted
  /\ \A u \in User : job[u] = NoJob
  /\ INODES' = disk.inodes /\ BITMAP' = disk.bitmap
  /\ FREE_BLOCKS' = Cardinality(Block \ disk.bitmap)
  /\ MOUNTED' = TRUE
  /\ NODES' = mount_disk_files(NODES, disk.inodes)
  /\ UNCHANGED <<SCRATCH, disk, file, job, calls>>

\* The inode table on the disk has a block the bitmap there calls free.
Torn == ~UNION {Owned(disk.inodes[i]) : i \in Inode} \subseteq disk.bitmap

\* External: the power fails and the machine starts again.
Restart ==
  /\ calls < MaxCalls
  /\ Torn => "torn" \in Ops
  /\ calls' = calls + 1
  /\ INODES' = [i \in Inode |-> Empty] /\ BITMAP' = {} /\ FREE_BLOCKS' = 0
  /\ SCRATCH' = Blank /\ MOUNTED' = FALSE /\ NODES' = RamNodes
  /\ file' = [u \in User |-> [node |-> NoNode, offset |-> 0]]
  /\ job' = [u \in User |-> NoJob]
  /\ UNCHANGED disk

Init ==
  /\ INODES = [i \in Inode |-> Empty] /\ BITMAP = {} /\ FREE_BLOCKS = 0
  /\ SCRATCH = Blank /\ MOUNTED = FALSE /\ NODES = RamNodes
  /\ disk = [formatted |-> FALSE, inodes |-> [i \in Inode |-> Empty], bitmap |-> {},
             data |-> [b \in Block |-> Blank]]
  /\ file = [u \in User |-> [node |-> NoNode, offset |-> 0]]
  /\ job = [u \in User |-> NoJob]
  /\ calls = 0

Calls(u) ==
  \/ sync(u) \/ format(u) \/ read(u)
  \/ \E path \in Path :
       \/ create_file(u, path) \/ remove_file(u, path) \/ open(u, path)
       \/ make_directory(u, path) \/ remove_directory(u, path)
       \/ \E d \in Data, n \in WriteSizes : write_file(u, path, Text(d, n))
  \/ \E d \in Data, n \in WriteSizes : write_at(u, Text(d, n))

Steps(u) ==
  \/ WriteInodes(u) \/ WriteBitmap(u) \/ FlushFails(u) \/ WriteSuper(u)
  \/ Create(u) \/ mkdir(u) \/ rmdir(u) \/ Remove(u)
  \/ Write(u) \/ Fetch(u) \/ Clear(u) \/ Store(u) \/ BlockFails(u) \/ Grow(u) \/ Take(u)
  \/ Attach(u) \/ Refresh(u) \/ Advance(u) \/ Forget(u)

Next == mount \/ Restart \/ \E u \in User : Calls(u) \/ Steps(u)

Spec == Init /\ [][Next]_vars

------------------------------------------------------------------------------
(* Properties *)

\* Type invariant; the count of free blocks is that of the bitmap.
StorageTypeOK ==
  /\ INODES \in [Inode -> [kind : {"free", "file", "dir"}, size : 0 .. MAX_FILE_SIZE, parent : Inode,
                           name : {Empty.name} \union UNION {{p[k] : k \in 1 .. Len(p)} : p \in Path},
                           blocks : [0 .. DIRECT_BLOCKS - 1 -> Block]]]
  /\ BITMAP \subseteq Block
  /\ MOUNTED => FREE_BLOCKS = TOTAL_BLOCKS - Cardinality(BITMAP)
  /\ SCRATCH \in Content
  /\ MOUNTED \in BOOLEAN
  /\ Len(NODES) <= MAX_NODES
  /\ \A n \in 1 .. Len(NODES) : NODES[n].size \in 0 .. MAX_FILE_SIZE
  /\ disk.data \in [Block -> Content]
  /\ \A u \in User : file[u].node \in 0 .. Len(NODES)

\* No block belongs to two files, and the bitmap has the blocks of every file
\* (alloc_block, free_block, mount): also after errors half way through a write
\* and after a loss of power.
BlocksOwnedOnce ==
  /\ \A i, j \in Inode : i # j => Owned(Table[i]) \intersect Owned(Table[j]) = {}
  /\ \A i \in Inode : Cardinality(Owned(Table[i])) = IF Table[i].kind = "file" THEN block_count(Table[i].size) ELSE 0
  /\ MOUNTED => \A i \in Inode : Owned(INODES[i]) \subseteq BITMAP

\* Every file and directory is found from the root under the path that path_of
\* gives it (split_parent, rmdir, child_of): the tree kept from child to parent
\* has no loose parts and no two entries of one name.
TreeConnected ==
  \A i \in Inode :
    Table[i].kind # "free" => LET path == path_of(Table, i) IN path # NoPath /\ resolve(Table, path) = i

\* A path of VFS leads to the inode of that path and knows its size, unless a
\* call on the path is in progress (write_file, remove_file, refresh_disk_node).
NodesMatch ==
  \A n \in 1 .. Len(NODES) :
    NODES[n].used /\ NODES[n].source = "disk" /\ (\A u \in User : job[u].call.path # NODES[n].path) =>
      /\ lookup_file(INODES, NODES[n].path) = NODES[n].inode
      /\ NODES[n].size = INODES[NODES[n].inode].size

\* The calls, with errors and losses of power, do to the files only what
\* FileStore allows.
Promise == INSTANCE FileStore WITH files <- Files, call <- [u \in User |-> job[u].call]
FilesAsPromised == Promise!StoreSpec

\* tcmkfs.rs says that no lock is needed, because nothing yields while the disk
\* is worked on: a call that has read a block finds it in SCRATCH.
ScratchIsMine ==
  \A u \in User :
    job[u].steps # <<>> /\ First(u).do = "take" =>
      SCRATCH = disk.data[INODES[First(u).inode].blocks[First(u).nth]]

\* What the file system keeps is consistent: beside the types, every block has one
\* owner and is marked in the bitmap (alloc_block, free_block, mount), through
\* errors in the middle of a call and losses of power.
StorageInv == StorageTypeOK /\ BlocksOwnedOnce
====
