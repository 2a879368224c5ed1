SPECIFICATION Spec
CONSTANTS
  User = {shell}
  Path <- Paths
  Data = {d1, d2}
  MAX_INODES = 3
  TOTAL_BLOCKS = 3
  BLOCK_SIZE = 2
  DIRECT_BLOCKS = 2
  MAX_DEPTH = 2
  MAX_NODES = 2
  ChunkInodes = 2
  RamFiles <- None
  Skeleton <- Home
  WriteSizes <- Lengths
  MaxCalls = 5
  Ops <- Careful
 
INVARIANT TreeConnected
 
 
CHECK_DEADLOCK FALSE
SYMMETRY Symmetry
