SPECIFICATION Spec
CONSTANTS
  User = {shell, notes}
  Path <- TwoFiles
  Data = {d1}
  MAX_INODES = 3
  TOTAL_BLOCKS = 2
  BLOCK_SIZE = 2
  DIRECT_BLOCKS = 1
  MAX_DEPTH = 1
  MAX_NODES = 2
  ChunkInodes = 3
  RamFiles <- None
  Skeleton <- None
  WriteSizes = {1, 2}
  MaxCalls = 5
  Ops <- Careful
INVARIANT ScratchIsMine
CHECK_DEADLOCK FALSE
