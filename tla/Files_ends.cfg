SPECIFICATION FairSpec
CONSTANTS
  MAX_PIPES = 1
  PIPE_CAPACITY = 1
  UsizeMod = 4
  MaxWrite = 1
  MaxRefs = 6
  Byte <- OneByte
  MaxTask = 2
  MAX_FDS = 2
  FIRST_FREE_FD = 0
  Ops <- EveryCall
INVARIANT FilesInv
INVARIANT DeadHoldNothing
PROPERTY PollSeesHangup
CHECK_DEADLOCK FALSE
