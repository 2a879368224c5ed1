SPECIFICATION PipeSpec
CONSTANTS
  MAX_PIPES = 2
  PIPE_CAPACITY = 2
  UsizeMod = 16
  MaxWrite = 2
  MaxRefs = 2
  Byte <- TwoBytes
INVARIANT OnlyTheSeamIsLost
