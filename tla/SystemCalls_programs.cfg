SPECIFICATION CallSpec
CONSTANTS
  USER_MEM_SIZE = 11
  USER_MAP_SIZE = 10
  PAGE_SIZE = 4
  USER_STACK_SIZE = 2
  FileLength = 4
  Fields <- Lengths
  Entries <- Places
  MaxHeaders = 2
  LoadOps <- Sane
  DwordMod = 256
  Half = 16
  TICK_MS = 10
  MAX_FDS = 5
  FIRST_FREE_FD = 3
  MAX_WINDOWS = 2
  Counts <- FewBytes
  Delays <- SomeDelays
  Shapes <- TwoShapes
  CallOps <- Sane
INVARIANT LoaderInv
INVARIANT ProgramAsLinked
INVARIANT CallsInv
 
INVARIANT DoneAsAsked
INVARIANT ResultsArrive
