SPECIFICATION FairSpec
CONSTANTS
  MaxTasks = 4
  TickMod = 1
  MaxLives = 2
  IoTimeout = 0
  Nices <- NoValues
  SleepTimes <- NoValues
  Ops <- Families
INVARIANT SingleRunner
INVARIANT WaiterKeepsTarget
PROPERTY NoResurrection
PROPERTY ExitReapsOrphans
PROPERTY WaitersReturn
