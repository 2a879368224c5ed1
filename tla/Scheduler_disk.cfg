SPECIFICATION FairDriveSpec
CONSTANTS
  MaxTasks = 3
  TickMod = 4
  MaxLives = 1
  IoTimeout = 1
  Nices <- NoValues
  SleepTimes <- NoValues
  Ops <- DiskIo
INVARIANT NoLostWakeup
INVARIANT OneRequest
 
