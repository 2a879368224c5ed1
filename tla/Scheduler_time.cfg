SPECIFICATION FairSpec
CONSTANTS
  MaxTasks = 3
  TickMod = 12
  MaxLives = 1
  IoTimeout = 0
  Nices <- OneNice
  SleepTimes <- SomeSleeps
  Ops <- Timing
PROPERTY NoStarvation
PROPERTY SleepersWake
