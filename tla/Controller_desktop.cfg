SPECIFICATION FairControlSpec
CONSTANTS
  MAX_TASKS = 1
  RING_SIZE = 3
  MAX_PER_ROUND = 1
  WINDOW_TICKS = 1
  TASK_QUOTA = 1
  REPORT_EVERY = 2
  DEAD_THRESHOLD_TICKS = 2
  BUSY_THRESHOLD_TICKS = 0
  WindowMod = 3
  StallTicks = {2}
  MaxCalls = 2
  ControlOps <- Ordinary
INVARIANT ControllerInv
PROPERTY ReportsSpaced
PROPERTY DeadOnlyWhenSilent
PROPERTY FallbackEnds
