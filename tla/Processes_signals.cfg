SPECIFICATION Spec
CONSTANTS
  MaxTask = 2
  MAX_PENDING = 3
  Program = {paint, plasma}
  Signal <- OneSignal
  Ops <- Orderly
INVARIANT ProcInv
 
INVARIANT NothingInherited
INVARIANT HandlerCanReturn
CHECK_DEADLOCK FALSE
