SPECIFICATION Spec
CONSTANTS
  Pool <- TwoMachines
  MAX_REFS = 2
  MaxTask = 3
  ENTRIES = 2
  Value <- TwoValues
  Zero = 0
  Stale = Stale
  Ops <- Settled
INVARIANT MemInv
INVARIANT WritesArePrivate
INVARIANT NoForeignSpace
PROPERTY PrivateSpec
VIEW UpToFrameNumbers
CHECK_DEADLOCK FALSE
