SPECIFICATION Spec
CONSTANTS
  t1 = t1
  t2 = t2
  Tasks <- TwoTasks
  MAX_WINDOWS = 3
  WINDOW_MAP_SLOTS = 2
  QUEUE_SIZE = 2
  KEY_QUEUE = 2
  Places = {0, 1}
  Ops <- Nothing
INVARIANT WindowsInv
SYMMETRY Symmetry
INVARIANT FocusOnOpenWindow
INVARIANT OwnersLive
PROPERTY MovedByItsUser
