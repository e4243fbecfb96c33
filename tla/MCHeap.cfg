SPECIFICATION Spec
CONSTANTS
  PAGE_SIZE = 96
  Sizes = {8, 40}
  MaxPages = 2
  MaxLive = 3
INVARIANTS HeapTypeOK BlocksApart PagesTiled NothingLost
PROPERTIES CallsReturn
CHECK_DEADLOCK FALSE
