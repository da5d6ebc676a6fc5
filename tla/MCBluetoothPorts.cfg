SPECIFICATION MCSpec
CHECK_DEADLOCK FALSE
CONSTANTS
  Tasks = 3
  Aborts = 1
  Outages = 1
  Failures = 1
INVARIANTS
  WaiterStands NoStrayConnection LeftAsFound FramesKept
PROPERTIES
  UpForGood ServesWhenItCan
