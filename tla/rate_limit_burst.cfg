SPECIFICATION Spec
CONSTANTS
  RefillRate = 2
  Minute = 3
  Capacity = 6
  BaseInfoWeight = 3
  ItemWeightBlock = 2
  MaxSlots = 4
  MaxRetries = 2
  MaxClock = 8
INVARIANT
  NeverBursts
CHECK_DEADLOCK FALSE
