SPECIFICATION Spec
CONSTANTS
  RefillRate = 2
  Minute = 3
  Capacity = 6
  BaseInfoWeight = 3
  ItemWeightBlock = 2
  MaxSlots = 4
  MaxRetries = 2
  MaxClock = 7
INVARIANTS
  TypeOK
  RequestsPaced
  SleepSuffices
CHECK_DEADLOCK FALSE
