SPECIFICATION Spec
CONSTANTS
  BackoffInitial = 2
  BackoffMax = 5
  PollSlices = 1
  MaxLeaked = 1
PROPERTY
  DeniedIsFatal
CHECK_DEADLOCK FALSE
