SPECIFICATION Spec
CONSTANTS
  BackoffInitial = 2
  BackoffMax = 5
  PollSlices = 1
  MaxLeaked = 1
INVARIANT
  ClientsAreClosed
CHECK_DEADLOCK FALSE
