SPECIFICATION NotifierSpec
CONSTANTS
  BackoffInitial = 2
  BackoffMax = 5
  PollSlices = 3
  MaxLeaked = 1
  MaxPending = 3
  Cooldown = 5
  DeliveryTicks = 1
  ShutdownWait = 2
INVARIANTS
  TypeOK
  SilenceIsEarned
  FlushedUnlessLate
PROPERTIES
  NoCycleAfterStop
  StopIsHonoured
  CollectionResumes
  MessagesLeave
CHECK_DEADLOCK FALSE
