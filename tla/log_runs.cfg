SPECIFICATION Spec
CONSTANTS
  Processes = {service, run_once}
  LogRunsKept = 5
  MaxDay = 4
  MaxStartsPerDay = 2
INVARIANT
  FolderBounded
PROPERTY
  NewestStay
CHECK_DEADLOCK FALSE
