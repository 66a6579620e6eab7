SPECIFICATION Spec
CONSTANTS
  Processes = {service}
  LogRunsKept = 3
  MaxDay = 1
  MaxStartsPerDay = 5
PROPERTY
  NewestStay
CHECK_DEADLOCK FALSE
