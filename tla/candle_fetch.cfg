SPECIFICATION Spec
CONSTANTS
  Writers = {scheduler, run_once}
  Interval = 2
  MaxMs = 6
  MaxRevision = 2
  None = none
  RequestedStarts = {none, 1, 4}
  RestHorizonCandles = 2
  OverlapCandles = 1
INVARIANTS
  TypeOK
  OnlyAskedCandles
  RequestsBounded
PROPERTIES
  NewSymbolIsStored
  EventuallyCurrent
CHECK_DEADLOCK FALSE
