SPECIFICATION Spec
CONSTANTS
  Symbols = {BTC}
  Collectors = {scheduler, run_once}
  MaxMinute = 5
  SourceHorizon = 4
  MaxLateness = 2
  SymbolsMode = "allowlist"
  SymbolsAllowlist = {BTC}
  RestHorizonCandles = 5
  OverlapCandles = 1
  BatchInsertMaxRows = 2
  InitialStart = 0
  MaxInFlight = 1
CONSTRAINTS OutagesLast AlwaysListed FewLate TakeTurns FailEarly
SYMMETRY CollectorSymmetry
INVARIANTS
  HoleFree
  IngestionInv
  ClosedOnly
  SuccessIsComplete
CHECK_DEADLOCK FALSE
