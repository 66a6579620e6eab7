SPECIFICATION Spec
CONSTANTS
  Symbols = {BTC}
  Collectors = {scheduler}
  MaxMinute = 5
  SourceHorizon = 4
  MaxLateness = 2
  SymbolsMode = "all"
  SymbolsAllowlist = {}
  RestHorizonCandles = 4
  OverlapCandles = 1
  BatchInsertMaxRows = 2
  InitialStart = 0
  MaxInFlight = 0
CONSTRAINTS OutagesLast AlwaysListed
INVARIANTS
  InsideHorizonIsRepaired
CHECK_DEADLOCK FALSE
