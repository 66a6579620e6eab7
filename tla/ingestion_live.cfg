SPECIFICATION LiveSpec
CONSTANTS
  Symbols = {BTC}
  Collectors = {scheduler}
  MaxMinute = 4
  SourceHorizon = 4
  MaxLateness = 2
  SymbolsMode = "all"
  SymbolsAllowlist = {}
  RestHorizonCandles = 4
  OverlapCandles = 1
  BatchInsertMaxRows = 1
  InitialStart = 0
  MaxInFlight = 0
PROPERTIES
  ImplementsArchive
  EventuallyComplete
CHECK_DEADLOCK FALSE
