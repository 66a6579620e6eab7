SPECIFICATION LedgerSpec
CONSTANTS
  Symbols = {BTC, ETH}
  Collectors = {scheduler}
  MaxMinute = 3
  SourceHorizon = 2
  MaxLateness = 0
  SymbolsMode = "allowlist"
  SymbolsAllowlist = {BTC, ETH}
  RestHorizonCandles = 3
  OverlapCandles = 1
  BatchInsertMaxRows = 1
  InitialStart = 0
  MaxInFlight = 1
  Traded = {BTC}
CONSTRAINTS OutagesLast OthersStayListed SoonOver OnlyTradedPublish
INVARIANTS
  TypeOK
  OneOutcomeEach
  SymbolsAgree
  CandlesAgree
  ReportsWhatIsStored
CHECK_DEADLOCK FALSE
