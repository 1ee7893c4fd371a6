SPECIFICATION DriverSpec
CONSTANTS
  HaltMax = 1
  CyclesPerSession = 2
  ResetOffset = 0
  Sides = {"Up"}
  MakerEntry = FALSE
  Prices <- MCPrices
  EntryPrices <- MCEntryPrices
  ShareCounts <- MCShareCounts
  OrderIds <- DriverOrderIds
  Times <- MCTimes
  Cycles <- MCCycles
  CycleLen = 3
  NoEnter = 1
  CancelBefore = 1
  One = 10
  MaxSellPrice = 9
  UnwindPnl = 2
  SlPnl = 2
  Sl = 0
  UnwindTime = 1
  MinSellable = 2
  MinGtc = 4
  TradeSize = 30
  FeeRate = 1
  FeeScale = 100
  Modes = {"Real"}
  RestingFills = FALSE
  MaxTrades = 5
  StartupGuard = 0
  RestartTime = 1
  MaxRestarts = 1
  MaxTime = 7
INVARIANTS OneBuyPerMarket FileIsCurrent ControlLogIsCurrent PnlIsCash
PROPERTIES PositionEndsInTrade
