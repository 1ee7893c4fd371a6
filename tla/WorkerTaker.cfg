SPECIFICATION Spec
CONSTANTS
  HaltMax = 2
  CyclesPerSession = 2
  ResetOffset = 0
  Sides = {"Up", "Down"}
  MakerEntry = FALSE
  Prices <- MCPrices
  EntryPrices <- MCEntryPrices
  ShareCounts <- MCShareCounts
  OrderIds = {1}
  Times <- MCTimes
  Cycles <- MCCycles
  CycleLen = 4
  NoEnter = 1
  CancelBefore = 2
  One = 10
  MaxSellPrice = 9
  UnwindPnl = 2
  SlPnl = 2
  Sl = 0
  UnwindTime = 2
  MinSellable = 2
  MinGtc = 4
  TradeSize = 30
  FeeRate = 1
  FeeScale = 100
INVARIANTS TypeOK NoPhantomLoss OneTradePerWindow
PROPERTIES HaltChangeAnnounced
