SPECIFICATION ExecSpec
CONSTANTS
  Unit = 2
  MinGtc = 4
  Prices <- MCPrices
  SizeUsdc = 4
  MaxBuy = 2
  OrderRetries = 1
  SettleRetries = 1
  CloseRetries = 2
  TpRetries = 1
  Engines = {"Real", "Paper", "Sim"}
  MaxCalls = 4
  MaxLost = 1
INVARIANTS BooksAgree
PROPERTIES RefusalMeansUnsettled CallReturns
CHECK_DEADLOCK FALSE
