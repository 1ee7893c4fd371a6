SPECIFICATION WeatherSpec
CONSTANTS
  Buckets = {"cold", "warm"}
  Engines = {"Paper"}
  Prices <- MCPrices
  Low = 3
  High = 4
  SlPnl = 3
  UnwindPnl = 3
  MaxHold = 1
  MaxBuyPrice = 5
  MaxTradesPerBucket = 1
  MaxShares = 2
  DayLen = 3
  MaxTime = 4
  MaxFaults = 0
PROPERTIES NoneHeldForGood
CHECK_DEADLOCK FALSE
