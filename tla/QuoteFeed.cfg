SPECIFICATION FeedSpec
CONSTANTS
  Prices = {2, 5, 6}
  OpenPrice = 5
  Tolerance = 1
  Required = 3
  Sources = {"nats", "direct"}
  MaxCycle = 2
  MaxQuotes = 2
INVARIANTS PolledCloseSeparates
PROPERTIES QuotesInOrder StaleFeedRestarts
CHECK_DEADLOCK FALSE
