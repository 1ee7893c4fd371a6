SPECIFICATION FairRecorderSpec
CONSTANTS
  Markets <- MCMarkets
  Interval <- MCInterval
  Answer <- MCAnswer
  Retry = 0
  MaxEvents = 1
  MaxTime = 3
INVARIANTS OnlyClosedRecorded NoHole
PROPERTIES ResolutionIsSticky Settles
