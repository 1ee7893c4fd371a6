SPECIFICATION FairSpec
CONSTANTS
    Tasks = {"crypto", "weather", "report"}
    Variants <- MCVariants
    Ups = {2, 5, 8}
    RefPrices = {1, 2}
    CycleLen = 3
    MaxTime = 4
    MaxQueued = 1
    Events <- MCEvents
    RefreshSecs = 3
    ReportTime = 2
    HourLen = 2
    DayLen = 4
    MaxTrades = 2
    MaxFaults = 1
    MaxTools = 1
    Whole = 10
    High1 = 7
    LowV = 3
    High2 = 5
    SlV = 3
    TpV = 2
    HoldV = 2
    UnwindBeforeEnd = 1
    LowB = 3
    HighB = 7
    SlB = 3
    TpB = 1
    HoldB = 2
    One = 10
    NoEnter = 0
    EnterWhen = 3
    Low = 3
    StartTime = 5
    Reversal = 6
    PriceLow = 6
    PriceHigh = 9
    VHigh1 = 7
    VLow = 3
    VHigh2 = 5
    Premium = 11
    Discount = 9
    MaxAge = 2
    MinDelta <- MCMinDelta
    MaxBuyPrice = 9
    PriceHighRev = 0
    SlPnl = 4
    Sl = 0
    UnwindPnl = 2
    UnwindTime = 2
    ForceUnwind = 1
PROPERTIES PaperLifecycle LoggedAsItCloses NothingStranded SnapshotsKept   ReportsCatchUp
CHECK_DEADLOCK FALSE
