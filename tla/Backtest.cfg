SPECIFICATION Spec
CONSTANTS
    Traded = {"reversal", "high_prob", "v_shape"}
    Quotes <- MCQuotes
    RefPrices = {1, 2, 3}
    CycleLen = 6
    MaxCycle = 3
    One = 10
    NoEnter = 0
    EnterWhen = 3
    Low = 3
    StartTime = 5
    Reversal = 6
    PriceLow = 6
    PriceHigh = 9
    VHigh1 = 7
    VLow = 3
    VHigh2 = 5
    Premium = 11
    Discount = 9
    MaxAge = 1
    MinDelta <- MCMinDelta
    MaxBuyPrice = 9
    PriceHighRev = 0
    SlPnl = 4
    Sl = 3
    UnwindPnl = 2
    UnwindTime = 2
    ForceUnwind = 1
    HaltMax = 1
    CyclesPerSession = 2
    ResetOffset = 1
INVARIANTS RidesOnlyInSilence EntryJudgesThisCycle StreakNeverOvershoots
PROPERTY OnePositionPerWindow
CHECK_DEADLOCK FALSE
