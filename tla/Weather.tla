------------------------------ MODULE Weather ------------------------------
(***************************************************************************)
(* The temperature-bucket trader beside the slots of the live driver       *)
(* (trader/src/weather.rs, live --weather-config): the task of one city,   *)
(* its daily event of buckets, and the engine of the driver whose calls it *)
(* awaits while the prices of all its buckets queue up.                    *)
(*                                                                         *)
(* A position is sold by the prices of its bucket only, and known to       *)
(* nobody but the task: no slot, halt or file has heard of it.             *)
(*                                                                         *)
(* Of the engine only the answers are kept (Execution has how they come    *)
(* about); prices are ticks; what a trade earns, and its record, which     *)
(* goes to a file and a message and is never read again, are left out.     *)
(***************************************************************************)
EXTENDS Integers

CONSTANTS
    Buckets,        \* the Yes tokens of a city's event
    Engines,        \* of "Real", "Paper", "Sim"
    Prices,
    Low, High, SlPnl, UnwindPnl, MaxHold, MaxBuyPrice, MaxTradesPerBucket,
    MaxShares,      \* what trade_size_usdc buys
    DayLen,
    MaxTime,        \* bound
    MaxFaults       \* bound: lost answers, broken streams, stops of the process

VARIABLES
    engine,
    now,
    slug,           \* day of the event the running feed is for, an Option
    traders,        \* bucket -> BucketTrader
    call,           \* the engine call awaited, an Option
    account,        \* bucket -> shares the exchange or the simulation holds
    due,            \* history: bucket -> shares bought and since when, as far as told
    faults          \* history

weatherVars == <<engine, now, slug, traders, call, account, due, faults>>

None == {}                  \* an Option is the set of what it holds

Watching(saw_low, trades) == [tag |-> "Watching", saw_low |-> saw_low, trades |-> trades]
Holding(ts, price, shares, trades) ==
    [tag |-> "Holding", ts |-> ts, price |-> price, shares |-> shares, trades |-> trades]
Done(trades) == [tag |-> "Done", trades |-> trades]

FreshTraders == [b \in Buckets |-> Watching(FALSE, 0)]
Nothing == [shares |-> 0, since |-> 0]
Today == now \div DayLen

WeatherInit ==
    /\ engine \in Engines /\ now = 0
    /\ slug = None /\ traders = FreshTraders /\ call = None
    /\ account = [b \in Buckets |-> 0]
    /\ due = [b \in Buckets |-> Nothing]
    /\ faults = 0

-----------------------------------------------------------------------------
(* run_city: the event of the day, whenever Gamma has it.                  *)

Discover ==
    /\ slug = None
    /\ slug' = {Today} /\ traders' = FreshTraders
    /\ UNCHANGED <<engine, now, call, account, due, faults>>

(* run_city_feed returns, and its traders are dropped as they are.         *)
Dropped ==
    /\ slug' = None /\ traders' = FreshTraders /\ call' = None
    /\ due' = [b \in Buckets |-> Nothing]
    /\ UNCHANGED <<engine, now, account>>

Rollover ==
    /\ call = None /\ \E day \in slug : day # Today
    /\ Dropped /\ UNCHANGED faults

StreamEnds ==
    /\ slug # None /\ call = None /\ faults < MaxFaults
    /\ Dropped /\ faults' = faults + 1

ProcessStops ==
    /\ slug # None /\ faults < MaxFaults
    /\ Dropped /\ faults' = faults + 1

-----------------------------------------------------------------------------
(* on_tick.  The time is that of the answer to the last call, the price is *)
(* from whenever it was queued.                                            *)

TradeCall(op, b, mid) == [op |-> op, bucket |-> b, price |-> mid]

Ticks(b) == slug # None /\ call = None /\ UNCHANGED <<engine, now, slug, account, due, faults>>

TickWatching(b, mid) ==
    LET t == traders[b]
        saw_low == t.saw_low \/ mid < Low
    IN  /\ Ticks(b) /\ t.tag = "Watching"
        /\ traders' = [traders EXCEPT ![b] = Watching(saw_low, @.trades)]
        /\ call' = {c \in {TradeCall("place", b, mid)} :
                        saw_low /\ mid > High /\ mid <= MaxBuyPrice}

(* A take-profit has a floor, the other two sell at any price.             *)
ExitOp(t, mid) ==
    CASE mid <= t.price - SlPnl     -> {"close"}
      [] mid >= t.price + UnwindPnl -> {"close_at_price"}
      [] now - t.ts >= MaxHold      -> {"close"}
      [] OTHER                      -> {}

TickHolding(b, mid) ==
    /\ Ticks(b) /\ traders[b].tag = "Holding"
    /\ call' = {TradeCall(op, b, mid) : op \in ExitOp(traders[b], mid)}
    /\ UNCHANGED traders

Tick(b) == \E mid \in Prices : TickWatching(b, mid) \/ TickHolding(b, mid)

-----------------------------------------------------------------------------
(* What the engine did, and what the task makes of its answer.             *)

Bought(b, q) == account' = [account EXCEPT ![b] = @ + q]
Sold(b, q) == account' = [account EXCEPT ![b] = @ - q]

(* The simulations buy at the price of the caller (nobody has shown the    *)
(* paper engine another), the exchange in part and within the limit.       *)
BuyFills(c) ==
    IF engine = "Real"
    THEN [shares : 1 .. MaxShares, price : {p \in Prices : p <= MaxBuyPrice}]
    ELSE {[shares |-> MaxShares, price |-> c.price]}

EntryFilled ==
    \E c \in call : c.op = "place" /\ \E f \in BuyFills(c) :
        /\ traders' = [traders EXCEPT ![c.bucket] =
                           Holding(now, f.price, f.shares, @.trades)]
        /\ due' = [due EXCEPT ![c.bucket] = [shares |-> f.shares, since |-> now]]
        /\ Bought(c.bucket, f.shares)
        /\ call' = None
        /\ UNCHANGED <<engine, now, slug, faults>>

(* The latch is kept and the next high price orders again.                 *)
EntryRejected ==
    /\ engine = "Real" /\ \E c \in call : c.op = "place"
    /\ call' = None
    /\ UNCHANGED <<engine, now, slug, traders, account, due, faults>>

(* The exchange sells what is there or a part of it, the dry run all, and  *)
(* the paper engine only tokens of the slots, whose prices the driver      *)
(* shows it (live.rs:2912).                                                *)
SellFills(c) ==
    LET t == traders[c.bucket]
    IN  CASE engine = "Real"  -> {q \in 1 .. t.shares : t.shares <= account[c.bucket]}
          [] engine = "Sim"   -> {t.shares}
          [] engine = "Paper" -> {}

(* A Matched answer is taken for the whole position.                       *)
AfterClose(t) ==
    IF t.trades + 1 >= MaxTradesPerBucket THEN Done(t.trades + 1)
    ELSE Watching(FALSE, t.trades + 1)

CloseMatched(b) ==
    \E c \in call : c.bucket = b /\ c.op # "place" /\ \E q \in SellFills(c) :
        /\ traders' = [traders EXCEPT ![b] = AfterClose(@)]
        /\ due' = [due EXCEPT ![b] = Nothing]
        /\ Sold(b, q)
        /\ call' = None
        /\ UNCHANGED <<engine, now, slug, faults>>

(* No order, no buyer at the floor, too few shares: Holding, so the next   *)
(* tick tries again.                                                       *)
CloseFails ==
    \E c \in call :
        /\ engine # "Sim" /\ c.op # "place"
        /\ call' = None
        /\ UNCHANGED <<engine, now, slug, traders, account, due, faults>>

(* The order is done and the answer lost: for the task it failed.          *)
AnswerLost ==
    \E c \in call :
        /\ engine = "Real" /\ faults < MaxFaults /\ faults' = faults + 1
        /\ \/ c.op = "place" /\ \E f \in BuyFills(c) : Bought(c.bucket, f.shares)
           \/ c.op # "place" /\ \E q \in SellFills(c) : Sold(c.bucket, q)
        /\ call' = None
        /\ UNCHANGED <<engine, now, slug, traders, due>>

Advance ==
    /\ now < MaxTime /\ now' = now + 1
    /\ UNCHANGED <<engine, slug, traders, call, account, due, faults>>

-----------------------------------------------------------------------------
Answer == EntryFilled \/ EntryRejected \/ CloseFails \/ AnswerLost \/ \E b \in Buckets : CloseMatched(b)

WeatherNext ==
    \/ Discover \/ Rollover \/ StreamEnds \/ ProcessStops
    \/ \E b \in Buckets : Tick(b)
    \/ Answer \/ Advance

(* Every call is answered; the merged stream hands out the prices in their *)
(* order, so a bucket that is quoted is served between the calls of the    *)
(* others; a sale that is tried again and again is matched; and the timer  *)
(* of the day is as good as any price.                                     *)
WeatherFairness ==
    /\ WF_weatherVars(Answer) /\ SF_weatherVars(Rollover)
    /\ \A b \in Buckets : SF_weatherVars(Tick(b)) /\ SF_weatherVars(CloseMatched(b))

WeatherSpec == WeatherInit /\ [][WeatherNext]_weatherVars /\ WeatherFairness

-----------------------------------------------------------------------------
(* Properties.                                                             *)

(* A bucket is bought at most as often as its budget says, for as long as  *)
(* the feed runs; a budget of nothing is a budget of one, since it is      *)
(* looked at after the close only.                                         *)
Budget == IF MaxTradesPerBucket > 0 THEN MaxTradesPerBucket ELSE 1
BudgetKept ==
    \A b \in Buckets :
        traders[b].trades + (IF traders[b].tag = "Holding" THEN 1 ELSE 0) <= Budget

(* What the task has been told it bought is what it tries to sell: no      *)
(* failed close, late answer or other bucket makes it forget a position.   *)
HoldsWhatItBought ==
    \A b \in Buckets :
        due[b].shares = IF traders[b].tag = "Holding" THEN traders[b].shares ELSE 0

(* weather.rs:24: a position is sold at its stop-loss, its take-profit or  *)
(* when max_hold_secs have passed, and never held to the resolution.  As   *)
(* long as the prices of the bucket come and the shares are there, it      *)
(* leaves, however often a sale is refused.                                *)
HeldPast(b) == due[b].shares > 0 /\ now - due[b].since >= MaxHold
NoneHeldForGood ==
    \A b \in Buckets : []<>(~HeldPast(b) \/ account[b] < due[b].shares)
=============================================================================
