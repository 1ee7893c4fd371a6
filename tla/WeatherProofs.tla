--------------------------- MODULE WeatherProofs ---------------------------
(***************************************************************************)
(* Theorems about Weather, for any city, prices, engines and bounds.       *)
(***************************************************************************)
EXTENDS Weather, TLAPS

BucketStates ==
    [tag : {"Watching"}, saw_low : BOOLEAN, trades : Nat]
    \cup [tag : {"Holding"}, ts : Nat, price : Int, shares : Nat, trades : Nat]
    \cup [tag : {"Done"}, trades : Nat]

(* Who waits for an entry watches, who waits for a sale holds.             *)
CallFits ==
    \A c \in call :
        /\ c.bucket \in Buckets /\ c.price \in Int
        /\ traders[c.bucket].tag = IF c.op = "place" THEN "Watching" ELSE "Holding"

WeatherTypes ==
    /\ now \in Nat
    /\ traders \in [Buckets -> BucketStates]
    /\ due \in [Buckets -> [shares : Nat, since : Nat]]

(* Only a finished bucket has used up its budget.                          *)
InBudget ==
    \A b \in Buckets :
        IF traders[b].tag = "Done" THEN traders[b].trades <= Budget
        ELSE traders[b].trades + 1 <= Budget

(* Between two feeds nothing is awaited or held.                           *)
IdleBetween == slug = None => call = None /\ \A b \in Buckets : due[b].shares = 0

TaskInv == WeatherTypes /\ CallFits /\ InBudget /\ HoldsWhatItBought /\ IdleBetween

(* A fresh feed knows of no dip, no trade and no position.                 *)
LEMMA FreshStart ==
    ASSUME MaxTradesPerBucket \in Nat
    PROVE  /\ FreshTraders \in [Buckets -> BucketStates]
           /\ \A b \in Buckets : FreshTraders[b] = Watching(FALSE, 0)
           /\ Budget \in Nat /\ 1 <= Budget
           /\ [b \in Buckets |-> Nothing] \in [Buckets -> [shares : Nat, since : Nat]]
BY DEF FreshTraders, BucketStates, Watching, Budget, Nothing

(* run_city_feed returns.                                                  *)
LEMMA DroppedKeeps ==
    ASSUME MaxTradesPerBucket \in Nat, TaskInv, Dropped
    PROVE  TaskInv'
<1>1. WeatherTypes'
  BY FreshStart DEF TaskInv, WeatherTypes, Dropped
<1>2. CallFits'
  BY DEF Dropped, CallFits, None
<1>3. \A b \in Buckets : traders'[b] = Watching(FALSE, 0) /\ due'[b] = Nothing
  BY FreshStart DEF Dropped
<1>4. InBudget' /\ HoldsWhatItBought' /\ IdleBetween'
  BY <1>3, FreshStart DEF InBudget, HoldsWhatItBought, IdleBetween, Dropped, Watching, Nothing,
              Budget
<1>. QED BY <1>1, <1>2, <1>4 DEF TaskInv

(* A price of a bucket that watches or holds.                              *)
LEMMA TickKeeps ==
    ASSUME MaxTradesPerBucket \in Nat, Prices \subseteq Int, TaskInv,
           NEW b \in Buckets, Tick(b)
    PROVE  TaskInv'
<1>1. PICK mid \in Prices : TickWatching(b, mid) \/ TickHolding(b, mid)
  BY DEF Tick
<1>2. now' = now /\ due' = due /\ slug' = slug /\ slug # None
  BY <1>1 DEF TickWatching, TickHolding, Ticks
<1>3. CASE TickWatching(b, mid)
  <2> DEFINE low == traders[b].saw_low \/ mid < Low
  <2>1. /\ traders' = [traders EXCEPT ![b] = Watching(low, @.trades)]
        /\ traders[b].tag = "Watching"
    BY <1>3 DEF TickWatching
  <2>2. traders[b].trades \in Nat
    BY <2>1 DEF TaskInv, WeatherTypes, BucketStates
  <2>3. low \in BOOLEAN
    OBVIOUS
  <2> HIDE DEF low
  <2>4. traders'[b] = Watching(low, traders[b].trades)
    BY <2>1 DEF TaskInv, WeatherTypes
  <2>5. traders'[b] \in [tag : {"Watching"}, saw_low : BOOLEAN, trades : Nat]
        /\ traders'[b].trades = traders[b].trades
    BY <2>2, <2>3, <2>4 DEF Watching
  <2>6. \A d \in Buckets \ {b} : traders'[d] = traders[d]
    BY <2>1 DEF TaskInv, WeatherTypes
  <2>7. traders' \in [Buckets -> BucketStates]
    <3>1. traders' = [d \in Buckets |-> traders'[d]]
      BY <2>1 DEF TaskInv, WeatherTypes
    <3>2. \A d \in Buckets : traders'[d] \in BucketStates
      BY <2>5, <2>6 DEF TaskInv, WeatherTypes, BucketStates
    <3>. QED BY <3>1, <3>2
  <2>8. CallFits'
    <3>1. \A c \in call' : c = TradeCall("place", b, mid)
      BY <1>3 DEF TickWatching
    <3>2. \A c \in call' : c.bucket = b /\ c.price = mid /\ c.op = "place"
      BY <3>1 DEF TradeCall
    <3>3. traders'[b].tag = "Watching" /\ mid \in Int
      BY <2>5
    <3>. QED BY <3>2, <3>3 DEF CallFits
  <2>9. InBudget' /\ HoldsWhatItBought'
    BY <1>2, <2>1, <2>5, <2>6 DEF TaskInv, InBudget, HoldsWhatItBought, Budget
  <2>. QED BY <1>2, <2>7, <2>8, <2>9 DEF TaskInv, WeatherTypes, IdleBetween
<1>4. CASE TickHolding(b, mid)
  <2>1. traders' = traders /\ traders[b].tag = "Holding"
    BY <1>4 DEF TickHolding
  <2>2. CallFits'
    <3>1. \A c \in call' : \E op \in ExitOp(traders[b], mid) : c = TradeCall(op, b, mid)
      BY <1>4 DEF TickHolding
    <3>2. \A op \in ExitOp(traders[b], mid) : op # "place"
      BY DEF ExitOp
    <3>3. \A c \in call' : c.bucket = b /\ c.price = mid /\ c.op # "place"
      BY <3>1, <3>2 DEF TradeCall
    <3>. QED BY <2>1, <3>3 DEF CallFits
  <2>. QED BY <1>2, <2>1, <2>2 DEF TaskInv, WeatherTypes, InBudget, HoldsWhatItBought, Budget,
                                IdleBetween
<1>. QED BY <1>1, <1>3, <1>4

(* An answer that changes no trader.                                       *)
LEMMA RefusalKeeps ==
    ASSUME TaskInv, call' = None, UNCHANGED <<now, slug, traders, due>>
    PROVE  TaskInv'
BY DEF TaskInv, WeatherTypes, CallFits, InBudget, HoldsWhatItBought, IdleBetween, Budget, None

(* An entry is answered.                                                   *)
LEMMA EntryKeeps ==
    ASSUME MaxTradesPerBucket \in Nat, MaxShares \in Nat, Prices \subseteq Int,
           TaskInv, EntryFilled
    PROVE  TaskInv'
<1>1. PICK c \in call : \E f \in BuyFills(c) :
        /\ c.op = "place"
        /\ traders' = [traders EXCEPT ![c.bucket] = Holding(now, f.price, f.shares, @.trades)]
        /\ due' = [due EXCEPT ![c.bucket] = [shares |-> f.shares, since |-> now]]
        /\ call' = None /\ now' = now /\ slug' = slug
  BY DEF EntryFilled
<1>2. PICK f \in BuyFills(c) :
        /\ c.op = "place"
        /\ traders' = [traders EXCEPT ![c.bucket] = Holding(now, f.price, f.shares, @.trades)]
        /\ due' = [due EXCEPT ![c.bucket] = [shares |-> f.shares, since |-> now]]
        /\ call' = None /\ now' = now /\ slug' = slug
  BY <1>1
<1> DEFINE b == c.bucket
<1>3. b \in Buckets /\ c.price \in Int /\ traders[b].tag = "Watching"
  BY <1>2 DEF TaskInv, CallFits
<1>4. f.price \in Int /\ f.shares \in Nat
  <2>1. CASE engine = "Real"
    <3>1. f \in [shares : 1 .. MaxShares, price : {p \in Prices : p <= MaxBuyPrice}]
      BY <2>1 DEF BuyFills
    <3>2. f.price \in {p \in Prices : p <= MaxBuyPrice} /\ f.shares \in 1 .. MaxShares
      BY <3>1
    <3>3. f.price \in Int
      BY <3>2
    <3>4. f.shares \in Nat
      BY <3>2
    <3>. QED BY <3>3, <3>4
  <2>2. CASE engine # "Real"
    <3>1. f = [shares |-> MaxShares, price |-> c.price]
      BY <2>2 DEF BuyFills
    <3>. QED BY <1>3, <3>1
  <2>. QED BY <2>1, <2>2
<1>5. traders[b] \in BucketStates /\ traders[b].trades \in Nat /\ now \in Nat
  BY <1>3 DEF TaskInv, WeatherTypes, BucketStates
<1>6. Holding(now, f.price, f.shares, traders[b].trades) \in BucketStates
  BY <1>4, <1>5 DEF BucketStates, Holding
<1>7. traders' \in [Buckets -> BucketStates]
      /\ due' \in [Buckets -> [shares : Nat, since : Nat]]
  BY <1>2, <1>3, <1>4, <1>5, <1>6 DEF TaskInv, WeatherTypes
<1>8. /\ traders'[b] = Holding(now, f.price, f.shares, traders[b].trades)
      /\ due'[b].shares = f.shares
      /\ \A d \in Buckets \ {b} : traders'[d] = traders[d] /\ due'[d] = due[d]
  BY <1>2, <1>3 DEF TaskInv, WeatherTypes
<1>9. InBudget' /\ HoldsWhatItBought'
  BY <1>3, <1>8 DEF TaskInv, InBudget, HoldsWhatItBought, Holding, Budget
<1>10. CallFits'
  BY <1>2 DEF CallFits, None
<1>11. IdleBetween'
  BY <1>1, <1>2 DEF TaskInv, IdleBetween, None
<1>. QED BY <1>2, <1>7, <1>9, <1>10, <1>11 DEF TaskInv, WeatherTypes

(* A sale is answered.                                                     *)
LEMMA CloseKeeps ==
    ASSUME MaxTradesPerBucket \in Nat, TaskInv, NEW b \in Buckets, CloseMatched(b)
    PROVE  TaskInv'
<1>1. PICK c \in call :
        /\ c.bucket = b /\ c.op # "place"
        /\ traders' = [traders EXCEPT ![b] = AfterClose(@)]
        /\ due' = [due EXCEPT ![b] = Nothing]
        /\ call' = None /\ now' = now /\ slug' = slug
  BY DEF CloseMatched
<1>2. traders[b].tag = "Holding"
  BY <1>1 DEF TaskInv, CallFits
<1>3. traders[b].trades \in Nat /\ traders[b].trades + 1 <= Budget
  BY <1>2 DEF TaskInv, WeatherTypes, BucketStates, InBudget
<1>4. /\ AfterClose(traders[b]) \in BucketStates
      /\ AfterClose(traders[b]).tag \in {"Watching", "Done"}
      /\ IF AfterClose(traders[b]).tag = "Done"
         THEN AfterClose(traders[b]).trades <= Budget
         ELSE AfterClose(traders[b]).trades + 1 <= Budget
  BY <1>3 DEF AfterClose, Done, Watching, BucketStates, Budget
<1>5. /\ traders' \in [Buckets -> BucketStates]
      /\ due' \in [Buckets -> [shares : Nat, since : Nat]]
  BY <1>1, <1>4 DEF TaskInv, WeatherTypes, Nothing
<1>6. /\ traders'[b] = AfterClose(traders[b]) /\ due'[b].shares = 0
      /\ \A d \in Buckets \ {b} : traders'[d] = traders[d] /\ due'[d] = due[d]
  BY <1>1 DEF TaskInv, WeatherTypes, Nothing
<1> HIDE DEF AfterClose
<1>7. InBudget' /\ HoldsWhatItBought'
  BY <1>4, <1>6 DEF TaskInv, InBudget, HoldsWhatItBought, Budget
<1>8. CallFits'
  BY <1>1 DEF CallFits, None
<1>9. IdleBetween'
  BY <1>1 DEF TaskInv, IdleBetween, None
<1>. QED BY <1>1, <1>5, <1>7, <1>8, <1>9 DEF TaskInv, WeatherTypes

(* The inductive invariant.                                                *)
LEMMA TaskInvariant ==
    ASSUME MaxTradesPerBucket \in Nat, MaxShares \in Nat, Prices \subseteq Int
    PROVE  WeatherSpec => []TaskInv
<1>1. WeatherInit => TaskInv
  BY FreshStart DEF WeatherInit, TaskInv, WeatherTypes, CallFits, InBudget,
     HoldsWhatItBought, IdleBetween, None, Watching, Nothing, Budget
<1>2. TaskInv /\ [WeatherNext]_weatherVars => TaskInv'
  <2> SUFFICES ASSUME TaskInv, [WeatherNext]_weatherVars PROVE TaskInv'
    OBVIOUS
  <2>1. CASE Discover
    <3>1. traders' = FreshTraders /\ UNCHANGED <<now, call, due>>
      BY <2>1 DEF Discover
    <3>2. call = None /\ \A b \in Buckets : due[b].shares = 0
      BY <2>1 DEF Discover, TaskInv, IdleBetween
    <3>3. WeatherTypes' /\ CallFits' /\ IdleBetween'
      BY <3>1, <3>2, FreshStart DEF TaskInv, WeatherTypes, CallFits, IdleBetween, None
    <3>4. InBudget' /\ HoldsWhatItBought'
      BY <3>1, <3>2, FreshStart DEF InBudget, HoldsWhatItBought, Watching, Budget
    <3>. QED BY <3>3, <3>4 DEF TaskInv
  <2>2. CASE Rollover \/ StreamEnds \/ ProcessStops
    BY <2>2, DroppedKeeps DEF Rollover, StreamEnds, ProcessStops
  <2>3. CASE \E b \in Buckets : Tick(b)
    BY <2>3, TickKeeps
  <2>4. CASE EntryFilled
    BY <2>4, EntryKeeps
  <2>5. CASE EntryRejected \/ CloseFails \/ AnswerLost
    BY <2>5, RefusalKeeps DEF EntryRejected, CloseFails, AnswerLost
  <2>6. CASE \E b \in Buckets : CloseMatched(b)
    BY <2>6, CloseKeeps
  <2>7. CASE Advance
    BY <2>7 DEF Advance, TaskInv, WeatherTypes, CallFits, InBudget, HoldsWhatItBought, Budget,
                IdleBetween
  <2>8. CASE UNCHANGED weatherVars
    BY <2>8 DEF weatherVars, TaskInv, WeatherTypes, CallFits, InBudget, HoldsWhatItBought, Budget,
                IdleBetween
  <2>. QED BY <2>1, <2>2, <2>3, <2>4, <2>5, <2>6, <2>7, <2>8 DEF WeatherNext, Answer
<1>. QED BY <1>1, <1>2, PTL DEF WeatherSpec

(* config: a bucket trades as often as max_trades_per_bucket says, once if *)
(* that is zero, whatever the engine answers and the other buckets do.     *)
THEOREM BudgetIsKept ==
    ASSUME MaxTradesPerBucket \in Nat, MaxShares \in Nat, Prices \subseteq Int
    PROVE  WeatherSpec => []BudgetKept
<1>1. TaskInv => BudgetKept
  <2> SUFFICES ASSUME TaskInv, NEW b \in Buckets
               PROVE  traders[b].trades + (IF traders[b].tag = "Holding" THEN 1 ELSE 0) <= Budget
    BY DEF BudgetKept
  <2>1. traders[b].trades \in Nat
    BY DEF TaskInv, WeatherTypes, BucketStates
  <2>2. IF traders[b].tag = "Done" THEN traders[b].trades <= Budget
        ELSE traders[b].trades + 1 <= Budget
    BY DEF TaskInv, InBudget
  <2>. QED BY <2>1, <2>2, FreshStart
<1>. QED BY <1>1, TaskInvariant, PTL

(* run_city_feed forgets a position only when it returns.                  *)
THEOREM PositionsAreRemembered ==
    ASSUME MaxTradesPerBucket \in Nat, MaxShares \in Nat, Prices \subseteq Int
    PROVE  WeatherSpec => []HoldsWhatItBought
<1>1. TaskInv => HoldsWhatItBought
  BY DEF TaskInv
<1>. QED BY <1>1, TaskInvariant, PTL
=============================================================================
