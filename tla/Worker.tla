------------------------------- MODULE Worker -------------------------------
(***************************************************************************)
(* One trading state machine: the Worker of trader/src/worker.rs, one per  *)
(* (asset, strategy).  Every handler of Worker::step is an action here: it *)
(* reads an event (its parameters), updates the worker and returns a list  *)
(* of actions for the driver, which `Emit' puts in front of what the       *)
(* driver still has to execute: process_actions (trader/src/bin/live.rs)   *)
(* steps a follow-up event before it goes on with the remaining actions.   *)
(*                                                                         *)
(* Time is in seconds, prices and money in the unit of which a winning     *)
(* share pays `One'.  The strategies' signals and the entry gates are a    *)
(* choice: a tick may or may not satisfy them.  The rules every strategy   *)
(* shares (once per cycle, not too late in it) are kept.                   *)
(***************************************************************************)
EXTENDS HaltTracker, Sequences, FiniteSets

CONSTANTS
    Sides,          \* Side::Up and Side::Down
    MakerEntry,     \* maker_entry of a reversal worker: enter by a resting quote
    Prices,         \* the prices the market quotes
    EntryPrices,    \* the prices at which the gates let an entry through
    ShareCounts,    \* what one buy order may fill
    OrderIds,       \* what the exchange may answer as an order id
    Times,          \* timestamps a tick may carry
    Cycles,         \* numbers of the 5-minute market windows
    CycleLen,       \* length of a window
    NoEnter,        \* no_enter_when_time_left
    CancelBefore,   \* CANCEL_BEFORE_CYCLE_END_SECS
    One,            \* what a share of the winning side pays
    MaxSellPrice,   \* execution::MAX_SELL_PRICE
    UnwindPnl,      \* take-profit distance
    SlPnl,          \* stop-loss distance, not positive = off
    Sl,             \* absolute stop-loss price, not positive = off
    UnwindTime,     \* longest holding time, not positive = off
    MinSellable,    \* MIN_SELLABLE_SHARES
    MinGtc,         \* execution::MIN_GTC_SHARES
    TradeSize,      \* trade_size_usdc
    FeeRate,        \* the taker fee is shares * FeeRate * p * (One - p), ...
    FeeScale        \* ... in units of 1 / FeeScale

ASSUME SidesAssumption == Sides # {} /\ Sides \subseteq {"Up", "Down"}
ASSUME EntryAssumption == MakerEntry \in BOOLEAN
ASSUME SharesAssumption ==
    /\ ShareCounts \subseteq Nat
    /\ MinSellable \in Nat \ {0} /\ MinGtc \in Nat /\ MinSellable <= MinGtc
ASSUME PricesAssumption ==
    /\ Prices \subseteq Int /\ EntryPrices \subseteq Nat \ {0}
    /\ One \in Int /\ MaxSellPrice \in Int /\ TradeSize \in Nat
    /\ UnwindPnl \in Int /\ SlPnl \in Int /\ Sl \in Int
    /\ FeeRate \in Nat /\ FeeScale \in Nat \ {0}
ASSUME OrdersAssumption == OrderIds \subseteq Nat \ {0}
ASSUME TimeAssumption ==
    /\ Times \subseteq Nat \ {0} /\ Cycles \subseteq Nat
    /\ CycleLen \in Nat \ {0}
    /\ NoEnter \in Nat /\ CancelBefore \in Nat /\ UnwindTime \in Int

None == "none"
NoOrder == 0        \* order_id = None
NoLimit == 0        \* limit_price = None

NoCycle == -1       \* before the first CycleOpen

VARIABLES
    state,          \* WorkerState
    suppressed,     \* entry_suppressed: /halt, drawdown or unresolved result
    halt,           \* the loss-streak tracker
    fired,          \* the strategy's `fired' latch
    pending,        \* side of pending_entry, or None
    moved,          \* last_binance > cycle_open_binance
    binTs,          \* last_binance_ts_value
    cycle,          \* the window of the last CycleOpen
    acts,           \* actions returned and not yet executed by the driver
    losing          \* history: windows whose trade stands as a loss in this streak

vars == <<state, suppressed, halt, fired, pending, moved, binTs, cycle, acts, losing>>

-----------------------------------------------------------------------------
(* The states of a worker and what they carry.                             *)

Gtc(id)            == [kind |-> "GtcResting", order_id |-> id]
PriceMonitor(tp)   == [kind |-> "PriceMonitor", tp_price |-> tp]

Watching           == [tag |-> "Watching"]
Entering           == [tag |-> "Entering"]
EnteringMaker(q)   == [tag |-> "EnteringMaker", q |-> q]
Holding(h)         == [tag |-> "Holding", h |-> h]
Exiting(tag, h)    == [tag |-> tag, h |-> h]
Confirming(rec)    == [tag |-> "Confirming", rec |-> rec]
EnrichOnly(rec)    == [tag |-> "EnrichOnly", rec |-> rec]

ExitTags == {"Unwinding", "StopExiting", "TimingOut"}
PositionTags == {"Holding"} \cup ExitTags
HasPosition == state.tag \in PositionTags
HasOpenPosition == state.tag \in PositionTags \cup {"Entering", "EnteringMaker"}
AwaitsVerdict == state.tag \in {"Confirming", "EnrichOnly"}

(* Actions a handler returns.                                              *)
Persist                     == [type |-> "Persist"]
PlaceBuy(side, price)       == [type |-> "PlaceBuy", side |-> side, price |-> price]
PlaceLimitBuy(side, price)  ==
    [type |-> "PlaceLimitBuy", side |-> side, price |-> price, shares |-> MinGtc]
PlaceLimitSell(n, price)    == [type |-> "PlaceLimitSell", shares |-> n, price |-> price]
CancelLimitSell(id)         == [type |-> "CancelLimitSell", order_id |-> id]
CancelEntryQuote(id)        == [type |-> "CancelEntryQuote", order_id |-> id]
ClosePosition(n, reason, limit) ==
    [type |-> "ClosePosition", shares |-> n, reason |-> reason, limit |-> limit]
LogTrade(rec)               == [type |-> "LogTrade", rec |-> rec]
LogTradeCorrection(was, is) == [type |-> "LogTradeCorrection", was |-> was, rec |-> is]
Notice(name)                == [type |-> name]

Rest == IF acts = <<>> THEN <<>> ELSE Tail(acts)
Emit(as) == acts' = as \o Rest

(* A list with one action, or none: actions pushed under a condition.      *)
If(condition, action) == IF condition THEN <<action>> ELSE <<>>

-----------------------------------------------------------------------------
(* Prices and money.                                                       *)

CycleEnd == (cycle + 1) * CycleLen
TimeLeft(now) == CycleEnd - now

TpPriceFor(cost) == IF cost + UnwindPnl < MaxSellPrice THEN cost + UnwindPnl ELSE MaxSellPrice
TakerFee(n, price) == (n * FeeRate * price * (One - price)) \div FeeScale
SettleWithoutRealized(h, price) == h.shares * (price - h.token_price) - h.fees  \* mutant
SettlePnl(h, price) == h.realized_pnl + h.shares * (price - h.token_price) - h.fees

Sellable(n) == n >= MinSellable

StopLossHit(h, price) ==
    \/ SlPnl > 0 /\ price <= h.token_price - SlPnl
    \/ Sl > 0 /\ price < Sl
TakeProfitHit(h, price) == h.exit_arm.kind = "PriceMonitor" /\ price >= h.exit_arm.tp_price
HeldTooLong(h, now) == UnwindTime > 0 /\ now - h.entry_ts >= UnwindTime

Record(h, outcome, pnl) ==
    [cycle |-> cycle, side |-> h.side, token_price |-> h.token_price,
     outcome |-> outcome, pnl |-> pnl]

(* Final or provisional, a closed trade is counted at once.                *)
Counts(rec) == IsLossForHalt(rec.outcome, rec.pnl)
CloseOut(rec, next) ==
    /\ state' = next
    /\ halt' = RecordTrade(halt, Counts(rec))
    /\ losing' = IF Counts(rec) THEN losing \cup {rec.cycle} ELSE losing
    /\ Emit(<<LogTrade(rec), Persist>>
            \o If(RecordEngages(halt, Counts(rec)), Notice("HaltEngaged")))

-----------------------------------------------------------------------------
(* Cycle boundaries.                                                       *)

OnCycleOpen(c) ==
    /\ cycle' = c
    /\ fired' = FALSE
    /\ moved' = FALSE
    /\ state' = IF AwaitsVerdict THEN state ELSE Watching
    /\ halt' = ResetIfNewSession(halt, SessionOf(c))
    /\ losing' = IF SessionOf(c) = halt.session THEN losing ELSE {}
    /\ Emit(<<Persist>> \o If(ResetClears(halt, SessionOf(c)), Notice("HaltReset")))
    /\ UNCHANGED <<suppressed, pending, binTs>>

Won(h) == IF h.side = "Up" THEN moved ELSE ~moved

(* Whatever is still held is settled at the feed's own idea of the result. *)
OnCycleClose ==
    /\ IF HasPosition
       THEN LET rec == IF Won(state.h)
                       THEN Record(state.h, "Win", SettlePnl(state.h, One))
                       ELSE Record(state.h, "Loss", SettlePnl(state.h, 0))
            IN  CloseOut(rec, Confirming(rec))
       ELSE /\ state' = IF AwaitsVerdict THEN state ELSE Watching
            /\ Emit(<<>>)
            /\ UNCHANGED <<halt, losing>>
    /\ UNCHANGED <<suppressed, fired, pending, moved, binTs, cycle>>

-----------------------------------------------------------------------------
(* Entry.                                                                  *)

(* Mutants: without the latch, without the end of the window.              *)
CanReenter(now) ==
    ~suppressed /\ ~IsHalted(halt) /\ state = Watching /\ TimeLeft(now) >= NoEnter
CanEnterLate(now) ==
    ~suppressed /\ ~IsHalted(halt) /\ state = Watching /\ ~fired

CanEnter(now) ==
    /\ ~suppressed /\ ~IsHalted(halt) /\ state = Watching
    /\ ~fired /\ TimeLeft(now) >= NoEnter

Enter(side, price) ==
    /\ fired' = TRUE
    /\ IF MakerEntry
       THEN /\ state' = EnteringMaker([side |-> side, quote_price |-> price, order_id |-> NoOrder])
            /\ Emit(<<PlaceLimitBuy(side, price), Persist>>)
            /\ UNCHANGED pending
       ELSE /\ state' = Entering
            /\ pending' = side
            /\ Emit(<<PlaceBuy(side, price), Persist>>)

Pass == Emit(<<>>) /\ UNCHANGED <<state, fired, pending>>

(* A tick enters when the signal and the gates agree, which they may not.  *)
TryEnter(now) ==
    \/ CanEnter(now) /\ \E side \in Sides, price \in EntryPrices : Enter(side, price)
    \/ Pass

OnBinance(now, up) ==
    /\ moved' = up
    /\ binTs' = now
    /\ TryEnter(now)
    /\ UNCHANGED <<suppressed, halt, cycle, losing>>

CancelMakerQuote ==
    /\ state' = Watching
    /\ Emit(<<CancelEntryQuote(state.q.order_id), Persist>>)
    /\ UNCHANGED <<fired, pending>>

(* Near the end of the window always, before that when signal or gates no  *)
(* longer hold.                                                            *)
CheckMakerQuoteCancel(now) ==
    \/ CancelMakerQuote
    \/ TimeLeft(now) > CancelBefore /\ Pass

Bought(side, n, cost) ==
    [side |-> side, token_price |-> cost, entry_ts |-> binTs, shares |-> n,
     exit_arm |-> PriceMonitor(TpPriceFor(cost)), realized_pnl |-> 0, fees |-> TakerFee(n, cost)]

HoldBought(side, n, cost) ==
    /\ state' = Holding(Bought(side, n, cost))
    /\ Emit(If(n >= MinGtc, PlaceLimitSell(n, TpPriceFor(cost))) \o <<Persist>>)

(* Mutant: holds a fill of nothing.                                        *)
HoldAnyFill(side, n, cost) == HoldBought(side, n, cost)

FinalizeEntryFill(side, n, cost) ==
    IF n <= 0
    THEN state' = Watching /\ Emit(<<Persist>>)
    ELSE HoldBought(side, n, cost)

OnOrderFilled(n, cost) ==
    /\ IF state = Entering /\ pending # None
       THEN FinalizeEntryFill(pending, n, cost) /\ pending' = None
       ELSE Emit(<<>>) /\ UNCHANGED <<state, pending>>
    /\ UNCHANGED <<suppressed, halt, fired, moved, binTs, cycle, losing>>

OnOrderRejected ==
    /\ pending' = None
    /\ state' = IF state = Entering THEN Watching ELSE state
    /\ Emit(<<Persist>>)
    /\ UNCHANGED <<suppressed, halt, fired, moved, binTs, cycle, losing>>

(* The exchange's answer to PlaceLimitBuy.                                 *)
OnLimitBuyPlaced(status, id) ==
    /\ IF state.tag = "EnteringMaker"
       THEN \/ /\ status = "Live"
               /\ state' = [state EXCEPT !.q.order_id = id]
               /\ Emit(<<Persist>>)
            \/ /\ status = "Matched"
               /\ FinalizeEntryFill(state.q.side, MinGtc, state.q.quote_price)
            \/ /\ status \in {"Failed", "DryRun"}
               /\ state' = Watching
               /\ Emit(<<Persist>>)
       ELSE Emit(<<>>) /\ UNCHANGED state
    /\ UNCHANGED <<suppressed, halt, fired, pending, moved, binTs, cycle, losing>>

OnEntryQuoteFilled(n, cost) ==
    /\ IF state.tag = "EnteringMaker"
       THEN FinalizeEntryFill(state.q.side, n, cost)
       ELSE Emit(<<>>) /\ UNCHANGED state
    /\ UNCHANGED <<suppressed, halt, fired, pending, moved, binTs, cycle, losing>>

-----------------------------------------------------------------------------
(* Exit.                                                                   *)

CancelResting(h) ==
    If(h.exit_arm.kind = "GtcResting", CancelLimitSell(h.exit_arm.order_id))

Close(tag, reason, limit, cancels) ==
    /\ state' = Exiting(tag, state.h)
    /\ Emit(cancels \o <<ClosePosition(state.h.shares, reason, limit), Persist>>)

(* The order matters: stop-loss, then take-profit, then the time limit.    *)
MonitorPosition(now, price) ==
    LET h == state.h
        sellable == Sellable(h.shares)
    IN  CASE sellable /\ StopLossHit(h, price) ->
               Close("StopExiting", "StopLoss", NoLimit, CancelResting(h))
          [] sellable /\ ~StopLossHit(h, price) /\ TakeProfitHit(h, price) ->
               Close("Unwinding", "TakeProfit", h.exit_arm.tp_price, <<>>)
          [] /\ sellable /\ ~StopLossHit(h, price) /\ ~TakeProfitHit(h, price)
             /\ HeldTooLong(h, now) ->
               Close("TimingOut", "Timeout", NoLimit, CancelResting(h))
          [] OTHER -> Emit(<<>>) /\ UNCHANGED state

(* A tick quotes every side of the market.                                 *)
OnPoly(now, price) ==
    /\ CASE state.tag = "EnteringMaker" -> CheckMakerQuoteCancel(now)
         [] state.tag = "Holding" ->
              /\ MonitorPosition(now, price[state.h.side])
              /\ UNCHANGED <<fired, pending>>
         [] OTHER -> TryEnter(now)
    /\ UNCHANGED <<suppressed, halt, moved, binTs, cycle, losing>>

HoldAgain(h) == state' = Holding(h) /\ Emit(<<Persist>>) /\ UNCHANGED <<halt, losing>>

Ignore == Emit(<<>>) /\ UNCHANGED <<state, halt, losing>>

(* The exchange's answer to PlaceLimitSell.                                *)
OnLimitSellPlaced(status, id) ==
    /\ IF state.tag = "Holding"
       THEN LET h  == state.h
                tp == TpPriceFor(h.token_price)
                closed == [h EXCEPT !.fees = @ + TakerFee(h.shares, tp)]
                rec == Record(closed, "Unwind", SettlePnl(closed, tp))
            IN  \/ /\ status = "Live"
                   /\ HoldAgain(IF id = NoOrder THEN h ELSE [h EXCEPT !.exit_arm = Gtc(id)])
                \/ status = "Matched" /\ CloseOut(rec, EnrichOnly(rec))
                \/ /\ status \in {"Failed", "DryRun"}
                   /\ HoldAgain([h EXCEPT !.exit_arm = PriceMonitor(tp)])
       ELSE Ignore
    /\ UNCHANGED <<suppressed, fired, pending, moved, binTs, cycle>>

(* Book what was sold; keep managing a rest that can still be sold, write  *)
(* off one that cannot.                                                    *)
FinalizeOrHoldResidual(h, sold, price, outcome) ==
    LET rest == [h EXCEPT !.shares = @ - sold,
                          !.realized_pnl = @ + sold * (price - h.token_price),
                          !.fees = @ + TakerFee(sold, price)]
        rec  == Record(h, outcome, rest.realized_pnl - rest.fees)
    IN  IF Sellable(rest.shares)
        THEN HoldAgain(rest)
        ELSE CloseOut(rec, EnrichOnly(rec))

OnUnwindFilled(sold, price) ==
    /\ IF \/ state.tag = "Unwinding"
          \/ state.tag = "Holding" /\ state.h.exit_arm.kind = "GtcResting"
       THEN FinalizeOrHoldResidual(state.h, sold, price, "Unwind")
       ELSE Ignore
    /\ UNCHANGED <<suppressed, fired, pending, moved, binTs, cycle>>

OnStopSellFilled(sold, price) ==
    /\ IF state.tag = "StopExiting"
       THEN FinalizeOrHoldResidual(state.h, sold, price, "StopLoss")
       ELSE Ignore
    /\ UNCHANGED <<suppressed, fired, pending, moved, binTs, cycle>>

OnTimeoutSellFilled(sold, price) ==
    /\ IF state.tag = "TimingOut"
       THEN FinalizeOrHoldResidual(state.h, sold, price, "Timeout")
       ELSE Ignore
    /\ UNCHANGED <<suppressed, fired, pending, moved, binTs, cycle>>

(* A failed sell is not an exit: the position is held again.               *)
OnUnwindFailed ==
    /\ state' = IF state.tag = "Unwinding"
                THEN Holding([state.h EXCEPT
                                !.exit_arm = PriceMonitor(TpPriceFor(state.h.token_price))])
                ELSE state
    /\ Emit(<<Persist>>)
    /\ UNCHANGED <<suppressed, halt, fired, pending, moved, binTs, cycle, losing>>

(* Mutant: gives the position up.                                          *)
StopSellFailedForgets ==
    /\ state' = IF state.tag = "StopExiting" THEN Watching ELSE state
    /\ Emit(<<Persist>>)
    /\ UNCHANGED <<suppressed, halt, fired, pending, moved, binTs, cycle, losing>>

OnStopSellFailed ==
    /\ state' = IF state.tag = "StopExiting" THEN Holding(state.h) ELSE state
    /\ Emit(<<Persist>>)
    /\ UNCHANGED <<suppressed, halt, fired, pending, moved, binTs, cycle, losing>>

OnTimeoutSellFailed ==
    /\ state' = IF state.tag = "TimingOut" THEN Holding(state.h) ELSE state
    /\ Emit(<<Persist>>)
    /\ UNCHANGED <<suppressed, halt, fired, pending, moved, binTs, cycle, losing>>

-----------------------------------------------------------------------------
(* The verdict of the Gamma API on a closed trade.                         *)

(* The correction values the trade as if all of TradeSize had been spent.  *)
Corrected(rec, won) ==
    LET shares == TradeSize \div rec.token_price
    IN  [rec EXCEPT
           !.outcome = IF won THEN "Win" ELSE "Loss",
           !.pnl = shares * (IF won THEN One ELSE 0) - TradeSize
                       - TakerFee(shares, rec.token_price)]

Overrule(rec, is) ==
    LET correction == Correction(halt, Counts(rec), Counts(is))
    IN  /\ halt' = CorrectTrade(halt, Counts(rec), Counts(is))
        /\ losing' = IF Counts(is) THEN losing \cup {rec.cycle} ELSE losing \ {rec.cycle}
        /\ Emit(<<LogTradeCorrection(rec, is), Persist>>
                \o If(correction = "Engaged", Notice("HaltEngaged"))
                \o If(correction = "Cleared", Notice("HaltClearedByCorrection")))

OnApiResult(won) ==
    /\ IF AwaitsVerdict
       THEN /\ state' = Watching
            /\ IF state.tag = "Confirming" /\ won # (state.rec.outcome = "Win")
               THEN Overrule(state.rec, Corrected(state.rec, won))
               ELSE /\ Emit(If(state.rec.outcome = "StopLoss", Notice("StopLossVerdict"))
                            \o <<Persist>>)
                    /\ UNCHANGED <<halt, losing>>
       ELSE Ignore
    /\ UNCHANGED <<suppressed, fired, pending, moved, binTs, cycle>>

(* Mutant: that the watcher has given up is not heard.                     *)
TimeoutUnheard(balanceIncreased) == UNCHANGED vars
OnApiResultTimeout(balanceIncreased) ==
    /\ IF AwaitsVerdict
       THEN /\ state' = Watching
            /\ IF state.tag = "Confirming"
               THEN IF balanceIncreased
                    THEN /\ Emit(<<Notice("GammaUnresolvedContinued"), Persist>>)
                         /\ UNCHANGED suppressed
                    ELSE /\ Emit(<<Notice("GammaHaltEngaged"), Persist>>)
                         /\ suppressed' = TRUE
               ELSE Emit(<<Persist>>) /\ UNCHANGED suppressed
       ELSE Emit(<<>>) /\ UNCHANGED <<state, suppressed>>
    /\ UNCHANGED <<halt, fired, pending, moved, binTs, cycle, losing>>

-----------------------------------------------------------------------------
(* Operator commands and the account guard.                                *)

ControlEvents == {"Halt", "Resume", "ResetLosses"}

(* What a command does to the worker, apart from the Persist it returns.   *)
ControlEffect(event) ==
    /\ suppressed' = CASE event = "Halt" -> TRUE
                       [] event = "Resume" -> FALSE
                       [] OTHER -> suppressed
    /\ halt' = IF event = "ResetLosses" THEN ResetLosses(halt) ELSE halt
    /\ losing' = IF event = "ResetLosses" THEN {} ELSE losing
    /\ UNCHANGED <<state, fired, pending, moved, binTs, cycle>>

OnControl(event) == ControlEffect(event) /\ Emit(<<Persist>>)

BalanceEffect ==
    /\ suppressed' = TRUE
    /\ UNCHANGED <<state, halt, fired, pending, moved, binTs, cycle, losing>>

OnBalance == BalanceEffect /\ Emit(<<Persist>>)

-----------------------------------------------------------------------------
(* A worker on its own: whatever the driver may ever send, in any order,   *)
(* as long as the windows it opens go forward.                             *)

Statuses == {"Live", "Matched", "Failed", "DryRun"}

Init ==
    /\ state = Watching /\ suppressed = FALSE /\ halt = NewTracker
    /\ fired = FALSE /\ pending = None /\ moved = FALSE /\ binTs = 0
    /\ cycle = NoCycle /\ acts = <<>> /\ losing = {}

(* The driver takes the next action off the list.                          *)
Take ==
    /\ acts # <<>>
    /\ acts' = Tail(acts)
    /\ UNCHANGED <<state, suppressed, halt, fired, pending, moved, binTs, cycle, losing>>

Boundary == (\E c \in Cycles : c > cycle /\ OnCycleOpen(c)) \/ OnCycleClose

Tick == \E now \in Times :
    \/ \E up \in BOOLEAN : OnBinance(now, up)
    \/ \E price \in [Sides -> Prices] : OnPoly(now, price)

EntryAnswer ==
    \/ \E n \in ShareCounts, cost \in EntryPrices :
          OnOrderFilled(n, cost) \/ OnEntryQuoteFilled(n, cost)
    \/ OnOrderRejected
    \/ \E status \in Statuses, id \in OrderIds \cup {NoOrder} : OnLimitBuyPlaced(status, id)

(* A take-profit order is limited to its price, the others are not.        *)
ExitAnswer ==
    \/ \E status \in Statuses, id \in OrderIds \cup {NoOrder} : OnLimitSellPlaced(status, id)
    \/ /\ HasPosition
       /\ \E sold \in ShareCounts, price \in Prices :
             /\ sold <= state.h.shares
             /\ \/ price >= TpPriceFor(state.h.token_price) /\ OnUnwindFilled(sold, price)
                \/ OnStopSellFilled(sold, price)
                \/ OnTimeoutSellFilled(sold, price)
    \/ OnUnwindFailed \/ OnStopSellFailed \/ OnTimeoutSellFailed

Verdict == (\E won \in BOOLEAN : OnApiResult(won))
           \/ (\E increased \in BOOLEAN : OnApiResultTimeout(increased))

Command == (\E event \in ControlEvents : OnControl(event)) \/ OnBalance

Event == Boundary \/ Tick \/ EntryAnswer \/ ExitAnswer \/ Verdict \/ Command

Next == Take \/ (acts = <<>> /\ Event)

Spec == Init /\ [][Next]_vars

-----------------------------------------------------------------------------
(* Types.                                                                  *)

ExitArms == [kind : {"GtcResting"}, order_id : OrderIds]
            \cup [kind : {"PriceMonitor"}, tp_price : Int]
Quotes == [side : Sides, quote_price : Nat \ {0}, order_id : OrderIds \cup {NoOrder}]
Positions == [side : Sides, token_price : Nat \ {0}, entry_ts : Int, shares : Nat \ {0},
              exit_arm : ExitArms, realized_pnl : Int, fees : Int]
TradeRecords == [cycle : Nat, side : Sides, token_price : Nat \ {0},
                 outcome : Outcomes, pnl : Int]

States ==
    [tag : {"Watching", "Entering"}]
    \cup [tag : {"EnteringMaker"}, q : Quotes]
    \cup [tag : PositionTags, h : Positions]
    \cup [tag : {"Confirming"}, rec : {r \in TradeRecords : r.outcome \in {"Win", "Loss"}}]
    \cup [tag : {"EnrichOnly"}, rec : {r \in TradeRecords : r.outcome \notin {"Win", "Loss"}}]

(* Every variable has its type; a provisional record is a resolution and a *)
(* final one an early exit (Confirming / EnrichOnly of worker.rs).         *)
TypeOK ==
    /\ state \in States
    /\ suppressed \in BOOLEAN
    /\ halt \in Trackers
    /\ fired \in BOOLEAN
    /\ pending \in Sides \cup {None}
    /\ moved \in BOOLEAN
    /\ binTs \in Int
    /\ cycle \in Nat \cup {NoCycle}
    /\ losing \subseteq Nat

(* The counter never holds more losses than there are windows whose trade  *)
(* stands as a loss since the last reset: a trade is not counted twice,    *)
(* and one that Gamma turned into a win no longer counts (correct_trade,   *)
(* incident_halt_double_count_2026-07-10).                                 *)
NoPhantomLoss == IsFiniteSet(losing) /\ halt.losses <= Cardinality(losing)

(* What NoPhantomLoss rests on: a window's trade can be counted only once, *)
(* because the latch lets one position be opened per window, and a trade   *)
(* that waits for its verdict as a win is not counted yet.                 *)
OneTradePerWindow ==
    /\ \A c \in losing : c <= cycle
    /\ ~fired => cycle \notin losing
    /\ HasOpenPosition => fired /\ cycle # NoCycle /\ cycle \notin losing
    /\ AwaitsVerdict => state.rec.cycle < cycle \/ (state.rec.cycle = cycle /\ fired)
    /\ state.tag = "Confirming" /\ ~Counts(state.rec) => state.rec.cycle \notin losing

StreakInv == TypeOK /\ OneTradePerWindow /\ NoPhantomLoss

Announces(name) == acts' # <<>> /\ \E i \in DOMAIN acts' : acts'[i].type = name
IsHaltedNext == HaltMax > 0 /\ halt'.losses >= HaltMax

(* A change of the loss-streak halt is never silent.  A step that engages  *)
(* it says so, and nothing else announces it: not the losses before the    *)
(* limit (record_trade), nor a correction that does not cross it           *)
(* (HaltCorrection).  The daily reset at a new window and a correction     *)
(* announce that they lift it (HaltReset, HaltClearedByCorrection), and    *)
(* otherwise it takes /reset_losses, which leaves the trade at hand alone. *)
HaltChangeAnnounced ==
    [][acts = <<>> =>
         /\ Announces("HaltEngaged") <=> ~IsHalted(halt) /\ IsHaltedNext
         /\ IsHalted(halt) /\ ~IsHaltedNext =>
               IF cycle' # cycle THEN Announces("HaltReset")
               ELSE \/ Announces("HaltClearedByCorrection")
                    \/ halt'.losses = 0 /\ UNCHANGED <<state, fired, moved>>]_vars
=============================================================================
