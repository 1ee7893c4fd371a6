------------------------------- MODULE Driver -------------------------------
(***************************************************************************)
(* One slot of the live driver (trader/src/bin/live.rs) around its worker: *)
(* the select loop and its arms, the execution of the actions the worker   *)
(* returns, the tasks it spawns, its files, and the exchange it trades on. *)
(*                                                                         *)
(* An arm runs to its end before the next one starts.  Within it the       *)
(* actions of `acts' are executed one by one; an order's answer is stepped *)
(* at once, except in paper mode, where entries and closes are answered    *)
(* later over a channel (PAPER_SIMULATED_LATENCY_SECS).  The process may   *)
(* stop between any two steps and come back with what its files hold.      *)
(*                                                                         *)
(* Time moves in units of a fraction of the market's window.               *)
(***************************************************************************)
EXTENDS Worker

CONSTANTS
    Modes,          \* RunMode: "Real", "Paper" or either
    RestingFills,   \* whether resting orders of the real exchange ever fill
    MaxTrades,      \* --max-trades
    StartupGuard,   \* STARTUP_MID_CYCLE_GUARD_SECS
    RestartTime,    \* how long the process is down when it stops
    MaxRestarts,    \* bound
    MaxTime         \* bound

ASSUME ModeAssumption == Modes \subseteq {"Real", "Paper"} /\ RestingFills \in BOOLEAN
ASSUME LoopAssumption ==
    /\ MaxTrades \in Nat /\ StartupGuard \in Nat /\ RestartTime \in Nat
    /\ MaxRestarts \in Nat /\ MaxTime \in Nat \ {0}

VARIABLES
    now,            \* wall clock
    arm,            \* where the select loop is
    slotVal,        \* slot_val: the window the ticker saw last
    open,           \* current_slug.is_some()
    ids,            \* market of up_id / dn_id
    token,          \* current_token_id
    seen,           \* last_binance > 0
    price,          \* last_poly_up / last_poly_dn by side, NoPrice before a tick
    cycleTrades,    \* cycle_trades
    inflight,       \* deferred paper orders not answered yet
    watchers,       \* markets a resolution watcher polls
    disk,           \* what the state file holds
    clog,           \* is_halted of the last line of control_log.jsonl
    book,           \* the exchange: resting orders
    account,        \* the exchange: the market traded last, its shares, cash and buys
    restarts,       \* how often the process has been restarted
    mode            \* --mode, the same all along

driverVars == <<now, arm, slotVal, open, ids, token, seen, price, cycleTrades,
                inflight, watchers, disk, clog, book, account, restarts, mode>>
allVars == <<vars, driverVars>>

NoToken == [market |-> NoCycle, side |-> None]
NoPrice == [side \in Sides |-> 0]
NoAccount == [market |-> NoCycle, shares |-> 0, cash |-> 0, buys |-> 0]
EmptyDisk == [suppressed |-> FALSE, halt |-> NewTracker]

Window(t) == t \div CycleLen

(* Orders get an id of their own: at most one of a kind is placed a window. *)
QuoteId(market) == 2 * market + 1
ExitId(market)  == 2 * market + 2
DriverOrderIds == 1 .. 2 * MaxTime + 2

Snapshot == [suppressed |-> suppressed, halt |-> halt]
Halted == suppressed \/ IsHalted(halt)

InLoop == arm = "loop" /\ acts = <<>>

DriverInit ==
    /\ Init
    /\ now \in 1 .. CycleLen
    /\ arm = "loop" /\ slotVal = NoCycle /\ open = FALSE /\ ids = NoCycle
    /\ token = NoToken /\ seen = FALSE /\ price = NoPrice /\ cycleTrades = 0
    /\ inflight = {} /\ watchers = {} /\ disk = EmptyDisk /\ clog = FALSE
    /\ book = {} /\ account = NoAccount /\ restarts = 0
    /\ mode \in Modes

-----------------------------------------------------------------------------
(* The arms of the select loop.                                            *)

Advance ==
    /\ now < MaxTime
    /\ slotVal # NoCycle
    /\ Window(now + 1) <= slotVal + 1       \* the ticker is at most a window late
    /\ inflight = {}                        \* the paper latency is below a unit
    /\ acts # <<>> => mode = "Real"         \* only real orders keep the loop waiting
    /\ now' = now + 1
    /\ UNCHANGED <<vars, arm, slotVal, open, ids, token, seen, price, cycleTrades,
                   inflight, watchers, disk, clog, book, account, restarts, mode>>

BinanceArm ==
    /\ InLoop
    /\ seen' = TRUE
    /\ IF open /\ cycleTrades < MaxTrades
       THEN \E up \in BOOLEAN : OnBinance(now, up)
       ELSE UNCHANGED vars
    /\ UNCHANGED <<now, arm, slotVal, open, ids, token, price, cycleTrades,
                   inflight, watchers, disk, clog, book, account, restarts, mode>>

(* A quote arrives: resting paper orders fill first, then the worker sees  *)
(* it.                                                                     *)
PolyArm ==
    /\ InLoop
    /\ arm' = "poly"
    /\ price' \in [Sides -> Prices]
    /\ UNCHANGED <<vars, now, slotVal, open, ids, token, seen, cycleTrades,
                   inflight, watchers, disk, clog, book, account, restarts, mode>>

(* Resting paper orders fill when the quote trades through their price.    *)
TradedThrough(o) ==
    /\ mode = "Paper" /\ open /\ o.token.market = ids
    /\ \/ o.kind = "Buy" /\ price[o.token.side] < o.price
       \/ o.kind = "Sell" /\ price[o.token.side] > o.price

BuyFills(n, cost, fee) ==
    account' = [account EXCEPT !.shares = @ + n, !.cash = @ - n * cost - fee]
SellFills(n, at, fee) ==
    account' = [account EXCEPT !.shares = @ - n, !.cash = @ + n * at - fee]

(* A fill of a resting order moves the account, free of fee.               *)
Fills(o) ==
    /\ book' = book \ {o}
    /\ IF o.kind = "Buy" THEN BuyFills(o.shares, o.price, 0) ELSE SellFills(o.shares, o.price, 0)

EntryRestingId == IF state.tag = "EnteringMaker" THEN state.q.order_id ELSE NoOrder
ExitRestingId ==
    IF state.tag = "Holding" /\ state.h.exit_arm.kind = "GtcResting"
    THEN state.h.exit_arm.order_id ELSE NoOrder

PaperRestingFill ==
    /\ arm = "poly" /\ acts = <<>>
    /\ \E o \in book :
          /\ TradedThrough(o)
          /\ Fills(o)
          /\ CASE o.kind = "Buy" /\ EntryRestingId = o.id -> OnEntryQuoteFilled(o.shares, o.price)
               [] o.kind = "Sell" /\ ExitRestingId = o.id -> OnUnwindFilled(o.shares, o.price)
               [] OTHER -> UNCHANGED vars
    /\ UNCHANGED <<now, arm, slotVal, open, ids, token, seen, price, cycleTrades,
                   inflight, watchers, disk, clog, restarts, mode>>

PolyStep ==
    /\ arm = "poly" /\ acts = <<>>
    /\ \A o \in book : ~TradedThrough(o)
    /\ arm' = "loop"
    /\ IF open THEN OnPoly(now, price) ELSE UNCHANGED vars
    /\ UNCHANGED <<now, slotVal, open, ids, token, seen, price, cycleTrades,
                   inflight, watchers, disk, clog, book, account, restarts, mode>>

ShouldReevaluate == state.tag = "Holding" /\ price # NoPrice

(* Every second: look at a held position again, even without a new quote,  *)
(* then see whether a new window has begun.                                *)
TickerReevaluate ==
    /\ InLoop
    /\ arm' = "ticker"
    /\ IF ShouldReevaluate THEN OnPoly(now, price) ELSE UNCHANGED vars
    /\ UNCHANGED <<now, slotVal, open, ids, token, seen, price, cycleTrades,
                   inflight, watchers, disk, clog, book, account, restarts, mode>>

(* Mutants: never waits; waits whenever a window is noticed late.          *)
NeverSuppress == FALSE
SuppressAnyLateStart == now - Window(now) * CycleLen > StartupGuard

(* A process that comes up in the middle of a window waits for the next.   *)
SuppressStartup == slotVal = NoCycle /\ now - Window(now) * CycleLen > StartupGuard

TickerBoundary ==
    /\ arm = "ticker" /\ acts = <<>>
    /\ slotVal' = Window(now)
    /\ IF slotVal = Window(now) \/ SuppressStartup
       THEN arm' = "loop" /\ UNCHANGED vars
       ELSE /\ arm' = "opening"
            /\ IF open THEN OnCycleClose ELSE UNCHANGED vars
    /\ UNCHANGED <<now, open, ids, token, seen, price, cycleTrades,
                   inflight, watchers, disk, clog, book, account, restarts, mode>>

(* The new market's tokens may be known, or fail to be fetched: then the   *)
(* slot goes on with the old ones.                                         *)
TickerOpen ==
    /\ arm = "opening" /\ acts = <<>>
    /\ arm' = "loop"
    /\ \/ /\ ~seen
          /\ open' = FALSE
          /\ UNCHANGED <<vars, ids, cycleTrades>>
       \/ /\ seen
          /\ OnCycleOpen(slotVal)
          /\ open' = TRUE /\ ids' = slotVal /\ cycleTrades' = 0
       \/ /\ seen
          /\ cycleTrades' = 0
          /\ UNCHANGED <<vars, open, ids>>
    /\ UNCHANGED <<now, slotVal, token, seen, price,
                   inflight, watchers, disk, clog, book, account, restarts, mode>>

-----------------------------------------------------------------------------
(* Executing the next action: process_actions and execute.                 *)

Executes(type) == acts # <<>> /\ Head(acts).type = type

DoPersist ==
    /\ Executes("Persist") /\ Take
    /\ disk' = Snapshot
    /\ UNCHANGED <<now, arm, slotVal, open, ids, token, seen, price, cycleTrades,
                   inflight, watchers, clog, book, account, restarts, mode>>

(* Mutant: only a provisional result is looked up.                         *)
WatchersOfResolved(rec) ==
    IF rec.outcome \in {"Win", "Loss"} THEN watchers \cup {rec.cycle} ELSE watchers
WatchersWith(rec) == watchers \cup {rec.cycle}

(* A logged trade is counted and a watcher is spawned for its market.      *)
DoLogTrade ==
    /\ Executes("LogTrade") /\ Take
    /\ cycleTrades' = cycleTrades + 1
    /\ watchers' = WatchersWith(Head(acts).rec)
    /\ UNCHANGED <<now, arm, slotVal, open, ids, token, seen, price,
                   inflight, disk, clog, book, account, restarts, mode>>

LoggedEngagements == {"HaltEngaged", "GammaHaltEngaged"}     \* mutant: lifts are not logged
LoggedNotices == {"HaltEngaged", "HaltReset", "HaltClearedByCorrection", "GammaHaltEngaged"}
Notices == {"HaltEngaged", "HaltReset", "HaltClearedByCorrection", "GammaHaltEngaged",
            "GammaUnresolvedContinued", "LogTradeCorrection", "StopLossVerdict"}

DoNotify ==
    /\ acts # <<>> /\ Head(acts).type \in Notices
    /\ Take
    /\ clog' = IF Head(acts).type \in LoggedNotices THEN Halted ELSE clog
    /\ UNCHANGED <<now, arm, slotVal, open, ids, token, seen, price, cycleTrades,
                   inflight, watchers, disk, book, account, restarts, mode>>

NewToken(side) == [market |-> ids, side |-> side]

(* The first buy on a market opens a new account of it.                    *)
AccountWithBuy ==
    IF account.market = ids
    THEN [account EXCEPT !.buys = @ + 1]
    ELSE [market |-> ids, shares |-> 0, cash |-> 0, buys |-> 1]

FinishEntryOrder(acc, n, cost) ==
    IF n > 0
    THEN /\ account' = [acc EXCEPT !.shares = @ + n, !.cash = @ - n * cost - TakerFee(n, cost)]
         /\ OnOrderFilled(n, cost)
    ELSE account' = acc /\ OnOrderRejected

DoPlaceBuy ==
    /\ Executes("PlaceBuy")
    /\ token' = NewToken(Head(acts).side)
    /\ IF mode = "Paper"
       THEN /\ inflight' = inflight \cup {[kind |-> "Entry", token |-> token']}
            /\ account' = AccountWithBuy
            /\ Take
       ELSE /\ \E n \in ShareCounts, cost \in EntryPrices :
                  /\ cost <= Head(acts).price /\ n * cost <= TradeSize
                  /\ FinishEntryOrder(AccountWithBuy, n, cost)
            /\ UNCHANGED inflight
    /\ UNCHANGED <<now, arm, slotVal, open, ids, seen, price, cycleTrades,
                   watchers, disk, clog, book, restarts, mode>>

Order(id, kind, tok, n, at) ==
    [id |-> id, kind |-> kind, token |-> tok, shares |-> n, price |-> at]

(* A limit order rests; a real one may also match at once or be refused.   *)
DoPlaceLimitBuy ==
    /\ Executes("PlaceLimitBuy")
    /\ LET a == Head(acts)
       IN  /\ token' = NewToken(a.side)
           /\ \/ /\ OnLimitBuyPlaced("Live", QuoteId(ids))
                 /\ book' = book \cup {Order(QuoteId(ids), "Buy", token', a.shares, a.price)}
                 /\ account' = AccountWithBuy
              \/ /\ mode = "Real"
                 /\ OnLimitBuyPlaced("Matched", NoOrder)
                 /\ account' = [AccountWithBuy EXCEPT
                                  !.shares = @ + a.shares,
                                  !.cash = @ - a.shares * a.price - TakerFee(a.shares, a.price)]
                 /\ UNCHANGED book
              \/ /\ mode = "Real"
                 /\ OnLimitBuyPlaced("Failed", NoOrder)
                 /\ account' = AccountWithBuy
                 /\ UNCHANGED book
    /\ UNCHANGED <<now, arm, slotVal, open, ids, seen, price, cycleTrades,
                   inflight, watchers, disk, clog, restarts, mode>>

(* Without a token there is nothing to sell, and no answer either.         *)
DoPlaceLimitSell ==
    /\ Executes("PlaceLimitSell")
    /\ LET a == Head(acts)
       IN  \/ token = NoToken /\ Take /\ UNCHANGED <<book, account>>
           \/ /\ token # NoToken
              /\ \/ /\ OnLimitSellPlaced("Live", ExitId(token.market))
                    /\ book' = book \cup {Order(ExitId(token.market), "Sell", token,
                                                a.shares, a.price)}
                    /\ UNCHANGED account
                 \/ /\ mode = "Real"
                    /\ OnLimitSellPlaced("Matched", NoOrder)
                    /\ SellFills(a.shares, a.price, TakerFee(a.shares, a.price))
                    /\ UNCHANGED book
                 \/ /\ mode = "Real"
                    /\ OnLimitSellPlaced("Failed", NoOrder)
                    /\ UNCHANGED <<book, account>>
    /\ UNCHANGED <<now, arm, slotVal, open, ids, token, seen, price, cycleTrades,
                   inflight, watchers, disk, clog, restarts, mode>>

CloseFilled(reason, sold, at) ==
    CASE reason = "TakeProfit" -> OnUnwindFilled(sold, at)
      [] reason = "StopLoss"   -> OnStopSellFilled(sold, at)
      [] reason = "Timeout"    -> OnTimeoutSellFilled(sold, at)
CloseFailed(reason) ==
    CASE reason = "TakeProfit" -> OnUnwindFailed
      [] reason = "StopLoss"   -> OnStopSellFailed
      [] reason = "Timeout"    -> OnTimeoutSellFailed

TokenAfterAnyClose(c, sold) == NoToken      \* mutant: a partial close forgets it too
TokenAfterClose(c, sold) == IF sold >= c.shares THEN NoToken ELSE token

(* A full close forgets the token; what is left of a partial one keeps it. *)
FinishCloseOrder(c, sold, at) ==
    IF sold > 0
    THEN /\ SellFills(sold, at, TakerFee(sold, at))
         /\ token' = TokenAfterClose(c, sold)
         /\ CloseFilled(c.reason, sold, at)
    ELSE CloseFailed(c.reason) /\ UNCHANGED <<token, account>>

DoClosePosition ==
    /\ Executes("ClosePosition")
    /\ LET c == Head(acts)
       IN  \/ token = NoToken /\ Take /\ UNCHANGED <<token, inflight, account>>
           \/ /\ token # NoToken /\ mode = "Paper"
              /\ inflight' = inflight \cup
                   {[kind |-> "Close", token |-> token, shares |-> c.shares,
                     reason |-> c.reason, limit |-> c.limit]}
              /\ Take
              /\ UNCHANGED <<token, account>>
           \/ /\ token # NoToken /\ mode = "Real"
              /\ \E sold \in ShareCounts, at \in Prices :
                    /\ sold <= c.shares /\ sold <= account.shares
                    /\ c.limit # NoLimit => at >= c.limit
                    /\ FinishCloseOrder(c, sold, at)
              /\ UNCHANGED inflight
    /\ UNCHANGED <<now, arm, slotVal, open, ids, seen, price, cycleTrades,
                   watchers, disk, clog, book, restarts, mode>>

(* The answer to a cancel is only printed: a real order may stay.          *)
DoCancel ==
    /\ acts # <<>> /\ Head(acts).type \in {"CancelLimitSell", "CancelEntryQuote"}
    /\ Take
    /\ \/ book' = {o \in book : o.id # Head(acts).order_id}
       \/ mode = "Real" /\ RestingFills /\ UNCHANGED book
    /\ UNCHANGED <<now, arm, slotVal, open, ids, token, seen, price, cycleTrades,
                   inflight, watchers, disk, clog, account, restarts, mode>>

Execute ==
    \/ DoPersist \/ DoLogTrade \/ DoNotify
    \/ DoPlaceBuy \/ DoPlaceLimitBuy \/ DoPlaceLimitSell \/ DoClosePosition \/ DoCancel

-----------------------------------------------------------------------------
(* What arrives from outside.                                              *)

(* A deferred paper order: an entry fills at an observed price, a close in *)
(* full, at its limit or better when it has one.                           *)
PaperFillArm ==
    /\ InLoop
    /\ \E f \in inflight :
          /\ inflight' = inflight \ {f}
          /\ IF f.kind = "Entry"
             THEN /\ \E cost \in EntryPrices : FinishEntryOrder(account, TradeSize \div cost, cost)
                  /\ UNCHANGED token
             ELSE \/ \E at \in Prices :
                        at >= f.limit /\ FinishCloseOrder(f, f.shares, at)
                  \/ FinishCloseOrder(f, 0, 0)
    /\ UNCHANGED <<now, arm, slotVal, open, ids, seen, price, cycleTrades,
                   watchers, disk, clog, book, restarts, mode>>

(* A watcher answers for its slot, without saying for which trade.  It has *)
(* a verdict only for a market that is over; it may give up at any time,   *)
(* but not before its first poll, which is delayed by more than the paper  *)
(* latency (gamma_poll_delay_secs).                                        *)
ApiResultArm ==
    /\ InLoop
    /\ inflight = {}
    /\ \E market \in watchers :
          /\ watchers' = watchers \ {market}
          /\ \/ now >= (market + 1) * CycleLen /\ \E won \in BOOLEAN : OnApiResult(won)
             \/ \E increased \in BOOLEAN : OnApiResultTimeout(increased)
    /\ UNCHANGED <<now, arm, slotVal, open, ids, token, seen, price, cycleTrades,
                   inflight, disk, clog, book, account, restarts, mode>>

(* Mutant: saves what was before the command.                              *)
SaveTooEarly ==
    /\ disk' = Snapshot
    /\ clog' = (suppressed' \/ IsHaltedNext)

SaveAndLog ==
    /\ disk' = [suppressed |-> suppressed', halt |-> halt']
    /\ clog' = (suppressed' \/ IsHaltedNext)

(* /halt, /resume, /reset_losses: the worker, its file and the control log *)
(* in one go; the actions returned are not looked at.                      *)
ApplyControl ==
    /\ InLoop
    /\ \E event \in ControlEvents : ControlEffect(event)
    /\ SaveAndLog
    /\ UNCHANGED <<acts, now, arm, slotVal, open, ids, token, seen, price, cycleTrades,
                   inflight, watchers, book, account, restarts, mode>>

(* The balance check of the account finds a drawdown, or a decrease while  *)
(* a result is open.                                                       *)
ApplyBalanceHalt ==
    /\ InLoop
    /\ BalanceEffect
    /\ SaveAndLog
    /\ UNCHANGED <<acts, now, arm, slotVal, open, ids, token, seen, price, cycleTrades,
                   inflight, watchers, book, account, restarts, mode>>

(* A resting order fills on the exchange, while its market is open and as  *)
(* far as the account holds what it sells; nothing tells the worker.       *)
ExchangeFill ==
    /\ mode = "Real" /\ RestingFills
    /\ \E o \in book :
          /\ o.token.market = account.market /\ Window(now) = account.market
          /\ o.kind = "Sell" => o.shares <= account.shares
          /\ Fills(o)
    /\ UNCHANGED <<vars, now, arm, slotVal, open, ids, token, seen, price, cycleTrades,
                   inflight, watchers, disk, clog, restarts, mode>>

(* The process stops and comes up again: all it keeps is the file, which   *)
(* is empty if it stopped while writing it.  Paper orders live in it; real *)
(* ones stay on the exchange.                                              *)
Restart ==
    /\ restarts < MaxRestarts
    /\ now + RestartTime <= MaxTime
    /\ now' = now + RestartTime
    /\ restarts' = restarts + 1
    /\ \E file \in {disk} \cup (IF Executes("Persist") THEN {EmptyDisk} ELSE {}) :
          /\ disk' = file
          /\ suppressed' = file.suppressed /\ halt' = file.halt
          /\ clog' = (file.suppressed \/ IsHalted(file.halt))
    /\ state' = Watching /\ fired' = FALSE /\ pending' = None /\ moved' = FALSE
    /\ binTs' = 0 /\ cycle' = NoCycle /\ acts' = <<>>
    /\ arm' = "loop" /\ slotVal' = NoCycle /\ open' = FALSE /\ ids' = NoCycle
    /\ token' = NoToken /\ seen' = FALSE /\ price' = NoPrice /\ cycleTrades' = 0
    /\ inflight' = {} /\ watchers' = {}
    /\ book' = IF mode = "Paper" THEN {} ELSE book
    /\ UNCHANGED <<losing, account, mode>>

DriverNext ==
    \/ Advance
    \/ BinanceArm \/ PolyArm \/ PaperRestingFill \/ PolyStep
    \/ TickerReevaluate \/ TickerBoundary \/ TickerOpen
    \/ Execute
    \/ PaperFillArm \/ ApiResultArm \/ ApplyControl \/ ApplyBalanceHalt
    \/ ExchangeFill \/ Restart

DriverSpec == DriverInit /\ [][DriverNext]_allVars

(* The select loop runs its arm and the returned actions to the end, takes *)
(* the ticker and the channels again and again; the clock goes on.         *)
DriverFairness ==
    /\ WF_allVars(Execute)
    /\ WF_allVars(PolyStep) /\ WF_allVars(PaperRestingFill)
    /\ WF_allVars(TickerBoundary) /\ WF_allVars(TickerOpen)
    /\ SF_allVars(TickerReevaluate)
    /\ SF_allVars(PaperFillArm)
    /\ SF_allVars(ApiResultArm)
    /\ SF_allVars(Advance)

FairDriverSpec == DriverSpec /\ DriverFairness

-----------------------------------------------------------------------------
(* Properties.                                                             *)

(* The bot orders at most once per market, restarts included: the `fired'  *)
(* latch holds within a run, and a process that comes up in mid-window     *)
(* waits for the next one (should_suppress_startup_cycle).                 *)
OneBuyPerMarket == account.buys <= 1

(* Every trade waiting for a verdict has a watcher of its own, or one to   *)
(* be spawned, and no other watcher is out: replies carry no trade, so a   *)
(* second one would be taken for the first's (api_result_rx in live.rs).   *)
WatcherPerVerdict ==
    LET spawning == {acts[i].rec.cycle : i \in {j \in DOMAIN acts : acts[j].type = "LogTrade"}}
    IN  watchers \cup spawning = IF AwaitsVerdict THEN {state.rec.cycle} ELSE {}

(* A deferred paper entry is answered while its worker still waits for it, *)
(* in the window it was ordered in: no_enter_when_time_left is longer than *)
(* the latency, so the boundary cannot get in between.                     *)
EntryAnswerAwaited ==
    \A f \in inflight : f.kind = "Entry" =>
        state = Entering /\ f.token = [market |-> cycle, side |-> pending]

(* The driver sells the token the held position is in, for as long as the  *)
(* position is held: a late answer of the last trade never takes the token *)
(* of the next one away (finish_close_order).                              *)
TokenMatchesPosition ==
    HasPosition => token = [market |-> cycle, side |-> state.h.side]

(* What a restart would bring back is what the worker has, whenever the    *)
(* loop waits for its next event (persist, apply_control).                 *)
FileIsCurrent == InLoop => disk = Snapshot

(* The control log's last line tells whether entries are halted: every     *)
(* event that can change it is logged (log_control_event).                 *)
ControlLogIsCurrent == InLoop => clog = Halted

(* A logged result is what the account made of the trade, fees and partial *)
(* fills included: cash so far, the shares still held at their payout, and *)
(* unsellable leftovers of an early exit at cost (settle_pnl,              *)
(* finalize_or_hold_residual).                                             *)
AccountResult(rec) ==
    account.cash + account.shares * (CASE rec.outcome = "Win"  -> One
                                       [] rec.outcome = "Loss" -> 0
                                       [] OTHER -> rec.token_price)
PnlIsCash ==
    \A i \in DOMAIN acts : acts[i].type = "LogTrade" =>
        acts[i].rec.pnl = AccountResult(acts[i].rec)

(* A held position ends in a logged trade, never silently; only a restart  *)
(* forgets one.                                                            *)
PositionEndsInTrade ==
    [][HasPosition /\ ~HasPosition' => Announces("LogTrade") \/ restarts' > restarts]_allVars

(* Once a trade is closed, its verdict comes, one way or the other, and    *)
(* the worker is free to trade again.                                      *)
VerdictArrives == AwaitsVerdict ~> ~AwaitsVerdict

(* No position outlives its market by more than the ticker's lag.          *)
PositionEnds == HasPosition /\ cycle < Window(MaxTime) ~> ~HasPosition
=============================================================================
