------------------------------ MODULE Machine -------------------------------
(***************************************************************************)
(* The replay machine of trader/src/machine.rs with the signals, the       *)
(* strategies and the gates it asks: one per (asset, strategy), fed with   *)
(* the quotes of a prediction market and the trades of the reference       *)
(* exchange, filled at once.  A machine is a record, an event handler is   *)
(* an operator from the machine before to the machine after, and a closed  *)
(* position is the set of trade records the handler returns: one or none.  *)
(*                                                                         *)
(* Prices are in units of which a winning share pays One, times in a unit  *)
(* of the instance's choice.  pnl is per share: only its sign is used.     *)
(***************************************************************************)
EXTENDS Integers, FiniteSets

CONSTANTS
    One,                \* what a share of the winning side pays
    NoEnter,            \* no_enter_when_time_left
    EnterWhen,          \* enter_when_time_left
    Low, StartTime,     \* reversal_low_threshold, reversal_start_time
    Reversal,           \* reversal: the price that completes one
    PriceLow, PriceHigh,        \* the band of high_prob
    VHigh1, VLow, VHigh2,       \* the three turns of a v_shape
    Premium, Discount,  \* spread_premium_limit, spread_discount_limit
    MaxAge,             \* max_price_age_secs
    MinDelta,           \* delta_pct_rev, _hp, _v by strategy
    MaxBuyPrice, PriceHighRev,
    SlPnl, Sl, UnwindPnl, UnwindTime,   \* exits, not positive = off
    ForceUnwind         \* FORCE_UNWIND_BEFORE_CYCLE_END_SECS

ASSUME MachineAssumption ==
    /\ One \in Nat /\ NoEnter \in Int /\ EnterWhen \in Int /\ MaxAge \in Int
    /\ SlPnl \in Int /\ Sl \in Int /\ UnwindPnl \in Int /\ UnwindTime \in Int
    /\ ForceUnwind \in Nat

Sides == {"Up", "Down"}
Strategies == {"reversal", "high_prob", "v_shape"}

Watching == [tag |-> "Watching"]
Halted == [tag |-> "Halted"]
Holding(side, price, now, quoteTs) ==
    [tag |-> "Holding", side |-> side, price |-> price,
     entry_ts |-> now, entry_price_ts |-> quoteTs]

IsHolding(m) == m.state.tag = "Holding"

(* A machine that has seen nothing: ts = 0 is "no quote yet".              *)
NewMachine(kind) ==
    [kind |-> kind, sawLow |-> {}, sawHigh |-> {}, dipped |-> {},
     up |-> 0, dn |-> 0, ts |-> 0,
     price |-> 0, open |-> 0, last |-> 0, end |-> 0,
     fired |-> FALSE, state |-> Watching]

PriceOf(q, side) == IF side = "Up" THEN q.up ELSE q.dn
TimeLeft(m, now) == m.end - now

-----------------------------------------------------------------------------
(* Signals.                                                                *)

(* Mutant: the latest price survives the cycle, as the last quote does.    *)
CycleOpenKeepsPrice(m, end, open, suppressed) ==
    [m EXCEPT !.sawLow = {}, !.sawHigh = {}, !.dipped = {},
              !.open = open, !.last = open, !.end = end, !.fired = FALSE,
              !.state = IF suppressed THEN Halted ELSE Watching]

(* The latches and the price of the reference start over, the last quote   *)
(* does not.                                                               *)
CycleOpen(m, end, open, suppressed) ==
    [m EXCEPT !.sawLow = {}, !.sawHigh = {}, !.dipped = {},
              !.price = 0, !.open = open, !.last = open, !.end = end,
              !.fired = FALSE,
              !.state = IF suppressed THEN Halted ELSE Watching]

(* SawLowSignal: a dip counts only inside the window of time_left.         *)
Dips(m, t) ==
    {s \in Sides : /\ NoEnter <= TimeLeft(m, t.ts) /\ TimeLeft(m, t.ts) <= StartTime
                   /\ 0 < PriceOf(t, s) /\ PriceOf(t, s) < Low}

(* VShapeSignal: the low counts once the high has been seen.               *)
Highs(m, t) == m.sawHigh \cup {s \in Sides : PriceOf(t, s) >= VHigh1}
LowsAfterHigh(m, t) ==
    {s \in Highs(m, t) : 0 < PriceOf(t, s) /\ PriceOf(t, s) <= VLow}

Positive(new, old) == IF new > 0 THEN new ELSE old

ObservePoly(m, t) ==
    [m EXCEPT !.up = Positive(t.up, @), !.dn = Positive(t.dn, @),
              !.ts = IF t.ts > @ THEN t.ts ELSE @,
              !.sawLow = @ \cup Dips(m, t),
              !.sawHigh = Highs(m, t),
              !.dipped = @ \cup LowsAfterHigh(m, t)]

ObserveBinance(m, t) == [m EXCEPT !.price = Positive(t.price, @), !.last = t.price]

Delta(m) == IF m.price <= 0 \/ m.open <= 0 THEN 0 ELSE m.price - m.open
Toward(side, d) == IF side = "Up" THEN d > 0 ELSE d < 0
Magnitude(d) == IF d < 0 THEN -d ELSE d

-----------------------------------------------------------------------------
(* Entry.                                                                  *)

ReversalFires(m, side) ==
    side \in m.sawLow /\ PriceOf(m, side) > Reversal /\ Toward(side, Delta(m))
HighProbFires(m, side, now) ==
    /\ TimeLeft(m, now) <= EnterWhen
    /\ PriceLow < PriceOf(m, side) /\ PriceOf(m, side) < PriceHigh
    /\ Toward(side, Delta(m))
VShapeFires(m, side) == side \in m.dipped /\ PriceOf(m, side) >= VHigh2

Fires(m, side, now) ==
    /\ ~m.fired /\ TimeLeft(m, now) >= NoEnter
    /\ m.up > 0 /\ m.dn > 0
    /\ \/ m.kind = "reversal" /\ ReversalFires(m, side)
       \/ m.kind = "high_prob" /\ HighProbFires(m, side, now)
       \/ m.kind = "v_shape" /\ VShapeFires(m, side)

(* `evaluate' names one side, Up when both fire.                           *)
Intent(m, now) ==
    IF Fires(m, "Up", now) THEN {"Up"} ELSE {s \in {"Down"} : Fires(m, s, now)}

GatesPass(m, side, now) ==
    /\ m.up + m.dn <= Premium /\ m.up + m.dn >= Discount
    /\ m.ts > 0 /\ now - m.ts <= MaxAge
    /\ Magnitude(Delta(m)) >= MinDelta[m.kind]
    /\ PriceOf(m, side) <= MaxBuyPrice
    /\ ~(m.kind = "reversal" /\ PriceHighRev > 0 /\ PriceOf(m, side) > PriceHighRev)

(* Mutant: mark_fired is forgotten.                                        *)
EnteredAgain(m, side, now) ==
    [m EXCEPT !.state = Holding(side, PriceOf(m, side), now, m.ts)]
Entered(m, side, now) ==
    [m EXCEPT !.fired = TRUE,
              !.state = Holding(side, PriceOf(m, side), now, m.ts)]

TryEnter(m, now) ==
    LET side == Intent(m, now)
    IN  IF m.state = Watching /\ \E s \in side : GatesPass(m, s, now)
        THEN Entered(m, CHOOSE s \in side : TRUE, now)
        ELSE m

-----------------------------------------------------------------------------
(* Exit: {} or the one record of the closed trade.                         *)

TradeRecord(m, outcome, exit) ==
    [strategy |-> m.kind, side |-> m.state.side, end |-> m.end,
     entry_price_ts |-> m.state.entry_price_ts, entry_ts |-> m.state.entry_ts,
     outcome |-> outcome, pnl |-> exit - m.state.price]

(* Mutant: the unwind at the end of the cycle looks at quotes only.        *)
ClockExitTimeout(m, now, price) ==
    {TradeRecord(m, "Timeout", price) :
        x \in {TRUE} \cap {UnwindTime > 0 /\ now - m.state.entry_ts >= UnwindTime}}

(* check_cycle_end_unwind, then check_timeout.                             *)
ClockExit(m, now, price) ==
    CASE m.end > 0 /\ TimeLeft(m, now) <= ForceUnwind -> {TradeRecord(m, "Unwind", price)}
      [] (m.end <= 0 \/ TimeLeft(m, now) > ForceUnwind)
         /\ UnwindTime > 0 /\ now - m.state.entry_ts >= UnwindTime
           -> {TradeRecord(m, "Timeout", price)}
      [] OTHER -> {}

PolyExit(m, t) ==
    LET price == PriceOf(t, m.state.side)
        entry == m.state.price
    IN  CASE SlPnl > 0 /\ price <= entry - SlPnl ->
                 {TradeRecord(m, "StopLoss", entry - SlPnl)}
          [] ~(SlPnl > 0 /\ price <= entry - SlPnl) /\ Sl > 0 /\ price < Sl ->
                 {TradeRecord(m, "StopLoss", price)}
          [] ~(SlPnl > 0 /\ price <= entry - SlPnl) /\ ~(Sl > 0 /\ price < Sl)
             /\ UnwindPnl > 0 /\ price >= entry + UnwindPnl ->
                 {TradeRecord(m, "Unwind", entry + UnwindPnl)}
          [] OTHER -> ClockExit(m, t.ts, price)

Closed(m) == [m EXCEPT !.state = Watching]

(* The handlers: what they return, and the machine they leave.             *)
PolyRecords(m, t) == IF IsHolding(m) THEN PolyExit(ObservePoly(m, t), t) ELSE {}
OnPoly(m, t) ==
    LET n == ObservePoly(m, t)
    IN  CASE ~IsHolding(m) -> TryEnter(n, t.ts)
          [] PolyRecords(m, t) # {} -> Closed(n)
          [] OTHER -> n

BinanceRecords(m, t) ==
    IF IsHolding(m) THEN ClockExit(m, t.ts, PriceOf(m, m.state.side)) ELSE {}
OnBinance(m, t) ==
    LET n == ObserveBinance(m, t)
    IN  CASE ~IsHolding(m) -> TryEnter(n, t.ts)
          [] BinanceRecords(m, t) # {} -> Closed(n)
          [] OTHER -> n

(* A tie goes to Down.                                                     *)
Won(m) == IF m.state.side = "Up" THEN m.last > m.open ELSE ~(m.last > m.open)
CloseRecords(m) ==
    CASE ~IsHolding(m) -> {}
      [] IsHolding(m) /\ Won(m) -> {TradeRecord(m, "Win", One)}
      [] IsHolding(m) /\ ~Won(m) -> {TradeRecord(m, "Loss", 0)}
CycleClose(m) == IF IsHolding(m) THEN Closed(m) ELSE m
=============================================================================
