------------------------------ MODULE Backtest ------------------------------
(***************************************************************************)
(* The replay of trader/src/backtest.rs: recorded windows one after the    *)
(* other, in each the rows of both feeds merged by time and given to one   *)
(* machine per strategy, and between windows the loss-streak halts.  The   *)
(* rows of a window are any that the recorder can have left: at one time   *)
(* at most one of each feed, the reference before the market.              *)
(***************************************************************************)
EXTENDS Machine, HaltTracker

CONSTANTS
    Traded,         \* params.strategies
    Quotes,         \* [up, dn] pairs a row of the market may hold
    RefPrices,      \* prices of the reference exchange
    CycleLen,       \* cycle_period_from_slug
    MaxCycle        \* bound: windows replayed

ASSUME BacktestAssumption ==
    /\ Traded \subseteq Strategies
    /\ RefPrices \subseteq Nat \ {0} /\ Quotes \subseteq [up : Nat, dn : Nat]
    /\ CycleLen \in Nat \ {0} /\ MaxCycle \in Nat

VARIABLES
    cycle,          \* the window last reached, 0 before the first
    machines,       \* strategy -> machine
    halts,          \* strategy -> HaltTracker
    replaying,      \* inside replay_cycle
    seen,           \* feeds of which a row of this window was replayed
    now, feed,      \* time and feed of the last row
    completed       \* trades of this window

vars == <<cycle, machines, halts, replaying, seen, now, feed, completed>>

Init ==
    /\ cycle = 0
    /\ machines = [s \in Traded |-> NewMachine(s)]
    /\ halts = [s \in Traded |-> NewTracker]
    /\ replaying = FALSE /\ seen = {} /\ completed = {}
    /\ now = 0 /\ feed = "binance"

Start(c) == c * CycleLen
End(c) == (c + 1) * CycleLen

-----------------------------------------------------------------------------
(* The next window in the order of the slugs: the session resets come      *)
(* first, the halts are read before the window is replayed.                *)

HaltsOf(c) == [s \in Traded |-> ResetIfNewSession(halts[s], SessionOf(c))]
AnyActive(hs) == \E s \in Traded : ~IsHalted(hs[s])

(* Mutant: a halted strategy is only left out when all of them are.        *)
NoneSuppressed(hs, s) == FALSE
Suppressed(hs, s) == IsHalted(hs[s])

NextWindow ==
    /\ ~replaying /\ cycle < MaxCycle
    /\ cycle' = cycle + 1
    /\ halts' = HaltsOf(cycle')

(* Every strategy halted, or one feed left no row: machines untouched.     *)
SkipCycle ==
    /\ NextWindow
    /\ UNCHANGED <<machines, replaying, seen, now, feed, completed>>

(* The open of the window is the price of its first reference row, which   *)
(* is read ahead.                                                          *)
OpenCycle(open) ==
    /\ NextWindow
    /\ AnyActive(HaltsOf(cycle'))
    /\ machines' = [s \in Traded |->
           CycleOpen(machines[s], End(cycle'), open, Suppressed(HaltsOf(cycle'), s))]
    /\ replaying' = TRUE /\ seen' = {} /\ completed' = {}
    /\ now' = Start(cycle') /\ feed' = "binance"

(* merge_ticks: by time, the reference first among equals.                 *)
InOrder(f, ts) ==
    \/ ts > now
    \/ ts = now /\ (seen = {} \/ (feed = "binance" /\ f = "poly"))

Row(f, ts) ==
    /\ replaying /\ InOrder(f, ts)
    /\ now' = ts /\ feed' = f /\ seen' = seen \cup {f}
    /\ UNCHANGED <<cycle, halts, replaying>>

BinanceRow(price, ts) ==
    LET t == [ts |-> ts, price |-> price]
    IN  /\ Row("binance", ts)
        /\ "binance" \notin seen => \A s \in Traded : price = machines[s].open
        /\ machines' = [s \in Traded |-> OnBinance(machines[s], t)]
        /\ completed' = completed \cup UNION {BinanceRecords(machines[s], t) : s \in Traded}

PolyRow(q, ts) ==
    LET t == [ts |-> ts, up |-> q.up, dn |-> q.dn]
    IN  /\ Row("poly", ts)
        /\ "binance" \notin seen => ts < End(cycle)
        /\ machines' = [s \in Traded |-> OnPoly(machines[s], t)]
        /\ completed' = completed \cup UNION {PolyRecords(machines[s], t) : s \in Traded}

(* record_trade, for every trade of the window.                            *)
LossesOf(s, records) ==
    {r \in records : r.strategy = s /\ IsLossForHalt(r.outcome, r.pnl)}
Counted(hs, records) ==
    [s \in Traded |-> [hs[s] EXCEPT !.losses = @ + Cardinality(LossesOf(s, records))]]

CloseCycle ==
    LET all == completed \cup UNION {CloseRecords(machines[s]) : s \in Traded}
    IN  /\ replaying /\ seen = {"binance", "poly"}
        /\ machines' = [s \in Traded |-> CycleClose(machines[s])]
        /\ completed' = all
        /\ halts' = Counted(halts, all)
        /\ replaying' = FALSE
        /\ UNCHANGED <<cycle, seen, now, feed>>

Next ==
    \/ SkipCycle
    \/ \E p \in RefPrices : OpenCycle(p)
    \/ \E p \in RefPrices, ts \in Start(cycle) .. End(cycle) : BinanceRow(p, ts)
    \/ \E q \in Quotes, ts \in Start(cycle) .. End(cycle) : PolyRow(q, ts)
    \/ CloseCycle

Spec == Init /\ [][Next]_vars

-----------------------------------------------------------------------------
(* machine.rs:94: a position is closed by the first row of either feed in  *)
(* the last ForceUnwind seconds, so only a window that falls silent right  *)
(* after the entry can carry one to its natural end.                       *)
RidesOnlyInSilence ==
    \A s \in Traded :
        replaying /\ IsHolding(machines[s]) /\ End(cycle) - now <= ForceUnwind
            => machines[s].state.entry_ts = now

(* Quotes outlive their window (latest_poly is not reset) and the price of *)
(* the reference once did: still nobody buys at a price quoted for the     *)
(* window before, or in a direction the reference has not yet shown in     *)
(* this one.                                                               *)
EntryJudgesThisCycle ==
    \A s \in Traded : IsHolding(machines[s]) =>
        /\ machines[s].state.entry_price_ts >= Start(cycle)
        /\ s # "v_shape" => "binance" \in seen

(* Losses are counted after the window, halts are read before it: the      *)
(* streak still never runs past its limit.                                 *)
StreakNeverOvershoots ==
    HaltMax > 0 => \A s \in Traded : halts[s].losses <= HaltMax

(* machine.rs keeps the promise of TradeLifecycle: one position per window *)
(* and machine, none under a halt, none carried over, also when windows    *)
(* are left out between two that are replayed.                             *)
Lifecycle == INSTANCE TradeLifecycle WITH
    Traders <- Traded,
    window  <- [s \in Traded |-> machines[s].end],
    barred  <- [s \in Traded |-> machines[s].state = Halted],
    entered <- [s \in Traded |-> machines[s].fired],
    holding <- [s \in Traded |-> IsHolding(machines[s])]

OnePositionPerWindow == Lifecycle!Spec
=============================================================================
