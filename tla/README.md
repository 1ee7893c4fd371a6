# A TLA+ model of poly_rust

`poly_rust` trades Polymarket's "up or down" crypto markets: windows of five
minutes (or longer) at whose end a share of the winning side pays one dollar.
Beside them it trades the temperature buckets of daily weather events, records
what both kinds of market do, and replays or paper-trades strategies on it.
This directory holds TLA+ modules translated from its Rust source, TLC
configurations that check them on small instances, and TLAPS proofs.
Paths below are relative to the repository's root.

## 1. The system

| Component | State it keeps | Operations | Talks to |
|---|---|---|---|
| **Worker** `trader/src/worker.rs` | one `WorkerState` (Watching, Entering, EnteringMaker, Holding, Unwinding, StopExiting, TimingOut, Confirming, EnrichOnly), entry suppression, the halt tracker, the strategy's latch, last prices | `Worker::step(Event) -> Vec<Action>`: pure, no I/O | the live driver |
| **Loss-streak halt** `HaltTracker` in `trader/src/backtest.rs` | `losses`, `last_session` | `record_trade`, `correct_trade`, `reset_if_new_session`, `reset_losses` | owned by a worker, restored from its file; one per strategy in the backtest |
| **Live driver** `trader/src/bin/live.rs` | per slot: current market, token ids, last prices, trades this cycle, files; channels; the balance guards | one `select!` loop: Binance ticks, Polymarket ticks, 1 s ticker, Telegram, verdicts, deferred paper fills, balance timer, shutdown; `process_actions` and `execute` | workers, execution engine, watcher tasks, files |
| **Execution** `trader/src/execution.rs` | paper: resting orders, last prices; live: none | `place`, `place_limit_sell`, `place_limit_buy`, `close_position`, `close_position_at_price`, `cancel_resting_order` | exchange REST API |
| **Balance guards** `trader/src/balance.rs` | session baseline and fired flag; last sample and verdict | `check`, `reset_baseline`, `record`, `increased` | driver |
| **Gates** `trader/src/gates.rs` | none (price ceiling, spread, staleness, delta, P(up)) | one predicate each | worker, machine |
| **Strategies, signals** `trader/src/strategies.rs`, `trader/src/signal/` | per-cycle latches and extrema | `on_tick`, `reset` | worker, machine, siglab |
| **Backtest** `trader/src/machine.rs`, `backtest.rs` | one trade machine and one halt tracker per strategy | replay of merged rows, window by window | strategies, halt tracker, recorded files |
| **Unwind check** `trader/src/unwind.rs` | none | a diagnostic of recorded paths | |
| **Redemption** `trader/src/redemption.rs` | condition ids already attempted | `check_and_redeem` | nobody yet |
| **Telegram** `trader/src/telegram/` | update offset | poll, parse, scope a command to slots, render | driver |
| **Weather bot** `trader/src/weather.rs` | per city: the day's event, a small machine per bucket | discovery, entry, exits, orders | the driver's execution engine, Gamma |
| **Config, config log, market data, indicator store** | configuration, last indicator by asset | load, resolve, record | driver |
| **Price feed** `price_feed/src/` | last values per asset, parquet buffers, mismatch counter | collectors, staleness log, reconciliation against REST, hourly files with temporary names | NATS, files |
| **Gamma recorder** `gamma_recorder/src/` | SQLite rows of market resolutions | backfill, placeholders for gaps, retry sweep, sticky resolution | Gamma API |
| **Indicator** `indicator/src/` | per-cycle price grid, HAR state | `on_tick`, `roll_cycle`, `snapshot` | NATS |
| **siglab** `siglab/src/` | machines and paper engines, trade log, reports | market tasks with rollover, weather events with a supervisor, hourly reports, maintenance modes | feeds, files |
| **analysis, scripts, probes** | offline | studies, deployment, measurement | files |

How a trade runs: the driver hands ticks to the worker; the worker returns
`PlaceBuy` (or `PlaceLimitBuy`); the driver executes it and steps the answer
back into the worker before it goes on with the worker's remaining actions; the
held position ends by take-profit, stop-loss, time limit or at the boundary;
`LogTrade` spawns a task that polls the Gamma API, whose verdict is sent back
through a channel minutes later and may overturn the result; the halt tracker
is told of the trade and of the correction. After every change the worker's
`entry_suppressed` and its loss counter are written to the slot's state file.
Once a cycle a timer samples the account's balance for the guards, which halt
slots; an operator's commands halt and resume them.

How a price gets there: `price_feed` subscribes to the market of the cycle on
two channels, keeps the newest quote, publishes it over NATS and writes it to
the file of the hour; a reconciler compares it with the exchange and restarts
the process when they differ. The driver takes what is published or subscribes
itself. The files are what the backtest replays; `machine.rs`, which replays
them, is also what siglab trades on paper.

### What is hard

* *Interleaving.* Deferred paper fills, verdicts, the ticker and the ticks
  arrive in any order; replies carry the slot, not the trade. Two channels of a
  subscription race. A maintenance process rewrites the files a live one writes.
* *Crashes.* Of a trade only the halt is persisted, in a file overwritten in
  place. The hour's file is a temporary name until it is sealed; lines of the
  trade log and report files may be cut short.
* *Partial fills, retries and lost answers* leave positions and orders the
  worker's books do not show.
* *Resting orders* live on the exchange; the worker knows only an id.
* *Corrections* arrive across resets and windows.
* *Time.* The boundary is seen by a 1 s ticker, or late; the end of a window is
  a race between a quote and the ticker; the ids of the next market are found
  late while both feeds queue up.
* *State that outlives its window*: latches, last quotes, mismatch counters,
  the fired flag of a guard.

### What makes it correct

* Worker and halt: a trade is counted once, a correction takes back what was
  counted, every change of the halt is announced; one trade per window.
* Driver: at most one buy per market even across a restart; every closed trade
  has exactly one watcher; the token to sell is that of the held position; the
  state file and the control log are current whenever the loop waits; the
  logged result is the cash of the trade; positions and verdicts come to an end.
* Fleet: a deep drawdown stops every slot and nothing but a command lifts it.
* Execution: what the worker has booked is what the account did, but for what
  nobody can tell it; sizes are never rounded above what is held; calls end.
* Price feed: an older value never replaces a newer one; a wrong cache is
  noticed, and what was counted before a poll near the close is not held against
  the next market; rows are lost only by a crash, and only those in memory.
* Backtest and siglab: one position per window, none under a halt, none carried
  over, judged on data of its own window. In siglab a trade is logged by the
  step that closes it, except by two steps that log nothing (section 4); what
  can be read of the log is in the day's summary, and in the table of its hour
  if a run comes before the hour ends; what is in a table stays there.
* Weather bot: no more positions per bucket than budgeted, none forgotten, none
  held for good.
* Gamma recorder: a resolution never changes once recorded, every slot is
  eventually asked for.

## 2. Modules

| Module | Models | How |
|---|---|---|
| `HaltTracker` | `HaltTracker`, `Outcome::is_loss_for_halt` | operators on a record of `losses` and `session`; used by `Worker`, `Fleet`, `Backtest` |
| `Worker` | `Worker::step` and every handler it calls | one action per handler, named after it; `acts` is the list of returned actions the driver still has to execute |
| `Driver` | one slot of `live.rs` around its worker | EXTENDS `Worker`; one action per `select!` arm and one per kind of returned action; spawned tasks, files and the exchange are variables |
| `Fleet` | all slots of `live.rs`: balance timer and guards, commands, run modes, state files | an arm of the loop is one step; a slot is reduced to phase, halt and file |
| `Execution` | the live engine, `PaperExecutor`, `SimExecutionEngine` | one attempt is two steps, post and answer, with the exchange between them |
| `QuoteFeed` | tokens, subscription, newest-quote merge, NATS, reconciler, the driver's own subscription | a market is the number of its cycle |
| `HourFile` | `ParquetBuf`, `AssetWriters`, `BinanceWriters` | directory entries and files apart; one step per file operation that a crash can separate |
| `Machine` | `machine.rs` with the strategies, signals and gates it asks | operators on a machine record |
| `Backtest` | `backtest.rs`: merge of the feeds, windows, halts between them | a machine per strategy |
| `TradeLifecycle` | what a trading machine promises | abstract specification: `Open`, `Enter`, `Leave`, `Stay` over window, barred, entered, holding |
| `PaperEngine` | siglab's V-shape and bucket engines | operators on an engine record |
| `PaperMarket`, `EventMonitor` | siglab's market task and weather event | one action per `select!` arm and per answer awaited |
| `Report` | trade log, report task, maintenance modes | two processes on the same files, one step per write |
| `Siglab` | the tasks composed | INSTANCEs of the three above with one clock and one trade channel |
| `Weather` | `weather.rs`: the task of a city and the answers of the engine it calls | a machine per bucket; one call at a time, prices come meanwhile |
| `GammaRecorder` | `gamma_recorder`'s table, daemon and one-shot backfill | one action per SQL statement or answer of Gamma, so that the two processes interleave there and a crash falls between |
| `MC...` | small sets for TLC | |
| `...Proofs` | theorems, section 5 | |

**Worker and driver.** `state` is `WorkerState` with the fields a property can
tell apart: side, price, shares, exit arm, `realized_pnl`, `fees`, `entry_ts`.
`fired` is the latch of the strategy; `halt` the tracker; `suppressed` is
`entry_suppressed`. `losing` is a history variable: the windows whose trade
stands as a loss since the last reset. In the driver, `arm` is the place within
the running arm of the loop (`"poly"`: a quote is being delivered to resting
paper orders; `"ticker"` and `"opening"`: between re-evaluation, CycleClose and
CycleOpen), `book` and `account` are the exchange, `disk` and `clog` the files,
`inflight` the deferred paper orders, `watchers` the spawned resolution tasks.

`process_actions` executes the returned actions in order and steps an order's
answer at once, so that the actions of the answer are executed before the rest
of the list. `Emit` builds exactly that: a handler called by an executing
action replaces the head of `acts` by what it returns. A select arm starts only
with an empty list (`InLoop`). A stop of the process may fall between any two
of these steps (`Restart`).

In `Worker` the signal and the gates are one nondeterministic choice per
tick (`TryEnter`); the two rules every strategy shares, one entry per window
and none in its last seconds, are kept, and so is the order in which
`try_enter` tests suppression, halt and state. Money is integral: a share pays
`One`, the fee is `shares * FeeRate * p * (One - p)` rounded down. A retry
counter, notes, latencies, statistics and every text are left out.

**Fleet.** Of a slot it keeps what the guards and commands see: whether it
trades, holds or waits for its verdict, its halt, its file. `chat`, `confirmed`
and `offset` are Telegram's queue with redelivery; `torn` names the slots whose
state file was cut short by a stop and loads as none. The three run modes
differ in where the balance comes from: the account, the sum of `total_pnl`
over `PAPER_STARTING_BALANCE_USDC`, or nowhere.

**Execution.** `acct` and `book` are the account and its resting orders, `call`
the running call with its attempts, `wire` the order posted or the answer to
it. `told` is what the worker has been told, `unheard` (history) what the
account did and nobody can say: fills of resting orders, lost answers, the
amounts of a limit order that matched at once. The simulated engines answer in
one step. Shares are counted in halves of the smallest size, so that rounding
down (`floor2`) loses something.

**Price feed.** `QuoteFeed` follows one asset: `wire` are the quotes under way,
one stream per channel; `feed` the tokens, the subscription and `latest_bba`;
`recon` the mismatch counter and its pending request. Nothing published names a
market; quotes carry theirs for the properties only. `clock` tells the cycle and
whether its last seconds have begun; the task that changes the tokens and the
reconciler do not wait for each other, so a poll may or may not fall into the
last seconds. `counted` and `polled` (history) are the markets
of the mismatches counted and those that had such a poll. `HourFile` follows one writer: `dir` maps names to files, `file` keeps
each file's readable rows and whether it has a footer; `buf` is what is open,
`old` the buffer `mem::replace` took out; `doubt` (history) says that a seal
failed or a start found both names of its hour.

**Machine, backtest, siglab.** A machine record is `Machine` with the strategy
it runs; `Quotes` are pairs of up and down prices, so that gates, signals and
exits are computed, not chosen. A window of the backtest has any rows the
recorder can have left. `PaperMarket` drives the same operators from two live
channels that queue while the next market's ids are awaited. `EventMonitor` has
the supervisor that replaces a feed at every refresh. In `Report` a trade is a
number and a table the set of trades it shows; a run is the block of snapshots
that exists only in its hour's file. The tasks of `Siglab` share a clock and a
channel that never blocks, so an instance follows one task (`task`); to the
reports, any moment may close a trade.

**Weather.** Of the engine only the answers are kept (`Execution` has how they
come about). `due` (history) is what the task has been told it bought and since
when, `account` what is really held. Discovery, stream ends and the turn of the
day replace the bucket machines.

**The recorder.** `db` is `market_resolutions`: of a row the outcome, its time
and whether that is estimated, and the time since `last_checked_ts`. A process
is a record: what it is doing, the cursor of its backfill, the answers fetched
and not yet written, the markets and the due rows still to go through. Gamma is
`gamma`, what it shows of each slot, decided in the order of a market's slots.
The daemon alone leaves no hole between a market's oldest and its newest row,
not even while its startup backfill writes downwards or when that is cut short
(`NoHole`); with a one-shot backfill beside it on an empty table it can, since
the daemon's first placeholder may lie above slots that the backfill asked for
too early.

## 3. Runs

| Run | Shows |
|---|---|
| `WorkerTaker` | the worker under *any* sequence of events the driver might send, with windows that only go forward |
| `DriverReal` | the driver against the real exchange, with fills of 0, 3, 5 or 6 of 6 shares: a rest that can be sold, dust, nothing; files, log and cash |
| `DriverPaper` | deferred answers of paper entries and closes; liveness under `FairDriverSpec` |
| `DriverMaker` | resting quotes and take-profits, on paper and on an exchange that fills unseen and may refuse a cancel |
| `Fleet` | two slots of different period, the guards, commands that are redelivered, a restart and a torn file, in three run modes |
| `Execution` | the calls of one slot on all three engines, with partial fills, refusals, retries and lost answers |
| `QuoteFeed` | two racing channels, subscriptions that break silently, rotation, restarts; the driver behind NATS or on its own subscription |
| `HourFile` | two files of a recorder over three hours with crashes in any step, orderly stops and failing file operations |
| `Backtest` | up to three windows by three strategies, with windows left out, halts and a session change; refinement of `TradeLifecycle` |
| `Siglab` | a market whose successor is found late, a weather event refreshed and resubscribed; refinement of `TradeLifecycle`; what is logged, and by which step; log and reports over two hours beside a maintenance process, with a fault; liveness under `FairSpec` |
| `Recorder` | the recorder of official resolutions beside a one-shot backfill, with a crash; liveness under `FairRecorderSpec` |
| `HeldOnPaper` | a violation, section 4: a position that is never sold |

A passing run takes between half a minute and three minutes with two workers; the
violation is found in seconds.

### Bounds

`MCWorker`: windows of 4 seconds, 3 windows, two of a session, so a
daily reset falls between two trades; a halt after 2 losses, so that one loss
does not trip it and two do. `Times` covers an early and a late tick of two
windows. Prices 2, 7, 9 around an entry at 5 hit the stop-loss, the take-profit
and neither.

`MCDriver`: windows of 3 units and `MaxTime` 7, so two windows and
the start of a third; one restart, possible in every state; a halt after one
loss. Shares of 6 with a smallest sellable size of 2 and a smallest limit order
of 4 give a full fill that rests a limit order, a partial fill that does not,
a sellable rest and dust. A longer run adds windows that start in states a
shorter one has already reached: all that survives a window is the verdict
pending, the token, the halt and an order left on the book.

`MCFleet`: one slot takes every cycle's boundary, the other every second one,
so a sample of the balance falls into an open trade of the slower slot. From a
balance of 3 to 2 is a deep drawdown, to 4 an increase. `RunFlags` gives the
real, the paper and the dry mode. One command and one restart may come at any
point; five commands cover both verbs that change a halt, the whole account, a
key, and a name that does not parse.

`Execution`: entries of 4 at ticks 1 and 3 around the highest price of 2: too
small for a resting order, large enough for one, and a price that has run away.
Up to two retries of a call, four calls, one lost answer: an entry, its exit
order, its cancel and a close.

`QuoteFeed`: prices 2, 5, 6 with a tolerance of 1, so one step is within it and
one is not; three mismatches in a row, as in the code; a poll is due once per
round. Two markets follow the first, so a restart may fall between them.

`HourFile`: three hours, two rows, two crashes: one in the hour of its rows and
one in the recovery from the first. One orderly stop and one failing operation
may come at any step.

`MCBacktest`: windows of 6 units, of which `high_prob` enters in the last 3;
three windows, sessions of two, a halt after one loss, so a halt is set, read,
and lifted by a session that begins in a later window. Up prices of 2, 5 and 8
reach the low and the high of every signal, and the stop-loss and take-profit
of every entry. `SkipCycle` leaves windows out.

`MCSiglab`: markets of 3 units within 4, so one rollover that may come late;
one waiting message per feed; a second event of a weather day that replaces the
first at the refresh; positions are held for 2 units, so one can be too old
before the clock stops. For the reports two trades, two hours of a day and one
fault (a crash, a cut append, a cut table) with one maintenance process; the
clock stops in the second hour, so `ReportsCatchUp` is about runs that come
before their hour or day ends, whatever happened in the first.

`MCGammaRecorder`: one market with slots of one unit and one with slots of two,
so that both grids and a boundary they share occur; with `MaxTime` 3 three
slots of the short market close, which is what a hole takes. The run begins at
any time, so the backfill of an empty table finds history. One event, a crash
or a one-shot backfill, may come at any point (two have been run as well, in
2.5 minutes, without an error). Of a decided market Gamma shows by turns the
status with a time, or only a decisive price. `Retry` 0 makes a row due again
one tick after it was polled; longer intervals only add ticks.

### Time

`Advance` in `Driver` lets real orders take time (the loop waits for them) and
keeps the ticker at most one window late; deferred paper orders are answered
within a unit, as their latency (`PAPER_SIMULATED_LATENCY_SECS`) is shorter
than `no_enter_when_time_left` and `gamma_poll_delay_secs`, which is what
`EntryAnswerAwaited` and `WatcherPerVerdict` rest on. `RestartTime` is longer
than the startup guard: a process that is back within the guard of a window it
already traded in may buy again, since the latch is not persisted; this is what
`OneBuyPerMarket` assumes.

### Fairness

`DriverFairness`: the returned actions are executed and an arm is
run to its end (weak fairness: nothing disables them); the 1 s ticker, the
channels of fills and verdicts and the clock are taken again and again although
other arms come in between (strong fairness: `tokio::select!` polls its ready
branches in random order, so none is starved). Quotes, ticks of Binance and
commands need not come at all.

`ExecFairness`: the engine goes on with its call and the exchange answers an
order that is posted, if only with an error. That is an assumption about the
network and the SDK: no client in this repository is given a timeout, and while
an order is not answered the loop waits. `FeedSpec`: the reconciler's timer
fires, and in the long run some REST request is answered, an assumption of the
same kind; nothing is assumed of quotes or of Gamma, nor that a poll falls into
the last seconds of a market. `HourFile`, `Fleet` and
`Backtest` are checked for safety only.

`Siglab!Fairness`: the clock goes on; the loop takes its ticker and a request
for the next market ends, whether it finds one or not; a stream that ended is
subscribed again and its buckets go on being quoted, at whatever price: a step
is promised only where any price would make one (`AnyPriceMoves`), so no price
that ends a position is taken for granted. The process is started again and goes
on with its reports. Nothing is assumed of the writer, of new trades or of the
maintenance process.

`WeatherFairness`: a call that was made is answered; the turn of the day is
noticed; prices of each bucket come again and again, and what the exchange can
match in the long run it does. It gives the weather bot everything that
section 4 shows it does not use.

`RecorderFairness`: the daemon takes its next step and is started again by
systemd (`Restart=always`); Gamma decides closed markets; in the long run some
poll is answered (strong fairness of `SweepFetch`; that each slot is answered
follows, as a resolved row is not polled again). Nothing is assumed of the
one-shot backfill.

### Deadlock

The runs of `Worker`, `Driver` and `GammaRecorder` check for deadlock; in
`Driver` commands are always possible in the loop, so a state without a
successor would be an arm that cannot end. The other models stop where a bound
is used up (the last window is replayed, the last call made), so their runs do
not check it; that work is not left undone there is what `CallReturns`,
`StaleFeedRestarts`, `NothingStranded` and `ReportsCatchUp` say.

## 4. What the code does and its comments do not say

One run is a violation.

`HeldOnPaper`. `weather.rs:22` promises that every position of
the weather bot is sold at its stop-loss, its take-profit or after
`max_hold_secs`. In a paper run the bot is given the `PaperExecutor`, which
fills an entry at the caller's price but closes only at a price it has
observed, and the driver shows it the tokens of its slots only. So every sale
fails until the feed ends and the position is dropped. With the real and the
dry engine and a lost answer or broken stream TLC finds no violation of
`NoneHeldForGood`, `BudgetKept` or `HoldsWhatItBought` (`Engines = {"Real",
"Sim"}`, `MaxFaults = 1`).

Other places where the models had to follow the code against its words, or
where a property is weaker than one would like. They have no run.

*Price feed.* The comment at `collect.rs:1401` says that a mismatch counted
before the last seconds of a market must not combine with one counted after
them. The count starts anew only in a poll that falls into these seconds, and
nothing makes one fall there: the reconcile loop awaits one REST call per asset
in turn, on a client without a timeout, skips the ticks it misses, and its period
is an option; the task that changes the tokens waits for none of this. So the
model lets mismatches of two markets restart the feed, and what is claimed is
`PolledCloseSeparates`: across last seconds that had a poll, nothing is added
up.

*Paper harness.* `plan_better_signal_2026-07-24.md:188` says that every trade of
siglab is logged. The branch of the reference exchange does not look at the
record `on_binance` returns (`market.rs:166`), so an unwind or a timeout on such
a tick ends a position without a line. `LoggedAsItCloses` says that this step
and the refresh of a weather event (below) are the only ones. `siglab/README.md:106`
says that the file of an hour holds that hour's tables. A run rewrites the table
of the hour it runs in, and of no other, so a trade logged after the last run of
its hour is missing there until somebody refreshes the file. `ReportsCatchUp` and
`TablesKeepTrades` are what does hold.

*Worker and driver.* A stop-loss in part and then a take-profit of the rest is
an Unwind with a loss, never counted (`types.rs:116`). A correction after a
reset takes the counter to -1 (`worker.rs:798`). A failed or partial stop-loss
returns to Holding with the arm of an order it has cancelled (`worker.rs:34`).
Without a quote near the end the entry quote is not cancelled
(`worker.rs:1366`). Corrections assume the whole `trade_size` was filled and is
still held (`worker.rs:550`).

*Fleet.* A redelivered `/resume` lifts a halt that was set after it was sent.
Updates confirmed to Telegram and not yet taken from the channel are lost in a
crash. `/halt ... v_shape` is refused though the driver runs that strategy.
`/resume` of one slot forgets the baseline of the whole account. The balance
that rises lets every waiting slot go on, whichever of them won. A state file
cut short loads as none (`live.rs:831`): the halt is gone.

*Execution.* A limit order that matches in part at once is reported as matched
and the id of its resting rest is dropped. An entry whose answer is an unknown
error is sent again and may be bought twice. The paper engine fills at
`max_buy_price` when the market is above it. These are the terms of `unheard`
in `BooksAgree`.

*Files and quotes.* A crash in the copy of an orphan leaves a sealed name
without a footer (`CopyKeepsOrphan`: the orphan is still there). A seal that
fails in part keeps the old hour and is tried again with the new one's rows.
Published quotes name no market (`live.rs:2901`).

*siglab.* The supervisor replaces the running feed at every refresh and drops
its positions without a record; a stream that ends does not. A crash in the
middle of a line fuses it with the next record, and both are lost to every
reader (`CrashInAppend`). A refresh beside the live process can lose a run's
block, or a trade logged since it read the log, until the next run (the
exceptions in `SnapshotsKept` and `TablesKeepTrades`).

*Weather bot.* There is no daily deadline: the turn of the day drops what is
held. The budget of trades starts again with each feed. A close that matched in
part forgets the rest; an entry whose answer is lost is bought again. No halt
reaches the bot.

*Recorder.* Only an empty table is backfilled: after a crash in the middle of
it the rest is never asked for.

## 5. Proofs

All theorems hold for every value of the constants that satisfies the named
assumptions (and the hypotheses of the theorem, where it has any).

`WorkerProofs`, for any sequence of events: `StreakInvariant` says
`Spec => []StreakInv`, where
`StreakInv == TypeOK /\ OneTradePerWindow /\ NoPhantomLoss`; `TypeCorrect`,
`TradedOnce` and `StreakSound` are its parts. `NoPhantomLoss` (the counter is
at most the number of windows that stand as a loss) is not inductive: a trade
closed in a window already in `losing` would be counted without enlarging the
set, and a correction could take back a loss that another trade put there.
`OneTradePerWindow` excludes both: while a position is open its window is not
in `losing`, a provisional win is not either, and a window whose trade is over
keeps the latch. That needs the types, in particular that a `Confirming` record
is a Win or a Loss. The proof has a lemma for each way a step can touch these
variables (`QuietStep`: nothing that is counted changes; `CloseOutStep`: a
trade is closed; and one for the boundary, the entry, the exits, the correction
and the commands), and one for each handler that says which of them it is.
`Times` and `Cycles` are any sets of naturals, `NoEnter` any natural: that an
entry falls into an opened window is derived. `HaltChangesAreTold` is the action
property `HaltChangeAnnounced`, from the lemmas about the list of actions a step
appends to (`NewActions`), which `DriverProofs` uses too.

`DriverProofs`, for one slot, any prices, fills, orders, times and stops, in all
run modes. `DrivenInvariant` is what the others rest on: `Driven` says that `acts`
is a list of well-formed actions, that a state carries the fields of its tag,
that orders have numbers and that the file holds a tracker.
Every handler of the worker then has one lemma that says what it does to the
state, the latch and the list of actions, in the few kinds the properties tell
apart (`StepKinds`), so that a property is proved per kind and not per handler.

| Theorem | Says | Invariant beside `Driven` |
|---|---|---|
| `FileKept` | `FileIsCurrent` | `FileFollows`: the file is the worker's halt, or a `Persist` is on the list |
| `HaltsLogged` | `ControlLogIsCurrent` | `LogFollows`: the last line is true, or a notice is on the list |
| `RepliesMatch` | `WatcherPerVerdict` | `OneWatcher`: watchers, and trades on the list still to be logged, are exactly the trade that waits |
| `PositionsAccounted` | `PositionEndsInTrade` | `InOpenMarket`: there is a position only while its market is open |
| `OrdersOnce` | `OneBuyPerMarket` | `BuysFirst` (an order to buy is the head of the list), `Slots` (worker, ticker and driver are in one window), `OneOrder` (with an open latch nothing has been bought on this market; after a restart the last one is over or long begun) |
| `AnswersAwaited` | `EntryAnswerAwaited` | `Awaiting`: a deferred order is the one of this window, and the worker waits for it |
| `SellsWhatIsHeld` | `TokenMatchesPosition` | `SaleFits` (a sale on the list is of what is held, and there is one) and `TokenFits` (the same for resting and deferred sales, and the token is the position's) |
| `ResultsAreCash` | `PnlIsCash` | `Accounted`: the account holds the shares of the position and its cash is the position's money; what is to be logged is the account's result |

Three have hypotheses. `OrdersOnce` needs `RestartTime > StartupGuard`, since the
latch is not persisted (section 3, Time). `AnswersAwaited` needs `NoEnter >= 1`:
a worker that enters in the last moment of a window is overtaken by the
boundary. `ResultsAreCash` is for `Modes = {"Real"}` and `~RestingFills`: the
paper engine fills a resting order without a fee where the worker books the
taker's, and a resting order that fills unseen changes the account and not the
books; it uses `OrdersOnce`'s hypothesis too, as a second purchase in one market
would go to the same account.

`MachineProofs` has no theorem of a specification: its lemmas say of each
handler of `Machine` what it returns (types), whether it enters, leaves or
stays, that it makes a record exactly when it leaves, and what it has judged.
The next two rest on them.

`BacktestProofs`, for any windows, rows, strategies, prices and limits:

* `ReplayIsSound`: the invariant `ReplayInv`, types, `Windows` (all machines are
  in the window that is replayed, and nobody holds outside it) and
  `RidesOnlyInSilence`; `PositionsDoNotRide` is that last part.
* `StreakIsBounded`: from `ReplayInv` and `Counting`, that a machine has at most
  one record per window and none while it has not fired or still holds. Losses
  are counted only when the window is over, so without it two losing trades of
  one window would overshoot the limit.
* `EntriesAreJudged`: what is held was bought at a quote and in a direction of
  its own window. Its hypothesis is `EnterWhen + MaxAge <= CycleLen`: `high_prob`
  enters when at most `EnterWhen` is left and refuses quotes older than
  `MaxAge`, so only then is a quote of the window before too old for it.
* `ReplayKeepsThePromise`: `Spec => OnePositionPerWindow`, the refinement of
  `TradeLifecycle`.

`SiglabProofs`: `PaperKeepsThePromise`, the same refinement by the market task
of siglab. The invariant `MarketInv` says that all machines trade the market
that is subscribed and that nobody holds anything while the next one is looked
for, although its ids may be found after any number of further windows.
`TradesAreLoggedAsTheyClose` is `LoggedAsItCloses`, for machines and engines of
both kinds of task, in both directions: what is logged was closed by this step,
and what is closed is logged, except by the two steps of section 4. It rests on
`MarketInv` and `EngineInv` (an engine has its fields, or a position could
survive the write that clears it, and the V-shape engine holds nothing while a
market is looked for, or opening one would drop it) and, per handler, on that a
record is made by exactly the steps that leave a position. It needs that the
V-shape engine is not the name of a variant, which `MarketAssumption` says.
For the log and its files, with any number of trades, faults and maintenance
processes, `RepairsAreComplete`, `SnapshotsStay` and `TradesStayInTables` state
`RepairIsComplete`, `SnapshotsKept` and `TablesKeepTrades` from `ReportInv`: trades are numbered and none is both waiting
and readable (`Numbered`), a file with tables exists (`Filed`), a maintenance
process holds one file between its read and its write (`Tooled`), and what it has
read of an hour it is done with is in the hour's file or in the write that is due
(`Repaired`). The last is what the interleaving is about: the live process may
write the file between the two, but from a log that can only have lost or gained
trades since, and the maintenance write that follows replaces the tables by all
that it has read. `HourBounds` is why both processes agree on the hour of a trade.

`AccountProofs` is about `Fleet` and `Execution`, which share no state. Of `Fleet`,
for any slots, periods, commands and balances, in all run modes:

* `DeepDrawdownStops`. The guard fires once, so the property is not inductive;
  `GuardInv` says that a deep balance has fired it and that what it has fired at
  stays halted until the baseline is forgotten.
* `HaltsStand`: `FleetSpec => OnlyResumeLifts`, an action property. `FilesInv`
  says that a halted slot's file says so (else a restart would lift the halt),
  `QueueInv` that what waits to be executed is from the operator.

Both meet a fold: the balance of a paper run adds up the slots, and the bot drops
what is not authorized from a list. A fold is a CHOOSE among the functions that
satisfy its recursion, so what it yields takes two inductions over the subsets
of the folded set: one that such a function exists (`FoldExists`) and one that
it is the only one (`FoldIsTheOne`). The library's induction theorems take an
operator and cannot be used; `LeastNatural`, that a set of naturals has a least
element, comes from `WFMin` and `NatLessThanWellFounded`, which take none, and
`SubsetInduction` is the induction over finite sets on the least cardinality of
a counterexample. `SumIsInt` and `OnlyOrdersPass` are the two folds.

Of `Execution`, for any prices, sizes, units, numbers of attempts and calls:

* `BooksAreRight`: `ExecSpec => []BooksAgree`;
* `RefusalsAreDue`: `ExecSpec => RefusalMeansUnsettled`, an action property.

`ExecInv` says that there is one call at most and what is on the wire belongs to
it (`CallInv`, `WireInv`), that a sale is of all the worker has been told of and
made while it knows of no resting order (`CallFits`), that an answer without
shares has no cash and an error has neither (`AnswerFits`), and that the account
is what was told, what will not be heard and what the answer on the wire is about
to say (`Agreed`): the exchange moves the account and the wire in one step,
`Returns` the wire to the books. Of the simulated engines (`Simulated`) it says
that the paper book is the order that the worker knows of and sells no more than
is held, and that a dry run holds whole units, which `round2` leaves as they are
(`WholeStays`). The refusal is then arithmetic: `floor2` does not exceed what is
told (`RoundedDown`), and without a cause the account has all of that available.
The sums over a set of orders or answers are of one element at most
(`SumOfShares`, `SumTraded`), so they need no induction.

`WeatherProofs`: `BudgetIsKept` and `PositionsAreRemembered`, for any city and
engine: no bucket is bought more often than its budget, and what the task was
told it bought is what it will try to sell. `TaskInv` adds that the call that is
awaited fits the state of its bucket (`CallFits`): no price is looked at
meanwhile, or the answer would meet another state.

`CollectorProofs` is about the three models of collected data, which share no state.

Of `GammaRecorder`, for any markets, slot lengths, answers and bounds:

* `RecorderInvariant`: `RecorderSpec => []RecorderInv`, where `RecorderInv` adds
  `Evidence` to the types, `OnlyClosedRecorded` and `OutcomeIsGammas`;
* `RecorderTypeCorrect`, `OpenSlotsUnrecorded`, `OutcomeSound`: its parts (the run
  checks the second, and the third within `Settles`);
* `ResolutionStays`: `RecorderSpec => ResolutionIsSticky`, an action property;
* `RowsAreWhole`: `RecorderSpec => []NoHole`.

`Evidence` says that every answer fetched and not yet written is about a closed
slot and shows either what Gamma shows now or the undecided market of before:
without it an upsert could write anything. The two ways the table changes
(`UpsertKeeps`, `InsertKeeps`) are lemmas, so that each action has only to say
which of them it is; `FloorBound` is why the frontier never passes the clock.

`NoHole` is not inductive: in the startup backfill a page is written row by row,
and what keeps the table whole is where its cursor stands. `Solid` adds
`DecidedInOrder` (Gamma decides a market's slots in their order, so a backfill
that begins later cannot find a gap in what is decided), `FilledDown` (all that
is written lies at or above the cursor, and what is missing below a row there
is still in the page) and `SweepsRows` (the sweep asks for rows that exist, so
it makes none). `MaxSlotIsNewest` is what `max_slot` returns; a row below the
newest one is never added by the reconciliation.

Of `QuoteFeed`, for any prices, tolerance, number of mismatches required and
number of cycles:

* `PollsSeparateMarkets`: `FeedSpec => []PolledCloseSeparates`, with the meta task
  and the reconciler independent of each other. `SeparatedInv` says why a poll
  near the close is enough: the market it was made of is in its last seconds or
  over, and from then on it is neither counted nor asked about again, as every
  later poll of its tokens is skipped too.
* `QuotesStayInOrder`: `FeedSpec => QuotesInOrder`, an action property. A quote
  has passed when the guard on its path has let it through, and the guard
  compares with the newest that has. The guard of the feed is reset with every
  subscription and every restart (`OverNats`), and then only what is newer than
  all that has passed can still come, as the old subscription's quotes are
  dropped; the driver's own guard is per subscription (`OverOwn`), so the order
  is kept within a market only.

Of `HourFile`, for any number of files, hours, samples, crashes and stops:

* `OrphansOutliveTheirCopies`: `HourFileSpec => []CopyKeepsOrphan`;
* `RowsSurvive`: `HourFileSpec => OnlyCrashLoses`, an action property.

Both come from `FileInv`: while `doubt` is false, `Sound` holds. Every name has a
file of its own (`OneName`), or a seal would overwrite another's rows. A writer
has written to its `.tmp` exactly what it believes to be on the disk, and a
sealed file of the same hour, which the rename will replace, holds nothing that
the writer does not have too (`Writes`): that is what the carry is for. The copy
of an orphan has, on the disk or in memory, all rows of the orphan (`Copies`), so
the `.tmp` may go when it is whole; `NothingLater` keeps the new hour's names free
while the old one is sealed. Which of the kinds have a writer, and of which hour,
depends on where in the seal the process is (`NotOpen`, `Rolled`). `KeepsRows` is
proved with the invariant, one lemma per step.

Only model-checked: liveness, everywhere (TLAPS has no rule for ENABLED here). Every
invariant and every action property of a run is stated by a theorem.

## 6. Not modelled

Left out, for good:

* the indicator service, the P(up) gate that reads it, and the HAR statistics:
  floating point over a price grid, out of TLC's reach;
* redemption, which no caller uses at this commit, and the unwind check, which
  changes no state;
* parsing of configuration and of texts, rendering, discovery of markets and
  events beyond found or not found, statistics of staleness, parameter grids;
* the Chainlink collector and the shadow and probe binaries, which only measure
  or record what nobody in this repository acts on;
* offline studies and scripts.

Reduced on purpose: one slot in `Driver` (several in `Fleet`, whose slots do not
trade in detail), one token in `Execution`, one task at a time in `Siglab`, one
asset in `QuoteFeed`. `Worker` and `Driver` take an order's answer from
`ShareCounts`; `Execution` shows which answers there are.

`Driver` is not shown to implement `TradeLifecycle`: a restart forgets the
window, the latch and the position, and that specification has no step for it.
`OneBuyPerMarket` and `PositionEndsInTrade` say what the driver promises instead.
