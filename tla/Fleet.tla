-------------------------------- MODULE Fleet --------------------------------
(***************************************************************************)
(* All slots of the live driver in one process (trader/src/bin/live.rs):   *)
(* what they share is the account's balance, sampled once a cycle by the   *)
(* two guards of trader/src/balance.rs, and the operator's commands, which *)
(* arrive through trader/src/telegram and name the slots they are for.     *)
(*                                                                         *)
(* Driver has the inside of one slot; here a slot is reduced to what these *)
(* two see of it: whether it trades, holds, waits for its verdict, and     *)
(* what keeps it from entering.  An arm of the select loop is one step.    *)
(***************************************************************************)
EXTENDS HaltTracker, SequencesExt

CONSTANTS
    Slots,          \* records asset / key (market_key) / strategy, built by main()
    Period,         \* of a slot, in cycles of --period-secs
    Commands,       \* texts the operator may send, as records verb / name / strategy
    RunFlags,       \* pairs (--paper or paper_trade, --dry-run)
    StartBalance,   \* PAPER_STARTING_BALANCE_USDC
    Balances,       \* what the account may hold in real mode
    MaxCycle,       \* bound
    MaxCommands,    \* bound
    MaxRestarts     \* bound

ASSUME SlotAssumption == IsFiniteSet(Slots) /\ Period \in [Slots -> Nat \ {0}]
ASSUME BalanceAssumption == StartBalance \in Nat /\ Balances \subseteq Nat
ASSUME BoundAssumption ==
    MaxCycle \in Nat /\ MaxCommands \in Nat /\ MaxRestarts \in Nat

VARIABLES
    mode,           \* RunMode
    clock,          \* cycle, and whether its balance checkpoint has passed
    phase,          \* of each slot's worker
    won,            \* the provisional result of a slot that waits for its verdict
    traded,         \* slots that have entered in their window
    suppressed,     \* entry_suppressed by slot
    halt,           \* HaltTracker by slot
    pnl,            \* total_pnl by slot
    disk,           \* state file by slot
    guard,          \* BalanceGuard
    tracker,        \* GammaBalanceTracker
    chat,           \* updates the operator has sent, in order
    confirmed,      \* how many of them Telegram will not deliver again
    offset,         \* TelegramBot::offset, as a number of updates
    inbox,          \* telegram_rx
    torn,           \* history: slots whose file a stop has cut short
    restarts

slotVars == <<phase, won, traded, suppressed, halt, pnl, disk>>
chatVars == <<chat, confirmed, offset, inbox>>
fleetVars == <<mode, clock, slotVars, guard, tracker, chatVars, torn, restarts>>

None == {}                  \* an Option is the set of what it holds
Option(S) == {None} \cup {{x} : x \in S}

(* Paper wins over dry run, from the flag or the configuration.            *)
ResolveRunMode(flags) ==
    IF flags.paper THEN "Paper" ELSE IF flags.dry THEN "DryRun" ELSE "Real"

NoFile == [suppressed |-> FALSE, halt |-> NewTracker, pnl |-> 0]
File(s) == [suppressed |-> suppressed[s], halt |-> halt[s], pnl |-> pnl[s]]

NewGuard == [baseline |-> None, fired |-> FALSE]
NewBalanceTracker == [last |-> None, increased |-> None]

Blocked(s) == suppressed[s] \/ IsHalted(halt[s])

FleetInit ==
    /\ mode \in {ResolveRunMode(f) : f \in RunFlags}
    /\ clock = [cycle |-> 0, sampled |-> FALSE]
    /\ phase = [s \in Slots |-> "Idle"]
    /\ won = [s \in Slots |-> FALSE]
    /\ traded = {}
    /\ suppressed = [s \in Slots |-> FALSE]
    /\ halt = [s \in Slots |-> NewTracker]
    /\ pnl = [s \in Slots |-> 0]
    /\ disk = [s \in Slots |-> NoFile]
    /\ guard = NewGuard
    /\ tracker = NewBalanceTracker
    /\ chat = <<>> /\ confirmed = 0 /\ offset = 0 /\ inbox = <<>>
    /\ torn = {} /\ restarts = 0

-----------------------------------------------------------------------------
(* One slot's trade.                                                       *)

Enter(s) ==
    /\ phase[s] = "Watching" /\ ~Blocked(s) /\ s \notin traded
    /\ phase' = [phase EXCEPT ![s] = "Holding"]
    /\ traded' = traded \cup {s}
    /\ UNCHANGED <<mode, clock, won, suppressed, halt, pnl, disk, guard, tracker,
                   chatVars, torn, restarts>>

Result(w) == IF w THEN 1 ELSE -1

(* LogTrade: counted, added to the statistics, written to the file.        *)
Booked(s, w) ==
    LET h == RecordTrade(halt[s], ~w)
    IN  [suppressed |-> suppressed[s], halt |-> h, pnl |-> pnl[s] + Result(w)]

(* A stop-loss or a take-profit; the verdict to come is only a note.       *)
ExitEarly(s) ==
    /\ phase[s] = "Holding"
    /\ phase' = [phase EXCEPT ![s] = "EnrichOnly"]
    /\ \E w \in BOOLEAN :
         LET file == Booked(s, w)
         IN  /\ halt' = [halt EXCEPT ![s] = file.halt]
             /\ pnl' = [pnl EXCEPT ![s] = file.pnl]
             /\ disk' = [disk EXCEPT ![s] = file]
    /\ UNCHANGED <<mode, clock, won, traded, suppressed, guard, tracker, chatVars,
                   torn, restarts>>

(* The ticker's boundary: CycleClose settles at the feed's own idea of the *)
(* result, CycleOpen resets the daily counter.                             *)
Due == {s \in Slots : (clock.cycle + 1) % Period[s] = 0}
AtOpen(file) ==
    [file EXCEPT !.halt = ResetIfNewSession(@, SessionOf(clock.cycle + 1))]

TickerBoundary ==
    /\ clock.cycle < MaxCycle /\ clock.sampled
    /\ clock' = [cycle |-> clock.cycle + 1, sampled |-> FALSE]
    /\ \E w \in [{s \in Due : phase[s] = "Holding"} -> BOOLEAN] :
         LET file == [s \in Due |-> AtOpen(IF s \in DOMAIN w THEN Booked(s, w[s]) ELSE File(s))]
         IN  /\ phase' = [s \in Slots |->
                            CASE s \notin Due -> phase[s]
                              [] s \in DOMAIN w -> "Confirming"
                              [] OTHER -> IF phase[s] = "Idle" THEN "Watching" ELSE phase[s]]
             /\ won' = [s \in Slots |-> IF s \in DOMAIN w THEN w[s] ELSE won[s]]
             /\ halt' = [s \in Slots |-> IF s \in Due THEN file[s].halt ELSE halt[s]]
             /\ pnl' = [s \in Slots |-> IF s \in Due THEN file[s].pnl ELSE pnl[s]]
             /\ disk' = [s \in Slots |-> IF s \in Due THEN file[s] ELSE disk[s]]
    /\ traded' = traded \ Due
    /\ UNCHANGED <<mode, suppressed, guard, tracker, chatVars, torn, restarts>>

(* A watcher's answer: find() takes the slot of that market and strategy.  *)
ApiResult(s, is) ==
    /\ phase[s] \in {"Confirming", "EnrichOnly"}
    /\ phase' = [phase EXCEPT ![s] = "Watching"]
    /\ LET overruled == phase[s] = "Confirming" /\ is # won[s]
           file == IF overruled
                   THEN [suppressed |-> suppressed[s],
                         halt |-> CorrectTrade(halt[s], ~won[s], ~is),
                         pnl |-> pnl[s] + Result(is) - Result(won[s])]
                   ELSE File(s)
       IN  /\ halt' = [halt EXCEPT ![s] = file.halt]
           /\ pnl' = [pnl EXCEPT ![s] = file.pnl]
           /\ disk' = [disk EXCEPT ![s] = file]
    /\ won' = [won EXCEPT ![s] = FALSE]
    /\ UNCHANGED <<mode, clock, traded, suppressed, guard, tracker, chatVars, torn,
                   restarts>>

(* No answer by the deadline: halted unless the balance is known to be up. *)
HaltsUnresolved(s) == phase[s] = "Confirming" /\ tracker.increased # {TRUE}

ApiResultTimeout(s) ==
    /\ phase[s] \in {"Confirming", "EnrichOnly"}
    /\ phase' = [phase EXCEPT ![s] = "Watching"]
    /\ suppressed' = [suppressed EXCEPT ![s] = @ \/ HaltsUnresolved(s)]
    /\ disk' = [disk EXCEPT ![s] = [File(s) EXCEPT !.suppressed = @ \/ HaltsUnresolved(s)]]
    /\ won' = [won EXCEPT ![s] = FALSE]
    /\ UNCHANGED <<mode, clock, traded, halt, pnl, guard, tracker, chatVars, torn, restarts>>

-----------------------------------------------------------------------------
(* The balance checkpoint.                                                 *)

PaperBalance == FoldFunctionOnSet(+, StartBalance, pnl, Slots)

(* An account's balance moves by more than this driver's trades: deposits, *)
(* redemptions, the other bots of the wallet.  A failed fetch is None.     *)
Samples ==
    CASE mode = "Paper"  -> {{PaperBalance}}
      [] mode = "DryRun" -> {None}
      [] mode = "Real"   -> Option(Balances)

Record(t, bal) ==
    [last      |-> IF bal = None THEN t.last ELSE bal,
     increased |-> {b > prev : b \in bal, prev \in t.last}]

(* More than a quarter below the baseline.                                 *)
Deep(initial, b) == initial > 0 /\ 4 * (initial - b) > initial

Fires(g, bal) == ~g.fired /\ \E b \in bal, initial \in g.baseline : Deep(initial, b)

Check(g, bal) ==
    [baseline |-> IF g.baseline = None THEN bal ELSE g.baseline,
     fired    |-> g.fired \/ Fires(g, bal)]

(* What the scoped halt is for: the slots whose verdict is open.           *)
ScopedHalt(t) ==
    {s \in Slots : t.increased = {FALSE} /\ phase[s] = "Confirming"}

HaltedBy(t, g, bal) == ScopedHalt(t) \cup IF Fires(g, bal) THEN Slots ELSE {}

BalanceArm ==
    /\ ~clock.sampled
    /\ clock' = [clock EXCEPT !.sampled = TRUE]
    /\ \E bal \in Samples :
         LET t == Record(tracker, bal)
             halted == HaltedBy(t, guard, bal)
         IN  /\ tracker' = t
             /\ guard' = Check(guard, bal)
             /\ suppressed' = [s \in Slots |-> suppressed[s] \/ s \in halted]
             /\ disk' = [s \in Slots |-> IF s \in halted
                                         THEN [File(s) EXCEPT !.suppressed = TRUE]
                                         ELSE disk[s]]
    /\ UNCHANGED <<mode, phase, won, traded, halt, pnl, chatVars, torn, restarts>>

-----------------------------------------------------------------------------
(* The operator.                                                           *)

SendCommand ==
    /\ Len(chat) < MaxCommands
    /\ \E c \in Commands, authorized \in BOOLEAN :
         chat' = Append(chat, [cmd |-> c, authorized |-> authorized])
    /\ UNCHANGED <<mode, clock, slotVars, guard, tracker, confirmed, offset, inbox,
                   torn, restarts>>

(* poll_once(): what is not from the operator is dropped.                  *)
Authorized(updates) ==
    FoldLeft(LAMBDA out, m : IF m.authorized THEN Append(out, m) ELSE out, <<>>, updates)

(* getUpdates confirms what lies below the offset and returns the rest.    *)
Confirmed == IF offset > confirmed THEN offset ELSE confirmed

(* The offset asked for next: one past the last update handled.            *)
NextOffset == Len(chat)

PollOnce ==
    /\ confirmed' = Confirmed
    /\ \/ /\ offset' = NextOffset
          /\ LET new == SubSeq(chat, Confirmed + 1, Len(chat))
             IN  inbox' = inbox \o Authorized(new)
       \/ UNCHANGED <<offset, inbox>>       \* the answer is lost: poll error
    /\ UNCHANGED <<mode, clock, slotVars, guard, tracker, chat, torn, restarts>>

(* A name is an asset or a market_key, "" is every slot.                   *)
InScope(c) ==
    {s \in Slots : /\ c.name \in {"", s.asset, s.key}
                   /\ c.strategy \in {"", s.strategy} \/ c.name = "" \/ c.verb = "reset_losses"}

(* parse_halt_resume knows two of the strategies the driver can run.       *)
ValidStrategies == {"high_prob", "reversal"}
ParsesAs(c) == IF c.strategy \in ValidStrategies \cup {""} \/ c.verb = "reset_losses"
               THEN c.verb ELSE "invalid"

(* apply_control: the worker's flag or counter, the file, the control log. *)
AfterControl(verb, s) ==
    CASE verb = "halt"         -> [File(s) EXCEPT !.suppressed = TRUE]
      [] verb = "resume"       -> [File(s) EXCEPT !.suppressed = FALSE]
      [] verb = "reset_losses" -> [File(s) EXCEPT !.halt = ResetLosses(@)]

Controls == {"halt", "resume", "reset_losses"}

(* /resume of a slot resets the baseline of the whole account.             *)
GuardKept(verb, scope) == guard     \* mutant: the baseline survives a /resume
GuardAfter(verb, scope) == IF verb = "resume" /\ scope # {} THEN NewGuard ELSE guard

TelegramArm ==
    /\ inbox # <<>>
    /\ inbox' = Tail(inbox)
    /\ LET c     == Head(inbox).cmd
           verb  == ParsesAs(c)
           scope == IF verb \in Controls THEN InScope(c) ELSE {}
           file  == [s \in scope |-> AfterControl(verb, s)]
       IN  /\ suppressed' = [s \in Slots |-> IF s \in scope THEN file[s].suppressed
                                             ELSE suppressed[s]]
           /\ halt' = [s \in Slots |-> IF s \in scope THEN file[s].halt ELSE halt[s]]
           /\ disk' = [s \in Slots |-> IF s \in scope THEN file[s] ELSE disk[s]]
           /\ guard' = GuardAfter(verb, scope)
    /\ UNCHANGED <<mode, clock, phase, won, traded, pnl, tracker, chat, confirmed, offset,
                   torn, restarts>>

-----------------------------------------------------------------------------
(* The process stops and starts again.  A shutdown by signal halts every   *)
(* worker too, but writes nothing.  fs::write truncates first, so a stop   *)
(* may leave one file cut short; such a file reads as none.                *)
LoadsPnlOnly(cut) == [s \in Slots |-> [NoFile EXCEPT !.pnl = disk[s].pnl]]  \* mutant
Loaded(cut) == [s \in Slots |-> IF s \in cut THEN NoFile ELSE disk[s]]

Restart ==
    /\ restarts < MaxRestarts
    /\ restarts' = restarts + 1
    /\ \E cut \in {{}} \cup {{s} : s \in Slots} :
         LET file == Loaded(cut)
         IN  /\ torn' = torn \cup cut
             /\ disk' = file
             /\ suppressed' = [s \in Slots |-> file[s].suppressed]
             /\ halt' = [s \in Slots |-> file[s].halt]
             /\ pnl' = [s \in Slots |-> file[s].pnl]
    /\ phase' = [s \in Slots |-> "Idle"]
    /\ guard' = NewGuard
    /\ tracker' = NewBalanceTracker
    /\ offset' = 0 /\ inbox' = <<>>
    /\ traded' = {}
    /\ won' = [s \in Slots |-> FALSE]
    /\ UNCHANGED <<mode, clock, chat, confirmed>>

FleetNext ==
    \/ \E s \in Slots :
         \/ Enter(s) \/ ExitEarly(s) \/ ApiResultTimeout(s)
         \/ \E is \in BOOLEAN : ApiResult(s, is)
    \/ TickerBoundary \/ BalanceArm
    \/ SendCommand \/ PollOnce \/ TelegramArm
    \/ Restart

FleetSpec == FleetInit /\ [][FleetNext]_fleetVars

-----------------------------------------------------------------------------
(* Properties.                                                             *)

(* While the last known balance is more than a quarter below the baseline  *)
(* no slot may enter: not after a verdict, a daily reset, /reset_losses or *)
(* a second sample, and not because the guard fires only once (check).     *)
DeepDrawdownStopsFleet ==
    \A initial \in guard.baseline, b \in tracker.last :
        Deep(initial, b) => \A s \in Slots : suppressed[s]

(* A halt, whoever set it, is lifted only by an authorized /resume that    *)
(* names the slot, or by the loss of its file (persist, apply_control,     *)
(* apply_balance_halt, restore_halt).                                      *)
OnlyResumeLifts ==
    [][\A s \in Slots : suppressed[s] /\ ~suppressed'[s] =>
          \/ s \in torn'
          \/ /\ inbox # <<>> /\ Head(inbox).authorized
             /\ Head(inbox).cmd.verb = "resume" /\ s \in InScope(Head(inbox).cmd)]_fleetVars
=============================================================================
