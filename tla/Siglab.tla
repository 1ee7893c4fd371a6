------------------------------- MODULE Siglab -------------------------------
(***************************************************************************)
(* The paper-trading harness of siglab: tasks for crypto markets and for   *)
(* weather events and for the log and its reports.  They share the clock   *)
(* and the trade channel, which never blocks, so an instance follows one   *)
(* task of its choice; to the reports any moment may close a trade.        *)
(***************************************************************************)
EXTENDS PaperMarket

CONSTANTS
    Tasks,                      \* tasks the instance looks at
    Events, RefreshSecs,        \* of EventMonitor
    ReportTime, HourLen, DayLen, MaxTrades, MaxFaults, MaxTools   \* of Report

ASSUME MarketAssumption ==
    /\ \A v \in DOMAIN Variants : Variants[v] \in Strategies
    /\ Ups \subseteq Int /\ RefPrices \subseteq Int
    /\ CycleLen \in Nat \ {0} /\ MaxQueued \in Nat
    /\ Engine \notin DOMAIN Variants
ASSUME ReportAssumption ==
    /\ HourLen \in Nat \ {0} /\ DayLen \in Nat \ {0}
    /\ {ReportTime, MaxTrades, MaxFaults, MaxTools} \subseteq Nat

VARIABLES
    task,
    feed, subscribed, engines, refreshed,
    at, queue, readable, open, up, faults, files, summaries, live, tool

Monitor == INSTANCE EventMonitor
Log == INSTANCE Report WITH MaxTime <- ReportTime

eventVars == <<feed, subscribed, engines, refreshed>>
reportVars == <<at, queue, readable, open, up, faults, files, summaries, live, tool>>
vars == <<now, sent, task, marketVars, eventVars, reportVars>>

Init ==
    /\ now = 0 /\ sent = {} /\ task \in Tasks
    /\ MarketInit /\ Monitor!EventInit /\ Log!ReportInit

Tick ==
    /\ now < (IF task = "report" THEN ReportTime ELSE MaxTime)
    /\ now' = now + 1 /\ sent' = {}
    /\ UNCHANGED <<task, marketVars, eventVars, reportVars>>

CryptoTask ==
    task = "crypto" /\ MarketNext /\ UNCHANGED <<task, eventVars, reportVars>>
WeatherTask ==
    task = "weather" /\ Monitor!EventNext /\ UNCHANGED <<task, marketVars, reportVars>>
ReportTask ==
    task = "report" /\ Log!ReportNext /\ UNCHANGED <<task, sent, marketVars, eventVars>>

Next == Tick \/ CryptoTask \/ WeatherTask \/ ReportTask

Spec == Init /\ [][Next]_vars

(* The ticker is polled again and again, an HTTP request ends, a stream is *)
(* opened again, and an event that has buckets goes on being quoted, at    *)
(* any price: a quote that changes nothing is no step, so one can be       *)
(* counted on only where whatever is quoted changes something.  The        *)
(* process is started again and its reports go on.                         *)
Rotate ==
    /\ task = "crypto" /\ (OnTicker \/ FetchOk \/ FetchFails)
    /\ UNCHANGED <<task, eventVars, reportVars>>
Resubscribe ==
    task = "weather" /\ Monitor!Subscribe /\ UNCHANGED <<task, marketVars, reportVars>>
AnyPriceMoves(b) ==
    \A p \in Ups : \E x \in DOMAIN engines :
        x[1] = b /\ EngineTick(engines[x], p, now) # engines[x]
Quoted(b) ==
    /\ task = "weather" /\ AnyPriceMoves(b)
    /\ \E p \in Ups : Monitor!BucketPrice(b, p)
    /\ UNCHANGED <<task, marketVars, reportVars>>
GoesOn ==
    /\ task = "report" /\ (Log!Restart \/ Log!LiveReport)
    /\ UNCHANGED <<task, sent, marketVars, eventVars>>

Fairness ==
    /\ WF_vars(Tick) /\ WF_vars(Rotate) /\ WF_vars(Resubscribe) /\ WF_vars(GoesOn)
    /\ \A b \in UNION Events : SF_vars(Quoted(b))

FairSpec == Spec /\ Fairness

-----------------------------------------------------------------------------
HeldBy(x) ==
    CASE task = "crypto" /\ x # Engine -> IsHolding(machines[x])
      [] task = "crypto" /\ x = Engine -> EngineHolds(engine)
      [] task = "report" -> FALSE
      [] task = "weather" -> x \in DOMAIN engines /\ EngineHolds(engines[x])

(* Each rollover is retried until the next market is found, and a market   *)
(* may be found late: the machines still open one position per market at   *)
(* most and carry none into the next.                                      *)
Lifecycle == INSTANCE TradeLifecycle WITH
    Traders <- DOMAIN Variants,
    window  <- [v \in DOMAIN Variants |-> machines[v].end],
    barred  <- [v \in DOMAIN Variants |-> machines[v].state = Halted],
    entered <- [v \in DOMAIN Variants |-> machines[v].fired],
    holding <- [v \in DOMAIN Variants |-> IsHolding(machines[v])]

PaperLifecycle == Lifecycle!Spec

Holders ==
    CASE task = "crypto"  -> DOMAIN Variants \cup {Engine}
      [] task = "weather" -> DOMAIN engines
      [] task = "report"  -> {}

(* The steps that end a position without a record: a trade of the          *)
(* reference exchange, whose branch does not look at what on_binance       *)
(* returns, and a refresh, which aborts the feed with its engines.         *)
ReferenceTrade == task = "crypto" /\ (QueuedTrade \/ \E p \in RefPrices : Trade(p))
FeedReplaced == task = "weather" /\ \E buckets \in Events : Monitor!RefreshFinds(buckets)

(* A trade is logged by the step that closes its position and by no other: *)
(* the rollover that is done again each second and the exits of the quotes *)
(* log nothing twice, and they leave nothing out.                          *)
LoggedAsItCloses ==
    [][/\ \A x \in sent' : HeldBy(x) /\ ~HeldBy(x)'
       /\ \A x \in Holders : HeldBy(x) /\ ~HeldBy(x)' /\ x \notin sent' =>
             ReferenceTrade \/ FeedReplaced]_vars

(* The snapshots of a run exist in one file only.  The next run, in the    *)
(* same hour, after a restart or beside a maintenance process, keeps them; *)
(* lost they are only to a write that is cut, to a regeneration, and to a  *)
(* refresh or a run that read the file before the other wrote it.          *)
SnapshotsKept ==
    [][\A h \in DOMAIN files : ~(files[h].runs \subseteq files'[h].runs) =>
          \/ up /\ ~up'
          \/ tool.step = "files" /\ tool.mode = "regenerate"
          \/ live.step = "tables" /\ ~(files[h].runs \subseteq live.kept)
          \/ tool.step = "write" /\ \E f \in tool.held :
                f.hour = h /\ ~(files[h].runs \subseteq f.content.runs)]_vars

(* A refresh or a regeneration leaves no trade out that it read, whatever  *)
(* the live process writes into the same files meanwhile.                  *)
RepairIsComplete ==
    [][tool.step # "idle" /\ tool'.step = "idle" /\ tool.mode # "summaries" =>
          \A h \in DOMAIN files : files[h].marked =>
              {i \in tool.ids \cap readable : Log!HourOf(at[i]) = h} \subseteq files[h].table]_vars

(* What a run has put into the table of an hour stays there: it is lost    *)
(* only to a write that is cut, to a maintenance process that had read the *)
(* log before, or with its line of the log.                                *)
TablesKeepTrades ==
    [][\A h \in DOMAIN files :
          LET gone == {i \in readable' \cap files[h].table :
                          Log!HourOf(at[i]) = h /\ i \notin files'[h].table}
          IN  gone # {} => \/ up /\ ~up'
                           \/ tool.step # "idle" /\ gone \cap tool.ids = {}]_vars

(* No position is stranded, not at a market whose successor cannot be      *)
(* found and not at a bucket whose stream keeps ending.                    *)
Overdue ==
    \/ \E v \in DOMAIN Variants : IsHolding(machines[v]) /\ machines[v].end <= now
    \/ EngineHolds(engine) /\ engine.end <= now
    \/ \E x \in DOMAIN engines : \E p \in engines[x].position :
           now - p.ts >= Monitor!MaxHold(engines[x])
NothingStranded == []<>~Overdue

(* The runs catch up, whatever was cut, restarted or written beside them:  *)
(* as long as an hour lasts, every trade of it that can be read gets into  *)
(* its table; as long as a day lasts, every one of the day gets into the   *)
(* summary, those of earlier hours too, and every file into the index.     *)
CaughtUp ==
    LET hour == Log!HourOf(now)
        day == Log!DayOf(now)
    IN  /\ \A i \in readable :
              /\ Log!HourOf(at[i]) = hour => i \in files[hour].table
              /\ Log!DayOf(at[i]) = day => i \in summaries[day].trades
        /\ Log!HourIndex(day) \subseteq summaries[day].hours
ReportsCatchUp == []<>(task = "report" => CaughtUp)
=============================================================================
