------------------------------- MODULE Report -------------------------------
(***************************************************************************)
(* The trade log of siglab and the reports made from it: the single writer *)
(* and the report task of main.rs, report.rs, and the one-off maintenance  *)
(* modes, which run as a second process beside the live one or without it. *)
(*                                                                         *)
(* A trade is a number, at[i] the logged_at of trade i.  Tables, rankings  *)
(* and sums are the sets of trades they are made from; a run is the block  *)
(* of snapshots and staleness of one report, named by its time, which      *)
(* exists nowhere but in the file of its hour.                             *)
(***************************************************************************)
EXTENDS Integers, Sequences

CONSTANTS HourLen, DayLen, MaxTime, MaxTrades, MaxFaults, MaxTools

VARIABLES
    now,
    at,             \* trades made so far
    queue,          \* trade_tx
    readable,       \* trades whose line of the log parses
    open,           \* {} or what the last line holds when it has no newline
    up, faults,
    files,          \* hour -> what trades_{date}_{hour}.md holds
    summaries,      \* day -> trades and hours of summary_{date}.md
    live,           \* the report task
    tool            \* a maintenance process

reportVars == <<at, queue, readable, open, up, faults, files, summaries, live, tool>>

HourOf(t) == t \div HourLen
DayOf(t) == t \div DayLen
Hours == 0 .. HourOf(MaxTime)
Days == 0 .. DayOf(MaxTime)
Trades == DOMAIN at
Fragment == 0       \* a line that is no record
Modes == {"refresh", "regenerate", "summaries"}

NoFile == [there |-> FALSE, marked |-> FALSE, table |-> {}, runs |-> {}]
NoHeader == [NoFile EXCEPT !.there = TRUE]  \* a write was cut short: an empty file
NoSummary == [trades |-> {}, hours |-> {}]
Idle == [step |-> "idle"]
NoTool(n) == [step |-> "idle", ran |-> n]   \* n: maintenance processes so far

(* What is written into the two kinds of file.  The markers around the     *)
(* tables are what a refresh looks for; the index of a day has a row for   *)
(* every file of its hours, also for one without trades or without text.   *)
HourFile(ids, blocks) == [there |-> TRUE, marked |-> TRUE, table |-> ids, runs |-> blocks]
RunBlock(t) == {t}
HourIndex(d) == {h \in Hours : DayOf(h * HourLen) = d /\ files[h].there}
SummaryBody(d, ids) == [trades |-> ids, hours |-> HourIndex(d)]

ReportInit ==
    /\ at = <<>> /\ queue = <<>> /\ readable = {} /\ open = {}
    /\ up = TRUE /\ faults = 0
    /\ files = [h \in Hours |-> NoFile] /\ summaries = [d \in Days |-> NoSummary]
    /\ live = Idle /\ tool = NoTool(0)

-----------------------------------------------------------------------------
(* The log.                                                                *)

TradeCloses ==
    /\ up /\ Len(at) < MaxTrades
    /\ at' = Append(at, now) /\ queue' = Append(queue, Len(at) + 1)
    /\ UNCHANGED <<now, readable, open, up, faults, files, summaries, live, tool>>

(* writeln! after a line without newline: both are one line that does not  *)
(* parse, and the next one is whole again.                                 *)
WriterAppends ==
    /\ up /\ queue # <<>> /\ queue' = Tail(queue)
    /\ readable' = IF open = {} THEN readable \cup {Head(queue)} ELSE readable \ open
    /\ open' = {}
    /\ UNCHANGED <<now, at, up, faults, files, summaries, live, tool>>

(* The error is printed, the record is gone.                               *)
AppendFails ==
    /\ up /\ queue # <<>> /\ queue' = Tail(queue)
    /\ faults < MaxFaults /\ faults' = faults + 1
    /\ UNCHANGED <<now, at, readable, open, up, files, summaries, live, tool>>

-----------------------------------------------------------------------------
(* The report task: three looks at files and log, in this order.           *)

(* Mutant: the first instant of the hour or the day is left out.           *)
RecentTradesAfter(since) == {i \in readable : at[i] > since}
RecentTrades(since) == {i \in readable : at[i] >= since}

ReportStarts ==
    /\ up /\ live.step = "idle"
    /\ live' = [step |-> "tables", hour |-> HourOf(now), day |-> DayOf(now),
                run |-> now, kept |-> files[HourOf(now)].runs]
    /\ UNCHANGED <<now, at, queue, readable, open, up, faults, files, summaries, tool>>

ReportFails ==
    /\ up /\ live.step # "idle" /\ live' = Idle
    /\ faults < MaxFaults /\ faults' = faults + 1
    /\ UNCHANGED <<now, at, queue, readable, open, up, files, summaries, tool>>

(* Mutants: the file of the hour starts over with every run; its table     *)
(* holds what the run itself has seen.                                     *)
TablesOfRun == HourFile(RecentTrades(live.run), live.kept \cup RunBlock(live.run))
TablesAnew == HourFile(RecentTrades(live.hour * HourLen), RunBlock(live.run))
Tables == HourFile(RecentTrades(live.hour * HourLen), live.kept \cup RunBlock(live.run))

WriteTables ==
    /\ up /\ live.step = "tables"
    /\ files' = [files EXCEPT ![live.hour] = Tables]
    /\ live' = [live EXCEPT !.step = "summary"]
    /\ UNCHANGED <<now, at, queue, readable, open, up, faults, summaries, tool>>

WriteSummary ==
    /\ up /\ live.step = "summary"
    /\ summaries' = [summaries EXCEPT ![live.day] =
           SummaryBody(live.day, RecentTrades(live.day * DayLen))]
    /\ live' = Idle
    /\ UNCHANGED <<now, at, queue, readable, open, up, faults, files, tool>>

-----------------------------------------------------------------------------
(* Maintenance: the log is read once, then the files one by one.           *)

(* Mutant: the first instant of an hour belongs to none.                   *)
InHourLate(i, h) == h * HourLen < at[i] /\ at[i] < (h + 1) * HourLen
InHour(i, h) == h * HourLen <= at[i] /\ at[i] < (h + 1) * HourLen     \* hour_bounds
OfHour(ids, h) == {i \in ids : InHour(i, h)}
OfDay(ids, d) == {i \in ids : DayOf(at[i]) = d}
Since(ids, d) == {i \in ids : DayOf(at[i]) >= d}

ToolStarts(mode, since) ==
    LET ids == IF mode = "refresh" THEN readable ELSE Since(readable, since)
    IN  /\ tool.step = "idle" /\ tool.ran < MaxTools
        /\ tool' = [step |-> "files", ran |-> tool.ran + 1, mode |-> mode, ids |-> ids, held |-> {},
                    hours |-> CASE mode = "refresh"    -> {h \in Hours : files[h].there}
                                [] mode = "regenerate" -> {h \in Hours : OfHour(ids, h) # {}}
                                [] mode = "summaries"  -> {},
                    days |-> IF mode = "refresh" THEN {} ELSE {DayOf(at[i]) : i \in ids}]
        /\ UNCHANGED <<now, at, queue, readable, open, up, faults, files, summaries, live>>

(* refresh: only what lies between the markers is replaced.                *)
ToolReads(h) ==
    /\ tool.step = "files" /\ tool.mode = "refresh" /\ h \in tool.hours
    /\ tool' = [tool EXCEPT !.step = "write", !.hours = @ \ {h},
                            !.held = {[hour |-> h, content |-> files[h]]}]
    /\ UNCHANGED <<now, at, queue, readable, open, up, faults, files, summaries, live>>

ToolWrites ==
    /\ tool.step = "write"
    /\ \E f \in tool.held :
           files' = IF f.content.marked
                    THEN [files EXCEPT ![f.hour] =
                             [f.content EXCEPT !.table = OfHour(tool.ids, f.hour)]]
                    ELSE files
    /\ tool' = [tool EXCEPT !.step = "files", !.held = {}]
    /\ UNCHANGED <<now, at, queue, readable, open, up, faults, summaries, live>>

ToolRegenerates(h) ==
    /\ tool.step = "files" /\ tool.mode = "regenerate" /\ h \in tool.hours
    /\ files' = [files EXCEPT ![h] = HourFile(OfHour(tool.ids, h), {})]
    /\ tool' = [tool EXCEPT !.hours = @ \ {h}]
    /\ UNCHANGED <<now, at, queue, readable, open, up, faults, summaries, live>>

ToolSummarizes(d) ==
    /\ tool.step = "files" /\ d \in tool.days
    /\ \A h \in tool.hours : DayOf(h * HourLen) # d
    /\ summaries' = [summaries EXCEPT ![d] = SummaryBody(d, OfDay(tool.ids, d))]
    /\ tool' = [tool EXCEPT !.days = @ \ {d}]
    /\ UNCHANGED <<now, at, queue, readable, open, up, faults, files, live>>

ToolEnds ==
    /\ tool.step = "files" /\ tool.hours = {} /\ tool.days = {} /\ tool' = NoTool(tool.ran)
    /\ UNCHANGED <<now, at, queue, readable, open, up, faults, files, summaries, live>>

-----------------------------------------------------------------------------
(* The live process stops, by a crash or because a market task returned:   *)
(* what is queued is lost, a write may be cut in the middle.               *)

Stop ==
    /\ up /\ faults < MaxFaults /\ faults' = faults + 1
    /\ up' = FALSE /\ queue' = <<>> /\ live' = Idle

Crash ==
    /\ Stop
    /\ UNCHANGED <<now, at, readable, open, files, summaries, tool>>

(* A line is written as text and newline; the text itself may be cut.      *)
CrashInAppend(whole) ==
    /\ Stop /\ queue # <<>>
    /\ readable' = IF whole /\ open = {} THEN readable \cup {Head(queue)} ELSE readable \ open
    /\ open' = IF whole /\ open = {} THEN {Head(queue)} ELSE {Fragment}
    /\ UNCHANGED <<now, at, files, summaries, tool>>

CrashInTables ==
    /\ Stop /\ live.step = "tables"
    /\ files' = [files EXCEPT ![live.hour] = NoHeader]
    /\ UNCHANGED <<now, at, readable, open, summaries, tool>>

Restart ==
    /\ ~up /\ up' = TRUE
    /\ UNCHANGED <<now, at, queue, readable, open, faults, files, summaries, live, tool>>

Writer == WriterAppends \/ AppendFails
LiveReport == ReportStarts \/ WriteTables \/ WriteSummary
Maintenance ==
    \/ \E mode \in Modes, d \in Days : ToolStarts(mode, d)
    \/ \E h \in Hours : ToolReads(h) \/ ToolRegenerates(h)
    \/ \E d \in Days : ToolSummarizes(d)
    \/ ToolWrites \/ ToolEnds

ReportNext ==
    \/ TradeCloses \/ Writer \/ LiveReport \/ ReportFails \/ Maintenance
    \/ Crash \/ \E whole \in BOOLEAN : CrashInAppend(whole)
    \/ CrashInTables \/ Restart
=============================================================================
