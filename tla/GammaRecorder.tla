---------------------------- MODULE GammaRecorder ----------------------------
(***************************************************************************)
(* gamma_recorder: the table of official market resolutions, the daemon    *)
(* that fills it (run_continuous of gamma_recorder/src/main.rs) and the    *)
(* one-shot `resolve --backfill' an operator may run beside it on the same *)
(* database.  Every SQL statement commits on its own, so a process may     *)
(* stop between any two of them, and a statement of the other process may  *)
(* come in between.                                                        *)
(*                                                                         *)
(* Time is in units of the retry interval's resolution.  After MaxTime no  *)
(* further slot is looked at, but rows go on ageing.                       *)
(***************************************************************************)
EXTENDS Integers, FiniteSets

CONSTANTS
    Markets,        \* pairs of a tracked asset and a duration
    Interval,       \* length of a market's slots
    Answer,         \* what Gamma shows of each slot once it is decided
    Retry,          \* SWEEP_RETRY_INTERVAL_SECS
    MaxEvents,      \* bound: one-shot backfills started and crashes of the daemon
    MaxTime         \* bound

ASSUME IntervalAssumption == Interval \in [Markets -> Nat \ {0}]
ASSUME RecorderBounds ==
    Retry \in Nat /\ MaxEvents \in Nat /\ MaxTime \in Nat

VARIABLES
    now,
    gamma,      \* the service: what it shows of each slot
    db,         \* market_resolutions: rows by market and slot
    daemon,     \* the continuous process
    tool,       \* the one-shot backfill
    starts,     \* bound: one-shot backfills started
    crashes     \* bound: times the daemon went down

recorderVars == <<now, gamma, db, daemon, tool, starts, crashes>>

Keys == {k \in [market : Markets, slot : 0 .. MaxTime] : k.slot % Interval[k.market] = 0}
ASSUME AnswerAssumption ==
    Answer \in [Keys -> [uma : BOOLEAN, up : Nat, down : Nat, timed : BOOLEAN]]

CloseTs(k) == k.slot + Interval[k.market]
Closed(k) == CloseTs(k) <= now

UNRESOLVED == "UNRESOLVED"
NoTime == -1                                \* NULL
Undecided == [uma |-> FALSE, up |-> 50, down |-> 50, closedTime |-> NoTime]
NoSignal == [outcome |-> UNRESOLVED, at |-> NoTime, estimated |-> FALSE]

-----------------------------------------------------------------------------
(* gamma.rs: what a market record says about its resolution.               *)

UmaOnly(m) == m.uma                         \* mutant: a decisive price is not enough
Decisive(m) == m.uma \/ m.up >= 99 \/ m.down >= 99

ResolutionSignal(m, pollTime) ==
    IF Decisive(m)
    THEN [outcome   |-> IF m.up >= m.down THEN "Up" ELSE "Down",
          at        |-> IF m.closedTime = NoTime THEN pollTime ELSE m.closedTime,
          estimated |-> m.closedTime = NoTime]
    ELSE NoSignal

-----------------------------------------------------------------------------
(* db.rs.  A row's `since' is the time since last_checked_ts, which is as  *)
(* good as never (NULL) once it exceeds Retry.                             *)

Never == Retry + 1

Placeholder == [signal |-> NoSignal, since |-> Never]

Recorded == DOMAIN db

LatestWins(k, signal) == signal                             \* mutant: not sticky
(* A resolved row keeps its outcome, and its time.                         *)
StickySignal(k, signal) ==
    IF k \in Recorded /\ db[k].signal.outcome # UNRESOLVED THEN db[k].signal ELSE signal

UpsertResolution(k, signal) ==
    db' = [j \in Recorded \cup {k} |->
              IF j = k THEN [signal |-> StickySignal(k, signal), since |-> 0] ELSE db[j]]

(* ON CONFLICT DO NOTHING.                                                 *)
InsertPlaceholders(keys) ==
    db' = [j \in Recorded \cup keys |-> IF j \in Recorded THEN db[j] ELSE Placeholder]

SlotsOf(market) == {k.slot : k \in {j \in Recorded : j.market = market}}
MaxSlot(market) == CHOOSE s \in SlotsOf(market) : \A t \in SlotsOf(market) : t <= s

DueUnresolved ==
    {k \in Recorded : /\ db[k].signal.outcome = UNRESOLVED /\ Closed(k)
                      /\ db[k].since > Retry}

-----------------------------------------------------------------------------
(* Both processes list pages of closed markets from a cursor down.         *)

Top == MaxTime + 1
Idle == [pc |-> "down", cursor |-> Top, page |-> {}, todo |-> {}, due |-> {}]
Backfilling == [Idle EXCEPT !.pc = "backfill"]

(* The markets Gamma lists as closed that start before the cursor; a page  *)
(* is those with the newest start time, with what it shows of each.        *)
Listed(cursor) == {k \in Keys : gamma[k] # Undecided /\ k.slot < cursor}
FetchEventsPage(start) ==
    {[key |-> k, market |-> gamma[k]] : k \in {j \in Listed(start + 1) : j.slot = start}}

(* One step of run_backfill for the process p, which becomes q: the next   *)
(* page, an upsert of a market of this page, or the end.                   *)
BackfillPage(p, q) ==
    /\ p.pc = "backfill" /\ p.page = {}
    /\ \E k \in Listed(p.cursor) :
          /\ \A j \in Listed(p.cursor) : j.slot <= k.slot
          /\ q = [p EXCEPT !.page = FetchEventsPage(k.slot), !.cursor = k.slot]
    /\ UNCHANGED db
BackfillUpsert(p, q) ==
    /\ p.pc = "backfill"
    /\ \E e \in p.page :
          /\ UpsertResolution(e.key, ResolutionSignal(e.market, now))
          /\ q = [p EXCEPT !.page = @ \ {e}]
BackfillDone(p) == p.pc = "backfill" /\ p.page = {} /\ Listed(p.cursor) = {}

-----------------------------------------------------------------------------
(* The one-shot backfill.  One that fails is one that takes no more steps. *)

ToolStart ==
    /\ tool.pc = "down" /\ starts + crashes < MaxEvents
    /\ tool' = Backfilling /\ starts' = starts + 1
    /\ UNCHANGED <<now, gamma, db, daemon, crashes>>

ToolStep ==
    /\ \/ BackfillPage(tool, tool')
       \/ BackfillUpsert(tool, tool')
       \/ BackfillDone(tool) /\ tool' = Idle /\ UNCHANGED db
    /\ UNCHANGED <<now, gamma, daemon, starts, crashes>>

-----------------------------------------------------------------------------
(* The daemon.                                                             *)

Sweeping == [pc |-> "gaps", cursor |-> Top, page |-> {}, todo |-> Markets, due |-> {}]

(* Started again by its supervisor; an empty table is filled first.        *)
Start ==
    /\ daemon.pc = "down"
    /\ daemon' = IF Recorded = {} THEN Backfilling ELSE Sweeping
    /\ UNCHANGED <<now, gamma, db, tool, starts, crashes>>

StartupBackfill ==
    /\ \/ BackfillPage(daemon, daemon')
       \/ BackfillUpsert(daemon, daemon')
       \/ BackfillDone(daemon) /\ daemon' = Sweeping /\ UNCHANGED db
    /\ UNCHANGED <<now, gamma, tool, starts, crashes>>

CurrentSlot(market) == (now \div Interval[market]) * Interval[market]

CurrentSlotOpen(market) == CurrentSlot(market)              \* mutant: a slot too far
LastClosedSlot(market) == CurrentSlot(market) - Interval[market]

NewestOnly(market) == {[market |-> market, slot |-> LastClosedSlot(market)]} \cap Keys  \* mutant

(* What reconcile_gaps finds missing of a market: everything after the     *)
(* newest row, or of a market without rows the last closed slot only.      *)
MissingSlots(market) ==
    {k \in Keys : /\ k.market = market /\ k.slot <= LastClosedSlot(market)
                  /\ IF SlotsOf(market) = {}
                     THEN k.slot = LastClosedSlot(market)
                     ELSE k.slot > MaxSlot(market)}

ReconcileGaps ==
    /\ daemon.pc = "gaps"
    /\ \E market \in daemon.todo :
          /\ InsertPlaceholders(MissingSlots(market))
          /\ daemon' = [daemon EXCEPT !.todo = @ \ {market}]
    /\ UNCHANGED <<now, gamma, tool, starts, crashes>>

SelectDue ==
    /\ daemon.pc = "gaps" /\ daemon.todo = {}
    /\ daemon' = [Idle EXCEPT !.pc = "poll", !.due = DueUnresolved]
    /\ UNCHANGED <<now, gamma, db, tool, starts, crashes>>

(* fetch_by_slug: the answer is in, and not yet written.                   *)
SweepFetch ==
    /\ daemon.pc = "poll" /\ daemon.page = {}
    /\ \E k \in daemon.due :
          daemon' = [daemon EXCEPT !.due = @ \ {k},
                                   !.page = {[key |-> k, market |-> gamma[k]]}]
    /\ UNCHANGED <<now, gamma, db, tool, starts, crashes>>

(* No answer: the row is left as it is, and the sweep goes on.             *)
SweepFails ==
    /\ daemon.pc = "poll" /\ daemon.page = {}
    /\ \E k \in daemon.due : daemon' = [daemon EXCEPT !.due = @ \ {k}]
    /\ UNCHANGED <<now, gamma, db, tool, starts, crashes>>

SweepUpsert ==
    /\ daemon.pc = "poll"
    /\ \E e \in daemon.page :
          UpsertResolution(e.key, ResolutionSignal(e.market, now))
    /\ daemon' = [daemon EXCEPT !.page = {}]
    /\ UNCHANGED <<now, gamma, tool, starts, crashes>>

NextSweep ==
    /\ daemon.pc = "poll" /\ daemon.page = {} /\ daemon.due = {}
    /\ daemon' = Sweeping
    /\ UNCHANGED <<now, gamma, db, tool, starts, crashes>>

(* The daemon stops: killed, or an error of the startup backfill or of the *)
(* database, which it does not survive.  Of a pass over the gaps a part    *)
(* may be done.                                                            *)
Crash ==
    /\ daemon.pc # "down" /\ starts + crashes < MaxEvents
    /\ daemon' = Idle /\ crashes' = crashes + 1
    /\ \/ UNCHANGED db
       \/ \E market \in daemon.todo, last \in 0 .. MaxTime :
             InsertPlaceholders({k \in MissingSlots(market) : k.slot <= last})
    /\ UNCHANGED <<now, gamma, tool, starts>>

-----------------------------------------------------------------------------
(* The world.                                                              *)

(* Gamma decides a slot after it has closed, those of a market in order    *)
(* (it takes minutes, less than the shortest slot).                        *)
GammaDecides ==
    /\ \E k \in Keys :
          /\ gamma[k] = Undecided /\ Closed(k)
          /\ \A j \in Keys : j.market = k.market /\ j.slot < k.slot => gamma[j] # Undecided
          /\ gamma' = [gamma EXCEPT ![k] =
                [uma |-> Answer[k].uma, up |-> Answer[k].up, down |-> Answer[k].down,
                 closedTime |-> IF Answer[k].timed THEN CloseTs(k) ELSE NoTime]]
    /\ UNCHANGED <<now, db, daemon, tool, starts, crashes>>

(* A pass over the local table takes no time.                              *)
Tick ==
    /\ daemon.pc # "gaps"
    /\ now' = IF now < MaxTime THEN now + 1 ELSE now
    /\ db' = [k \in Recorded |-> [db[k] EXCEPT !.since = IF @ <= Retry THEN @ + 1 ELSE @]]
    /\ UNCHANGED <<gamma, daemon, tool, starts, crashes>>

RecorderInit ==
    /\ now \in 0 .. MaxTime
    /\ gamma = [k \in Keys |-> Undecided]
    /\ db = [k \in {} |-> Placeholder]
    /\ daemon = Idle /\ tool = Idle /\ starts = 0 /\ crashes = 0

RecorderNext ==
    \/ Tick \/ GammaDecides
    \/ ToolStart \/ ToolStep
    \/ Start \/ StartupBackfill \/ ReconcileGaps \/ SelectDue
    \/ SweepFetch \/ SweepFails \/ SweepUpsert \/ NextSweep \/ Crash

RecorderSpec == RecorderInit /\ [][RecorderNext]_recorderVars

DaemonStep ==
    \/ Start \/ StartupBackfill \/ ReconcileGaps \/ SelectDue
    \/ SweepUpsert \/ NextSweep

(* The loop runs, its supervisor starts it again, Gamma decides, and now   *)
(* and then it answers some poll; time goes on.                            *)
RecorderFairness ==
    /\ WF_recorderVars(DaemonStep)
    /\ SF_recorderVars(Tick) /\ WF_recorderVars(GammaDecides)
    /\ SF_recorderVars(SweepFetch)

FairRecorderSpec == RecorderSpec /\ RecorderFairness

-----------------------------------------------------------------------------
(* Properties.                                                             *)

Signals == [outcome : {UNRESOLVED, "Up", "Down"}, at : Nat \cup {NoTime}, estimated : BOOLEAN]
Views == [uma : BOOLEAN, up : Nat, down : Nat, closedTime : Nat \cup {NoTime}]

Processes ==
    [pc : {"down", "backfill", "gaps", "poll"}, cursor : 0 .. Top,
     page : SUBSET [key : Keys, market : Views], todo : SUBSET Markets, due : SUBSET Keys]

(* Every variable has its type.                                            *)
RecorderTypeOK ==
    /\ now \in 0 .. MaxTime /\ starts \in Nat /\ crashes \in Nat
    /\ gamma \in [Keys -> Views]
    /\ Recorded \subseteq Keys
    /\ db \in [Recorded -> [signal : Signals, since : 0 .. Never]]
    /\ daemon \in Processes /\ tool \in Processes

(* No row is made for a slot that is still open: the sweep would poll a    *)
(* market that cannot be resolved (the frontier cap of reconcile_gaps).    *)
OnlyClosedRecorded == \A k \in Recorded : Closed(k)

(* A recorded resolution is what Gamma decided, whichever process wrote it *)
(* and whatever answers were on their way at the time, and has its time.   *)
OutcomeIsGammas ==
    \A k \in Recorded : db[k].signal.outcome # UNRESOLVED =>
        /\ gamma[k] # Undecided
        /\ db[k].signal.outcome = (IF gamma[k].up >= gamma[k].down THEN "Up" ELSE "Down")
        /\ db[k].signal.at # NoTime

(* Once a row is resolved neither a later poll nor a backfill changes its  *)
(* outcome or its time (the sticky upsert).                                *)
ResolutionIsSticky ==
    [][\A k \in Recorded : db[k].signal.outcome # UNRESOLVED =>
          k \in DOMAIN db' /\ db'[k].signal = db[k].signal]_recorderVars

(* Between its oldest and its newest row a market has no hole, also while  *)
(* the startup backfill works its way down and when that is cut short, as  *)
(* long as the daemon alone writes (reconcile_gaps goes on from the newest *)
(* row and never looks below it).                                          *)
NoHole ==
    starts = 0 =>
        \A j, l \in Recorded : \A k \in Keys :
            k.market = j.market /\ k.market = l.market /\ j.slot < k.slot /\ k.slot < l.slot
                => k \in Recorded

(* Once no further slot closes, the newest closed slot of every market is  *)
(* recorded and every row is resolved for good and as Gamma decided it,    *)
(* whatever outage and failed polls come before (the sweep's retry of due  *)
(* rows).                                                                  *)
Settles ==
    <>[](/\ \A k \in Recorded : db[k].signal.outcome # UNRESOLVED
         /\ OutcomeIsGammas
         /\ \A k \in Keys : k.slot = LastClosedSlot(k.market) => k \in Recorded)
=============================================================================
