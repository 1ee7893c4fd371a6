-------------------------- MODULE CollectorProofs --------------------------
(***************************************************************************)
(* Proofs about the three programs that collect data, for every value of   *)
(* their constants.  GammaRecorder: its types, that only closed slots are  *)
(* recorded, that what is recorded as the outcome of a market is what      *)
(* Gamma decided, that it stays, and that the daemon leaves no hole        *)
(* between the rows of a market.  QuoteFeed: what separates the mismatches *)
(* of two markets, and that quotes are not judged in another order than    *)
(* they were sent in.  HourFile: that the hourly files keep every row that *)
(* was written.  The three share no state.                                 *)
(***************************************************************************)
EXTENDS GammaRecorder, QuoteFeed, HourFile, SequenceTheorems,
        WellFoundedInduction, TLAPS
USE DEF NoTime, UNRESOLVED

(* An answer on its way is about a closed slot, and shows what Gamma shows *)
(* of it now or showed before it decided.                                  *)
PageOK(p) == \A e \in p.page : Closed(e.key) /\ e.market \in {Undecided, gamma[e.key]}

Evidence ==
    /\ PageOK(daemon) /\ PageOK(tool)
    /\ \A k \in daemon.due : Closed(k)
    /\ \A k \in Keys : gamma[k] # Undecided => Closed(k)

(* The inductive invariant.                                                *)
RecorderInv == RecorderTypeOK /\ OnlyClosedRecorded /\ OutcomeIsGammas /\ Evidence

(* The part of it that an upsert or a placeholder can disturb.             *)
DbInv ==
    /\ Recorded \subseteq Keys
    /\ db \in [Recorded -> [signal : Signals, since : 0 .. Never]]
    /\ OnlyClosedRecorded /\ OutcomeIsGammas

-----------------------------------------------------------------------------
(* The floor of a time to a grid does not exceed it.                       *)
LEMMA FloorBound ==
    ASSUME NEW n \in Nat, NEW i \in Nat \ {0}
    PROVE  (n \div i) * i \in Int /\ (n \div i) * i <= n
OBVIOUS

(* A slot begins at a natural number and closes later.                     *)
LEMMA KeyType ==
    ASSUME NEW k \in Keys
    PROVE  /\ k.market \in Markets /\ k.slot \in 0 .. MaxTime /\ k.slot \in Nat
           /\ Interval[k.market] \in Nat \ {0}
           /\ CloseTs(k) \in Nat
BY IntervalAssumption, RecorderBounds DEF Keys, CloseTs

(* A signal has the type of a row's signal.                                *)
LEMMA SignalType ==
    ASSUME NEW m \in Views, NEW t \in Nat
    PROVE  ResolutionSignal(m, t) \in Signals
BY DEF ResolutionSignal, Signals, Views, NoSignal

(* What the sweep finds missing has closed.                                *)
LEMMA MissingClosed ==
    ASSUME RecorderTypeOK, NEW market \in Markets
    PROVE  \A k \in MissingSlots(market) : k \in Keys /\ Closed(k)
<1> SUFFICES ASSUME NEW k \in MissingSlots(market) PROVE k \in Keys /\ Closed(k)
  OBVIOUS
<1>1. k \in Keys /\ k.market = market /\ k.slot <= LastClosedSlot(market)
  BY DEF MissingSlots
<1>2. now \in Nat /\ Interval[market] \in Nat \ {0}
  BY <1>1, IntervalAssumption, RecorderBounds DEF RecorderTypeOK
<1>3. CurrentSlot(market) \in Int /\ CurrentSlot(market) <= now
  BY <1>2, FloorBound DEF CurrentSlot
<1>4. k.slot + Interval[market] <= now
  BY <1>1, <1>2, <1>3, KeyType DEF LastClosedSlot
<1> QED
  BY <1>1, <1>4 DEF Closed, CloseTs

(* An upsert of an answer that is true, or older than the decision.        *)
LEMMA UpsertKeeps ==
    ASSUME RecorderInv, NEW k \in Keys, NEW m \in Views, Closed(k),
           m \in {Undecided, gamma[k]},
           UpsertResolution(k, ResolutionSignal(m, now)), UNCHANGED <<now, gamma>>
    PROVE  DbInv'
<1> DEFINE S == ResolutionSignal(m, now)
<1>1. now \in Nat /\ S \in Signals /\ Never \in Nat
  BY SignalType, RecorderBounds DEF RecorderInv, RecorderTypeOK, Never
<1>2. /\ Recorded' = Recorded \cup {k}
      /\ \A j \in Recorded' :
            db'[j] = IF j = k THEN [signal |-> StickySignal(k, S), since |-> 0] ELSE db[j]
  BY DEF UpsertResolution, Recorded
<1>3. StickySignal(k, S) \in Signals
  BY <1>1 DEF StickySignal, RecorderInv, RecorderTypeOK
<1>4. /\ Recorded' \subseteq Keys
      /\ db' \in [Recorded' -> [signal : Signals, since : 0 .. Never]]
  BY <1>1, <1>2, <1>3 DEF UpsertResolution, Recorded, RecorderInv, RecorderTypeOK
<1>5. OnlyClosedRecorded'
  BY <1>2 DEF OnlyClosedRecorded, RecorderInv, Closed
<1>6. OutcomeIsGammas'
  <2> SUFFICES ASSUME NEW j \in Recorded', db'[j].signal.outcome # UNRESOLVED
               PROVE  /\ gamma[j] # Undecided
                      /\ db'[j].signal.outcome = (IF gamma[j].up >= gamma[j].down THEN "Up" ELSE "Down")
                      /\ db'[j].signal.at # NoTime
    BY DEF OutcomeIsGammas
  <2>1. CASE j \in Recorded /\ db'[j].signal = db[j].signal
    BY <2>1 DEF RecorderInv, OutcomeIsGammas
  <2>2. CASE j = k /\ db'[j].signal = S
    <3>1. Decisive(m)
      BY <2>2 DEF ResolutionSignal, NoSignal
    <3>2. m # Undecided /\ m = gamma[k]
      BY <3>1 DEF Decisive, Undecided
    <3>3. S.outcome = (IF m.up >= m.down THEN "Up" ELSE "Down") /\ S.at # NoTime
      BY <1>1, <3>1 DEF ResolutionSignal
    <3> QED
      BY <2>2, <3>2, <3>3
  <2> QED
    BY <1>2, <2>1, <2>2 DEF StickySignal
<1> QED
  BY <1>4, <1>5, <1>6 DEF DbInv, Never

(* Placeholders for slots that have closed.                                *)
LEMMA InsertKeeps ==
    ASSUME RecorderInv, NEW keys, \A k \in keys : k \in Keys /\ Closed(k),
           InsertPlaceholders(keys), UNCHANGED <<now, gamma>>
    PROVE  DbInv'
<1>1. Placeholder \in [signal : Signals, since : 0 .. Never]
  BY RecorderBounds DEF Placeholder, Signals, NoSignal, Never
<1>2. /\ Recorded' = Recorded \cup keys
      /\ \A j \in Recorded' : db'[j] = IF j \in Recorded THEN db[j] ELSE Placeholder
  BY DEF InsertPlaceholders, Recorded
<1>3. /\ Recorded' \subseteq Keys
      /\ db' \in [Recorded' -> [signal : Signals, since : 0 .. Never]]
  BY <1>1, <1>2 DEF InsertPlaceholders, Recorded, RecorderInv, RecorderTypeOK
<1>4. OnlyClosedRecorded'
  BY <1>2 DEF OnlyClosedRecorded, RecorderInv, Closed
<1>5. OutcomeIsGammas'
  BY <1>2 DEF OutcomeIsGammas, RecorderInv, Placeholder, NoSignal
<1> QED
  BY <1>3, <1>4, <1>5 DEF DbInv, Never

(* A page lists closed slots and what Gamma shows of them; the next cursor *)
(* is a start time.                                                        *)
LEMMA PageKeeps ==
    ASSUME RecorderInv, NEW p \in Processes, NEW q, BackfillPage(p, q)
    PROVE  q \in Processes /\ PageOK(q) /\ q.due = p.due
<1>1. PICK k \in Listed(p.cursor) :
         q = [p EXCEPT !.page = FetchEventsPage(k.slot), !.cursor = k.slot]
  BY DEF BackfillPage
<1>2. k.slot \in 0 .. MaxTime
  BY KeyType DEF Listed
<1>3. \A e \in FetchEventsPage(k.slot) :
         \E j \in Keys : gamma[j] # Undecided /\ e = [key |-> j, market |-> gamma[j]]
  BY DEF FetchEventsPage, Listed
<1>4. FetchEventsPage(k.slot) \subseteq [key : Keys, market : Views]
  BY <1>3 DEF RecorderInv, RecorderTypeOK
<1>5. \A e \in FetchEventsPage(k.slot) : Closed(e.key) /\ e.market = gamma[e.key]
  BY <1>3 DEF RecorderInv, Evidence
<1>6. q.page = FetchEventsPage(k.slot) /\ q.due = p.due
  BY <1>1 DEF Processes
<1>7. k.slot \in 0 .. Top
  BY <1>2, RecorderBounds DEF Top
<1>8. q \in Processes
  BY <1>1, <1>4, <1>7 DEF Processes
<1> QED
  BY <1>5, <1>6, <1>8 DEF PageOK

(* One step of a backfill: the table, the process and its page keep their  *)
(* parts of the invariant.                                                 *)
LEMMA BackfillKeeps ==
    ASSUME RecorderInv, NEW p \in Processes, NEW q, PageOK(p),
           BackfillPage(p, q) \/ BackfillUpsert(p, q), UNCHANGED <<now, gamma>>
    PROVE  DbInv' /\ q \in Processes /\ PageOK(q) /\ q.due = p.due
<1>1. CASE BackfillPage(p, q)
  <2>1. DbInv'
    BY <1>1 DEF BackfillPage, DbInv, RecorderInv, RecorderTypeOK, Recorded,
                OnlyClosedRecorded, OutcomeIsGammas, Closed
  <2> QED
    BY <1>1, <2>1, PageKeeps
<1>2. CASE BackfillUpsert(p, q)
  <2>1. PICK e \in p.page :
           /\ UpsertResolution(e.key, ResolutionSignal(e.market, now))
           /\ q = [p EXCEPT !.page = @ \ {e}]
    BY <1>2 DEF BackfillUpsert
  <2>2. e.key \in Keys /\ e.market \in Views
    BY DEF Processes
  <2>3. DbInv'
    BY <2>1, <2>2, UpsertKeeps DEF PageOK
  <2>4. q \in Processes /\ q.page \subseteq p.page /\ q.due = p.due
    BY <2>1 DEF Processes
  <2> QED
    BY <2>3, <2>4 DEF PageOK
<1> QED
  BY <1>1, <1>2

(* A process that is idle, or that begins, has nothing on its way.         *)
LEMMA FreshProcesses ==
    /\ Idle \in Processes /\ Backfilling \in Processes /\ Sweeping \in Processes
    /\ Idle.page = {} /\ Backfilling.page = {} /\ Sweeping.page = {}
    /\ Idle.due = {} /\ Backfilling.due = {} /\ Sweeping.due = {}
<1>1. Top \in 0 .. Top
  BY RecorderBounds DEF Top
<1>2. /\ Idle = [pc |-> "down", cursor |-> Top, page |-> {}, todo |-> {}, due |-> {}]
      /\ Backfilling = [pc |-> "backfill", cursor |-> Top, page |-> {}, todo |-> {}, due |-> {}]
      /\ Sweeping = [pc |-> "gaps", cursor |-> Top, page |-> {}, todo |-> Markets, due |-> {}]
  <2>1. Idle = [pc |-> "down", cursor |-> Top, page |-> {}, todo |-> {}, due |-> {}]
    BY DEF Idle
  <2>2. Backfilling = [pc |-> "backfill", cursor |-> Top, page |-> {}, todo |-> {}, due |-> {}]
    BY <2>1 DEF Backfilling
  <2>3. Sweeping = [pc |-> "gaps", cursor |-> Top, page |-> {}, todo |-> Markets, due |-> {}]
    BY DEF Sweeping
  <2> QED
    BY <2>1, <2>2, <2>3
<1>3. /\ {} \in SUBSET [key : Keys, market : Views] /\ {} \in SUBSET Keys
      /\ {} \in SUBSET Markets /\ Markets \in SUBSET Markets
  OBVIOUS
<1>4. Idle \in Processes /\ Backfilling \in Processes /\ Sweeping \in Processes
  BY <1>1, <1>2, <1>3 DEF Processes
<1>5. Idle.page = {} /\ Idle.due = {}
  BY <1>2
<1>6. Backfilling.page = {} /\ Backfilling.due = {}
  BY <1>2
<1>7. Sweeping.page = {} /\ Sweeping.due = {}
  BY <1>2
<1> QED
  BY <1>4, <1>5, <1>6, <1>7

(* Everything but the table and the processes: what a step of either       *)
(* process leaves to be shown.                                             *)
LEMMA ProcessStep ==
    ASSUME RecorderInv, UNCHANGED <<now, gamma>>, DbInv',
           daemon' \in Processes, tool' \in Processes, starts' \in Nat, crashes' \in Nat,
           PageOK(daemon'), PageOK(tool'), \A k \in daemon'.due : Closed(k)
    PROVE  RecorderInv'
<1>1. RecorderTypeOK'
  BY DEF RecorderInv, RecorderTypeOK, DbInv
<1>2. Evidence'
  BY DEF RecorderInv, Evidence, PageOK, Closed
<1> QED
  BY <1>1, <1>2 DEF RecorderInv, DbInv

(* A step that leaves the table, the time and Gamma alone.                 *)
LEMMA SameDb ==
    ASSUME RecorderInv, UNCHANGED <<now, gamma, db>>
    PROVE  DbInv'
BY DEF DbInv, RecorderInv, RecorderTypeOK, Recorded, OnlyClosedRecorded, OutcomeIsGammas, Closed

-----------------------------------------------------------------------------
(* The actions.                                                            *)

(* The one-shot tool keeps the invariant.                                  *)
LEMMA ToolKeeps == RecorderInv /\ (ToolStart \/ ToolStep) => RecorderInv'
<1> SUFFICES ASSUME RecorderInv, ToolStart \/ ToolStep PROVE RecorderInv'
  OBVIOUS
<1> USE DEF RecorderInv, RecorderTypeOK, Evidence
<1>1. daemon' = daemon /\ crashes' = crashes /\ starts' \in Nat /\ UNCHANGED <<now, gamma>>
  BY DEF ToolStart, ToolStep
<1>2. DbInv' /\ tool' \in Processes /\ PageOK(tool')
  <2>1. CASE tool' \in {Idle, Backfilling} /\ db' = db
    BY <1>1, <2>1, SameDb, FreshProcesses DEF PageOK
  <2>2. CASE BackfillPage(tool, tool') \/ BackfillUpsert(tool, tool')
    BY <1>1, <2>2, BackfillKeeps
  <2> QED
    BY <2>1, <2>2 DEF ToolStart, ToolStep
<1> QED
  BY <1>1, <1>2, ProcessStep

(* So does the start of the daemon,                                        *)
LEMMA StartKeeps == RecorderInv /\ Start => RecorderInv'
<1> SUFFICES ASSUME RecorderInv, Start PROVE RecorderInv'
  OBVIOUS
<1>1. daemon' \in {Backfilling, Sweeping} /\ UNCHANGED <<now, gamma, db, tool, starts, crashes>>
  BY DEF Start
<1> QED
  BY <1>1, SameDb, FreshProcesses, ProcessStep
     DEF RecorderInv, RecorderTypeOK, Evidence, PageOK

(* its first backfill,                                                     *)
LEMMA StartupBackfillKeeps == RecorderInv /\ StartupBackfill => RecorderInv'
<1> SUFFICES ASSUME RecorderInv, StartupBackfill PROVE RecorderInv'
  OBVIOUS
<1> USE DEF RecorderInv, RecorderTypeOK, Evidence
<1>1. UNCHANGED <<now, gamma, tool, starts, crashes>>
  BY DEF StartupBackfill
<1>2. /\ DbInv' /\ daemon' \in Processes /\ PageOK(daemon')
      /\ \A k \in daemon'.due : Closed(k)
  <2>1. CASE daemon' = Sweeping /\ db' = db
    BY <1>1, <2>1, SameDb, FreshProcesses DEF PageOK
  <2>2. CASE BackfillPage(daemon, daemon') \/ BackfillUpsert(daemon, daemon')
    BY <1>1, <2>2, BackfillKeeps
  <2> QED
    BY <2>1, <2>2 DEF StartupBackfill
<1> QED
  BY <1>1, <1>2, ProcessStep

(* the reconciliation of the gaps,                                         *)
LEMMA ReconcileGapsKeeps == RecorderInv /\ ReconcileGaps => RecorderInv'
<1> SUFFICES ASSUME RecorderInv, ReconcileGaps PROVE RecorderInv'
  OBVIOUS
<1> USE DEF RecorderInv, RecorderTypeOK, Evidence
<1>1. PICK market \in daemon.todo :
         /\ InsertPlaceholders(MissingSlots(market))
         /\ daemon' = [daemon EXCEPT !.todo = @ \ {market}]
  BY DEF ReconcileGaps
<1>2. UNCHANGED <<now, gamma, tool, starts, crashes>>
  BY DEF ReconcileGaps
<1>3. DbInv'
  <2>1. market \in Markets
    BY DEF Processes
  <2> QED
    BY <1>1, <1>2, <2>1, MissingClosed, InsertKeeps
<1>4. daemon' \in Processes /\ daemon'.page = daemon.page /\ daemon'.due = daemon.due
  BY <1>1 DEF Processes
<1> QED
  BY <1>2, <1>3, <1>4, ProcessStep DEF PageOK

(* the sweep of the closed markets,                                        *)
LEMMA SweepKeeps ==
    RecorderInv /\ (SelectDue \/ SweepFetch \/ SweepFails \/ NextSweep) => RecorderInv'
<1> SUFFICES ASSUME RecorderInv, SelectDue \/ SweepFetch \/ SweepFails \/ NextSweep
             PROVE  RecorderInv'
  OBVIOUS
<1> USE DEF RecorderInv, RecorderTypeOK, Evidence
<1>1. UNCHANGED <<now, gamma, db, tool, starts, crashes>>
  BY DEF SelectDue, SweepFetch, SweepFails, NextSweep
<1>2. /\ daemon' \in Processes /\ PageOK(daemon')
      /\ \A k \in daemon'.due : Closed(k)
  <2>1. CASE SelectDue
    BY <2>1, FreshProcesses DEF SelectDue, DueUnresolved, Processes, PageOK, Idle
  <2>2. CASE SweepFetch
    <3>1. PICK k \in daemon.due :
             daemon' = [daemon EXCEPT !.due = @ \ {k},
                                      !.page = {[key |-> k, market |-> gamma[k]]}]
      BY <2>2 DEF SweepFetch
    <3>2. k \in Keys /\ gamma[k] \in Views
      BY DEF Processes
    <3>3. daemon' \in Processes
      <4>1. {[key |-> k, market |-> gamma[k]]} \in SUBSET [key : Keys, market : Views]
        BY <3>2
      <4> QED
        BY <3>1, <4>1 DEF Processes
    <3>4. daemon'.page = {[key |-> k, market |-> gamma[k]]} /\ daemon'.due \subseteq daemon.due
      BY <3>1 DEF Processes
    <3> QED
      BY <3>3, <3>4 DEF PageOK
  <2>3. CASE SweepFails
    BY <2>3 DEF SweepFails, Processes, PageOK
  <2>4. CASE NextSweep
    BY <2>4, FreshProcesses DEF NextSweep, PageOK
  <2> QED
    BY <2>1, <2>2, <2>3, <2>4
<1> QED
  BY <1>1, <1>2, SameDb, ProcessStep

(* the write of one of them,                                               *)
LEMMA SweepUpsertKeeps == RecorderInv /\ SweepUpsert => RecorderInv'
<1> SUFFICES ASSUME RecorderInv, SweepUpsert PROVE RecorderInv'
  OBVIOUS
<1> USE DEF RecorderInv, RecorderTypeOK, Evidence
<1>1. /\ UNCHANGED <<now, gamma, tool, starts, crashes>>
      /\ daemon' = [daemon EXCEPT !.page = {}]
  BY DEF SweepUpsert
<1>2. PICK e \in daemon.page : UpsertResolution(e.key, ResolutionSignal(e.market, now))
  BY DEF SweepUpsert
<1>3. e.key \in Keys /\ e.market \in Views
  BY DEF Processes
<1>4. DbInv'
  BY <1>1, <1>2, <1>3, UpsertKeeps DEF PageOK
<1>5. daemon' \in Processes /\ daemon'.page = {} /\ daemon'.due = daemon.due
  BY <1>1 DEF Processes
<1> QED
  BY <1>1, <1>4, <1>5, ProcessStep DEF PageOK

(* a crash,                                                                *)
LEMMA CrashKeeps == RecorderInv /\ Crash => RecorderInv'
<1> SUFFICES ASSUME RecorderInv, Crash PROVE RecorderInv'
  OBVIOUS
<1> USE DEF RecorderInv, RecorderTypeOK, Evidence
<1>1. daemon' = Idle /\ crashes' \in Nat /\ UNCHANGED <<now, gamma, tool, starts>>
  BY DEF Crash
<1>2. DbInv'
  <2>1. CASE UNCHANGED db
    BY <1>1, <2>1, SameDb
  <2>2. ASSUME NEW market \in daemon.todo, NEW last,
               InsertPlaceholders({k \in MissingSlots(market) : k.slot <= last})
        PROVE  DbInv'
    <3>1. market \in Markets
      BY DEF Processes
    <3> QED
      BY <1>1, <2>2, <3>1, MissingClosed, InsertKeeps
  <2> QED
    BY <2>1, <2>2 DEF Crash
<1> QED
  BY <1>1, <1>2, FreshProcesses, ProcessStep DEF PageOK

(* Gamma's decision,                                                       *)
LEMMA GammaDecidesKeeps == RecorderInv /\ GammaDecides => RecorderInv'
<1> SUFFICES ASSUME RecorderInv, GammaDecides PROVE RecorderInv'
  OBVIOUS
<1> USE DEF RecorderInv, RecorderTypeOK, Evidence
<1>1. PICK k \in Keys :
         /\ gamma[k] = Undecided /\ Closed(k)
         /\ gamma' = [gamma EXCEPT ![k] =
               [uma |-> Answer[k].uma, up |-> Answer[k].up, down |-> Answer[k].down,
                closedTime |-> IF Answer[k].timed THEN CloseTs(k) ELSE NoTime]]
  BY DEF GammaDecides
<1>2. UNCHANGED <<now, db, daemon, tool, starts, crashes>>
  BY DEF GammaDecides
<1>3. gamma' \in [Keys -> Views]
  BY <1>1, AnswerAssumption, KeyType DEF Views
<1>4. \A j \in Keys : j = k \/ gamma'[j] = gamma[j]
  BY <1>1
<1>5. RecorderTypeOK'
  BY <1>2, <1>3 DEF Recorded
<1>6. OnlyClosedRecorded'
  BY <1>2 DEF OnlyClosedRecorded, Recorded, Closed
<1>7. OutcomeIsGammas'
  BY <1>1, <1>2, <1>4 DEF OutcomeIsGammas, Recorded
<1>8. PageOK(daemon)' /\ PageOK(tool)'
  <2>1. ASSUME NEW p \in Processes, PageOK(p), NEW e \in p.page
        PROVE  Closed(e.key)' /\ e.market \in {Undecided, gamma'[e.key]}
    <3>1. e.key \in Keys
      BY DEF Processes
    <3> QED
      BY <1>1, <1>2, <1>4, <2>1, <3>1 DEF PageOK, Closed
  <2> QED
    BY <1>2, <2>1 DEF PageOK
<1>9. Evidence'
  BY <1>1, <1>2, <1>4, <1>8 DEF Closed
<1> QED
  BY <1>5, <1>6, <1>7, <1>9

(* and the clock.                                                          *)
LEMMA TickKeeps == RecorderInv /\ Tick => RecorderInv'
<1> SUFFICES ASSUME RecorderInv, Tick PROVE RecorderInv'
  OBVIOUS
<1> USE DEF RecorderInv, RecorderTypeOK, Evidence
<1>1. UNCHANGED <<gamma, daemon, tool, starts, crashes>>
  BY DEF Tick
<1>2. now' \in 0 .. MaxTime /\ now <= now'
  BY RecorderBounds DEF Tick
<1>3. \A k \in Keys : Closed(k) => Closed(k)'
  <2> SUFFICES ASSUME NEW k \in Keys, Closed(k) PROVE Closed(k)'
    OBVIOUS
  <2> QED
    BY <1>2, KeyType, RecorderBounds DEF Closed
<1>4. /\ Recorded' = Recorded
      /\ \A k \in Recorded : db'[k].signal = db[k].signal
      /\ db' \in [Recorded -> [signal : Signals, since : 0 .. Never]]
  <2>1. db' = [k \in Recorded |-> [db[k] EXCEPT !.since = IF @ <= Retry THEN @ + 1 ELSE @]]
    BY DEF Tick
  <2>2. \A k \in Recorded : db'[k] \in [signal : Signals, since : 0 .. Never]
    BY <2>1, RecorderBounds DEF Never
  <2> QED
    BY <2>1, <2>2 DEF Recorded
<1>5. RecorderTypeOK'
  BY <1>1, <1>2, <1>4 DEF Never
<1>6. OnlyClosedRecorded' /\ OutcomeIsGammas'
  BY <1>1, <1>3, <1>4 DEF OnlyClosedRecorded, OutcomeIsGammas
<1>7. Evidence'
  BY <1>1, <1>3 DEF PageOK, Processes
<1> QED
  BY <1>5, <1>6, <1>7

-----------------------------------------------------------------------------
(* The inductive invariant holds in every reachable state.                 *)
THEOREM RecorderInvariant == RecorderSpec => []RecorderInv
<1>1. RecorderInit => RecorderInv
  <2> SUFFICES ASSUME RecorderInit PROVE RecorderInv
    OBVIOUS
  <2>1. Undecided \in Views /\ Recorded = {}
    BY DEF RecorderInit, Undecided, Views, Recorded
  <2> QED
    BY <2>1, FreshProcesses
       DEF RecorderInit, RecorderInv, RecorderTypeOK, OnlyClosedRecorded, OutcomeIsGammas,
           Evidence, PageOK
<1>2. RecorderInv /\ [RecorderNext]_recorderVars => RecorderInv'
  <2> SUFFICES ASSUME RecorderInv, [RecorderNext]_recorderVars PROVE RecorderInv'
    OBVIOUS
  <2>1. CASE UNCHANGED recorderVars
    BY <2>1 DEF recorderVars, RecorderInv, RecorderTypeOK, OnlyClosedRecorded, OutcomeIsGammas,
                Evidence, PageOK, Closed, Recorded
  <2> QED
    BY <2>1, ToolKeeps, StartKeeps, StartupBackfillKeeps, ReconcileGapsKeeps, SweepKeeps,
       SweepUpsertKeeps, CrashKeeps, GammaDecidesKeeps, TickKeeps DEF RecorderNext
<1> QED
  BY <1>1, <1>2, PTL DEF RecorderSpec

(* Every variable of the recorder keeps its type.                          *)
THEOREM RecorderTypeCorrect == RecorderSpec => []RecorderTypeOK
<1>1. RecorderInv => RecorderTypeOK
  BY DEF RecorderInv
<1> QED
  BY <1>1, RecorderInvariant, PTL

(* No row is made for a slot that is still open.                           *)
THEOREM OpenSlotsUnrecorded == RecorderSpec => []OnlyClosedRecorded
<1>1. RecorderInv => OnlyClosedRecorded
  BY DEF RecorderInv
<1> QED
  BY <1>1, RecorderInvariant, PTL

(* Whatever answers cross, a recorded outcome is the one Gamma decided.    *)
THEOREM OutcomeSound == RecorderSpec => []OutcomeIsGammas
<1>1. RecorderInv => OutcomeIsGammas
  BY DEF RecorderInv
<1> QED
  BY <1>1, RecorderInvariant, PTL

(* A resolution, once recorded, is never changed or lost.                  *)
THEOREM ResolutionStays == RecorderSpec => ResolutionIsSticky
<1> DEFINE Kept == \A k \in Recorded : db[k].signal.outcome # UNRESOLVED =>
                       k \in DOMAIN db' /\ db'[k].signal = db[k].signal
<1>1. ASSUME RecorderTypeOK, [RecorderNext]_recorderVars
      PROVE  Kept
  <2>1. CASE UNCHANGED db
    BY <2>1 DEF Recorded
  <2>2. ASSUME NEW k, NEW signal, UpsertResolution(k, signal)
        PROVE  Kept
    BY <2>2 DEF UpsertResolution, StickySignal, Recorded
  <2>3. ASSUME NEW keys, InsertPlaceholders(keys)
        PROVE  Kept
    BY <2>3 DEF InsertPlaceholders, Recorded
  <2>4. CASE Tick
    <3> SUFFICES ASSUME NEW k \in Recorded
                 PROVE  k \in DOMAIN db' /\ db'[k].signal = db[k].signal
      OBVIOUS
    <3>1. /\ DOMAIN db' = Recorded
          /\ db'[k] = [db[k] EXCEPT !.since = IF @ <= Retry THEN @ + 1 ELSE @]
      BY <2>4 DEF Tick
    <3>2. db[k] \in [signal : Signals, since : 0 .. Never]
      BY <1>1 DEF RecorderTypeOK
    <3> QED
      BY <3>1, <3>2
  <2> HIDE DEF Kept
  <2>5. CASE ToolStep \/ StartupBackfill
    BY <2>1, <2>2, <2>5
       DEF ToolStep, StartupBackfill, BackfillPage, BackfillUpsert
  <2>6. CASE ReconcileGaps \/ SweepUpsert \/ Crash
    BY <2>1, <2>2, <2>3, <2>6 DEF ReconcileGaps, SweepUpsert, Crash
  <2> QED
    BY <1>1, <2>1, <2>4, <2>5, <2>6
       DEF RecorderNext, recorderVars, GammaDecides, ToolStart, Start, SelectDue,
           SweepFetch, SweepFails, NextSweep
<1> QED
  BY <1>1, RecorderTypeCorrect, PTL DEF RecorderSpec, ResolutionIsSticky

-----------------------------------------------------------------------------
(* No holes.                                                               *)

Decided(k) == gamma[k] # Undecided
Below(j, k) == j.market = k.market /\ j.slot < k.slot

(* Gamma decides the slots of a market in their order.                     *)
DecidedInOrder == \A j, k \in Keys : Below(j, k) /\ Decided(k) => Decided(j)

(* Between two rows of a market every slot has a row.                      *)
Whole == \A j, l \in Recorded : \A k \in Keys : Below(j, k) /\ Below(k, l) => k \in Recorded

(* What the first backfill has written ends at its cursor: all of it had   *)
(* been decided, and what is missing below a row is still in the page.     *)
FilledDown ==
    /\ daemon.todo = {}
    /\ \A j \in Recorded : Decided(j) /\ daemon.cursor <= j.slot
    /\ \A e \in daemon.page : Decided(e.key) /\ e.key.slot = daemon.cursor
    /\ \A j \in Recorded : \A k \in Keys :
          Below(k, j) /\ daemon.cursor <= k.slot
              => k \in Recorded \/ \E e \in daemon.page : e.key = k

(* The sweep asks for recorded slots only.                                 *)
SweepsRows == daemon.due \subseteq Recorded /\ \A e \in daemon.page : e.key \in Recorded

(* The inductive invariant of a daemon that is alone.                      *)
Solid ==
    /\ DecidedInOrder
    /\ starts = 0 =>
          /\ tool.pc = "down" /\ Whole
          /\ daemon.pc = "backfill" => FilledDown
          /\ daemon.pc = "poll" => SweepsRows

(* A set of naturals has a least element.                                  *)
LEMMA LeastNatural ==
    ASSUME NEW T, T \subseteq Nat, T # {}
    PROVE  \E m \in T : \A n \in T : m <= n
<1> DEFINE R == OpToRel(<, Nat)
<1>1. IsWellFoundedOn(R, Nat)
  BY NatLessThanWellFounded
<1>2. \A m, n \in Nat : m < n => <<m, n>> \in R
  BY DEF OpToRel
<1> HIDE DEF R
<1>3. PICK m \in T : \A n \in T : ~ (<<n, m>> \in R)
  BY <1>1, WFMin
<1>4. \A n \in T : ~ (n < m)
  BY <1>2, <1>3
<1> QED
  BY <1>4

(* The newest row of a market is one of its rows and none is above it.     *)
LEMMA MaxSlotIsNewest ==
    ASSUME RecorderTypeOK, NEW market, SlotsOf(market) # {}
    PROVE  /\ MaxSlot(market) \in SlotsOf(market)
           /\ \A t \in SlotsOf(market) : t <= MaxSlot(market)
<1>1. \A s \in SlotsOf(market) : s \in Nat /\ MaxTime - s \in Nat /\ s = MaxTime - (MaxTime - s)
  BY KeyType, RecorderBounds DEF SlotsOf, RecorderTypeOK
<1> DEFINE T == {MaxTime - s : s \in SlotsOf(market)}
<1>2. PICK m \in T : \A n \in T : m <= n
  <2>1. T \subseteq Nat /\ T # {}
    BY <1>1
  <2> HIDE DEF T
  <2> QED
    BY <2>1, LeastNatural
<1>3. PICK s \in SlotsOf(market) : m = MaxTime - s
  BY <1>2
<1>4. \A t \in SlotsOf(market) : t <= s
  <2> SUFFICES ASSUME NEW t \in SlotsOf(market) PROVE t <= s
    OBVIOUS
  <2>1. MaxTime - s <= MaxTime - t
    BY <1>2, <1>3
  <2> QED
    BY <1>1, <2>1, RecorderBounds
<1> QED
  BY <1>4 DEF MaxSlot

(* Two keys of a market with the same slot are one.                        *)
LEMMA SameKey ==
    ASSUME NEW j \in Keys, NEW k \in Keys, j.market = k.market, j.slot = k.slot
    PROVE  j = k
BY DEF Keys

(* Placeholders above the newest row of a market, up to any slot: no hole  *)
(* comes from them.                                                        *)
LEMMA GapsStayWhole ==
    ASSUME RecorderInv, Whole, NEW market, NEW last \in Int,
           InsertPlaceholders({k \in MissingSlots(market) : k.slot <= last})
    PROVE  Whole'
<1> DEFINE Unseen == {k \in MissingSlots(market) : k.slot <= last}
<1>1. Recorded' = Recorded \cup Unseen
  BY DEF InsertPlaceholders, Recorded
<1>2. Recorded \subseteq Keys /\ Unseen \subseteq Keys
  BY DEF MissingSlots, RecorderInv, RecorderTypeOK
<1>3. \A k \in Keys : k.slot \in Int
  BY KeyType
<1> SUFFICES ASSUME NEW j \in Recorded', NEW l \in Recorded', NEW k \in Keys,
                    Below(j, k), Below(k, l)
             PROVE  k \in Recorded'
  BY DEF Whole, Below
<1> USE DEF Below
<1>4. j \in Keys /\ l \in Keys /\ j.slot \in Int /\ k.slot \in Int /\ l.slot \in Int
  BY <1>1, <1>2, <1>3
<1>5. CASE l \in Recorded
  <2>1. j \in Recorded
    <3> SUFFICES ASSUME j \in Unseen PROVE FALSE
      BY <1>1
    <3>1. l.slot \in SlotsOf(market)
      BY <1>5 DEF MissingSlots, SlotsOf
    <3>2. MaxSlot(market) < j.slot /\ l.slot <= MaxSlot(market)
      BY <3>1, MaxSlotIsNewest DEF MissingSlots, RecorderInv
    <3>3. MaxSlot(market) \in Int
      BY <1>2, <1>3, <3>1, MaxSlotIsNewest DEF SlotsOf, RecorderInv
    <3> QED
      BY <1>4, <3>2, <3>3
  <2> QED
    BY <1>1, <1>5, <2>1 DEF Whole
<1>6. CASE l \in Unseen
  <2>1. k.market = market /\ j.market = market /\ l.slot <= LastClosedSlot(market) /\ l.slot <= last
    BY <1>6 DEF MissingSlots
  <2>2. LastClosedSlot(market) \in Int
    <3>1. market \in Markets
      BY <1>4, <2>1, KeyType
    <3>2. Interval[market] \in Nat \ {0} /\ now \in Nat
      BY <3>1, IntervalAssumption DEF RecorderInv, RecorderTypeOK
    <3> QED
      BY <3>2, FloorBound DEF LastClosedSlot, CurrentSlot
  <2>3. k.slot <= LastClosedSlot(market) /\ k.slot <= last
    BY <1>4, <2>1, <2>2
  <2>4. SlotsOf(market) # {}
    <3> SUFFICES ASSUME SlotsOf(market) = {} PROVE FALSE
      OBVIOUS
    <3>1. j \in Unseen
      BY <1>1, <2>1 DEF SlotsOf
    <3> QED
      BY <1>4, <1>6, <3>1 DEF MissingSlots
  <2>5. PICK n \in Recorded : n.market = market /\ n.slot = MaxSlot(market)
    BY <2>4, MaxSlotIsNewest DEF SlotsOf, RecorderInv
  <2>6. n \in Keys /\ n.slot \in Int
    BY <1>2, <1>3
  <2>7. CASE n.slot < k.slot
    BY <1>1, <2>1, <2>3, <2>4, <2>5, <2>7 DEF MissingSlots
  <2>8. CASE n.slot = k.slot
    BY <1>1, <2>1, <2>5, <2>6, <2>8, SameKey
  <2>9. CASE k.slot < n.slot
    <3>1. j \in Recorded
      <4> SUFFICES ASSUME j \in Unseen PROVE FALSE
        BY <1>1
      <4>1. n.slot < j.slot
        BY <2>4, <2>5 DEF MissingSlots
      <4> QED
        BY <1>4, <2>6, <2>9, <4>1
    <3> QED
      BY <1>1, <2>1, <2>5, <2>9, <3>1 DEF Whole
  <2> QED
    BY <1>4, <2>6, <2>7, <2>8, <2>9
<1> QED
  BY <1>1, <1>5, <1>6

(* The next page of the first backfill: it takes up exactly what the rows  *)
(* above it leave to be written.                                           *)
LEMMA PageFillsDown ==
    ASSUME RecorderInv, DecidedInOrder, FilledDown, BackfillPage(daemon, daemon'),
           UNCHANGED gamma
    PROVE  FilledDown' /\ daemon'.pc = daemon.pc /\ Recorded' = Recorded
<1>1. PICK top \in Listed(daemon.cursor) :
         /\ \A j \in Listed(daemon.cursor) : j.slot <= top.slot
         /\ daemon' = [daemon EXCEPT !.page = FetchEventsPage(top.slot), !.cursor = top.slot]
  BY DEF BackfillPage
<1>2. daemon.page = {} /\ Recorded' = Recorded
  BY DEF BackfillPage, Recorded
<1>3. daemon \in Processes /\ daemon.cursor \in Int /\ Recorded \subseteq Keys
  BY DEF RecorderInv, RecorderTypeOK, Processes
<1>4. /\ daemon'.page = FetchEventsPage(top.slot) /\ daemon'.cursor = top.slot
      /\ daemon'.todo = daemon.todo /\ daemon'.pc = daemon.pc
  BY <1>1, <1>3 DEF Processes
<1>5. top \in Keys /\ top.slot \in Int /\ top.slot < daemon.cursor
  BY KeyType DEF Listed
<1>6. \A e \in FetchEventsPage(top.slot) : Decided(e.key) /\ e.key.slot = top.slot
  BY DEF FetchEventsPage, Listed, Decided
<1>7. \A j \in Recorded : Decided(j) /\ top.slot <= j.slot
  <2> SUFFICES ASSUME NEW j \in Recorded PROVE Decided(j) /\ top.slot <= j.slot
    OBVIOUS
  <2>1. j.slot \in Int
    BY <1>3, KeyType
  <2> QED
    BY <1>3, <1>5, <2>1 DEF FilledDown
<1>8. ASSUME NEW j \in Recorded, NEW k \in Keys, Below(k, j), top.slot <= k.slot
      PROVE  k \in Recorded \/ \E e \in FetchEventsPage(top.slot) : e.key = k
  <2>1. k.slot \in Int /\ j \in Keys
    BY <1>3, KeyType
  <2>2. CASE daemon.cursor <= k.slot
    BY <1>2, <1>8, <2>2 DEF FilledDown
  <2>3. CASE k.slot < daemon.cursor
    <3>1. Decided(k)
      BY <1>7, <1>8, <2>1 DEF DecidedInOrder
    <3>2. k \in Listed(daemon.cursor) /\ k.slot = top.slot
      BY <1>1, <1>5, <1>8, <2>1, <2>3, <3>1 DEF Listed, Decided
    <3>3. [key |-> k, market |-> gamma[k]] \in FetchEventsPage(top.slot)
      BY <1>5, <2>1, <3>1, <3>2 DEF FetchEventsPage, Listed, Decided
    <3> QED
      BY <3>3
  <2> QED
    BY <1>3, <2>1, <2>2, <2>3
<1> QED
  BY <1>2, <1>4, <1>6, <1>7, <1>8 DEF FilledDown, Decided

(* One market of the page is written.                                      *)
LEMMA UpsertFillsDown ==
    ASSUME RecorderInv, FilledDown, BackfillUpsert(daemon, daemon'), UNCHANGED gamma
    PROVE  FilledDown' /\ daemon'.pc = daemon.pc
<1>1. PICK e \in daemon.page :
         /\ UpsertResolution(e.key, ResolutionSignal(e.market, now))
         /\ daemon' = [daemon EXCEPT !.page = @ \ {e}]
  BY DEF BackfillUpsert
<1>2. Recorded' = Recorded \cup {e.key}
  BY <1>1 DEF UpsertResolution, Recorded
<1>3. /\ daemon'.page = daemon.page \ {e} /\ daemon'.cursor = daemon.cursor
      /\ daemon'.todo = daemon.todo /\ daemon'.pc = daemon.pc
  BY <1>1 DEF RecorderInv, RecorderTypeOK, Processes
<1>4. Decided(e.key) /\ e.key.slot = daemon.cursor /\ daemon.cursor \in Int
  BY DEF FilledDown, RecorderInv, RecorderTypeOK, Processes, Top
<1>5. ASSUME NEW j \in Recorded', NEW k \in Keys, Below(k, j), daemon.cursor <= k.slot
      PROVE  k \in Recorded' \/ \E f \in daemon.page \ {e} : f.key = k
  <2>1. k.slot \in Int
    BY KeyType
  <2>2. j \in Recorded
    BY <1>2, <1>4, <1>5, <2>1 DEF Below
  <2>3. k \in Recorded \/ \E f \in daemon.page : f.key = k
    BY <1>5, <2>2 DEF FilledDown
  <2> QED
    BY <1>2, <2>3
<1>6. \A j \in Recorded' : Decided(j) /\ daemon.cursor <= j.slot
  BY <1>2, <1>4 DEF FilledDown
<1> QED
  BY <1>3, <1>5, <1>6 DEF FilledDown, Decided

(* Rows that are filled down to a cursor have no hole.                     *)
LEMMA FilledIsWhole ==
    ASSUME RecorderInv, FilledDown
    PROVE  Whole
<1> SUFFICES ASSUME NEW j \in Recorded, NEW l \in Recorded, NEW k \in Keys,
                    Below(j, k), Below(k, l)
             PROVE  k \in Recorded
  BY DEF Whole
<1>1. /\ j.slot \in Int /\ k.slot \in Int /\ daemon.cursor \in Int
      /\ daemon.cursor <= j.slot
  BY KeyType DEF FilledDown, RecorderInv, RecorderTypeOK, Processes, Top
<1>2. daemon.cursor < k.slot
  BY <1>1 DEF Below
<1>3. k \in Recorded \/ \E e \in daemon.page : e.key = k
  BY <1>1, <1>2 DEF FilledDown
<1> QED
  BY <1>1, <1>2, <1>3 DEF FilledDown

(* Gamma decides in order,                                                 *)
LEMMA OrderKept ==
    ASSUME RecorderInv, RecorderInv', DecidedInOrder, [RecorderNext]_recorderVars
    PROVE  DecidedInOrder' /\ (\A k \in Keys : Decided(k) => Decided(k)')
<1>1. CASE UNCHANGED gamma
  BY <1>1 DEF DecidedInOrder, Decided, Below
<1>2. CASE GammaDecides
  <2>1. PICK k \in Keys :
           /\ ~ Decided(k)
           /\ \A j \in Keys : Below(j, k) => Decided(j)
           /\ \A j \in Keys : j # k => gamma'[j] = gamma[j]
    BY <1>2 DEF GammaDecides, Decided, Below, RecorderInv, RecorderTypeOK
  <2>2. \A j \in Keys : Decided(j) => Decided(j)'
    BY <2>1 DEF Decided
  <2>3. \A j \in Keys : Decided(j)' => j = k \/ Decided(j)
    BY <2>1 DEF Decided
  <2> QED
    BY <2>1, <2>2, <2>3 DEF DecidedInOrder, Below
<1> QED
  BY <1>1, <1>2
     DEF RecorderNext, recorderVars, Tick, ToolStart, ToolStep, Start, StartupBackfill,
         ReconcileGaps, SelectDue, SweepFetch, SweepFails, SweepUpsert, NextSweep, Crash

(* and no step makes a hole while the daemon is alone.                     *)
LEMMA SolidKept ==
    ASSUME RecorderInv, RecorderInv', Solid, [RecorderNext]_recorderVars
    PROVE  Solid'
<1>1. DecidedInOrder' /\ \A k \in Keys : Decided(k) => Decided(k)'
  BY OrderKept DEF Solid
<1> SUFFICES ASSUME starts' = 0
             PROVE  /\ tool'.pc = "down" /\ Whole'
                    /\ daemon'.pc = "backfill" => FilledDown'
                    /\ daemon'.pc = "poll" => SweepsRows'
  BY <1>1 DEF Solid
<1>2. starts = 0 /\ ~ ToolStart
  <2>1. ~ ToolStart
    BY DEF ToolStart, RecorderInv, RecorderTypeOK
  <2> QED
    BY <2>1 DEF RecorderNext, recorderVars, Tick, GammaDecides, ToolStep, Start,
                StartupBackfill, ReconcileGaps, SelectDue, SweepFetch, SweepFails,
                SweepUpsert, NextSweep, Crash
<1>3. /\ tool.pc = "down" /\ Whole
      /\ daemon.pc = "backfill" => FilledDown
      /\ daemon.pc = "poll" => SweepsRows
  BY <1>2 DEF Solid
<1>4. ~ ToolStep
  BY <1>3 DEF ToolStep, BackfillPage, BackfillUpsert, BackfillDone
<1>5. tool' = tool
  BY <1>2, <1>4
     DEF RecorderNext, recorderVars, Tick, GammaDecides, Start, StartupBackfill, ReconcileGaps,
         SelectDue, SweepFetch, SweepFails, SweepUpsert, NextSweep, Crash
<1>6. Recorded \subseteq Keys /\ daemon \in Processes
  BY DEF RecorderInv, RecorderTypeOK
<1>7. CASE UNCHANGED <<daemon, db>> \/ Tick
  <2>1. daemon' = daemon /\ Recorded' = Recorded
    BY <1>7 DEF Tick, Recorded
  <2>2. FilledDown => FilledDown'
    <3> SUFFICES ASSUME FilledDown PROVE FilledDown'
      OBVIOUS
    <3>1. \A e \in daemon.page : e.key \in Keys
      BY <1>6 DEF Processes
    <3> QED
      BY <1>1, <1>6, <2>1, <3>1 DEF FilledDown
  <2> QED
    BY <1>3, <1>5, <2>1, <2>2 DEF Whole, SweepsRows
<1>8. CASE Start
  <2>1. Recorded' = Recorded /\ (daemon' = Sweeping \/ (daemon' = Backfilling /\ Recorded = {}))
    BY <1>8 DEF Start, Recorded
  <2>2. daemon'.pc = "gaps" \/ (daemon'.pc = "backfill" /\ daemon'.page = {} /\ daemon'.todo = {})
    BY <2>1 DEF Sweeping, Backfilling, Idle
  <2>3. daemon'.pc = "backfill" => Recorded' = {}
    BY <2>1 DEF Sweeping
  <2> QED
    BY <1>3, <1>5, <2>1, <2>2, <2>3 DEF Whole, FilledDown
<1>9. CASE StartupBackfill
  <2>1. daemon.pc = "backfill"
    BY <1>9 DEF StartupBackfill, BackfillPage, BackfillUpsert, BackfillDone
  <2>2. CASE BackfillPage(daemon, daemon') \/ BackfillUpsert(daemon, daemon')
    <3>1. FilledDown' /\ daemon'.pc = "backfill"
      BY <1>3, <1>9, <2>1, <2>2, PageFillsDown, UpsertFillsDown DEF Solid, StartupBackfill
    <3>2. Whole'
      <4>1. RecorderInv' /\ FilledDown' => Whole'
        BY FilledIsWhole, PTL
      <4> QED
        BY <3>1, <4>1
    <3> QED
      BY <1>3, <1>5, <3>1, <3>2
  <2>3. CASE daemon' = Sweeping /\ UNCHANGED db
    <3>1. daemon'.pc = "gaps" /\ Recorded' = Recorded
      BY <2>3 DEF Sweeping, Recorded
    <3> QED
      BY <1>3, <1>5, <3>1 DEF Whole
  <2> QED
    BY <1>9, <2>2, <2>3 DEF StartupBackfill
<1>10. CASE ReconcileGaps
  <2>1. PICK market \in daemon.todo :
           /\ InsertPlaceholders(MissingSlots(market))
           /\ daemon' = [daemon EXCEPT !.todo = @ \ {market}]
    BY <1>10 DEF ReconcileGaps
  <2>2. daemon'.pc = "gaps"
    BY <1>6, <1>10, <2>1 DEF ReconcileGaps, Processes
  <2>3. {k \in MissingSlots(market) : k.slot <= MaxTime} = MissingSlots(market)
    BY KeyType, RecorderBounds DEF MissingSlots
  <2>4. Whole'
    <3>1. InsertPlaceholders({k \in MissingSlots(market) : k.slot <= MaxTime})
      BY <2>1, <2>3
    <3> QED
      BY <1>3, <3>1, GapsStayWhole, RecorderBounds
  <2> QED
    BY <1>3, <1>5, <2>2, <2>4
<1>11. CASE SelectDue \/ SweepFetch \/ SweepFails \/ NextSweep
  <2>1. Recorded' = Recorded /\ Whole'
    BY <1>3, <1>11 DEF SelectDue, SweepFetch, SweepFails, NextSweep, Recorded, Whole
  <2>2. daemon'.pc # "backfill" /\ (daemon'.pc = "poll" => SweepsRows')
    <3>1. CASE SelectDue
      <4>1. daemon'.pc = "poll" /\ daemon'.page = {} /\ daemon'.due = DueUnresolved
        BY <3>1 DEF SelectDue, Idle
      <4> QED
        BY <2>1, <4>1 DEF SweepsRows, DueUnresolved
    <3>2. CASE SweepFetch
      <4>1. PICK k \in daemon.due :
               daemon' = [daemon EXCEPT !.due = @ \ {k},
                                        !.page = {[key |-> k, market |-> gamma[k]]}]
        BY <3>2 DEF SweepFetch
      <4>2. /\ daemon'.page = {[key |-> k, market |-> gamma[k]]} /\ daemon'.due \subseteq daemon.due
            /\ daemon'.pc = daemon.pc /\ daemon.pc = "poll"
        BY <1>6, <3>2, <4>1 DEF Processes, SweepFetch
      <4> QED
        BY <1>3, <2>1, <4>2 DEF SweepsRows
    <3>3. CASE SweepFails
      <4>1. /\ daemon'.page = daemon.page /\ daemon'.due \subseteq daemon.due
            /\ daemon'.pc = daemon.pc /\ daemon.pc = "poll"
        BY <1>6, <3>3 DEF Processes, SweepFails
      <4> QED
        BY <1>3, <2>1, <4>1 DEF SweepsRows
    <3>4. CASE NextSweep
      BY <3>4 DEF NextSweep, Sweeping
    <3> QED
      BY <1>11, <3>1, <3>2, <3>3, <3>4
  <2> QED
    BY <1>3, <1>5, <2>1, <2>2
<1>12. CASE SweepUpsert
  <2>1. PICK e \in daemon.page : UpsertResolution(e.key, ResolutionSignal(e.market, now))
    BY <1>12 DEF SweepUpsert
  <2>2. /\ daemon.pc = "poll" /\ daemon'.pc = "poll"
        /\ daemon'.page = {} /\ daemon'.due = daemon.due
    BY <1>6, <1>12 DEF SweepUpsert, Processes
  <2>3. Recorded' = Recorded
    BY <1>3, <2>1, <2>2 DEF UpsertResolution, Recorded, SweepsRows
  <2> QED
    BY <1>3, <1>5, <2>2, <2>3 DEF Whole, SweepsRows
<1>13. CASE Crash
  <2>1. daemon'.pc = "down"
    BY <1>13 DEF Crash, Idle
  <2>2. CASE UNCHANGED db
    BY <1>3, <1>5, <2>1, <2>2 DEF Whole, Recorded
  <2>3. ASSUME NEW market \in daemon.todo, NEW last \in 0 .. MaxTime,
               InsertPlaceholders({k \in MissingSlots(market) : k.slot <= last})
        PROVE  Whole'
    BY <1>3, <2>3, GapsStayWhole
  <2> QED
    BY <1>3, <1>5, <1>13, <2>1, <2>2, <2>3 DEF Crash
<1> QED
  BY <1>2, <1>4, <1>7, <1>8, <1>9, <1>10, <1>11, <1>12, <1>13
     DEF RecorderNext, recorderVars, GammaDecides

(* A market has no hole between its oldest and its newest row, as long as  *)
(* the daemon alone writes: whatever stops it, and whenever.               *)
THEOREM RowsAreWhole == RecorderSpec => []NoHole
<1>1. RecorderInit => Solid
  BY DEF RecorderInit, Solid, DecidedInOrder, Decided, Whole, Idle, Recorded
<1>2. RecorderInv /\ RecorderInv' /\ Solid /\ [RecorderNext]_recorderVars => Solid'
  BY SolidKept
<1>3. Solid => NoHole
  BY DEF Solid, NoHole, Whole, Below
<1> QED
  BY <1>1, <1>2, <1>3, RecorderInvariant, PTL DEF RecorderSpec
-----------------------------------------------------------------------------
(* QuoteFeed: what separates the mismatches of two markets.                *)

FeedFields == {"tokens", "sub", "bba", "stopping"}
ReconFields == {"mismatches", "asked"}
ClockTypes == [cycle : Nat, late : BOOLEAN]
FeedShape ==
    /\ clock \in ClockTypes
    /\ feed = [field \in FeedFields |-> feed[field]]
    /\ recon = [field \in ReconFields |-> recon[field]]
    /\ feed.tokens = None \/ \E m \in Nat : feed.tokens = {m} /\ m <= clock.cycle

(* A market that was polled near its close stays near it or is over.  The  *)
(* poll forgot its mismatches, and no later one asks for it again.         *)
Asked == {a.market : a \in recon.asked}
NearItsClose(m) == m \in Nat /\ (m < clock.cycle \/ (m = clock.cycle /\ clock.late))
SeparatedInv ==
    /\ FeedShape
    /\ \A m \in polled : NearItsClose(m)
    /\ \A m \in polled : m \notin counted /\ m \notin Asked

LEMMA SeparatedStep ==
    ASSUME SeparatedInv, [FeedNext]_feedVars
    PROVE  SeparatedInv'
<1>1. FeedShape
  BY DEF SeparatedInv
<1>2. CASE UNCHANGED <<clock, feed, recon, counted, polled>>
  BY <1>2 DEF SeparatedInv, FeedShape, Asked, NearItsClose
<1>3. CASE CycleEnds
  <2>1. UNCHANGED <<feed, recon, counted, polled>>
    BY <1>3 DEF CycleEnds, reconVars
  <2>2. clock \in ClockTypes /\ clock.cycle \in Nat
    BY <1>1 DEF FeedShape, ClockTypes
  <2>3. /\ clock' \in ClockTypes
        /\ IF clock.late THEN clock'.cycle = clock.cycle + 1
           ELSE clock'.cycle = clock.cycle /\ clock'.late
    <3>1. CASE clock.late
      <4>1. clock' = [cycle |-> clock.cycle + 1, late |-> FALSE]
        BY <1>3, <3>1 DEF CycleEnds
      <4>. QED BY <2>2, <3>1, <4>1 DEF ClockTypes
    <3>2. CASE ~clock.late
      <4>1. clock' = [clock EXCEPT !.late = TRUE]
        BY <1>3, <3>2 DEF CycleEnds
      <4>. QED BY <2>2, <3>2, <4>1 DEF ClockTypes
    <3>. QED BY <3>1, <3>2
  <2>4. \A m \in polled : NearItsClose(m)'
    <3> SUFFICES ASSUME NEW m \in polled PROVE NearItsClose(m)'
      OBVIOUS
    <3>1. m \in Nat /\ (m < clock.cycle \/ (m = clock.cycle /\ clock.late))
      BY DEF SeparatedInv, NearItsClose
    <3>2. CASE clock.late
      <4>1. m < clock'.cycle
        BY <2>2, <2>3, <3>1, <3>2
      <4>. QED BY <3>1, <4>1 DEF NearItsClose
    <3>3. CASE ~clock.late
      <4>1. m < clock'.cycle
        BY <2>3, <3>1, <3>3
      <4>. QED BY <3>1, <4>1 DEF NearItsClose
    <3>. QED BY <3>2, <3>3
  <2>5. FeedShape'
    BY <1>1, <2>1, <2>2, <2>3 DEF FeedShape
  <2>. QED BY <2>1, <2>4, <2>5 DEF SeparatedInv, Asked
<1>4. CASE MetaPoll
  <2>1. /\ feed' = [feed EXCEPT !.tokens = {clock.cycle}]
        /\ UNCHANGED <<clock, recon, counted, polled>>
    BY <1>4 DEF MetaPoll, reconVars
  <2>2. FeedShape'
    BY <1>1, <2>1 DEF FeedShape, FeedFields, ClockTypes
  <2>. QED BY <2>1, <2>2 DEF SeparatedInv, Asked, NearItsClose
<1>5. CASE Resubscribe \/ \E c \in Channels : Receive(c)
  <2>0. UNCHANGED <<clock, recon, counted, polled>>
    BY <1>5 DEF Resubscribe, Receive, reconVars
  <2>1. FeedShape'
    <3>1. CASE Resubscribe
      <4>1. feed' = [feed EXCEPT !.sub = feed.tokens]
        BY <3>1 DEF Resubscribe
      <4>. QED BY <1>1, <2>0, <4>1 DEF FeedShape, FeedFields
    <3>2. ASSUME NEW c \in Channels, Receive(c)
          PROVE  FeedShape'
      <4>1. PICK q : feed' = [feed EXCEPT !.bba = {q}] \/ feed' = feed
        BY <3>2 DEF Receive
      <4>2. CASE feed' = [feed EXCEPT !.bba = {q}]
        BY <1>1, <2>0, <4>2 DEF FeedShape, FeedFields
      <4>3. CASE feed' = feed
        BY <1>1, <2>0, <4>3 DEF FeedShape
      <4>. QED BY <4>1, <4>2, <4>3
    <3>. QED BY <1>5, <3>1, <3>2
  <2>. QED BY <2>0, <2>1 DEF SeparatedInv, Asked, NearItsClose
<1>6. CASE Poll
  <2>1. UNCHANGED <<clock, feed>>
    BY <1>6 DEF Poll
  <2>2. CASE NearClose
    <3>1. recon' = NewRecon /\ counted' = {} /\ polled' = polled \cup feed.tokens
      BY <1>6, <2>2 DEF Poll, SkipNearClose, NewRecon
    <3>2. FeedShape' /\ Asked' = {}
      BY <1>1, <2>1, <3>1 DEF FeedShape, NewRecon, ReconFields, Asked, None
    <3>3. \A m \in feed.tokens : NearItsClose(m)
      <4> SUFFICES ASSUME NEW m \in feed.tokens PROVE NearItsClose(m)
        OBVIOUS
      <4>1. m \in Nat /\ m <= clock.cycle /\ clock.cycle \in Nat
        BY <1>1 DEF FeedShape, ClockTypes, None
      <4>2. m < clock.cycle \/ clock.late
        BY <2>2 DEF NearClose
      <4>. QED BY <4>1, <4>2 DEF NearItsClose
    <3>. QED BY <2>1, <3>1, <3>2, <3>3 DEF SeparatedInv, NearItsClose
  <2>3. CASE ~NearClose
    <3>1. PICK m, a :
             /\ m \in feed.tokens
             /\ a = [market |-> m, cached |-> a.cached]
             /\ recon' = [recon EXCEPT !.asked = {a}]
             /\ UNCHANGED <<counted, polled>>
      BY <1>6, <2>3 DEF Poll
    <3>2. FeedShape' /\ recon'.asked = {a}
      BY <1>1, <2>1, <3>1 DEF FeedShape, ReconFields
    <3>3. Asked' = {m}
      BY <3>1, <3>2 DEF Asked
    <3>4. m = clock.cycle /\ clock.cycle \in Nat /\ ~clock.late
      <4>1. m \in Nat /\ m <= clock.cycle /\ clock.cycle \in Nat /\ feed.tokens = {m}
        BY <1>1, <3>1 DEF FeedShape, ClockTypes, None
      <4>2. ~(m < clock.cycle) /\ ~clock.late
        BY <2>3, <4>1 DEF NearClose
      <4>. QED BY <4>1, <4>2
    <3>5. m \notin polled
      BY <3>4 DEF SeparatedInv, NearItsClose
    <3>. QED BY <2>1, <3>1, <3>2, <3>3, <3>5 DEF SeparatedInv, NearItsClose
  <2>. QED BY <2>2, <2>3
<1>7. CASE PollAnswered
  <2>1. PICK a, c :
           /\ a \in recon.asked
           /\ recon' = [mismatches |-> c.mismatches, asked |-> None]
           /\ feed' = [feed EXCEPT !.stopping = c.confirmed]
           /\ counted' \subseteq counted \cup {a.market}
           /\ UNCHANGED <<clock, polled>>
    BY <1>7 DEF PollAnswered
  <2>2. FeedShape' /\ Asked' = {}
    BY <1>1, <2>1 DEF FeedShape, FeedFields, ReconFields, Asked, None
  <2>3. a.market \in Asked
    BY <2>1 DEF Asked
  <2>. QED BY <2>1, <2>2, <2>3 DEF SeparatedInv, NearItsClose
<1>8. CASE PollFails
  <2>1. recon' = [recon EXCEPT !.asked = None] /\ UNCHANGED <<clock, feed, counted, polled>>
    BY <1>8 DEF PollFails
  <2>2. FeedShape' /\ Asked' = {}
    BY <1>1, <2>1 DEF FeedShape, ReconFields, Asked, None
  <2>. QED BY <2>1, <2>2 DEF SeparatedInv, NearItsClose
<1>9. CASE Restart
  <2>1. feed' = NewFeed /\ recon' = NewRecon /\ counted' = {} /\ UNCHANGED <<clock, polled>>
    BY <1>9 DEF Restart
  <2>2. FeedShape' /\ Asked' = {}
    BY <1>1, <2>1 DEF FeedShape, NewFeed, NewRecon, FeedFields, ReconFields, Asked, None
  <2>. QED BY <2>1, <2>2 DEF SeparatedInv, NearItsClose
<1>10. CASE \/ PriceMoves \/ OpenCycle \/ Judge
            \/ (\E c \in Channels : ReceiveDirect(c)) \/ \E m \in Cycles : Forward(m)
  <2>1. UNCHANGED <<clock, feed, recon, counted, polled>>
    BY <1>10 DEF PriceMoves, OpenCycle, Judge, ReceiveDirect, Forward, reconVars
  <2>. QED BY <1>2, <2>1
<1>. QED BY <1>2, <1>3, <1>4, <1>5, <1>6, <1>7, <1>8, <1>9, <1>10
         DEF FeedNext, feedVars, reconVars

(* collect.rs:1405: mismatches of a market are added to those of a later   *)
(* one only when no poll was made near the first one's close, however slow *)
(* the REST calls are and whenever the tokens change.                      *)
THEOREM PollsSeparateMarkets == FeedSpec => []PolledCloseSeparates
<1>1. FeedInit => SeparatedInv
  <2> SUFFICES ASSUME FeedInit PROVE SeparatedInv
    OBVIOUS
  <2>1. /\ clock = [cycle |-> 0, late |-> FALSE]
        /\ feed = NewFeed /\ recon = NewRecon /\ polled = {}
    BY DEF FeedInit
  <2>2. FeedShape
    BY <2>1 DEF FeedShape, ClockTypes, NewFeed, NewRecon, FeedFields, ReconFields
  <2>. QED BY <2>1, <2>2 DEF SeparatedInv
<1>2. SeparatedInv /\ [FeedNext]_feedVars => SeparatedInv'
  BY SeparatedStep
<1>3. SeparatedInv => PolledCloseSeparates
  BY DEF SeparatedInv, PolledCloseSeparates
<1>. QED BY <1>1, <1>2, <1>3, PTL DEF FeedSpec

-----------------------------------------------------------------------------
(* QuoteFeed: the order of the quotes.                                     *)

Quotes == [market : Nat, price : Prices, stamp : Nat \ {0}]
ListedQuotes(s) == {s[i] : i \in 1 .. Len(s)}

(* The order that is promised, and a list that keeps it.                   *)
Before(a, b) == a.stamp <= b.stamp \/ (source = "direct" /\ a.market # b.market)
InOrder(s) == \A i, j \in 1 .. Len(s) : i < j => Before(s[i], s[j])

(* What has got past the guard against reordering (it has been judged, is  *)
(* about to be, or waits in the channel of its subscription), and what has *)
(* yet to.                                                                 *)
Passed(q) == \/ q \in trader.last \/ q \in ListedQuotes(nats)
             \/ \E m \in Cycles : q \in ListedQuotes(raw[m])
Coming(q) == \E c \in Channels : q \in ListedQuotes(wire[c])

TraderFields == {"market", "sub", "newest", "last"}
FeedTypes ==
    /\ source \in {"nats", "direct"} /\ stamp \in Nat
    /\ clock \in ClockTypes /\ clock.cycle \in Cycles
    /\ wire \in [Channels -> Seq(Quotes)] /\ raw \in [Cycles -> Seq(Quotes)]
    /\ nats \in Seq(Quotes)
    /\ trader = [field \in TraderFields |-> trader[field]]
    /\ trader.last = None \/ \E b \in Quotes : trader.last = {b}
    /\ trader.last \subseteq Quotes /\ trader.newest \in Nat
    /\ trader.market = None \/ \E m \in Nat : trader.market = {m} /\ m <= clock.cycle
    /\ feed = [field \in FeedFields |-> feed[field]]
    /\ feed.tokens \subseteq Nat /\ feed.sub \subseteq Nat
    /\ feed.bba = None \/ \E b \in Quotes : feed.bba = {b}

(* One after the other they are judged.                                    *)
Queued ==
    /\ InOrder(nats)
    /\ \A q \in trader.last, n \in ListedQuotes(nats) : Before(q, n)
    /\ \A m \in Cycles :
          /\ InOrder(raw[m])
          /\ \A n \in ListedQuotes(raw[m]) : n.market = m
          /\ \A q \in trader.last \cup ListedQuotes(nats), n \in ListedQuotes(raw[m]) : Before(q, n)

(* The newest quote of all that has passed is the one the guard compares   *)
(* with; a guard that has been reset hears only of quotes that are newer   *)
(* than all that has passed (nats), or of another market (direct).         *)
OverNats ==
    source = "nats" =>
        /\ \A m \in Cycles : raw[m] = <<>>
        /\ \A q : Passed(q) => \A b \in feed.bba : q.stamp <= b.stamp
        /\ feed.bba = None => \A q, n : Passed(q) /\ Coming(n) => q.stamp <= n.stamp
OverOwn ==
    source = "direct" =>
        /\ trader.sub = trader.market
        /\ \A n : Coming(n) => trader.sub = {n.market}
        /\ \A q : Passed(q) =>
              \E m \in trader.market : /\ q.market <= m
                                       /\ q.market = m => q.stamp <= trader.newest

OrderInv ==
    /\ FeedTypes /\ Queued /\ OverNats /\ OverOwn
    /\ \A q : Passed(q) \/ Coming(q) => q.stamp <= stamp

(* A list that is lengthened at its end.                                   *)
LEMMA ListAppend ==
    ASSUME NEW S, NEW s \in Seq(S), NEW e \in S
    PROVE  /\ Append(s, e) \in Seq(S) /\ ListedQuotes(Append(s, e)) = ListedQuotes(s) \cup {e}
           /\ InOrder(s) /\ (\A x \in ListedQuotes(s) : Before(x, e)) => InOrder(Append(s, e))
<1> DEFINE t == Append(s, e)
           n == Len(s)
<1>1. /\ n \in Nat /\ t \in Seq(S) /\ Len(t) = n + 1 /\ t[n + 1] = e
      /\ \A i \in 1 .. n : t[i] = s[i]
  BY LenProperties, AppendProperties
<1>. HIDE DEF t
<1>2. \A i \in 1 .. Len(t) : (i \in 1 .. n /\ t[i] = s[i]) \/ (i = n + 1 /\ t[i] = e)
  BY <1>1
<1>3. 1 .. n \subseteq 1 .. Len(t) /\ n + 1 \in 1 .. Len(t)
  BY <1>1
<1>4. ListedQuotes(t) = ListedQuotes(s) \cup {e}
  <2>1. \A x \in ListedQuotes(t) : x \in ListedQuotes(s) \cup {e}
    BY <1>2 DEF ListedQuotes, n
  <2>2. \A x \in ListedQuotes(s) : x \in ListedQuotes(t)
    BY <1>1, <1>3 DEF ListedQuotes, n
  <2>3. e \in ListedQuotes(t)
    BY <1>1, <1>3 DEF ListedQuotes
  <2>. QED BY <2>1, <2>2, <2>3
<1>5. ASSUME InOrder(s), \A x \in ListedQuotes(s) : Before(x, e)
      PROVE  InOrder(t)
  <2> SUFFICES ASSUME NEW i \in 1 .. Len(t), NEW j \in 1 .. Len(t), i < j
               PROVE  Before(t[i], t[j])
    BY DEF InOrder
  <2>1. i \in 1 .. n /\ t[i] = s[i] /\ s[i] \in ListedQuotes(s)
    BY <1>1, <1>2 DEF ListedQuotes, n
  <2>. QED BY <1>2, <1>5, <2>1 DEF InOrder, n
<1>. QED BY <1>1, <1>4, <1>5 DEF t

(* A list whose head is taken.                                             *)
LEMMA ListTail ==
    ASSUME NEW S, NEW s \in Seq(S), s # <<>>
    PROVE  /\ Head(s) \in S /\ Head(s) \in ListedQuotes(s) /\ Tail(s) \in Seq(S)
           /\ ListedQuotes(s) = {Head(s)} \cup ListedQuotes(Tail(s))
           /\ InOrder(s) => /\ InOrder(Tail(s))
                            /\ \A x \in ListedQuotes(Tail(s)) : Before(Head(s), x)
<1> DEFINE t == Tail(s)
           n == Len(t)
<1>1. /\ Len(s) \in Nat \ {0} /\ Head(s) = s[1] /\ Head(s) \in S
      /\ t \in Seq(S) /\ n = Len(s) - 1 /\ \A i \in 1 .. n : t[i] = s[i + 1]
  BY EmptySeq, LenProperties, HeadTailProperties
<1>. HIDE DEF t, n
<1>2. n \in Nat /\ Len(s) = n + 1 /\ 1 \in 1 .. Len(s)
  BY <1>1
<1>3. \A i \in 1 .. n : i + 1 \in 1 .. Len(s) /\ t[i] = s[i + 1] /\ 1 < i + 1
  BY <1>1, <1>2
<1>4. \A i \in 1 .. Len(s) : i = 1 \/ (i - 1 \in 1 .. n /\ t[i - 1] = s[i])
  BY <1>1, <1>2
<1>5. ListedQuotes(s) = {Head(s)} \cup ListedQuotes(t)
  <2>1. \A x \in ListedQuotes(s) : x \in {Head(s)} \cup ListedQuotes(t)
    BY <1>1, <1>4 DEF ListedQuotes, n
  <2>2. \A x \in ListedQuotes(t) : x \in ListedQuotes(s)
    BY <1>3 DEF ListedQuotes, n
  <2>3. Head(s) \in ListedQuotes(s)
    BY <1>1, <1>2 DEF ListedQuotes
  <2>. QED BY <2>1, <2>2, <2>3
<1>6. ASSUME InOrder(s)
      PROVE  InOrder(t) /\ \A x \in ListedQuotes(t) : Before(Head(s), x)
  <2>1. \A i \in 1 .. n : Before(s[1], t[i])
    BY <1>2, <1>3, <1>6 DEF InOrder
  <2>2. ASSUME NEW i \in 1 .. n, NEW j \in 1 .. n, i < j
        PROVE  Before(t[i], t[j])
    <3>1. i + 1 < j + 1
      BY <2>2
    <3>. QED BY <1>3, <1>6, <3>1 DEF InOrder
  <2>. QED BY <1>1, <2>1, <2>2 DEF InOrder, ListedQuotes, n
<1>. QED BY <1>1, <1>5, <1>6 DEF t

LEMMA ListTypes ==
    ASSUME NEW S, NEW s \in Seq(S)
    PROVE  ListedQuotes(s) \subseteq S /\ ListedQuotes(<<>>) = {} /\ InOrder(<<>>) /\ <<>> \in Seq(S)
<1>1. Len(s) \in Nat /\ (\A i \in 1 .. Len(s) : s[i] \in S) /\ Len(<<>>) = 0 /\ <<>> \in Seq(S)
  BY LenProperties, ElementOfSeq, EmptySeq
<1>. QED BY <1>1 DEF ListedQuotes, InOrder

LEMMA QuoteTypes ==
    ASSUME FeedTypes
    PROVE  \A q : Passed(q) \/ Coming(q) => /\ q \in Quotes /\ q.market \in Nat
                                            /\ q.stamp \in Nat /\ q.stamp > 0
<1>1. ASSUME NEW q, Passed(q) \/ Coming(q) PROVE q \in Quotes
  <2>1. ListedQuotes(nats) \subseteq Quotes
    BY ListTypes DEF FeedTypes
  <2>2. \A m \in Cycles : ListedQuotes(raw[m]) \subseteq Quotes
    BY ListTypes DEF FeedTypes
  <2>3. \A c \in Channels : ListedQuotes(wire[c]) \subseteq Quotes
    BY ListTypes DEF FeedTypes
  <2>. QED BY <1>1, <2>1, <2>2, <2>3 DEF Passed, Coming, FeedTypes
<1>2. \A q \in Quotes : q.market \in Nat /\ q.stamp \in Nat /\ q.stamp > 0
  BY DEF Quotes
<1>. QED BY <1>1, <1>2

LEMMA QueuedNext ==
    ASSUME source' = source, InOrder(nats'),
           \A q \in trader'.last, n \in ListedQuotes(nats') : Before(q, n),
           \A m \in Cycles :
              /\ InOrder(raw'[m]) /\ \A n \in ListedQuotes(raw'[m]) : n.market = m
              /\ \A q \in trader'.last \cup ListedQuotes(nats'), n \in ListedQuotes(raw'[m]) : Before(q, n)
    PROVE  Queued'
<1>1. InOrder(nats)'
  BY DEF InOrder, Before
<1>2. (\A q \in trader.last, n \in ListedQuotes(nats) : Before(q, n))'
  BY DEF Before
<1>3. (\A m \in Cycles : InOrder(raw[m]))'
  BY DEF InOrder, Before
<1>4. (\A m \in Cycles : \A n \in ListedQuotes(raw[m]) : n.market = m)'
  OBVIOUS
<1>5. (\A m \in Cycles :
          \A q \in trader.last \cup ListedQuotes(nats), n \in ListedQuotes(raw[m]) : Before(q, n))'
  BY DEF Before
<1>. QED BY <1>1, <1>2, <1>3, <1>4, <1>5 DEF Queued

(* Nothing passes; what is coming is what was coming, or less.             *)
LEMMA NothingPasses ==
    ASSUME OrderInv, FeedTypes', UNCHANGED <<source, stamp, nats, raw, trader>>,
           feed'.bba = feed.bba \/ wire' = NoWire,
           feed'.bba = feed.bba \/ feed'.bba = None,
           wire' = wire \/ wire' = NoWire
           \/ \E c \in Channels : wire[c] # <<>> /\ wire' = [wire EXCEPT ![c] = Tail(wire[c])]
    PROVE  OrderInv'
<1>1. \A q : Passed(q)' <=> Passed(q)
  BY DEF Passed
<1>2. \A q : Coming(q)' => Coming(q)
  <2>1. CASE wire' = wire
    BY <2>1 DEF Coming
  <2>2. CASE wire' = NoWire
    <3>1. Len(<<>>) = 0
      BY EmptySeq
    <3>. QED BY <2>2, <3>1 DEF Coming, NoWire, ListedQuotes
  <2>3. ASSUME NEW c \in Channels, wire[c] # <<>>, wire' = [wire EXCEPT ![c] = Tail(wire[c])]
        PROVE  \A q : Coming(q)' => Coming(q)
    <3>1. wire \in [Channels -> Seq(Quotes)]
      BY DEF OrderInv, FeedTypes
    <3>2. ListedQuotes(Tail(wire[c])) \subseteq ListedQuotes(wire[c])
      BY <2>3, <3>1, ListTail
    <3>3. \A d \in Channels : wire'[d] = IF d = c THEN Tail(wire[c]) ELSE wire[d]
      BY <2>3, <3>1
    <3>. QED BY <3>2, <3>3 DEF Coming
  <2>. QED BY <2>1, <2>2, <2>3
<1>3. feed'.bba # feed.bba => \A q : ~Coming(q)'
  <2>1. Len(<<>>) = 0
    BY EmptySeq
  <2>2. wire' = NoWire => \A q : ~Coming(q)'
    BY <2>1 DEF Coming, NoWire, ListedQuotes
  <2>. QED BY <2>2
<1>4. Queued'
  BY DEF OrderInv, Queued, InOrder, Before
<1>5. OverNats'
  <2> SUFFICES ASSUME source = "nats" PROVE OverNats'
    BY DEF OverNats
  <2>1. OverNats
    BY DEF OrderInv
  <2>2. \A q : Passed(q)' => \A b \in feed'.bba : q.stamp <= b.stamp
    BY <1>1, <2>1 DEF OverNats, None
  <2>3. feed'.bba = None => \A q, n : Passed(q)' /\ Coming(n)' => q.stamp <= n.stamp
    BY <1>1, <1>2, <1>3, <2>1 DEF OverNats
  <2>. QED BY <2>1, <2>2, <2>3 DEF OverNats
<1>6. OverOwn'
  BY <1>1, <1>2 DEF OrderInv, OverOwn
<1>7. \A q : (Passed(q) \/ Coming(q))' => q.stamp <= stamp'
  BY <1>1, <1>2 DEF OrderInv
<1>. QED BY <1>4, <1>5, <1>6, <1>7 DEF OrderInv

(* A quote of the subscribed market goes on its way, or none.              *)
LEMMA PriceKeeps ==
    ASSUME OrderInv, PriceMoves
    PROVE  OrderInv'
<1>0. FeedTypes
  BY DEF OrderInv
<1>1. PICK m \in Subscribed \cup {clock.cycle}, p \in Prices, told \in SUBSET Channels :
         /\ m <= clock.cycle
         /\ IF m \in Subscribed
            THEN wire' = [c \in Channels |-> IF c \in told THEN Append(wire[c], Quote(m, p, stamp + 1))
                                             ELSE wire[c]]
            ELSE wire' = wire
  BY DEF PriceMoves
<1>2. stamp' = stamp + 1 /\ UNCHANGED <<source, clock, nats, raw, feed, trader>>
  BY DEF PriceMoves
<1> DEFINE q0 == Quote(m, p, stamp + 1)
<1>3. q0 \in Quotes /\ q0.market = m /\ q0.stamp = stamp + 1
  <2>1. m \in Nat
    BY <1>0 DEF Subscribed, FeedTypes, ClockTypes, OrderInv, OverOwn, None
  <2>. QED BY <1>0, <2>1 DEF FeedTypes, Quote, Quotes
<1>4. UNCHANGED wire
      \/ /\ m \in Subscribed /\ wire' \in [Channels -> Seq(Quotes)]
         /\ \A c \in Channels : ListedQuotes(wire'[c]) \subseteq ListedQuotes(wire[c]) \cup {q0}
  <2> SUFFICES ASSUME m \in Subscribed
               PROVE  /\ wire' \in [Channels -> Seq(Quotes)]
                      /\ \A c \in Channels : ListedQuotes(wire'[c]) \subseteq ListedQuotes(wire[c]) \cup {q0}
    BY <1>1
  <2>1. \A c \in Channels : wire[c] \in Seq(Quotes)
    BY <1>0 DEF FeedTypes
  <2>2. wire' = [c \in Channels |-> IF c \in told THEN Append(wire[c], q0) ELSE wire[c]]
    BY <1>1
  <2>. HIDE DEF q0
  <2>3. ASSUME NEW c \in Channels
        PROVE  wire'[c] \in Seq(Quotes) /\ ListedQuotes(wire'[c]) \subseteq ListedQuotes(wire[c]) \cup {q0}
    BY <1>3, <2>1, <2>2, ListAppend
  <2>. QED BY <2>2, <2>3
<1>. HIDE DEF q0
<1>5. \A q : Passed(q)' <=> Passed(q)
  BY <1>2 DEF Passed
<1>6. \A q : Coming(q)' => Coming(q) \/ (q = q0 /\ m \in Subscribed)
  BY <1>4 DEF Coming
<1>7. FeedTypes'
  <2>1. wire' \in [Channels -> Seq(Quotes)] /\ stamp' \in Nat
    BY <1>0, <1>2, <1>4 DEF FeedTypes
  <2>. QED BY <1>0, <1>2, <2>1 DEF FeedTypes
<1>8. Queued'
  BY <1>2 DEF OrderInv, Queued, InOrder, Before
<1>9. \A q : Passed(q) \/ Coming(q) => q.stamp <= stamp /\ q.stamp <= stamp + 1
  <2>1. \A q : Passed(q) \/ Coming(q) => q.stamp \in Nat /\ q.stamp <= stamp
    BY <1>0, QuoteTypes DEF OrderInv
  <2>. QED BY <1>0, <2>1 DEF FeedTypes
<1>10. OverNats'
  BY <1>2, <1>3, <1>5, <1>6, <1>9 DEF OrderInv, OverNats
<1>11. OverOwn'
  <2> SUFFICES ASSUME source = "direct" PROVE OverOwn'
    BY <1>2 DEF OverOwn
  <2>1. m \in Subscribed => trader.sub = {m}
    <3>1. Subscribed = trader.market /\ trader.sub = trader.market
      BY DEF Subscribed, OrderInv, OverOwn
    <3>2. trader.market = {} \/ \E k : trader.market = {k}
      BY <1>0 DEF FeedTypes, None
    <3>. QED BY <3>1, <3>2
  <2>. QED BY <1>2, <1>3, <1>5, <1>6, <2>1 DEF OrderInv, OverOwn
<1>12. \A q : (Passed(q) \/ Coming(q))' => q.stamp <= stamp'
  <2>1. stamp + 1 <= stamp + 1
    BY <1>0 DEF FeedTypes
  <2>. QED BY <1>2, <1>3, <1>5, <1>6, <1>9, <2>1
<1>. QED BY <1>7, <1>8, <1>10, <1>11, <1>12 DEF OrderInv

(* A quote that is accepted is the newest of all that has passed.          *)
LEMMA ReceiveKeeps ==
    ASSUME OrderInv, NEW c \in Channels, Receive(c)
    PROVE  OrderInv'
<1>0. FeedTypes /\ Queued /\ OverNats /\ source = "nats"
  BY DEF OrderInv, Receive
<1> DEFINE q == Head(wire[c])
           existing == IF feed.bba = None THEN 0 ELSE (CHOOSE b \in feed.bba : TRUE).stamp
<1>1.    /\ q = Head(wire[c]) /\ wire[c] # <<>>
         /\ existing = IF feed.bba = None THEN 0 ELSE (CHOOSE b \in feed.bba : TRUE).stamp
         /\ wire' = [wire EXCEPT ![c] = Tail(wire[c])]
         /\ UNCHANGED <<source, clock, stamp, raw, trader>>
         /\ IF Accepts(existing, q.stamp)
            THEN feed' = [feed EXCEPT !.bba = {q}] /\ nats' = Append(nats, q)
            ELSE UNCHANGED <<feed, nats>>
  BY DEF Receive, exchangeVars
<1>. HIDE DEF q, existing
<1>2. /\ q \in Quotes /\ Coming(q) /\ Tail(wire[c]) \in Seq(Quotes)
      /\ ListedQuotes(Tail(wire[c])) \subseteq ListedQuotes(wire[c])
  <2>1. wire[c] \in Seq(Quotes)
    BY <1>0 DEF FeedTypes
  <2>. QED BY <1>1, <2>1, ListTail DEF Coming
<1>3. wire' \in [Channels -> Seq(Quotes)] /\ \A d \in Channels : ListedQuotes(wire'[d]) \subseteq ListedQuotes(wire[d])
  BY <1>0, <1>1, <1>2 DEF FeedTypes
<1>4. CASE ~Accepts(existing, q.stamp)
  <2>1. UNCHANGED <<feed, nats>>
    BY <1>1, <1>4
  <2>2. FeedTypes'
    BY <1>0, <1>1, <1>3, <2>1 DEF FeedTypes
  <2>. QED BY <1>1, <2>1, <2>2, NothingPasses
<1>5. CASE Accepts(existing, q.stamp)
  <2>1. feed' = [feed EXCEPT !.bba = {q}] /\ nats' = Append(nats, q)
    BY <1>1, <1>5
  <2>2. \A x : Passed(x) => x.stamp <= q.stamp
    <3>1. CASE feed.bba = None
      BY <1>0, <1>2, <3>1 DEF OverNats
    <3>2. ASSUME NEW b \in Quotes, feed.bba = {b}
          PROVE  \A x : Passed(x) => x.stamp <= q.stamp
      <4>1. existing = b.stamp
        BY <1>1, <3>2 DEF None
      <4>2. b.stamp \in Nat /\ q.stamp \in Nat /\ b.stamp > 0 /\ q.stamp > 0
        BY <1>2 DEF Quotes
      <4>3. b.stamp <= q.stamp
        BY <1>5, <4>1, <4>2 DEF Accepts
      <4>4. \A x : Passed(x) => x.stamp <= b.stamp /\ x.stamp \in Nat
        BY <1>0, <3>2, QuoteTypes DEF OverNats
      <4>. QED BY <4>2, <4>3, <4>4
    <3>. QED BY <1>0, <3>1, <3>2 DEF FeedTypes
  <2>3. /\ nats' \in Seq(Quotes) /\ ListedQuotes(nats') = ListedQuotes(nats) \cup {q}
        /\ InOrder(nats) /\ (\A x \in ListedQuotes(nats) : Before(x, q)) => InOrder(nats')
    BY <1>0, <1>2, <2>1, ListAppend DEF FeedTypes
  <2>4. \A x : Passed(x)' <=> Passed(x) \/ x = q
    BY <1>1, <2>3 DEF Passed
  <2>5. \A x : Coming(x)' => Coming(x)
    BY <1>3 DEF Coming
  <2>6. feed' = [field \in FeedFields |-> feed'[field]] /\ feed'.bba = {q}
        /\ feed'.tokens = feed.tokens /\ feed'.sub = feed.sub
    BY <1>0, <2>1 DEF FeedTypes, FeedFields
  <2>7. FeedTypes'
    BY <1>0, <1>1, <1>2, <1>3, <2>3, <2>6 DEF FeedTypes
  <2>8. Queued'
    <3>1. \A x : Passed(x) => Before(x, q)
      BY <2>2 DEF Before
    <3>2. InOrder(nats')
      BY <1>0, <2>3, <3>1 DEF Queued, Passed
    <3>3. \A x \in trader.last, n \in ListedQuotes(nats') : Before(x, n)
      BY <1>0, <2>3, <3>1 DEF Queued, Passed
    <3>4. ListedQuotes(<<>>) = {} /\ InOrder(<<>>)
      BY <1>0, ListTypes DEF FeedTypes
    <3>5. \A m \in Cycles : raw[m] = <<>>
      BY <1>0 DEF OverNats
    <3>. QED BY <1>1, <3>2, <3>3, <3>4, <3>5, QueuedNext
  <2>9. OverNats'
    <3>1. q.stamp <= q.stamp
      BY <1>2 DEF Quotes
    <3>. QED BY <1>0, <1>1, <2>2, <2>4, <2>6, <3>1 DEF OverNats, None
  <2>10. OverOwn'
    BY <1>0, <1>1 DEF OverOwn
  <2>11. \A x : (Passed(x) \/ Coming(x))' => x.stamp <= stamp'
    BY <1>1, <1>2, <2>4, <2>5 DEF OrderInv
  <2>. QED BY <2>7, <2>8, <2>9, <2>10, <2>11 DEF OrderInv
<1>. QED BY <1>4, <1>5

LEMMA ReceiveDirectKeeps ==
    ASSUME OrderInv, NEW c \in Channels, ReceiveDirect(c)
    PROVE  OrderInv'
<1>0. FeedTypes /\ Queued /\ OverOwn /\ source = "direct"
  BY DEF OrderInv, ReceiveDirect
<1>1. PICK q :
         /\ q = Head(wire[c]) /\ wire[c] # <<>>
         /\ wire' = [wire EXCEPT ![c] = Tail(wire[c])]
         /\ UNCHANGED <<source, clock, stamp, nats, feed>>
         /\ IF Accepts(trader.newest, q.stamp)
            THEN /\ trader' = [trader EXCEPT !.newest = q.stamp]
                 /\ raw' = [raw EXCEPT ![q.market] = Append(raw[q.market], q)]
            ELSE UNCHANGED <<trader, raw>>
  BY DEF ReceiveDirect, exchangeVars
<1>2. /\ q \in Quotes /\ Coming(q) /\ Tail(wire[c]) \in Seq(Quotes)
      /\ ListedQuotes(Tail(wire[c])) \subseteq ListedQuotes(wire[c])
  <2>1. wire[c] \in Seq(Quotes)
    BY <1>0 DEF FeedTypes
  <2>. QED BY <1>1, <2>1, ListTail DEF Coming
<1>3. wire' \in [Channels -> Seq(Quotes)] /\ \A d \in Channels : ListedQuotes(wire'[d]) \subseteq ListedQuotes(wire[d])
  BY <1>0, <1>1, <1>2 DEF FeedTypes
<1>4. CASE ~Accepts(trader.newest, q.stamp)
  <2>1. UNCHANGED <<trader, raw>>
    BY <1>1, <1>4
  <2>2. FeedTypes'
    BY <1>0, <1>1, <1>3, <2>1 DEF FeedTypes
  <2>. QED BY <1>1, <2>1, <2>2, NothingPasses
<1>5. CASE Accepts(trader.newest, q.stamp)
  <2>1. PICK m : m = q.market
    OBVIOUS
  <2>2. /\ trader' = [trader EXCEPT !.newest = q.stamp]
        /\ raw' = [raw EXCEPT ![m] = Append(raw[m], q)]
    BY <1>1, <1>5, <2>1
  <2>3. trader.market = {m} /\ m \in Cycles /\ m \in Nat
    <3>1. trader.market = {m}
      BY <1>0, <1>2, <2>1 DEF OverOwn
    <3>2. m \in Nat /\ m <= clock.cycle
      BY <1>0, <3>1 DEF FeedTypes, None
    <3>3. clock.cycle <= MaxCycle /\ clock.cycle \in Nat
      BY <1>0 DEF FeedTypes, Cycles, ClockTypes
    <3>. QED BY <3>1, <3>2, <3>3, FeedBoundAssumption DEF Cycles
  <2>4. q.stamp \in Nat /\ q.stamp > 0 /\ trader.newest \in Nat /\ trader.newest <= q.stamp
    <3>1. q.stamp \in Nat /\ q.stamp > 0 /\ trader.newest \in Nat
      BY <1>0, <1>2 DEF FeedTypes, Quotes
    <3>. QED BY <1>5, <3>1 DEF Accepts
  <2>5. \A x : Passed(x) => x.market <= m /\ (x.market = m => x.stamp <= q.stamp)
    <3>1. \A x : Passed(x) => x.market <= m /\ (x.market = m => x.stamp <= trader.newest)
      BY <1>0, <2>3 DEF OverOwn
    <3>2. \A x : Passed(x) => x.stamp \in Nat
      BY <1>0, QuoteTypes
    <3>. QED BY <2>4, <3>1, <3>2
  <2>6. \A x : Passed(x) => Before(x, q)
    BY <1>0, <2>1, <2>5 DEF Before
  <2>7. /\ Append(raw[m], q) \in Seq(Quotes) /\ ListedQuotes(Append(raw[m], q)) = ListedQuotes(raw[m]) \cup {q}
        /\ InOrder(raw[m]) /\ (\A x \in ListedQuotes(raw[m]) : Before(x, q)) => InOrder(Append(raw[m], q))
    <3>1. raw[m] \in Seq(Quotes)
      BY <1>0, <2>3 DEF FeedTypes
    <3>. QED BY <1>2, <3>1, ListAppend
  <2>8. /\ raw' \in [Cycles -> Seq(Quotes)]
        /\ \A k \in Cycles : raw'[k] = IF k = m THEN Append(raw[m], q) ELSE raw[k]
    BY <1>0, <2>2, <2>7 DEF FeedTypes
  <2>9. /\ trader' = [field \in TraderFields |-> trader'[field]] /\ trader'.newest = q.stamp
        /\ trader'.market = trader.market /\ trader'.sub = trader.sub /\ trader'.last = trader.last
    BY <1>0, <2>2 DEF FeedTypes, TraderFields
  <2>10. \A x : Passed(x)' <=> Passed(x) \/ x = q
    BY <1>1, <2>3, <2>7, <2>8, <2>9 DEF Passed
  <2>11. \A x : Coming(x)' => Coming(x)
    BY <1>3 DEF Coming
  <2>12. FeedTypes'
    BY <1>0, <1>1, <1>3, <2>4, <2>8, <2>9 DEF FeedTypes
  <2>13. Queued'
    <3>1. InOrder(raw'[m]) /\ \A k \in Cycles : InOrder(raw'[k])
      BY <1>0, <2>3, <2>6, <2>7, <2>8 DEF Queued, Passed
    <3>2. \A k \in Cycles : \A n \in ListedQuotes(raw'[k]) :
             \/ n \in ListedQuotes(raw[k]) \/ (n = q /\ k = m)
      BY <2>7, <2>8
    <3>3. \A k \in Cycles : \A n \in ListedQuotes(raw'[k]) : n.market = k
      BY <1>0, <2>1, <3>2 DEF Queued
    <3>4. \A k \in Cycles : \A x \in trader.last \cup ListedQuotes(nats), n \in ListedQuotes(raw'[k]) : Before(x, n)
      BY <1>0, <2>6, <3>2 DEF Queued, Passed
    <3>. QED BY <1>0, <1>1, <2>9, <3>1, <3>3, <3>4 DEF Queued, InOrder, Before
  <2>14. OverOwn'
    <3>1. q.stamp <= q.stamp /\ m <= m
      BY <2>3, <2>4
    <3>2. \A x : Passed(x)' => \E k \in trader'.market :
                                  x.market <= k /\ (x.market = k => x.stamp <= trader'.newest)
      BY <2>1, <2>3, <2>5, <2>9, <2>10, <3>1
    <3>. QED BY <1>0, <2>9, <2>11, <3>2 DEF OverOwn
  <2>15. OverNats'
    BY <1>0, <1>1 DEF OverNats
  <2>16. \A x : (Passed(x) \/ Coming(x))' => x.stamp <= stamp'
    BY <1>1, <1>2, <2>10, <2>11 DEF OrderInv
  <2>. QED BY <2>12, <2>13, <2>14, <2>15, <2>16 DEF OrderInv
<1>. QED BY <1>4, <1>5

(* The oldest quote of a subscription joins those of the others.           *)
LEMMA ForwardKeeps ==
    ASSUME OrderInv, NEW m \in Cycles, Forward(m)
    PROVE  OrderInv'
<1>0. FeedTypes /\ Queued
  BY DEF OrderInv
<1>1. /\ raw[m] # <<>> /\ nats' = Append(nats, Head(raw[m]))
      /\ raw' = [raw EXCEPT ![m] = Tail(raw[m])]
      /\ UNCHANGED <<source, clock, stamp, wire, feed, trader>>
  BY DEF Forward, exchangeVars
<1>2. source = "direct"
  BY <1>0, <1>1 DEF FeedTypes, OrderInv, OverNats
<1>3. PICK q : q = Head(raw[m])
  OBVIOUS
<1>4. /\ q \in Quotes /\ q \in ListedQuotes(raw[m]) /\ Tail(raw[m]) \in Seq(Quotes)
      /\ ListedQuotes(raw[m]) = {q} \cup ListedQuotes(Tail(raw[m]))
      /\ InOrder(Tail(raw[m])) /\ \A x \in ListedQuotes(Tail(raw[m])) : Before(q, x)
  <2>1. raw[m] \in Seq(Quotes) /\ InOrder(raw[m])
    BY <1>0 DEF FeedTypes, Queued
  <2>. QED BY <1>1, <1>3, <2>1, ListTail
<1>5. /\ raw' \in [Cycles -> Seq(Quotes)]
      /\ \A k \in Cycles : raw'[k] = IF k = m THEN Tail(raw[m]) ELSE raw[k]
  BY <1>0, <1>1, <1>4 DEF FeedTypes
<1>6. \A x \in trader.last \cup ListedQuotes(nats) : Before(x, q)
  BY <1>0, <1>4 DEF Queued
<1>7. nats' \in Seq(Quotes) /\ ListedQuotes(nats') = ListedQuotes(nats) \cup {q} /\ InOrder(nats')
  <2>1. nats \in Seq(Quotes) /\ InOrder(nats) /\ nats' = Append(nats, q)
    BY <1>0, <1>1, <1>3 DEF FeedTypes, Queued
  <2>2. \A x \in ListedQuotes(nats) : Before(x, q)
    BY <1>6
  <2>. QED BY <1>4, <2>1, <2>2, ListAppend
<1>8. \A x : Passed(x)' <=> Passed(x)
  BY <1>1, <1>4, <1>5, <1>7 DEF Passed
<1>9. \A x : Coming(x)' <=> Coming(x)
  BY <1>1 DEF Coming
<1>10. FeedTypes'
  BY <1>0, <1>1, <1>5, <1>7 DEF FeedTypes
<1>11. Queued'
  <2>1. \A k \in Cycles : InOrder(raw'[k]) /\ ListedQuotes(raw'[k]) \subseteq ListedQuotes(raw[k])
    BY <1>0, <1>4, <1>5 DEF Queued
  <2>2. \A k \in Cycles : \A n \in ListedQuotes(raw'[k]) : n.market = k /\ Before(q, n)
    <3>1. q.market = m
      BY <1>0, <1>4 DEF Queued
    <3>. QED BY <1>0, <1>2, <1>4, <1>5, <2>1, <3>1 DEF Queued, Before
  <2>3. \A k \in Cycles : \A x \in trader.last \cup ListedQuotes(nats'), n \in ListedQuotes(raw'[k]) : Before(x, n)
    BY <1>0, <1>7, <2>1, <2>2 DEF Queued
  <2>4. \A x \in trader.last, n \in ListedQuotes(nats') : Before(x, n)
    BY <1>0, <1>6, <1>7 DEF Queued
  <2>. QED BY <1>1, <1>7, <2>1, <2>2, <2>3, <2>4, QueuedNext
<1>12. OverNats' /\ OverOwn'
  BY <1>1, <1>2, <1>8, <1>9 DEF OrderInv, OverNats, OverOwn
<1>13. \A x : (Passed(x) \/ Coming(x))' => x.stamp <= stamp'
  BY <1>1, <1>8, <1>9 DEF OrderInv
<1>. QED BY <1>10, <1>11, <1>12, <1>13 DEF OrderInv

LEMMA JudgeKeeps ==
    ASSUME OrderInv, Judge
    PROVE  OrderInv' /\ \A before \in trader.last, after \in trader'.last : Before(before, after)
<1>0. FeedTypes /\ Queued
  BY DEF OrderInv
<1>1. /\ nats # <<>> /\ nats' = Tail(nats) /\ trader' = [trader EXCEPT !.last = {Head(nats)}]
      /\ UNCHANGED <<source, clock, stamp, wire, raw, feed>>
  BY DEF Judge, exchangeVars
<1>2. PICK q : q = Head(nats)
  OBVIOUS
<1>3. /\ q \in Quotes /\ q \in ListedQuotes(nats) /\ Tail(nats) \in Seq(Quotes)
      /\ ListedQuotes(nats) = {q} \cup ListedQuotes(Tail(nats))
      /\ InOrder(Tail(nats)) /\ \A x \in ListedQuotes(Tail(nats)) : Before(q, x)
  BY <1>0, <1>1, <1>2, ListTail DEF FeedTypes, Queued
<1>4. /\ trader' = [field \in TraderFields |-> trader'[field]] /\ trader'.newest = trader.newest
      /\ trader'.market = trader.market /\ trader'.sub = trader.sub /\ trader'.last = {q}
  BY <1>0, <1>1, <1>2 DEF FeedTypes, TraderFields
<1>5. \A x : Passed(x)' => Passed(x)
  BY <1>1, <1>3, <1>4 DEF Passed
<1>6. \A x : Coming(x)' <=> Coming(x)
  BY <1>1 DEF Coming
<1>7. FeedTypes'
  BY <1>0, <1>1, <1>3, <1>4 DEF FeedTypes
<1>8. Queued'
  <2>1. \A x \in trader'.last, n \in ListedQuotes(nats') : Before(x, n)
    BY <1>1, <1>3, <1>4
  <2>2. \A m \in Cycles : \A x \in trader'.last \cup ListedQuotes(nats'), n \in ListedQuotes(raw[m]) : Before(x, n)
    BY <1>0, <1>1, <1>3, <1>4 DEF Queued
  <2>3. InOrder(nats')
    BY <1>1, <1>3
  <2>. QED BY <1>0, <1>1, <2>1, <2>2, <2>3 DEF Queued, InOrder, Before
<1>9. OverNats' /\ OverOwn'
  BY <1>1, <1>4, <1>5, <1>6 DEF OrderInv, OverNats, OverOwn
<1>10. \A x : (Passed(x) \/ Coming(x))' => x.stamp <= stamp'
  BY <1>1, <1>5, <1>6 DEF OrderInv
<1>11. \A before \in trader.last, after \in trader'.last : Before(before, after)
  BY <1>0, <1>3, <1>4 DEF Queued
<1>. QED BY <1>7, <1>8, <1>9, <1>10, <1>11 DEF OrderInv

(* The market of a new cycle is one nothing has been heard of.             *)
LEMMA OpenKeeps ==
    ASSUME OrderInv, OpenCycle
    PROVE  OrderInv'
<1>0. FeedTypes /\ Queued
  BY DEF OrderInv
<1>1. /\ trader.market # {clock.cycle}
      /\ trader' = [trader EXCEPT !.market = {clock.cycle},
                       !.sub = IF source = "direct" THEN {clock.cycle} ELSE None, !.newest = 0]
      /\ wire' = IF source = "direct" THEN NoWire ELSE wire
      /\ UNCHANGED <<source, clock, stamp, nats, raw, feed>>
  BY DEF OpenCycle, exchangeVars
<1>2. /\ trader' = [field \in TraderFields |-> trader'[field]] /\ trader'.newest = 0
      /\ trader'.market = {clock.cycle} /\ trader'.last = trader.last
      /\ source = "direct" => trader'.sub = {clock.cycle}
  BY <1>0, <1>1 DEF FeedTypes, TraderFields
<1>3. Len(<<>>) = 0 /\ <<>> \in Seq(Quotes)
  BY EmptySeq
<1>4. wire' \in [Channels -> Seq(Quotes)]
  BY <1>0, <1>1, <1>3 DEF FeedTypes, NoWire
<1>5. \A x : Passed(x)' <=> Passed(x)
  BY <1>1, <1>2 DEF Passed
<1>6. \A x : Coming(x)' => Coming(x) /\ source # "direct"
  BY <1>1, <1>3 DEF Coming, NoWire, ListedQuotes
<1>7. clock.cycle \in Nat
  BY <1>0 DEF FeedTypes, ClockTypes
<1>8. FeedTypes'
  <2>1. clock.cycle <= clock.cycle
    BY <1>7
  <2>2. trader'.market = {clock'.cycle} /\ clock'.cycle \in Nat /\ clock'.cycle <= clock'.cycle
    BY <1>1, <1>2, <1>7, <2>1
  <2>3. trader'.last \subseteq Quotes /\ trader'.newest \in Nat
    <3>1. trader.last \subseteq Quotes
      BY <1>0 DEF FeedTypes
    <3>. QED BY <1>2, <3>1
  <2>. QED BY <1>0, <1>1, <1>2, <1>4, <2>2, <2>3 DEF FeedTypes
<1>9. Queued'
  BY <1>0, <1>1, <1>2 DEF Queued, InOrder, Before
<1>10. OverNats'
  BY <1>1, <1>5, <1>6 DEF OrderInv, OverNats
<1>11. OverOwn'
  <2> SUFFICES ASSUME source = "direct" PROVE OverOwn'
    BY <1>1 DEF OverOwn
  <2>1. ASSUME NEW x, Passed(x)
        PROVE  x.market <= clock.cycle /\ x.market # clock.cycle
    <3>1. PICK m \in trader.market : x.market <= m
      BY <2>1 DEF OrderInv, OverOwn
    <3>2. m \in Nat /\ m <= clock.cycle /\ m # clock.cycle
      BY <1>0, <1>1, <3>1 DEF FeedTypes, None
    <3>3. x.market \in Nat
      BY <1>0, <2>1, QuoteTypes
    <3>. QED BY <1>7, <3>1, <3>2, <3>3
  <2>. QED BY <1>1, <1>2, <1>5, <1>6, <2>1 DEF OverOwn
<1>12. \A x : (Passed(x) \/ Coming(x))' => x.stamp <= stamp'
  BY <1>1, <1>5, <1>6 DEF OrderInv
<1>. QED BY <1>8, <1>9, <1>10, <1>11, <1>12 DEF OrderInv

(* The rest of the feed, its reconciler and the clock.                     *)
LEMMA FeedKeeps ==
    ASSUME OrderInv,
           CycleEnds \/ MetaPoll \/ Resubscribe \/ Poll \/ PollAnswered \/ PollFails \/ Restart
    PROVE  OrderInv'
<1>0. FeedTypes
  BY DEF OrderInv
<1>1. UNCHANGED <<source, stamp, nats, raw, trader>> /\ (wire' = wire \/ wire' = NoWire)
  BY DEF CycleEnds, MetaPoll, Resubscribe, Poll, PollAnswered, PollFails, Restart,
         exchangeVars, pathVars
<1>2. wire' \in [Channels -> Seq(Quotes)]
  <2>1. <<>> \in Seq(Quotes)
    BY EmptySeq
  <2>. QED BY <1>0, <1>1, <2>1 DEF FeedTypes, NoWire
<1>3. clock' \in ClockTypes /\ clock'.cycle \in Cycles /\ clock'.cycle >= clock.cycle
  <2>1. clock \in ClockTypes /\ clock.cycle \in Nat /\ clock.cycle \in Cycles
    BY <1>0 DEF FeedTypes, ClockTypes
  <2>2. clock.late \in BOOLEAN
    BY <2>1 DEF ClockTypes
  <2>3. CASE clock' = clock
    BY <2>1, <2>3
  <2>4. CASE CycleEnds
    <3>1. CASE clock.late
      <4>1. /\ clock' = [cycle |-> clock.cycle + 1, late |-> FALSE]
            /\ clock.cycle < MaxCycle
        BY <2>4, <3>1 DEF CycleEnds
      <4>2. clock' \in ClockTypes /\ clock'.cycle = clock.cycle + 1
        BY <2>1, <2>2, <4>1 DEF ClockTypes
      <4>. QED BY <2>1, <4>1, <4>2, FeedBoundAssumption DEF Cycles
    <3>2. CASE ~clock.late
      <4>1. clock' = [clock EXCEPT !.late = TRUE]
        BY <2>4, <3>2 DEF CycleEnds
      <4>2. clock' \in ClockTypes /\ clock'.cycle = clock.cycle
        BY <2>1, <4>1 DEF ClockTypes
      <4>. QED BY <2>1, <4>2
    <3>. QED BY <3>1, <3>2
  <2>. QED BY <2>3, <2>4
       DEF MetaPoll, Resubscribe, Poll, PollAnswered, PollFails, Restart
<1>4. /\ feed' = [field \in FeedFields |-> feed'[field]]
      /\ feed'.tokens \subseteq Nat /\ feed'.sub \subseteq Nat
      /\ feed'.bba = feed.bba \/ (feed'.bba = None /\ wire' = NoWire)
  <2>1. /\ feed = [field \in FeedFields |-> feed[field]]
        /\ feed.tokens \subseteq Nat /\ feed.sub \subseteq Nat /\ clock.cycle \in Nat
    BY <1>0 DEF FeedTypes, ClockTypes
  <2>2. CASE feed' = feed
    BY <2>1, <2>2
  <2>3. CASE MetaPoll
    <3>1. feed' = [feed EXCEPT !.tokens = {clock.cycle}]
      BY <2>3 DEF MetaPoll
    <3>. QED BY <2>1, <3>1 DEF FeedFields
  <2>4. CASE Resubscribe
    <3>1. feed' = [feed EXCEPT !.sub = feed.tokens]
      BY <2>4 DEF Resubscribe
    <3>. QED BY <2>1, <3>1 DEF FeedFields
  <2>5. ASSUME NEW s, feed' = [feed EXCEPT !.stopping = s]
        PROVE  /\ feed' = [field \in FeedFields |-> feed'[field]]
               /\ feed'.tokens = feed.tokens /\ feed'.sub = feed.sub /\ feed'.bba = feed.bba
    BY <2>1, <2>5 DEF FeedFields
  <2>6. CASE PollAnswered
    <3>1. PICK s : feed' = [feed EXCEPT !.stopping = s]
      BY <2>6 DEF PollAnswered
    <3>. QED BY <2>1, <2>5, <3>1
  <2>7. CASE Restart
    BY <2>7 DEF Restart, NewFeed, FeedFields, None
  <2>. QED BY <2>2, <2>3, <2>4, <2>6, <2>7 DEF CycleEnds, Poll, PollFails
<1>5. FeedTypes'
  <2>1. trader.market = None \/ \E m \in Nat : trader.market = {m} /\ m <= clock'.cycle
    <3>1. clock.cycle \in Nat
      BY <1>0 DEF FeedTypes, ClockTypes
    <3>2. clock'.cycle \in Nat /\ clock'.cycle >= clock.cycle
      BY <1>3 DEF ClockTypes
    <3>3. trader.market = None \/ \E m \in Nat : trader.market = {m} /\ m <= clock.cycle
      BY <1>0 DEF FeedTypes
    <3>4. \A m \in Nat : m <= clock.cycle => m <= clock'.cycle
      BY <3>1, <3>2
    <3>. QED BY <3>3, <3>4
  <2>. QED BY <1>0, <1>1, <1>2, <1>3, <1>4, <2>1 DEF FeedTypes
<1>. QED BY <1>1, <1>4, <1>5, NothingPasses

LEMMA OrderStep ==
    ASSUME OrderInv, [FeedNext]_feedVars
    PROVE  /\ OrderInv'
           /\ \A before \in trader.last, after \in trader'.last : Before(before, after)
<1>1. ASSUME OrderInv', trader'.last = trader.last
      PROVE  \A before \in trader.last, after \in trader'.last : Before(before, after)
  <2>1. \A b, c \in trader.last : b = c /\ b.stamp \in Nat
    BY DEF OrderInv, FeedTypes, Quotes, None
  <2>. QED BY <1>1, <2>1 DEF Before
<1>2. CASE UNCHANGED feedVars
  <2>1. UNCHANGED <<source, clock, stamp, wire, raw, nats, feed, trader>>
    BY <1>2 DEF feedVars, exchangeVars, pathVars
  <2>2. OrderInv'
    <3>1. FeedTypes'
      BY <2>1 DEF OrderInv, FeedTypes
    <3>. QED BY <2>1, <3>1, NothingPasses
  <2>. QED BY <1>1, <2>1, <2>2
<1>3. CASE PriceMoves
  BY <1>1, <1>3, PriceKeeps DEF PriceMoves
<1>4. CASE CycleEnds \/ MetaPoll \/ Resubscribe \/ Poll \/ PollAnswered \/ PollFails \/ Restart
  <2>1. UNCHANGED trader
    BY <1>4 DEF CycleEnds, MetaPoll, Resubscribe, Poll, PollAnswered, PollFails, Restart
  <2>. QED BY <1>1, <1>4, <2>1, FeedKeeps
<1>5. CASE OpenCycle
  <2>1. trader'.last = trader.last
    BY <1>5 DEF OpenCycle, OrderInv, FeedTypes, TraderFields
  <2>. QED BY <1>1, <1>5, <2>1, OpenKeeps
<1>6. CASE Judge
  BY <1>6, JudgeKeeps
<1>7. ASSUME NEW c \in Channels, Receive(c)
      PROVE  OrderInv' /\ trader'.last = trader.last
  BY <1>7, ReceiveKeeps DEF Receive
<1>8. ASSUME NEW c \in Channels, ReceiveDirect(c)
      PROVE  OrderInv' /\ trader'.last = trader.last
  <2>1. trader'.last = trader.last
    BY <1>8 DEF ReceiveDirect, OrderInv, FeedTypes, TraderFields
  <2>. QED BY <1>8, <2>1, ReceiveDirectKeeps
<1>9. ASSUME NEW m \in Cycles, Forward(m)
      PROVE  OrderInv' /\ trader'.last = trader.last
  BY <1>9, ForwardKeeps DEF Forward
<1>. QED BY <1>1, <1>2, <1>3, <1>4, <1>5, <1>6, <1>7, <1>8, <1>9 DEF FeedNext

(* What a step may not do.                                                 *)
NoneBefore == \A before \in trader.last, after \in trader'.last : Before(before, after)

(* collect.rs, marketdata.rs: whichever of the two channels is faster,     *)
(* however often the subscription changes and the feed restarts, the       *)
(* driver never judges an older quote after a newer one (of its market).   *)
THEOREM QuotesStayInOrder == FeedSpec => QuotesInOrder
<1>1. FeedInit => OrderInv
  <2> SUFFICES ASSUME FeedInit PROVE OrderInv
    OBVIOUS
  <2>1. /\ source \in {"nats", "direct"} /\ stamp = 0
        /\ clock = [cycle |-> 0, late |-> FALSE]
        /\ wire = NoWire /\ nats = <<>> /\ raw = [m \in Cycles |-> <<>>]
        /\ feed = NewFeed
        /\ trader = [market |-> None, sub |-> None, newest |-> 0, last |-> None]
    BY SourceAssumption DEF FeedInit
  <2>2. <<>> \in Seq(Quotes) /\ ListedQuotes(<<>>) = {} /\ InOrder(<<>>)
    <3>1. <<>> \in Seq(Quotes)
      BY EmptySeq
    <3>. QED BY <3>1, ListTypes
  <2>3. \A q : ~Passed(q) /\ ~Coming(q)
    BY <2>1, <2>2 DEF Passed, Coming, NoWire, None
  <2>4. FeedTypes
    <3>1. clock \in ClockTypes /\ clock.cycle \in Cycles
      BY <2>1, FeedBoundAssumption DEF ClockTypes, Cycles
    <3>2. wire \in [Channels -> Seq(Quotes)] /\ raw \in [Cycles -> Seq(Quotes)]
      BY <2>1, <2>2 DEF NoWire
    <3>3. /\ trader = [field \in TraderFields |-> trader[field]]
          /\ feed = [field \in FeedFields |-> feed[field]]
      BY <2>1 DEF NewFeed, TraderFields, FeedFields
    <3>. QED BY <2>1, <2>2, <3>1, <3>2, <3>3 DEF FeedTypes, NewFeed, None
  <2>5. Queued
    BY <2>1, <2>2 DEF Queued, None
  <2>. QED BY <2>1, <2>3, <2>4, <2>5 DEF OrderInv, OverNats, OverOwn
<1>2. OrderInv /\ [FeedNext]_feedVars => OrderInv'
  BY OrderStep
<1>3. OrderInv /\ [FeedNext]_feedVars => [NoneBefore]_feedVars
  BY OrderStep DEF NoneBefore, Before
<1>4. FeedSpec => [][NoneBefore]_feedVars
  BY <1>1, <1>2, <1>3, PTL DEF FeedSpec
<1>. QED BY <1>4 DEF QuotesInOrder, NoneBefore, Before
-----------------------------------------------------------------------------
(* HourFile: what the entries and the writers hold.                        *)

FileRecord == [rows : SUBSET Nat, footer : BOOLEAN]
Buffers == [file : Nat, hour : Hours, flushed : SUBSET Nat, memory : SUBSET Nat]

(* Every entry of a directory d has a file of its own.                     *)
OneName(d) == \A x, y \in Entries : d[x] # 0 /\ d[x] = d[y] => x = y

DiskTypes ==
    /\ hkt \in Hours /\ hourKey \in Hours /\ rows \in Nat
    /\ file \in Seq(FileRecord) /\ dir \in [Entries -> 0 .. Len(file)]
    /\ aside \in [Files -> SUBSET Nat]
    /\ buf \in [Files -> Buffers] /\ old \in Buffers
    /\ OneName(dir)

(* Nothing of kind k is of a later hour.                                   *)
NothingLater(d, k, h) ==
    \A g \in Hours : d[Tmp(k, g)] # 0 \/ d[Parquet(k, g)] # 0 => g <= h

(* A writer of an hour has its .tmp, in which is what it has written, and  *)
(* nothing is in the sealed file of the hour that it does not have too.    *)
Writes(d, f, b, k, h) ==
    /\ b.hour = h /\ b.file # 0 /\ d[Tmp(k, h)] = b.file
    /\ f[d[Tmp(k, h)]].rows = b.flushed
    /\ d[Parquet(k, h)] # 0 =>
          /\ f[d[Parquet(k, h)]].footer
          /\ f[d[Parquet(k, h)]].rows \subseteq b.flushed \cup b.memory

(* The copy of an orphan under its final name, the orphan still there.     *)
Copies(d, f, b, k, h) ==
    /\ b.hour < h /\ b.file # 0 /\ d[Parquet(k, b.hour)] = b.file
    /\ d[Tmp(k, b.hour)] # 0 /\ f[d[Tmp(k, b.hour)]].footer
    /\ f[d[Tmp(k, b.hour)]].rows \subseteq b.flushed \cup b.memory
    /\ f[d[Parquet(k, b.hour)]].rows = b.flushed

(* A sealed name without a footer is of an hour before h, and has an       *)
(* orphan.                                                                 *)
Finished(d, f, k, h) ==
    \A g \in Hours :
        d[Parquet(k, g)] # 0 /\ ~f[d[Parquet(k, g)]].footer
            => g < h /\ d[Tmp(k, g)] # 0 /\ f[d[Tmp(k, g)]].footer

(* Where the process is: at one of the files, or not.                      *)
Alone == {"down", "orphans", "check", "write"}
AtFile == {"copy", "copied", "new", "open", "close", "rename", "last", "lastRename"}
ProcTypes ==
    \/ \E at \in Alone : proc = At(at, 0)
    \/ \E at \in AtFile, k \in Files : proc = At(at, k)

(* The kinds without a writer and those whose writer is of this hour; the  *)
(* others' is of hour_key.                                                 *)
NotOpen(k) == \/ proc.at \in {"down", "orphans", "copy", "copied"}
              \/ proc.at = "new" /\ k >= proc.k
              \/ proc.at \in {"last", "lastRename"} /\ k <= proc.k
Rolled(k) == \/ proc.at \in {"new", "open"} /\ k < proc.k
             \/ proc.at \in {"close", "rename"} /\ k <= proc.k
KindInv(k) ==
    /\ NotOpen(k) => buf[k] = NoBuf
    /\ Rolled(k) /\ ~NotOpen(k) => Writes(dir, file, buf[k], k, hkt)
    /\ ~Rolled(k) /\ ~NotOpen(k) => /\ Writes(dir, file, buf[k], k, hourKey)
                                    /\ NothingLater(dir, k, hourKey)
    /\ NothingLater(dir, k, hkt) /\ Finished(dir, file, k, hkt)

(* The buffer that has been taken out.                                     *)
OldInv ==
    /\ proc.at \in {"copy", "copied"} => Copies(dir, file, old, proc.k, hkt)
    /\ proc.at = "copied" => old.memory = {} /\ file[dir[Parquet(proc.k, old.hour)]].footer
    /\ proc.at \in {"close", "rename", "last", "lastRename"} =>
          Writes(dir, file, old, proc.k, hourKey)
    /\ proc.at \in {"rename", "lastRename"} =>
          old.memory = {} /\ file[dir[Tmp(proc.k, hourKey)]].footer
    /\ proc.at \in Alone \cup {"new", "open"} => old = NoBuf

HourInv ==
    /\ hourKey <= hkt
    /\ proc.at \in {"open", "close", "rename"} => hourKey < hkt
    /\ proc.at = "new" /\ proc.k > 1 => hourKey = hkt

Sound == DiskTypes /\ ProcTypes /\ OldInv /\ HourInv /\ \A k \in Files : KindInv(k)

(* The inductive invariant: the history says from when on nothing is sure. *)
FileInv == doubt \in BOOLEAN /\ (~doubt => Sound)

KeepsRows == \A k \in Files : OnDisk(k) \cup InMemory(k) \subseteq (OnDisk(k) \cup InMemory(k))'

-----------------------------------------------------------------------------
LEMMA Names ==
    /\ \A k \in Files, h \in Hours :
          /\ Tmp(k, h) \in Entries /\ Tmp(k, h)[1] = k
          /\ Parquet(k, h) \in Entries /\ Parquet(k, h)[1] = k
    /\ \A k, j \in Files, h, g \in Hours :
          /\ Tmp(k, h) # Parquet(j, g)
          /\ Tmp(k, h) = Tmp(j, g) => k = j /\ h = g
          /\ Parquet(k, h) = Parquet(j, g) => k = j /\ h = g
    /\ \A x \in Entries : /\ x[1] \in Files /\ x[2] \in Hours
                          /\ x[3] = "tmp" => x = Tmp(x[1], x[2])
                          /\ x = Tmp(x[1], x[2]) \/ x = Parquet(x[1], x[2])
BY DEF Entries, Tmp, Parquet

LEMMA Numbers ==
    /\ Files \subseteq Nat \ {0} /\ 1 \in Files /\ Len(Kinds) \in Nat /\ Len(Kinds) \in Files
    /\ \A k \in Files : k # Len(Kinds) => k + 1 \in Files
    /\ \A k \in Files : k <= Len(Kinds)
    /\ Hours \subseteq Nat /\ 0 \in Hours
<1>1. Len(Kinds) \in Nat \ {0}
  BY KindsAssumption, EmptySeq, LenProperties
<1>2. MaxHour \in Nat
  BY BoundAssumption
<1>. QED BY <1>1, <1>2 DEF Files, Hours

(* A file that is opened anew is empty; the others are as they were.       *)
OpenedAnew(o, x, d, f) ==
    /\ o.file \in Seq(FileRecord) /\ o.dir \in [Entries -> 0 .. Len(o.file)]
    /\ OneName(o.dir)
    /\ o.id \in Nat \ {0} /\ o.dir[x] = o.id /\ o.file[o.id] = Empty
    /\ \A y \in Entries : y # x => /\ o.dir[y] = d[y]
                                   /\ d[y] # 0 => o.file[d[y]] = f[d[y]]

LEMMA Truncated ==
    ASSUME NEW f \in Seq(FileRecord), NEW d \in [Entries -> 0 .. Len(f)], OneName(d),
           NEW x \in Entries, NEW o, o = OpenTruncated(x, d, f)
    PROVE  OpenedAnew(o, x, d, f)
<1>1. Len(f) \in Nat /\ Empty \in FileRecord
  BY LenProperties DEF Empty, FileRecord
<1>2. \A y \in Entries : d[y] \in 0 .. Len(f)
  OBVIOUS
<1>3. CASE d[x] # 0
  <2>1. o.dir = d /\ o.id = d[x] /\ o.file = [f EXCEPT ![d[x]] = Empty]
    BY <1>3 DEF OpenTruncated
  <2>2. d[x] \in 1 .. Len(f)
    BY <1>1, <1>2, <1>3
  <2>3. /\ o.file \in Seq(FileRecord) /\ Len(o.file) = Len(f) /\ o.file[d[x]] = Empty
        /\ \A i \in 1 .. Len(f) : i # d[x] => o.file[i] = f[i]
    BY <1>1, <2>1, <2>2, ExceptSeq
  <2>4. \A y \in Entries : y # x /\ d[y] # 0 => d[y] \in 1 .. Len(f) /\ d[y] # d[x]
    BY <1>1, <1>2, <1>3 DEF OneName
  <2>. QED BY <1>1, <1>3, <2>1, <2>2, <2>3, <2>4 DEF OpenedAnew
<1>4. CASE d[x] = 0
  <2>1. /\ o.dir = [d EXCEPT ![x] = Len(f) + 1] /\ o.id = Len(f) + 1
        /\ o.file = Append(f, Empty)
    BY <1>4 DEF OpenTruncated
  <2>2. /\ o.file \in Seq(FileRecord) /\ Len(o.file) = Len(f) + 1
        /\ o.file[Len(f) + 1] = Empty /\ \A i \in 1 .. Len(f) : o.file[i] = f[i]
    BY <1>1, <2>1, AppendProperties
  <2>3. \A y \in Entries : o.dir[y] = IF y = x THEN Len(f) + 1 ELSE d[y]
    BY <2>1
  <2>4. \A y \in Entries : d[y] # Len(f) + 1 /\ d[y] \in 0 .. Len(f) + 1
    BY <1>1, <1>2
  <2>5. OneName(o.dir)
    BY <2>3, <2>4 DEF OneName
  <2>6. o.dir \in [Entries -> 0 .. Len(o.file)]
    <3>1. Len(f) + 1 \in 0 .. Len(f) + 1
      BY <1>1
    <3>. QED BY <2>1, <2>2, <2>4, <3>1
  <2>7. \A y \in Entries : d[y] # 0 => d[y] \in 1 .. Len(f)
    BY <1>1, <1>2
  <2>. QED BY <1>1, <2>1, <2>2, <2>3, <2>5, <2>6, <2>7 DEF OpenedAnew
<1>. QED BY <1>3, <1>4

(* What a writer puts into its file; the others are as they were.          *)
PutIn(f, x, b) ==
    /\ f \in Seq(FileRecord) /\ Len(f) = Len(file)
    /\ f[dir[x]].rows = (file[dir[x]].rows \cap b.flushed) \cup b.memory
    /\ f[dir[x]].footer
    /\ \A y \in Entries : y # x /\ dir[y] # 0 => f[dir[y]] = file[dir[y]]

LEMMA PutFacts ==
    ASSUME DiskTypes, NEW x \in Entries, dir[x] # 0, NEW b \in Buffers, b.file = dir[x]
    PROVE  PutIn(Put(b, TRUE), x, b)
<1> DEFINE f == Put(b, TRUE)
<1> DEFINE r == [rows |-> (file[dir[x]].rows \cap b.flushed) \cup b.memory, footer |-> TRUE]
<1>1. Len(file) \in Nat /\ \A y \in Entries : dir[y] \in 0 .. Len(file)
  BY LenProperties DEF DiskTypes
<1>2. dir[x] \in 1 .. Len(file)
  BY <1>1
<1>3. r \in FileRecord
  <2>1. b.flushed \subseteq Nat /\ b.memory \subseteq Nat
    BY DEF Buffers
  <2>. QED BY <2>1 DEF FileRecord
<1>4. f = [file EXCEPT ![dir[x]] = r]
  BY DEF Put
<1>. HIDE DEF r, f
<1>5. /\ f \in Seq(FileRecord) /\ Len(f) = Len(file) /\ f[dir[x]] = r
      /\ \A i \in 1 .. Len(file) : i # dir[x] => f[i] = file[i]
  <2>1. file \in Seq(FileRecord)
    BY DEF DiskTypes
  <2>2. PICK i \in 1 .. Len(file) : i = dir[x]
    BY <1>2
  <2>3. f = [file EXCEPT ![i] = r]
    BY <1>4, <2>2
  <2>4. /\ [file EXCEPT ![i] = r] \in Seq(FileRecord) /\ Len([file EXCEPT ![i] = r]) = Len(file)
        /\ \A j \in 1 .. Len(file) : [file EXCEPT ![i] = r][j] = IF j = i THEN r ELSE file[j]
    BY <1>3, <2>1, ExceptSeq
  <2>5. /\ f \in Seq(FileRecord) /\ Len(f) = Len(file)
        /\ \A j \in 1 .. Len(file) : f[j] = IF j = i THEN r ELSE file[j]
    BY <2>3, <2>4
  <2>. QED BY <2>2, <2>5
<1>6. \A y \in Entries : y # x /\ dir[y] # 0 => dir[y] \in 1 .. Len(file) /\ dir[y] # dir[x]
  BY <1>1 DEF DiskTypes, OneName
<1>7. /\ r.rows = (file[dir[x]].rows \cap b.flushed) \cup b.memory
      /\ r.footer = TRUE
  BY DEF r
<1>8. PutIn(f, x, b)
  BY <1>5, <1>6, <1>7 DEF PutIn
<1>. QED BY <1>8 DEF f

-----------------------------------------------------------------------------
(* A kind whose entries and files stay.                                    *)
Untouched(j) ==
    \A x \in Entries : x[1] = j => /\ dir'[x] = dir[x]
                                   /\ dir[x] # 0 => file'[dir[x]] = file[dir[x]]

LEMMA UntouchedKept ==
    ASSUME NEW j \in Files, Untouched(j)
    PROVE  /\ \A b : \A h \in Hours : Writes(dir, file, b, j, h) => Writes(dir', file', b, j, h)
           /\ \A b : \A h : b.hour \in Hours /\ Copies(dir, file, b, j, h)
                               => Copies(dir', file', b, j, h)
           /\ \A h : NothingLater(dir, j, h) => NothingLater(dir', j, h)
           /\ \A h : Finished(dir, file, j, h) => Finished(dir', file', j, h)
           /\ aside'[j] = aside[j] => OnDisk(j)' = OnDisk(j)
<1>1. \A h \in Hours : /\ dir'[Tmp(j, h)] = dir[Tmp(j, h)]
                       /\ dir'[Parquet(j, h)] = dir[Parquet(j, h)]
                       /\ dir[Tmp(j, h)] # 0 => file'[dir[Tmp(j, h)]] = file[dir[Tmp(j, h)]]
                       /\ dir[Parquet(j, h)] # 0 =>
                             file'[dir[Parquet(j, h)]] = file[dir[Parquet(j, h)]]
  BY Names DEF Untouched
<1>2. \A b : \A h \in Hours : Writes(dir, file, b, j, h) => Writes(dir', file', b, j, h)
  BY <1>1 DEF Writes
<1>3. \A b : \A h : b.hour \in Hours /\ Copies(dir, file, b, j, h) => Copies(dir', file', b, j, h)
  BY <1>1 DEF Copies
<1>4. \A h : NothingLater(dir, j, h) => NothingLater(dir', j, h)
  BY <1>1 DEF NothingLater
<1>5. \A h : Finished(dir, file, j, h) => Finished(dir', file', j, h)
  BY <1>1 DEF Finished
<1>6. aside'[j] = aside[j] => OnDisk(j)' = OnDisk(j)
  <2>1. ASSUME NEW x \in Entries, x[1] = j
        PROVE  dir'[x] = dir[x] /\ (dir[x] # 0 => file'[dir'[x]] = file[dir[x]])
    BY <2>1 DEF Untouched
  <2>2. {Content(x).rows : x \in {y \in Entries : y[1] = j /\ Exists(y)}}'
         = {Content(x).rows : x \in {y \in Entries : y[1] = j /\ Exists(y)}}
    BY <2>1 DEF Exists, Content
  <2>. QED BY <2>2 DEF OnDisk
<1>. QED BY <1>2, <1>3, <1>4, <1>5, <1>6

(* Where the rows of a kind are found.                                     *)
LEMMA RowsFound ==
    ASSUME NEW k \in Files
    PROVE  \A r : r \in OnDisk(k) <=> \/ r \in aside[k]
                                      \/ \E x \in Entries : x[1] = k /\ dir[x] # 0
                                                            /\ r \in file[dir[x]].rows
BY DEF OnDisk, Exists, Content

LEMMA RowsFoundNext ==
    ASSUME NEW k \in Files
    PROVE  \A r : r \in OnDisk(k)' <=> \/ r \in aside'[k]
                                       \/ \E x \in Entries : x[1] = k /\ dir'[x] # 0
                                                             /\ r \in file'[dir'[x]].rows
BY DEF OnDisk, Exists, Content

(* One kind is worked on: what is to be shown about it.                    *)
LEMMA OneKindRows ==
    ASSUME NEW k \in Files, aside[k] \subseteq aside'[k],
           \A j \in Files : j # k => aside'[j] = aside[j] /\ Untouched(j) /\ InMemory(j) \subseteq InMemory(j)',
           \A x \in Entries : x[1] = k /\ dir[x] # 0 =>
               file[dir[x]].rows \subseteq (OnDisk(k) \cup InMemory(k))',
           InMemory(k) \subseteq (OnDisk(k) \cup InMemory(k))'
    PROVE  KeepsRows
<1> SUFFICES ASSUME NEW j \in Files PROVE OnDisk(j) \cup InMemory(j) \subseteq (OnDisk(j) \cup InMemory(j))'
  BY DEF KeepsRows
<1>1. CASE j = k
  <2>1. \A r : r \in aside[k] => r \in OnDisk(k)'
    BY RowsFoundNext
  <2>. QED BY <1>1, <2>1, RowsFound
<1>2. CASE j # k
  <2>1. OnDisk(j)' = OnDisk(j)
    BY <1>2, UntouchedKept
  <2>. QED BY <1>2, <2>1
<1>. QED BY <1>1, <1>2

LEMMA OthersKept ==
    ASSUME Sound, NEW j \in Files, Untouched(j), buf'[j] = buf[j], UNCHANGED <<hkt, hourKey>>,
           NotOpen(j)' <=> NotOpen(j), Rolled(j)' <=> Rolled(j)
    PROVE  KindInv(j)'
<1>1. KindInv(j) /\ hkt \in Hours /\ hourKey \in Hours
  BY DEF Sound, DiskTypes
<1>2. \A h \in Hours : Writes(dir, file, buf[j], j, h) => Writes(dir', file', buf'[j], j, h)
  BY UntouchedKept
<1>3. \A h : /\ NothingLater(dir, j, h) => NothingLater(dir', j, h)
             /\ Finished(dir, file, j, h) => Finished(dir', file', j, h)
  BY UntouchedKept
<1>. QED BY <1>1, <1>2, <1>3 DEF KindInv

-----------------------------------------------------------------------------
(* The end of an hour.                                                     *)

LEMMA OpenNextKeeps ==
    ASSUME Sound, OpenNext
    PROVE  Sound' /\ KeepsRows
<1>1. PICK k \in Files : proc = At("open", k)
  BY DEF Sound, ProcTypes, OpenNext, At, Alone, AtFile
<1>2. PICK o :
         /\ o = OpenTruncated(Tmp(k, hkt), dir, file) /\ dir' = o.dir /\ file' = o.file
         /\ buf' = [buf EXCEPT ![k] = [file |-> o.id, hour |-> hkt, flushed |-> {}, memory |-> {}]]
         /\ old' = buf[k] /\ proc' = At("close", k)
         /\ UNCHANGED <<hkt, hourKey, aside, rows>>
  BY <1>1 DEF OpenNext, At
<1>3. /\ hkt \in Hours /\ hourKey \in Hours /\ hkt \in Nat /\ hourKey \in Nat /\ hourKey < hkt
      /\ buf \in [Files -> Buffers] /\ DiskTypes
  BY <1>1, Numbers DEF Sound, DiskTypes, HourInv, At
<1>4. Writes(dir, file, buf[k], k, hourKey) /\ NothingLater(dir, k, hourKey)
      /\ NothingLater(dir, k, hkt) /\ Finished(dir, file, k, hkt)
  BY <1>1, Numbers DEF Sound, KindInv, NotOpen, Rolled, At
<1>5. dir[Tmp(k, hkt)] = 0 /\ dir[Parquet(k, hkt)] = 0
  BY <1>3, <1>4 DEF NothingLater
<1> DEFINE e == Tmp(k, hkt)
<1>6. /\ file' \in Seq(FileRecord) /\ dir' \in [Entries -> 0 .. Len(file')]
      /\ OneName(dir') /\ o.id \in Nat \ {0} /\ dir'[e] = o.id /\ file'[o.id] = Empty
      /\ \A y \in Entries : y # e => /\ dir'[y] = dir[y]
                                     /\ dir[y] # 0 => file'[dir[y]] = file[dir[y]]
      /\ e \in Entries /\ e[1] = k
  <2>1. e \in Entries /\ e[1] = k
    BY <1>3, Names
  <2>. HIDE DEF e
  <2>2. file \in Seq(FileRecord) /\ dir \in [Entries -> 0 .. Len(file)] /\ OneName(dir)
    BY <1>3 DEF DiskTypes
  <2>3. o = OpenTruncated(e, dir, file)
    BY <1>2 DEF e
  <2>4. OpenedAnew(o, e, dir, file)
    BY <2>1, <2>2, <2>3, Truncated
  <2>. QED BY <1>2, <2>1, <2>4 DEF OpenedAnew
<1>7. \A j \in Files : j # k => Untouched(j) /\ buf'[j] = buf[j]
  BY <1>2, <1>3, <1>6 DEF Untouched
<1>8. /\ buf'[k] = [file |-> o.id, hour |-> hkt, flushed |-> {}, memory |-> {}]
      /\ buf' \in [Files -> Buffers] /\ old' \in Buffers
  BY <1>2, <1>3, <1>6 DEF Buffers
<1>9. DiskTypes'
  BY <1>2, <1>3, <1>6, <1>8 DEF DiskTypes
<1>10. \A h \in Hours : /\ h # hkt => dir'[Tmp(k, h)] = dir[Tmp(k, h)]
                        /\ dir'[Parquet(k, h)] = dir[Parquet(k, h)]
                        /\ dir[Tmp(k, h)] # 0 => file'[dir[Tmp(k, h)]] = file[dir[Tmp(k, h)]]
                        /\ dir[Parquet(k, h)] # 0 =>
                              file'[dir[Parquet(k, h)]] = file[dir[Parquet(k, h)]]
  BY <1>3, <1>5, <1>6, Names
<1>11. Writes(dir', file', buf'[k], k, hkt)
  BY <1>3, <1>5, <1>6, <1>8, <1>10 DEF Writes, Empty
<1>12. Writes(dir', file', old', k, hourKey)
  BY <1>2, <1>3, <1>4, <1>10 DEF Writes
<1>13. NothingLater(dir', k, hkt)
  BY <1>3, <1>4, <1>10 DEF NothingLater
<1>14. Finished(dir', file', k, hkt)
  BY <1>3, <1>4, <1>5, <1>10 DEF Finished
<1>15. ASSUME NEW j \in Files PROVE KindInv(j)'
  <2>1. CASE j = k
    <3>1. Rolled(k)' /\ ~NotOpen(k)'
      BY <1>2, Numbers DEF Rolled, NotOpen, At
    <3>. QED BY <1>2, <1>11, <1>13, <1>14, <2>1, <3>1 DEF KindInv
  <2>2. CASE j # k
    <3>1. (Rolled(j)' <=> Rolled(j)) /\ (NotOpen(j)' <=> NotOpen(j))
      BY <1>1, <1>2, <2>2, Numbers DEF Rolled, NotOpen, At
    <3>. QED BY <1>2, <1>7, <2>2, <3>1, OthersKept
  <2>. QED BY <2>1, <2>2
<1>16. ProcTypes'
  BY <1>2 DEF ProcTypes, AtFile
<1>17. OldInv' /\ HourInv'
  BY <1>2, <1>3, <1>12 DEF OldInv, HourInv, At, Alone
<1>18. KeepsRows
  <2>1. InMemory(k)' = buf[k].memory
    BY <1>2, <1>8 DEF InMemory, At
  <2>2. InMemory(k) = buf[k].memory
    BY <1>1 DEF InMemory, At, Sound, OldInv, NoBuf
  <2>3. ASSUME NEW x \in Entries, x[1] = k, dir[x] # 0
        PROVE  file[dir[x]].rows \subseteq OnDisk(k)'
    BY <1>5, <1>6, <2>3, RowsFoundNext
  <2>4. \A j \in Files : j # k => InMemory(j)' = InMemory(j)
    BY <1>1, <1>2, <1>7 DEF InMemory, At
  <2>. QED BY <1>2, <1>7, <2>1, <2>2, <2>3, <2>4, OneKindRows
<1>. QED BY <1>9, <1>15, <1>16, <1>17, <1>18 DEF Sound

LEMMA CloseKeeps ==
    ASSUME Sound, Close
    PROVE  Sound' /\ KeepsRows
<1>1. PICK k \in Files, at \in {"close", "last"} : proc = At(at, k)
  BY DEF Sound, ProcTypes, Close, At, Alone, AtFile
<1>2. /\ file' = Put(old, TRUE) /\ old' = Flushed(old)
      /\ proc' = At(IF at = "close" THEN "rename" ELSE "lastRename", k)
      /\ UNCHANGED <<hkt, hourKey, buf, dir, aside, rows>>
  BY <1>1 DEF Close, At
<1>3. /\ hkt \in Hours /\ hourKey \in Hours /\ hkt \in Nat /\ hourKey \in Nat
      /\ at = "close" => hourKey < hkt
      /\ buf \in [Files -> Buffers] /\ old \in Buffers /\ DiskTypes
      /\ Writes(dir, file, old, k, hourKey)
  BY <1>1, Numbers DEF Sound, DiskTypes, HourInv, OldInv, At
<1>4. PICK x \in Entries : x = Tmp(k, hourKey) /\ x[1] = k
  BY <1>3, Names
<1>5. dir[x] # 0 /\ old.file = dir[x] /\ file[dir[x]].rows = old.flushed /\ old.hour = hourKey
  BY <1>3, <1>4 DEF Writes
<1>6. /\ file' \in Seq(FileRecord) /\ Len(file') = Len(file)
      /\ file'[dir[x]].rows = old.flushed \cup old.memory /\ file'[dir[x]].footer
      /\ \A y \in Entries : y # x /\ dir[y] # 0 => file'[dir[y]] = file[dir[y]]
  <2>1. PutIn(file', x, old)
    BY <1>2, <1>3, <1>5, PutFacts
  <2>2. (old.flushed \cap old.flushed) \cup old.memory = old.flushed \cup old.memory
    OBVIOUS
  <2>. QED BY <1>5, <2>1, <2>2 DEF PutIn
<1>7. /\ old' \in Buffers /\ old'.flushed = old.flushed \cup old.memory /\ old'.memory = {}
      /\ old'.file = old.file /\ old'.hour = old.hour
  BY <1>2, <1>3 DEF Flushed, Buffers
<1>8. \A j \in Files : j # k => Untouched(j)
  BY <1>2, <1>4, <1>6 DEF Untouched
<1>9. DiskTypes'
  BY <1>2, <1>3, <1>6, <1>7 DEF DiskTypes
<1>10. \A h \in Hours :
         /\ h # hourKey /\ dir[Tmp(k, h)] # 0 => file'[dir[Tmp(k, h)]] = file[dir[Tmp(k, h)]]
         /\ dir[Parquet(k, h)] # 0 => file'[dir[Parquet(k, h)]] = file[dir[Parquet(k, h)]]
  BY <1>3, <1>4, <1>6, Names
<1>11. Writes(dir', file', old', k, hourKey)
  BY <1>2, <1>3, <1>4, <1>6, <1>7, <1>10 DEF Writes
<1>12. KindInv(k) /\ (at = "close" => Rolled(k)) /\ (at = "last" => NotOpen(k))
       /\ (at = "close" => ~NotOpen(k))
  BY <1>1, Numbers DEF Sound, Rolled, NotOpen, At
<1>13. at = "close" => Writes(dir', file', buf'[k], k, hkt)
  <2>1. at = "close" => Writes(dir, file, buf[k], k, hkt)
    BY <1>12 DEF KindInv
  <2> SUFFICES ASSUME at = "close" PROVE Writes(dir', file', buf'[k], k, hkt)
    OBVIOUS
  <2>2. hkt # hourKey
    BY <1>3
  <2>3. /\ dir'[Tmp(k, hkt)] = dir[Tmp(k, hkt)] /\ dir'[Parquet(k, hkt)] = dir[Parquet(k, hkt)]
        /\ dir[Tmp(k, hkt)] # 0 => file'[dir[Tmp(k, hkt)]] = file[dir[Tmp(k, hkt)]]
        /\ dir[Parquet(k, hkt)] # 0 => file'[dir[Parquet(k, hkt)]] = file[dir[Parquet(k, hkt)]]
    BY <1>2, <1>3, <1>10, <2>2
  <2>. QED BY <1>2, <2>1, <2>3 DEF Writes
<1>14. NothingLater(dir', k, hkt) /\ Finished(dir', file', k, hkt)
  <2>1. NothingLater(dir, k, hkt) /\ Finished(dir, file, k, hkt)
    BY <1>12 DEF KindInv
  <2>2. \A g \in Hours : dir[Tmp(k, g)] # 0 /\ file[dir[Tmp(k, g)]].footer => file'[dir[Tmp(k, g)]].footer
    BY <1>4, <1>6, <1>10
  <2>. QED BY <1>2, <1>10, <2>1, <2>2 DEF NothingLater, Finished
<1>15. ASSUME NEW j \in Files PROVE KindInv(j)'
  <2>1. (Rolled(j)' <=> Rolled(j)) /\ (NotOpen(j)' <=> NotOpen(j))
    BY <1>1, <1>2 DEF Rolled, NotOpen, At
  <2>2. CASE j = k
    BY <1>2, <1>12, <1>13, <1>14, <2>1, <2>2 DEF KindInv
  <2>3. CASE j # k
    BY <1>2, <1>8, <2>1, <2>3, OthersKept
  <2>. QED BY <2>2, <2>3
<1>16. ProcTypes'
  BY <1>2 DEF ProcTypes, AtFile
<1>17. OldInv' /\ HourInv'
  <2>1. hourKey' <= hkt' /\ (at = "close" => hourKey' < hkt')
    BY <1>2, <1>3 DEF Sound, HourInv
  <2>2. HourInv'
    BY <1>1, <1>2, <2>1 DEF HourInv, At
  <2>3. OldInv'
    BY <1>2, <1>4, <1>6, <1>7, <1>11 DEF OldInv, At, Alone
  <2>. QED BY <2>2, <2>3
<1>18. KeepsRows
  <2>1. old.flushed \cup old.memory \subseteq OnDisk(k)'
    BY <1>2, <1>4, <1>5, <1>6, RowsFoundNext
  <2>2. InMemory(k) = buf[k].memory \cup old.memory /\ buf[k].memory \subseteq InMemory(k)'
    BY <1>1, <1>2 DEF InMemory, At
  <2>3. ASSUME NEW y \in Entries, y[1] = k, dir[y] # 0
        PROVE  file[dir[y]].rows \subseteq OnDisk(k)'
    <3>1. CASE y = x
      BY <1>5, <2>1, <3>1
    <3>2. CASE y # x
      BY <1>2, <1>6, <2>3, <3>2, RowsFoundNext
    <3>. QED BY <3>1, <3>2
  <2>4. \A j \in Files : j # k => InMemory(j)' = InMemory(j)
    BY <1>1, <1>2 DEF InMemory, At
  <2>. QED BY <1>2, <1>8, <2>1, <2>2, <2>3, <2>4, OneKindRows
<1>. QED BY <1>9, <1>15, <1>16, <1>17, <1>18 DEF Sound

(* What has been written takes the sealed name, with all that had it.      *)
LEMMA RenamedFacts ==
    ASSUME Sound, NEW k \in Files, NEW at \in {"rename", "lastRename"}, proc = At(at, k),
           dir' = Renamed(k), UNCHANGED <<hkt, file, aside>>
    PROVE  /\ dir' \in [Entries -> 0 .. Len(file)] /\ OneName(dir')
           /\ \A j \in Files : j # k => Untouched(j)
           /\ NothingLater(dir', k, hkt) /\ Finished(dir', file', k, hkt)
           /\ \A y \in Entries : y[1] = k /\ dir[y] # 0 => file[dir[y]].rows \subseteq OnDisk(k)'
           /\ at = "rename" => Writes(dir', file', buf[k], k, hkt)
           /\ old.memory = {}
<1>1. /\ hkt \in Hours /\ hourKey \in Hours /\ hkt \in Nat /\ hourKey \in Nat /\ hourKey <= hkt
      /\ at = "rename" => hourKey < hkt
      /\ DiskTypes /\ Writes(dir, file, old, k, hourKey) /\ old.memory = {}
      /\ file[dir[Tmp(k, hourKey)]].footer
  BY Numbers DEF Sound, DiskTypes, HourInv, OldInv, At
<1>2. PICK x, y \in Entries : /\ x = Tmp(k, hourKey) /\ x[1] = k /\ y = Parquet(k, hourKey)
                              /\ y[1] = k /\ x # y
  BY <1>1, Names
<1>3. /\ dir[x] # 0 /\ old.hour = hourKey /\ file[dir[x]].footer
      /\ dir[y] # 0 => file[dir[y]].rows \subseteq file[dir[x]].rows
  BY <1>1, <1>2 DEF Writes
<1>4. /\ dir \in [Entries -> 0 .. Len(file)] /\ OneName(dir) /\ Len(file) \in Nat
      /\ dir' = [dir EXCEPT ![y] = dir[x], ![x] = 0]
  BY <1>1, <1>2, <1>3, LenProperties DEF Renamed, DiskTypes
<1>5. \A z \in Entries : dir'[z] = IF z = x THEN 0 ELSE IF z = y THEN dir[x] ELSE dir[z]
  BY <1>2, <1>4
<1>6. dir' \in [Entries -> 0 .. Len(file)]
  <2>1. 0 \in 0 .. Len(file) /\ dir[x] \in 0 .. Len(file)
    BY <1>4
  <2>. QED BY <1>4, <2>1
<1>7. OneName(dir')
  BY <1>2, <1>4, <1>5 DEF OneName
<1>8. \A j \in Files : j # k => Untouched(j)
  BY <1>2, <1>5 DEF Untouched
<1>9. \A h \in Hours : /\ dir'[Tmp(k, h)] = IF h = hourKey THEN 0 ELSE dir[Tmp(k, h)]
                       /\ dir'[Parquet(k, h)] = IF h = hourKey THEN dir[x] ELSE dir[Parquet(k, h)]
  BY <1>1, <1>2, <1>5, Names
<1>10. KindInv(k) /\ (at = "rename" => Rolled(k) /\ ~NotOpen(k))
  BY Numbers DEF Sound, Rolled, NotOpen, At
<1>11. NothingLater(dir', k, hkt)
  <2>1. NothingLater(dir, k, hkt)
    BY <1>10 DEF KindInv
  <2>. QED BY <1>1, <1>9, <2>1 DEF NothingLater
<1>12. Finished(dir', file', k, hkt)
  <2>1. Finished(dir, file, k, hkt)
    BY <1>10 DEF KindInv
  <2>. QED BY <1>3, <1>9, <2>1 DEF Finished
<1>13. ASSUME NEW z \in Entries, z[1] = k, dir[z] # 0
       PROVE  file[dir[z]].rows \subseteq OnDisk(k)'
  <2>1. file[dir[x]].rows \subseteq OnDisk(k)'
    BY <1>2, <1>3, <1>5, RowsFoundNext
  <2>2. CASE z # x /\ z # y
    BY <1>5, <1>13, <2>2, RowsFoundNext
  <2>. QED BY <1>3, <1>13, <2>1, <2>2
<1>14. at = "rename" => Writes(dir', file', buf[k], k, hkt)
  <2>1. at = "rename" => Writes(dir, file, buf[k], k, hkt)
    BY <1>10 DEF KindInv
  <2>. QED BY <1>1, <1>9, <2>1 DEF Writes
<1>. QED BY <1>1, <1>6, <1>7, <1>8, <1>11, <1>12, <1>13, <1>14

LEMMA RenameKeeps ==
    ASSUME Sound, Rename
    PROVE  Sound' /\ KeepsRows
<1>1. PICK k \in Files : proc = At("rename", k)
  BY DEF Sound, ProcTypes, Rename, At, Alone, AtFile
<1>2. /\ dir' = Renamed(k) /\ old' = NoBuf /\ UNCHANGED <<hkt, buf, file, aside, rows>>
      /\ k # Len(Kinds) => proc' = At("open", k + 1) /\ hourKey' = hourKey
      /\ k = Len(Kinds) => proc' = At("write", 0) /\ hourKey' = hkt
  BY <1>1, Numbers DEF Rename, At
<1>3. /\ dir' \in [Entries -> 0 .. Len(file)] /\ OneName(dir')
      /\ \A j \in Files : j # k => Untouched(j)
      /\ NothingLater(dir', k, hkt) /\ Finished(dir', file', k, hkt)
      /\ \A y \in Entries : y[1] = k /\ dir[y] # 0 => file[dir[y]].rows \subseteq OnDisk(k)'
      /\ Writes(dir', file', buf[k], k, hkt) /\ old.memory = {}
  BY <1>1, <1>2, RenamedFacts
<1>4. NoBuf \in Buffers /\ NoBuf.memory = {}
  BY Numbers DEF NoBuf, Buffers
<1>5. /\ hkt \in Hours /\ hourKey \in Hours /\ hkt \in Nat /\ hourKey \in Nat /\ hourKey < hkt
      /\ DiskTypes /\ \A j \in Files : KindInv(j)
  BY <1>1, Numbers DEF Sound, DiskTypes, HourInv, At
<1>6. hourKey' \in Hours /\ hkt' = hkt /\ hourKey' <= hkt
  BY <1>2, <1>5
<1>7. DiskTypes'
  BY <1>2, <1>3, <1>4, <1>5, <1>6 DEF DiskTypes
<1>8. ProcTypes'
  <2>1. k # Len(Kinds) => k + 1 \in Files
    BY Numbers
  <2>. QED BY <1>2, <2>1 DEF ProcTypes, Alone, AtFile
<1>9. OldInv' /\ HourInv'
  BY <1>2, <1>5, <1>6 DEF OldInv, HourInv, At, Alone
<1>10. ASSUME NEW j \in Files PROVE KindInv(j)'
  <2>1. CASE k # Len(Kinds)
    <3>1. (Rolled(j)' <=> Rolled(j)) /\ (NotOpen(j)' <=> NotOpen(j))
      BY <1>1, <1>2, <2>1, Numbers DEF Rolled, NotOpen, At
    <3>2. CASE j = k
      <4>1. Rolled(j)
        BY <1>1, <3>2, Numbers DEF Rolled, At
      <4>2. ~NotOpen(j)
        BY <1>1 DEF NotOpen, At
      <4>. QED BY <1>2, <1>3, <3>1, <3>2, <4>1, <4>2 DEF KindInv
    <3>3. CASE j # k
      BY <1>2, <1>3, <2>1, <3>1, <3>3, OthersKept
    <3>. QED BY <3>2, <3>3
  <2>2. CASE k = Len(Kinds)
    <3>1. Rolled(j) /\ ~NotOpen(j) /\ ~Rolled(j)' /\ ~NotOpen(j)'
      BY <1>1, <1>2, <2>2, Numbers DEF Rolled, NotOpen, At
    <3>2. Writes(dir', file', buf[j], j, hkt) /\ NothingLater(dir', j, hkt) /\ Finished(dir', file', j, hkt)
      <4>1. Writes(dir, file, buf[j], j, hkt) /\ NothingLater(dir, j, hkt) /\ Finished(dir, file, j, hkt)
        BY <1>5, <3>1 DEF KindInv
      <4>2. CASE j = k
        BY <1>3, <4>2
      <4>3. CASE j # k
        BY <1>3, <1>5, <4>1, <4>3, UntouchedKept
      <4>. QED BY <4>2, <4>3
    <3>. QED BY <1>2, <2>2, <3>1, <3>2 DEF KindInv
  <2>. QED BY <2>1, <2>2
<1>11. KeepsRows
  <2>1. InMemory(k) = buf[k].memory
    BY <1>1, <1>3 DEF InMemory, At
  <2>2. \A j \in Files : InMemory(j)' = buf[j].memory
    BY <1>2, <1>4 DEF InMemory
  <2>3. \A j \in Files : j # k => InMemory(j) = buf[j].memory
    BY <1>1 DEF InMemory, At
  <2>. QED BY <1>2, <1>3, <2>1, <2>2, <2>3, OneKindRows
<1>. QED BY <1>7, <1>8, <1>9, <1>10, <1>11 DEF Sound

LEMMA LastRenameKeeps ==
    ASSUME Sound, LastRename
    PROVE  Sound' /\ KeepsRows
<1>1. PICK k \in Files : proc = At("lastRename", k)
  BY DEF Sound, ProcTypes, LastRename, At, Alone, AtFile
<1>2. /\ dir' = Renamed(k) /\ UNCHANGED <<hkt, hourKey, file, aside, rows>>
      /\ k # Len(Kinds) => /\ proc' = At("last", k + 1) /\ old' = buf[k + 1]
                           /\ buf' = [buf EXCEPT ![k + 1] = NoBuf]
      /\ k = Len(Kinds) => proc' = Down /\ old' = NoBuf /\ buf' = buf
  BY <1>1, Numbers DEF LastRename, At
<1>3. /\ dir' \in [Entries -> 0 .. Len(file)] /\ OneName(dir')
      /\ \A j \in Files : j # k => Untouched(j)
      /\ NothingLater(dir', k, hkt) /\ Finished(dir', file', k, hkt)
      /\ \A y \in Entries : y[1] = k /\ dir[y] # 0 => file[dir[y]].rows \subseteq OnDisk(k)'
      /\ old.memory = {}
  BY <1>1, <1>2, RenamedFacts
<1>4. NoBuf \in Buffers /\ NoBuf.memory = {}
  BY Numbers DEF NoBuf, Buffers
<1>5. /\ hkt \in Hours /\ hourKey \in Hours /\ DiskTypes /\ \A j \in Files : KindInv(j)
      /\ buf \in [Files -> Buffers]
  BY DEF Sound, DiskTypes
<1>6. k # Len(Kinds) => k + 1 \in Files /\ k + 1 # k
  BY Numbers
<1>7. buf' \in [Files -> Buffers] /\ old' \in Buffers
  BY <1>2, <1>4, <1>5, <1>6
<1>8. DiskTypes'
  BY <1>2, <1>3, <1>5, <1>7 DEF DiskTypes
<1>9. ProcTypes'
  BY <1>2, <1>6 DEF ProcTypes, Alone, AtFile, Down
<1>10. HourInv'
  BY <1>2 DEF Sound, HourInv, At, Down
<1>11. \A j \in Files : NotOpen(j) => buf[j] = NoBuf
  BY <1>5 DEF KindInv
<1>12. k # Len(Kinds) => Writes(dir', file', buf[k + 1], k + 1, hourKey)
  <2> SUFFICES ASSUME k # Len(Kinds) PROVE Writes(dir', file', buf[k + 1], k + 1, hourKey)
    OBVIOUS
  <2>1. ~Rolled(k + 1) /\ ~NotOpen(k + 1)
    BY <1>1, <1>6, Numbers DEF Rolled, NotOpen, At
  <2>2. Writes(dir, file, buf[k + 1], k + 1, hourKey)
    BY <1>5, <1>6, <2>1 DEF KindInv
  <2>. QED BY <1>3, <1>5, <1>6, <2>2, UntouchedKept
<1>13. OldInv'
  BY <1>2, <1>12 DEF OldInv, At, Alone, Down
<1>14. ASSUME NEW j \in Files PROVE KindInv(j)'
  <2>1. ~Rolled(j) /\ ~Rolled(j)'
    BY <1>1, <1>2 DEF Rolled, At, Down
  <2>2. NothingLater(dir', j, hkt) /\ Finished(dir', file', j, hkt)
    <3>1. NothingLater(dir, j, hkt) /\ Finished(dir, file, j, hkt)
      BY <1>5 DEF KindInv
    <3>2. CASE j = k
      BY <1>3, <3>2
    <3>3. CASE j # k
      BY <1>3, <3>1, <3>3, UntouchedKept
    <3>. QED BY <3>2, <3>3
  <2>3. CASE NotOpen(j)
    <3>1. buf'[j] = NoBuf
      BY <1>2, <1>5, <1>6, <1>11, <2>3
    <3>2. NotOpen(j)'
      BY <1>1, <1>2, <2>3, Numbers DEF NotOpen, At, Down
    <3>. QED BY <1>2, <2>2, <3>1, <3>2 DEF KindInv
  <2>4. CASE ~NotOpen(j)
    <3>1. k < j /\ j # k /\ k # Len(Kinds)
      BY <1>1, <2>4, Numbers DEF NotOpen, At
    <3>2. CASE j = k + 1
      <4>1. NotOpen(j)' /\ buf'[j] = NoBuf
        BY <1>2, <1>5, <3>1, <3>2, Numbers DEF NotOpen, At
      <4>. QED BY <1>2, <2>2, <4>1 DEF KindInv
    <3>3. CASE j # k + 1
      <4>1. ~NotOpen(j)' /\ buf'[j] = buf[j]
        BY <1>2, <1>5, <3>1, <3>3, Numbers DEF NotOpen, At
      <4>. QED BY <1>2, <1>3, <2>1, <2>4, <3>1, <4>1, OthersKept
    <3>. QED BY <3>2, <3>3
  <2>. QED BY <2>3, <2>4
<1>15. KeepsRows
  <2>1. NotOpen(k)
    BY <1>1, Numbers DEF NotOpen, At
  <2>2. InMemory(k) = {}
    BY <1>3, <1>4, <1>11, <2>1 DEF InMemory
  <2>3. ASSUME NEW j \in Files, j # k PROVE InMemory(j) \subseteq InMemory(j)'
    <3>1. InMemory(j) = buf[j].memory
      BY <1>1, <2>3 DEF InMemory, At
    <3>2. buf'[j] = buf[j] \/ (proc'.k = j /\ old' = buf[j])
      BY <1>2, <1>5, <1>6 DEF At
    <3>. QED BY <3>1, <3>2 DEF InMemory
  <2>. QED BY <1>2, <1>3, <2>2, <2>3, OneKindRows
<1>. QED BY <1>8, <1>9, <1>10, <1>13, <1>14, <1>15 DEF Sound

LEMMA StopKeeps ==
    ASSUME Sound, Stop
    PROVE  Sound' /\ KeepsRows
<1>1. /\ proc \in {At("check", 0), At("write", 0)}
      /\ proc' = At("last", 1) /\ old' = buf[1] /\ buf' = [buf EXCEPT ![1] = NoBuf]
      /\ UNCHANGED <<hkt, hourKey, dir, file, aside, rows>>
  BY DEF Sound, ProcTypes, Stop, At, Alone, AtFile, diskVars
<1>2. NoBuf \in Buffers /\ old = NoBuf /\ NoBuf.memory = {}
  BY <1>1, Numbers DEF NoBuf, Buffers, Sound, OldInv, At, Alone
<1>3. DiskTypes /\ (\A j \in Files : KindInv(j)) /\ buf \in [Files -> Buffers]
  BY DEF Sound, DiskTypes
<1>4. DiskTypes'
  BY <1>1, <1>2, <1>3, Numbers DEF DiskTypes
<1>5. ProcTypes'
  BY <1>1, Numbers DEF ProcTypes, AtFile
<1>6. HourInv'
  BY <1>1 DEF Sound, HourInv, At
<1>7. \A j \in Files : ~Rolled(j) /\ ~NotOpen(j) /\ ~Rolled(j)' /\ (NotOpen(j)' <=> j = 1)
  BY <1>1, Numbers DEF Rolled, NotOpen, At
<1>8. \A j \in Files : Writes(dir, file, buf[j], j, hourKey) /\ KindInv(j)
  BY <1>3, <1>7 DEF KindInv
<1>9. OldInv'
  BY <1>1, <1>8, Numbers DEF OldInv, At, Alone
<1>10. ASSUME NEW j \in Files PROVE KindInv(j)'
  <2>1. j = 1 => buf'[j] = NoBuf
    BY <1>1, <1>3
  <2>2. j # 1 => buf'[j] = buf[j]
    BY <1>1, <1>3
  <2>. QED BY <1>1, <1>7, <1>8, <2>1, <2>2 DEF KindInv
<1>11. KeepsRows
  <2>1. \A j \in Files : InMemory(j) = buf[j].memory
    BY <1>2 DEF InMemory
  <2>2. \A j \in Files : buf'[j] = buf[j] \/ (proc'.k = j /\ old' = buf[j])
    BY <1>1, <1>3 DEF At
  <2>3. \A j \in Files : InMemory(j) \subseteq InMemory(j)'
    BY <2>1, <2>2 DEF InMemory
  <2>4. \A j \in Files : Untouched(j) /\ UNCHANGED aside
    BY <1>1 DEF Untouched
  <2>5. \A j \in Files : OnDisk(j)' = OnDisk(j)
    BY <2>4, UntouchedKept
  <2>. QED BY <2>3, <2>5 DEF KeepsRows
<1>. QED BY <1>4, <1>5, <1>6, <1>9, <1>10, <1>11 DEF Sound

-----------------------------------------------------------------------------
(* A start.                                                                *)

LEMMA RowsAreNumbers ==
    ASSUME DiskTypes, NEW x \in Entries, dir[x] # 0
    PROVE  file[dir[x]].rows \subseteq Nat /\ dir[x] \in Nat
<1>1. Len(file) \in Nat /\ dir[x] \in 1 .. Len(file)
  BY LenProperties DEF DiskTypes
<1>2. file[dir[x]] \in FileRecord
  BY <1>1, ElementOfSeq DEF DiskTypes
<1>. QED BY <1>1, <1>2 DEF FileRecord

LEMMA OpenOrphanKeeps ==
    ASSUME Sound, OpenOrphan
    PROVE  Sound' /\ KeepsRows
<1>1. proc = At("orphans", 0) /\ DiskTypes /\ \A j \in Files : KindInv(j)
  BY DEF OpenOrphan, Sound
<1>2. PICK e \in Orphans :
         /\ proc' = At("copy", e[1])
         /\ \E o : /\ o = OpenTruncated(Parquet(e[1], e[2]), dir, file)
                   /\ dir' = o.dir /\ file' = o.file
                   /\ old' = [file |-> o.id, hour |-> e[2], flushed |-> {}, memory |-> Content(e).rows]
         /\ UNCHANGED <<hkt, hourKey, buf, aside, rows>>
  BY DEF OpenOrphan
<1>3. PICK k \in Files, h \in Hours : k = e[1] /\ h = e[2]
  BY <1>2, Names DEF Orphans
<1>4. /\ e \in Entries /\ e = Tmp(k, h) /\ h # hkt /\ dir[e] # 0 /\ file[dir[e]].footer
      /\ dir[Parquet(k, h)] = 0
  BY <1>2, <1>3, Names DEF Orphans, Readable, Exists, Content
<1>5. PICK o :
         /\ o = OpenTruncated(Parquet(k, h), dir, file) /\ dir' = o.dir /\ file' = o.file
         /\ old' = [file |-> o.id, hour |-> h, flushed |-> {}, memory |-> file[dir[e]].rows]
  BY <1>2, <1>3 DEF Content
<1>6. PICK x \in Entries : x = Parquet(k, h) /\ x[1] = k /\ x # e
  BY <1>3, <1>4, Names
<1>7. /\ file' \in Seq(FileRecord) /\ dir' \in [Entries -> 0 .. Len(file')]
      /\ OneName(dir') /\ o.id \in Nat \ {0} /\ dir'[x] = o.id /\ file'[o.id] = Empty
      /\ \A y \in Entries : y # x => /\ dir'[y] = dir[y]
                                     /\ dir[y] # 0 => file'[dir[y]] = file[dir[y]]
  <2>1. file \in Seq(FileRecord) /\ dir \in [Entries -> 0 .. Len(file)] /\ OneName(dir)
    BY <1>1 DEF DiskTypes
  <2>2. o = OpenTruncated(x, dir, file)
    BY <1>5, <1>6
  <2>3. OpenedAnew(o, x, dir, file)
    BY <2>1, <2>2, Truncated
  <2>. QED BY <1>5, <2>3 DEF OpenedAnew
<1>8. \A j \in Files : j # k => Untouched(j)
  BY <1>6, <1>7 DEF Untouched
<1>9. old' \in Buffers
  BY <1>1, <1>4, <1>5, <1>7, RowsAreNumbers DEF Buffers
<1>10. DiskTypes'
  BY <1>1, <1>2, <1>7, <1>9 DEF DiskTypes
<1>11. ProcTypes'
  BY <1>2, <1>3 DEF ProcTypes, AtFile
<1>12. h < hkt /\ hkt \in Nat
  <2>1. NothingLater(dir, k, hkt) /\ hkt \in Nat /\ h \in Nat
    BY <1>1, <1>3, Numbers DEF KindInv, DiskTypes
  <2>. QED BY <1>4, <2>1 DEF NothingLater
<1>13. \A g \in Hours :
          /\ dir'[Tmp(k, g)] = dir[Tmp(k, g)]
          /\ g # h => dir'[Parquet(k, g)] = dir[Parquet(k, g)]
          /\ dir[Tmp(k, g)] # 0 => file'[dir[Tmp(k, g)]] = file[dir[Tmp(k, g)]]
          /\ dir[Parquet(k, g)] # 0 => file'[dir[Parquet(k, g)]] = file[dir[Parquet(k, g)]]
  BY <1>4, <1>6, <1>7, Names
<1>14. Copies(dir', file', old', k, hkt)
  BY <1>4, <1>5, <1>6, <1>7, <1>12, <1>13 DEF Copies, Empty
<1>15. OldInv' /\ HourInv'
  <2>1. OldInv'
    BY <1>2, <1>3, <1>14 DEF OldInv, At, Alone
  <2>2. HourInv'
    BY <1>2 DEF Sound, HourInv, At
  <2>. QED BY <2>1, <2>2
<1>16. \A j \in Files : NotOpen(j) /\ NotOpen(j)'
  BY <1>1, <1>2 DEF NotOpen, At
<1>17. ASSUME NEW j \in Files PROVE KindInv(j)'
  <2>1. NothingLater(dir', j, hkt) /\ Finished(dir', file', j, hkt)
    <3>1. NothingLater(dir, j, hkt) /\ Finished(dir, file, j, hkt)
      BY <1>1 DEF KindInv
    <3>2. CASE j = k
      <4>1. NothingLater(dir', k, hkt)
        BY <1>12, <1>13, <3>1, <3>2, Numbers DEF NothingLater
      <4>2. Finished(dir', file', k, hkt)
        BY <1>4, <1>12, <1>13, <3>1, <3>2 DEF Finished
      <4>. QED BY <3>2, <4>1, <4>2
    <3>3. CASE j # k
      BY <1>8, <3>1, <3>3, UntouchedKept
    <3>. QED BY <3>2, <3>3
  <2>. QED BY <1>1, <1>2, <1>16, <2>1 DEF KindInv
<1>18. KeepsRows
  <2>1. ASSUME NEW y \in Entries, y[1] = k, dir[y] # 0
        PROVE  file[dir[y]].rows \subseteq OnDisk(k)'
    BY <1>4, <1>6, <1>7, <2>1, RowsFoundNext
  <2>2. \A j \in Files : InMemory(j) \subseteq buf[j].memory
    BY <1>1 DEF InMemory, Sound, OldInv, At, Alone, NoBuf
  <2>3. \A j \in Files : buf[j].memory \subseteq InMemory(j)'
    BY <1>2 DEF InMemory
  <2>. QED BY <1>2, <1>8, <2>1, <2>2, <2>3, OneKindRows
<1>. QED BY <1>10, <1>11, <1>15, <1>17, <1>18 DEF Sound

LEMMA FinishOrphanKeeps ==
    ASSUME Sound, FinishOrphan
    PROVE  Sound' /\ KeepsRows
<1>1. PICK k \in Files : proc = At("copy", k)
  BY DEF Sound, ProcTypes, FinishOrphan, At, Alone, AtFile
<1>2. /\ file' = Put(old, TRUE) /\ old' = Flushed(old) /\ proc' = At("copied", k)
      /\ UNCHANGED <<hkt, hourKey, buf, dir, aside, rows>>
  BY <1>1 DEF FinishOrphan, At
<1>3. /\ DiskTypes /\ old \in Buffers /\ old.hour \in Hours /\ \A j \in Files : KindInv(j)
      /\ Copies(dir, file, old, k, hkt)
  BY <1>1 DEF Sound, DiskTypes, OldInv, At, Buffers
<1>4. PICK x, e \in Entries : /\ x = Parquet(k, old.hour) /\ x[1] = k
                              /\ e = Tmp(k, old.hour) /\ x # e
  BY <1>3, Names
<1>5. dir[x] # 0 /\ old.file = dir[x] /\ file[dir[x]].rows = old.flushed
  BY <1>3, <1>4 DEF Copies
<1>6. /\ file' \in Seq(FileRecord) /\ Len(file') = Len(file)
      /\ file'[dir[x]].rows = old.flushed \cup old.memory /\ file'[dir[x]].footer
      /\ \A y \in Entries : y # x /\ dir[y] # 0 => file'[dir[y]] = file[dir[y]]
  <2>1. PutIn(file', x, old)
    BY <1>2, <1>3, <1>5, PutFacts
  <2>2. (old.flushed \cap old.flushed) \cup old.memory = old.flushed \cup old.memory
    OBVIOUS
  <2>. QED BY <1>5, <2>1, <2>2 DEF PutIn
<1>7. /\ old' \in Buffers /\ old'.flushed = old.flushed \cup old.memory /\ old'.memory = {}
      /\ old'.file = old.file /\ old'.hour = old.hour
  BY <1>2, <1>3 DEF Flushed, Buffers
<1>8. \A j \in Files : j # k => Untouched(j)
  BY <1>2, <1>4, <1>6 DEF Untouched
<1>9. DiskTypes'
  BY <1>2, <1>3, <1>6, <1>7 DEF DiskTypes
<1>10. ProcTypes'
  BY <1>2 DEF ProcTypes, AtFile
<1>11. Copies(dir', file', old', k, hkt)
  <2>1. /\ old.hour < hkt /\ old.file # 0 /\ dir[x] = old.file
        /\ dir[e] # 0 /\ file[dir[e]].footer
        /\ file[dir[e]].rows \subseteq old.flushed \cup old.memory
    BY <1>3, <1>4 DEF Copies
  <2>2. file'[dir[e]] = file[dir[e]]
    BY <1>4, <1>6, <2>1
  <2>3. /\ old'.hour = old.hour /\ old'.file = old.file
        /\ old'.flushed \cup old'.memory = old.flushed \cup old.memory
    BY <1>7
  <2>4. file'[dir[x]].rows = old'.flushed
    BY <1>6, <1>7
  <2>. QED BY <1>2, <1>4, <2>1, <2>2, <2>3, <2>4 DEF Copies
<1>12. OldInv' /\ HourInv'
  <2>1. OldInv'
    BY <1>2, <1>4, <1>6, <1>7, <1>11 DEF OldInv, At, Alone
  <2>2. HourInv'
    BY <1>2 DEF Sound, HourInv, At
  <2>. QED BY <2>1, <2>2
<1>13. \A j \in Files : NotOpen(j) /\ NotOpen(j)'
  BY <1>1, <1>2 DEF NotOpen, At
<1>14. \A g \in Hours :
          /\ dir[Tmp(k, g)] # 0 => file'[dir[Tmp(k, g)]] = file[dir[Tmp(k, g)]]
          /\ dir[Parquet(k, g)] # 0 /\ ~file'[dir[Parquet(k, g)]].footer =>
                file'[dir[Parquet(k, g)]] = file[dir[Parquet(k, g)]]
  <2> SUFFICES ASSUME NEW g \in Hours
               PROVE  /\ dir[Tmp(k, g)] # 0 => file'[dir[Tmp(k, g)]] = file[dir[Tmp(k, g)]]
                      /\ dir[Parquet(k, g)] # 0 /\ Parquet(k, g) # x =>
                            file'[dir[Parquet(k, g)]] = file[dir[Parquet(k, g)]]
    BY <1>6
  <2>1. Tmp(k, g) \in Entries /\ Tmp(k, g) # x /\ Parquet(k, g) \in Entries
    BY <1>3, <1>4, Names
  <2>. QED BY <1>6, <2>1
<1>15. ASSUME NEW j \in Files PROVE KindInv(j)'
  <2>1. NothingLater(dir', j, hkt) /\ Finished(dir', file', j, hkt)
    <3>1. NothingLater(dir, j, hkt) /\ Finished(dir, file, j, hkt)
      BY <1>3 DEF KindInv
    <3>2. CASE j = k
      BY <1>2, <1>14, <3>1, <3>2 DEF NothingLater, Finished
    <3>3. CASE j # k
      BY <1>8, <3>1, <3>3, UntouchedKept
    <3>. QED BY <3>2, <3>3
  <2>. QED BY <1>2, <1>3, <1>13, <2>1 DEF KindInv
<1>16. KeepsRows
  <2>1. old.flushed \cup old.memory \subseteq OnDisk(k)'
    BY <1>2, <1>4, <1>5, <1>6, RowsFoundNext
  <2>2. InMemory(k) = buf[k].memory \cup old.memory /\ buf[k].memory \subseteq InMemory(k)'
    BY <1>1, <1>2 DEF InMemory, At
  <2>3. ASSUME NEW y \in Entries, y[1] = k, dir[y] # 0
        PROVE  file[dir[y]].rows \subseteq OnDisk(k)'
    <3>1. CASE y = x
      BY <1>5, <2>1, <3>1
    <3>2. CASE y # x
      BY <1>2, <1>6, <2>3, <3>2, RowsFoundNext
    <3>. QED BY <3>1, <3>2
  <2>4. \A j \in Files : j # k => InMemory(j)' = InMemory(j)
    BY <1>1, <1>2 DEF InMemory, At
  <2>. QED BY <1>2, <1>8, <2>1, <2>2, <2>3, <2>4, OneKindRows
<1>. QED BY <1>9, <1>10, <1>12, <1>15, <1>16 DEF Sound

LEMMA RemoveOrphanKeeps ==
    ASSUME Sound, RemoveOrphan
    PROVE  Sound' /\ KeepsRows
<1>1. PICK k \in Files : proc = At("copied", k)
  BY DEF Sound, ProcTypes, RemoveOrphan, At, Alone, AtFile
<1>2. /\ dir' = [dir EXCEPT ![Tmp(k, old.hour)] = 0]
      /\ old' = NoBuf /\ proc' = At("orphans", 0)
      /\ UNCHANGED <<hkt, hourKey, buf, file, aside, rows>>
  BY <1>1 DEF RemoveOrphan, At
<1>3. /\ DiskTypes /\ old.hour \in Hours /\ \A j \in Files : KindInv(j)
      /\ Copies(dir, file, old, k, hkt) /\ old.memory = {}
      /\ file[dir[Parquet(k, old.hour)]].footer
  BY <1>1 DEF Sound, DiskTypes, OldInv, At, Buffers
<1>4. PICK x, e \in Entries : /\ x = Parquet(k, old.hour) /\ x[1] = k
                              /\ e = Tmp(k, old.hour) /\ e[1] = k /\ x # e
  BY <1>3, Names
<1>5. dir[x] # 0 /\ file[dir[e]].rows \subseteq file[dir[x]].rows
  BY <1>3, <1>4 DEF Copies
<1>6. /\ dir \in [Entries -> 0 .. Len(file)] /\ Len(file) \in Nat /\ OneName(dir)
      /\ dir' = [dir EXCEPT ![e] = 0] /\ \A y \in Entries : dir'[y] = IF y = e THEN 0 ELSE dir[y]
  BY <1>2, <1>3, <1>4, LenProperties DEF DiskTypes
<1>7. dir' \in [Entries -> 0 .. Len(file)] /\ OneName(dir')
  <2>1. 0 \in 0 .. Len(file)
    BY <1>6
  <2>. QED BY <1>6, <2>1 DEF OneName
<1>8. \A j \in Files : j # k => Untouched(j)
  BY <1>2, <1>4, <1>6 DEF Untouched
<1>9. NoBuf \in Buffers /\ NoBuf.memory = {}
  BY Numbers DEF NoBuf, Buffers
<1>10. DiskTypes'
  BY <1>2, <1>3, <1>7, <1>9 DEF DiskTypes
<1>11. ProcTypes'
  BY <1>2 DEF ProcTypes, Alone
<1>12. OldInv' /\ HourInv'
  <2>1. OldInv'
    BY <1>2 DEF OldInv, At
  <2>2. HourInv'
    BY <1>2 DEF Sound, HourInv, At
  <2>. QED BY <2>1, <2>2
<1>13. \A j \in Files : NotOpen(j) /\ NotOpen(j)'
  BY <1>1, <1>2 DEF NotOpen, At
<1>14. \A g \in Hours : /\ dir'[Tmp(k, g)] = IF g = old.hour THEN 0 ELSE dir[Tmp(k, g)]
                        /\ dir'[Parquet(k, g)] = dir[Parquet(k, g)]
  BY <1>3, <1>4, <1>6, Names
<1>15. ASSUME NEW j \in Files PROVE KindInv(j)'
  <2>1. NothingLater(dir', j, hkt) /\ Finished(dir', file', j, hkt)
    <3>1. NothingLater(dir, j, hkt) /\ Finished(dir, file, j, hkt)
      BY <1>3 DEF KindInv
    <3>2. CASE j = k
      BY <1>2, <1>3, <1>14, <3>1, <3>2 DEF NothingLater, Finished
    <3>3. CASE j # k
      BY <1>8, <3>1, <3>3, UntouchedKept
    <3>. QED BY <3>2, <3>3
  <2>. QED BY <1>2, <1>3, <1>13, <2>1 DEF KindInv
<1>16. KeepsRows
  <2>1. file[dir[x]].rows \subseteq OnDisk(k)'
    BY <1>2, <1>4, <1>5, <1>6, RowsFoundNext
  <2>2. ASSUME NEW y \in Entries, y[1] = k, dir[y] # 0
        PROVE  file[dir[y]].rows \subseteq OnDisk(k)'
    <3>1. CASE y = e
      BY <1>5, <2>1, <3>1
    <3>2. CASE y # e
      BY <1>2, <1>6, <2>2, <3>2, RowsFoundNext
    <3>. QED BY <3>1, <3>2
  <2>3. \A j \in Files : InMemory(j) = buf[j].memory
    BY <1>3 DEF InMemory
  <2>4. \A j \in Files : InMemory(j)' = buf[j].memory
    BY <1>2, <1>9 DEF InMemory
  <2>. QED BY <1>2, <1>8, <2>2, <2>3, <2>4, OneKindRows
<1>. QED BY <1>10, <1>11, <1>12, <1>15, <1>16 DEF Sound

LEMMA NewKeeps ==
    ASSUME Sound, New, ~doubt'
    PROVE  Sound' /\ KeepsRows
<1>1. PICK k \in Files : proc = At("new", k)
  BY DEF Sound, ProcTypes, New, At, Alone, AtFile
<1>2. PICK tmp, final : tmp = Tmp(k, hkt) /\ final = Parquet(k, hkt)
  OBVIOUS
<1>3. PICK keep, carry, d, o :
         /\ keep = (dir[tmp] # 0 /\ ~file[dir[tmp]].footer /\ file[dir[tmp]].rows # {})
         /\ dir[tmp] # 0 => carry = IF file[dir[tmp]].footer THEN file[dir[tmp]].rows ELSE {}
         /\ dir[tmp] = 0 => carry = IF dir[final] # 0 /\ file[dir[final]].footer
                                    THEN file[dir[final]].rows ELSE {}
         /\ d = IF keep THEN [dir EXCEPT ![tmp] = 0] ELSE dir
         /\ o = OpenTruncated(tmp, d, file)
         /\ aside' = [aside EXCEPT ![k] = aside[k] \cup (IF keep THEN file[dir[tmp]].rows ELSE {})]
         /\ dir' = o.dir /\ file' = o.file
         /\ buf' = [buf EXCEPT ![k] = [file |-> o.id, hour |-> hkt, flushed |-> {}, memory |-> carry]]
  <2>1. OpenForHour(k)
    BY <1>1 DEF New, At
  <2>. QED BY <1>2, <2>1 DEF OpenForHour, CarrySource, Readable, Exists, Content
<1>4. /\ hourKey' = hkt /\ UNCHANGED <<hkt, old, rows>>
      /\ k = Len(Kinds) => proc' = At("check", 0)
      /\ k # Len(Kinds) => proc' = At("new", k + 1)
  BY <1>1 DEF New, KeyOfStart, At
<1>5. ~(dir[tmp] # 0 /\ dir[final] # 0)
  BY <1>1, <1>2 DEF New, OpenForHour, Exists, At
<1>6. /\ DiskTypes /\ hkt \in Hours /\ hkt \in Nat /\ \A j \in Files : KindInv(j)
      /\ buf \in [Files -> Buffers] /\ aside \in [Files -> SUBSET Nat]
      /\ old = NoBuf /\ (k > 1 => hourKey = hkt)
  BY <1>1, Numbers DEF Sound, DiskTypes, OldInv, HourInv, At
<1>7. tmp \in Entries /\ tmp[1] = k /\ final \in Entries /\ final[1] = k /\ tmp # final
  BY <1>2, <1>6, Names
<1>8. carry \subseteq Nat /\ (keep => file[dir[tmp]].rows \subseteq Nat)
  BY <1>3, <1>6, <1>7, RowsAreNumbers
<1>9. /\ file' \in Seq(FileRecord) /\ dir' \in [Entries -> 0 .. Len(file')]
      /\ OneName(dir') /\ o.id \in Nat \ {0} /\ dir'[tmp] = o.id /\ file'[o.id] = Empty
      /\ \A y \in Entries : y # tmp => /\ dir'[y] = dir[y]
                                       /\ dir[y] # 0 => file'[dir[y]] = file[dir[y]]
  <2>1. /\ file \in Seq(FileRecord) /\ dir \in [Entries -> 0 .. Len(file)] /\ OneName(dir)
        /\ Len(file) \in Nat
    BY <1>6, LenProperties DEF DiskTypes
  <2>2. \A y \in Entries : y # tmp => d[y] = dir[y]
    BY <1>3, <2>1
  <2>3. d \in [Entries -> 0 .. Len(file)] /\ OneName(d)
    <3>1. CASE keep
      <4>1. d = [dir EXCEPT ![tmp] = 0] /\ 0 \in 0 .. Len(file)
        BY <1>3, <2>1, <3>1
      <4>2. \A y \in Entries : d[y] = IF y = tmp THEN 0 ELSE dir[y]
        BY <1>7, <2>1, <4>1
      <4>. QED BY <2>1, <4>1, <4>2 DEF OneName
    <3>2. CASE ~keep
      BY <1>3, <2>1, <3>2
    <3>. QED BY <3>1, <3>2
  <2>4. OpenedAnew(o, tmp, d, file)
    BY <1>3, <1>7, <2>1, <2>3, Truncated
  <2>. QED BY <1>3, <2>2, <2>4 DEF OpenedAnew
<1>10. \A j \in Files : j # k => Untouched(j) /\ buf'[j] = buf[j] /\ aside'[j] = aside[j]
  <2>1. \A j \in Files : j # k => Untouched(j)
    BY <1>7, <1>9 DEF Untouched
  <2>2. \A j \in Files : j # k => buf'[j] = buf[j]
    BY <1>3, <1>6
  <2>3. \A j \in Files : j # k => aside'[j] = aside[j]
    BY <1>3, <1>6
  <2>. QED BY <2>1, <2>2, <2>3
<1>11. /\ buf'[k] = [file |-> o.id, hour |-> hkt, flushed |-> {}, memory |-> carry]
       /\ buf' \in [Files -> Buffers]
  <2>1. [file |-> o.id, hour |-> hkt, flushed |-> {}, memory |-> carry] \in Buffers
    BY <1>6, <1>8, <1>9 DEF Buffers
  <2>. QED BY <1>3, <1>6, <2>1
<1>12. /\ aside'[k] = aside[k] \cup (IF keep THEN file[dir[tmp]].rows ELSE {})
       /\ aside' \in [Files -> SUBSET Nat]
  <2>1. aside[k] \cup (IF keep THEN file[dir[tmp]].rows ELSE {}) \in SUBSET Nat
    BY <1>6, <1>8
  <2>. QED BY <1>3, <1>6, <2>1
<1>13. DiskTypes'
  BY <1>4, <1>6, <1>9, <1>11, <1>12 DEF DiskTypes
<1>14. ProcTypes'
  <2>1. k # Len(Kinds) => k + 1 \in Files
    BY Numbers
  <2>. QED BY <1>4, <2>1 DEF ProcTypes, Alone, AtFile
<1>15. OldInv' /\ HourInv'
  <2>1. hourKey' <= hkt' /\ hourKey' = hkt'
    BY <1>4, <1>6
  <2>2. HourInv'
    BY <1>4, <2>1 DEF HourInv, At
  <2>3. OldInv'
    BY <1>4, <1>6 DEF OldInv, At, Alone
  <2>. QED BY <2>2, <2>3
<1>16. \A g \in Hours :
          /\ g # hkt => dir'[Tmp(k, g)] = dir[Tmp(k, g)]
          /\ g # hkt /\ dir[Tmp(k, g)] # 0 => file'[dir[Tmp(k, g)]] = file[dir[Tmp(k, g)]]
          /\ dir'[Parquet(k, g)] = dir[Parquet(k, g)]
          /\ dir[Parquet(k, g)] # 0 => file'[dir[Parquet(k, g)]] = file[dir[Parquet(k, g)]]
  BY <1>2, <1>6, <1>9, Names
<1>17. NothingLater(dir, k, hkt) /\ Finished(dir, file, k, hkt)
  BY <1>6 DEF KindInv
<1>18. dir[final] # 0 => file[dir[final]].footer /\ carry = file[dir[final]].rows
  <2>1. dir[final] # 0 => file[dir[final]].footer
    BY <1>2, <1>6, <1>17 DEF Finished
  <2>. QED BY <1>3, <1>5, <2>1
<1>19. Writes(dir', file', buf'[k], k, hkt)
  <2>1. dir'[final] = dir[final] /\ (dir[final] # 0 => file'[dir[final]] = file[dir[final]])
    BY <1>7, <1>9
  <2>. QED BY <1>2, <1>9, <1>11, <1>18, <2>1 DEF Writes, Empty
<1>20. NothingLater(dir', k, hkt)
  BY <1>6, <1>16, <1>17 DEF NothingLater
<1>21. Finished(dir', file', k, hkt)
  BY <1>2, <1>6, <1>16, <1>17, <1>18 DEF Finished
<1>22. ASSUME NEW j \in Files
       PROVE  /\ NothingLater(dir', j, hkt) /\ Finished(dir', file', j, hkt)
              /\ j < k => Writes(dir', file', buf'[j], j, hkt)
  <2>1. CASE j = k
    BY <1>20, <1>21, <2>1, Numbers
  <2>2. CASE j # k
    <3>1. NothingLater(dir, j, hkt) /\ Finished(dir, file, j, hkt)
      BY <1>6 DEF KindInv
    <3>2. j < k => Writes(dir, file, buf[j], j, hkt)
      <4>1. j < k => Rolled(j) /\ ~NotOpen(j)
        BY <1>1, Numbers DEF Rolled, NotOpen, At
      <4>. QED BY <1>6, <4>1 DEF KindInv
    <3>. QED BY <1>6, <1>10, <2>2, <3>1, <3>2, UntouchedKept
  <2>. QED BY <2>1, <2>2
<1>23. ASSUME NEW j \in Files PROVE KindInv(j)'
  <2>1. j <= k => Writes(dir', file', buf'[j], j, hkt)
    BY <1>19, <1>22, Numbers
  <2>2. CASE k = Len(Kinds)
    <3>1. j <= k /\ ~NotOpen(j)' /\ ~Rolled(j)'
      BY <1>4, <2>2, Numbers DEF NotOpen, Rolled, At
    <3>. QED BY <1>4, <1>22, <2>1, <3>1 DEF KindInv
  <2>3. CASE k # Len(Kinds)
    <3>1. (Rolled(j)' <=> j <= k) /\ (NotOpen(j)' <=> ~(j <= k))
      BY <1>4, <2>3, Numbers DEF NotOpen, Rolled, At
    <3>2. ~(j <= k) => buf'[j] = NoBuf
      <4>1. ~(j <= k) => j # k /\ NotOpen(j)
        BY <1>1, Numbers DEF NotOpen, At
      <4>. QED BY <1>6, <1>10, <4>1 DEF KindInv
    <3>. QED BY <1>4, <1>22, <2>1, <3>1, <3>2 DEF KindInv
  <2>. QED BY <2>2, <2>3
<1>24. KeepsRows
  <2>1. InMemory(k) = {} /\ carry \subseteq InMemory(k)'
    <3>1. buf[k] = NoBuf
      <4>1. NotOpen(k)
        BY <1>1, Numbers DEF NotOpen, At
      <4>. QED BY <1>6, <4>1 DEF KindInv
    <3>. QED BY <1>6, <1>11, <3>1 DEF InMemory, NoBuf
  <2>2. ASSUME NEW y \in Entries, y[1] = k, dir[y] # 0
        PROVE  file[dir[y]].rows \subseteq (OnDisk(k) \cup InMemory(k))'
    <3>1. CASE y = tmp
      <4>1. keep => file[dir[tmp]].rows \subseteq OnDisk(k)'
        BY <1>12, RowsFoundNext
      <4>2. ~keep => file[dir[tmp]].rows \subseteq carry
        BY <1>3, <2>2, <3>1
      <4>. QED BY <2>1, <3>1, <4>1, <4>2
    <3>2. CASE y # tmp
      BY <1>9, <2>2, <3>2, RowsFoundNext
    <3>. QED BY <3>1, <3>2
  <2>3. \A j \in Files : j # k => InMemory(j) = buf[j].memory
    BY <1>1 DEF InMemory, At
  <2>4. \A j \in Files : j # k => InMemory(j) \subseteq InMemory(j)'
    BY <1>10, <2>3 DEF InMemory
  <2>. QED BY <1>10, <1>12, <2>1, <2>2, <2>4, OneKindRows
<1>. QED BY <1>13, <1>14, <1>15, <1>23, <1>24 DEF Sound

-----------------------------------------------------------------------------
(* The samples, and the rest.                                              *)

LEMMA WriteKeeps ==
    ASSUME Sound, Write
    PROVE  Sound' /\ KeepsRows
<1>1. /\ proc = At("write", 0) /\ proc' = At("check", 0) /\ rows' = rows + 1
      /\ UNCHANGED <<hkt, hourKey, old, dir, aside>>
  BY DEF Sound, ProcTypes, Write, At, Alone, AtFile
<1> DEFINE with(k) == [buf[k] EXCEPT !.memory = @ \cup {rows + 1}]
<1>2. PICK full \in SUBSET Files :
         /\ buf' = [k \in Files |-> IF k \in full THEN Flushed(with(k)) ELSE with(k)]
         /\ file' = [i \in DOMAIN file |->
                IF \E k \in full : buf[k].file = i
                THEN LET k == CHOOSE x \in full : buf[x].file = i
                     IN  [rows |-> (file[i].rows \cap buf[k].flushed) \cup with(k).memory,
                          footer |-> FALSE]
                ELSE file[i]]
  BY DEF Write
<1>3. /\ DiskTypes /\ buf \in [Files -> Buffers] /\ hourKey \in Hours /\ hkt \in Hours
      /\ rows + 1 \in Nat /\ old = NoBuf /\ \A j \in Files : KindInv(j)
  BY <1>1 DEF Sound, DiskTypes, OldInv, At, Alone
<1>4. \A j \in Files : ~NotOpen(j) /\ ~Rolled(j) /\ ~NotOpen(j)' /\ ~Rolled(j)'
  BY <1>1 DEF NotOpen, Rolled, At
<1>5. ASSUME NEW j \in Files
      PROVE  /\ Writes(dir, file, buf[j], j, hourKey) /\ NothingLater(dir, j, hourKey)
             /\ NothingLater(dir, j, hkt) /\ Finished(dir, file, j, hkt)
  BY <1>3, <1>4 DEF KindInv
<1>6. /\ file \in Seq(FileRecord) /\ dir \in [Entries -> 0 .. Len(file)] /\ OneName(dir)
      /\ Len(file) \in Nat /\ DOMAIN file = 1 .. Len(file)
  BY <1>3, LenProperties DEF DiskTypes
<1>7. ASSUME NEW j \in Files
      PROVE  /\ Tmp(j, hourKey) \in Entries /\ Tmp(j, hourKey)[1] = j
             /\ dir[Tmp(j, hourKey)] # 0 /\ buf[j].file = dir[Tmp(j, hourKey)]
             /\ buf[j].file \in 1 .. Len(file)
             /\ file[buf[j].file].rows = buf[j].flushed
  <2>1. Tmp(j, hourKey) \in Entries /\ Tmp(j, hourKey)[1] = j
    BY <1>3, Names
  <2>. QED BY <1>5, <1>6, <2>1 DEF Writes
<1>8. \A j, k \in Files : buf[j].file = buf[k].file => j = k
  BY <1>6, <1>7 DEF OneName
<1>9. ASSUME NEW j \in Files
      PROVE  /\ with(j).memory = buf[j].memory \cup {rows + 1} /\ with(j).flushed = buf[j].flushed
             /\ with(j).file = buf[j].file /\ with(j).hour = buf[j].hour /\ with(j) \in Buffers
             /\ j \in full => /\ buf'[j].flushed = buf[j].flushed \cup buf[j].memory \cup {rows + 1}
                              /\ buf'[j].memory = {}
             /\ j \notin full => /\ buf'[j].flushed = buf[j].flushed
                                 /\ buf'[j].memory = buf[j].memory \cup {rows + 1}
             /\ buf'[j].file = buf[j].file /\ buf'[j].hour = buf[j].hour /\ buf'[j] \in Buffers
  <2>1. buf[j] \in Buffers
    BY <1>3
  <2>2. /\ with(j).memory = buf[j].memory \cup {rows + 1} /\ with(j).flushed = buf[j].flushed
        /\ with(j).file = buf[j].file /\ with(j).hour = buf[j].hour /\ with(j) \in Buffers
    BY <1>3, <2>1 DEF Buffers
  <2>3. buf'[j] = IF j \in full THEN Flushed(with(j)) ELSE with(j)
    BY <1>2
  <2>. HIDE DEF with
  <2>4. /\ Flushed(with(j)).flushed = with(j).flushed \cup with(j).memory
        /\ Flushed(with(j)).memory = {} /\ Flushed(with(j)).file = with(j).file
        /\ Flushed(with(j)).hour = with(j).hour /\ Flushed(with(j)) \in Buffers
    BY <2>2 DEF Flushed, Buffers
  <2>. QED BY <2>2, <2>3, <2>4
<1>10. ASSUME NEW k \in full
       PROVE  file'[buf[k].file] = [rows |-> buf[k].flushed \cup buf[k].memory \cup {rows + 1},
                                    footer |-> FALSE]
  <2>1. k \in Files
    OBVIOUS
  <2>2. PICK i \in 1 .. Len(file) : i = buf[k].file
    BY <1>7, <2>1
  <2>3. (CHOOSE x \in full : buf[x].file = i) = k
    BY <1>8, <2>1, <2>2
  <2>4. file'[i] = [rows |-> (file[i].rows \cap buf[k].flushed) \cup with(k).memory, footer |-> FALSE]
    BY <1>2, <1>6, <2>2, <2>3
  <2>5. (file[i].rows \cap buf[k].flushed) \cup with(k).memory
          = buf[k].flushed \cup buf[k].memory \cup {rows + 1}
    BY <1>7, <1>9, <2>1, <2>2
  <2>. QED BY <2>2, <2>4, <2>5
<1>11. \A i \in 1 .. Len(file) : (\A k \in full : buf[k].file # i) => file'[i] = file[i]
  BY <1>2, <1>6
<1>12. file' \in Seq(FileRecord) /\ Len(file') = Len(file)
  <2>1. ASSUME NEW i \in 1 .. Len(file) PROVE file'[i] \in FileRecord
    <3>1. CASE \E k \in full : buf[k].file = i
      <4>1. PICK k \in full : buf[k].file = i
        BY <3>1
      <4>2. buf[k].flushed \cup buf[k].memory \cup {rows + 1} \in SUBSET Nat
        <5>1. buf[k] \in Buffers
          BY <1>3
        <5>. QED BY <1>3, <5>1 DEF Buffers
      <4>3. file'[i] = [rows |-> buf[k].flushed \cup buf[k].memory \cup {rows + 1},
                        footer |-> FALSE]
        BY <1>10, <4>1
      <4>. QED BY <4>2, <4>3 DEF FileRecord
    <3>2. CASE \A k \in full : buf[k].file # i
      BY <1>6, <1>11, <3>2, ElementOfSeq
    <3>. QED BY <3>1, <3>2
  <2>2. DOMAIN file' = 1 .. Len(file) /\ file' = [i \in DOMAIN file |-> file'[i]]
    BY <1>2, <1>6
  <2>3. file' \in [1 .. Len(file) -> FileRecord]
    BY <1>6, <2>1, <2>2
  <2>. QED BY <1>6, <2>3, LenProperties
<1>. HIDE DEF with
<1>13. \A y \in Entries : dir[y] # 0 /\ (\A k \in full : y # Tmp(k, hourKey)) => file'[dir[y]] = file[dir[y]]
  <2> SUFFICES ASSUME NEW y \in Entries, dir[y] # 0, \A k \in full : y # Tmp(k, hourKey)
               PROVE  file'[dir[y]] = file[dir[y]]
    OBVIOUS
  <2>1. dir[y] \in 1 .. Len(file)
    BY <1>6
  <2>2. \A k \in full : buf[k].file # dir[y]
    BY <1>6, <1>7 DEF OneName
  <2>. QED BY <1>11, <2>1, <2>2
<1>14. buf' \in [Files -> Buffers]
  <2>1. buf' = [k \in Files |-> buf'[k]]
    BY <1>2
  <2>. QED BY <1>9, <2>1
<1>15. DiskTypes'
  BY <1>1, <1>3, <1>6, <1>12, <1>14 DEF DiskTypes
<1>16. ProcTypes' /\ OldInv' /\ HourInv'
  <2>1. ProcTypes'
    BY <1>1 DEF ProcTypes, Alone
  <2>2. OldInv'
    BY <1>1, <1>3 DEF OldInv, At
  <2>3. HourInv'
    BY <1>1 DEF Sound, HourInv, At
  <2>. QED BY <2>1, <2>2, <2>3
<1>17. ASSUME NEW j \in Files
       PROVE  KindInv(j)' /\ OnDisk(j) \cup InMemory(j) \subseteq (OnDisk(j) \cup InMemory(j))'
  <2>1. PICK x \in Entries : x = Tmp(j, hourKey) /\ x[1] = j
    BY <1>7
  <2>2. \A y \in Entries : y[1] = j /\ y # x /\ dir[y] # 0 => file'[dir[y]] = file[dir[y]]
    BY <1>7, <1>13, <2>1
  <2>3. \A g \in Hours :
           /\ dir[Parquet(j, g)] # 0 => file'[dir[Parquet(j, g)]] = file[dir[Parquet(j, g)]]
           /\ g # hourKey /\ dir[Tmp(j, g)] # 0 => file'[dir[Tmp(j, g)]] = file[dir[Tmp(j, g)]]
    BY <1>3, <2>1, <2>2, Names
  <2>4. j \in full => file'[dir[x]].rows = buf[j].flushed \cup buf[j].memory \cup {rows + 1}
    <3>1. buf[j].file = dir[x]
      BY <1>7, <2>1
    <3>2. j \in full => file'[buf[j].file]
                          = [rows |-> buf[j].flushed \cup buf[j].memory \cup {rows + 1},
                             footer |-> FALSE]
      BY <1>10
    <3>. QED BY <3>1, <3>2
  <2>5. j \notin full => file'[dir[x]] = file[dir[x]]
    <3>1. j \notin full => \A k \in full : x # Tmp(k, hourKey)
      BY <1>7, <2>1
    <3>. QED BY <1>7, <1>13, <2>1, <3>1
  <2>6. dir[x] # 0 /\ file[dir[x]].rows = buf[j].flushed
    BY <1>7, <2>1
  <2>7. file'[dir[x]].rows = buf'[j].flushed
    BY <1>9, <2>4, <2>5, <2>6
  <2>8. buf[j].flushed \cup buf[j].memory \subseteq buf'[j].flushed \cup buf'[j].memory
    BY <1>9
  <2>9. Writes(dir', file', buf'[j], j, hourKey)
    BY <1>1, <1>3, <1>5, <1>9, <2>1, <2>3, <2>7, <2>8 DEF Writes
  <2>10. Finished(dir', file', j, hkt)
    <3>1. dir[Parquet(j, hourKey)] # 0 => file[dir[Parquet(j, hourKey)]].footer
      BY <1>5 DEF Writes
    <3>. QED BY <1>1, <1>5, <2>3, <3>1 DEF Finished
  <2>11. KindInv(j)'
    BY <1>1, <1>4, <1>5, <2>9, <2>10 DEF KindInv
  <2>12. buf'[j].flushed \subseteq OnDisk(j)'
    BY <1>1, <2>1, <2>6, <2>7, RowsFoundNext
  <2>13. InMemory(j) = buf[j].memory /\ buf'[j].memory \subseteq InMemory(j)'
    BY <1>3 DEF InMemory, NoBuf
  <2>14. ASSUME NEW y \in Entries, y[1] = j, dir[y] # 0
         PROVE  file[dir[y]].rows \subseteq (OnDisk(j) \cup InMemory(j))'
    <3>1. CASE y = x
      BY <2>6, <2>8, <2>12, <2>13, <3>1
    <3>2. CASE y # x
      BY <1>1, <2>2, <2>14, <3>2, RowsFoundNext
    <3>. QED BY <3>1, <3>2
  <2>15. aside[j] \subseteq OnDisk(j)'
    BY <1>1, RowsFoundNext
  <2>. QED BY <2>8, <2>11, <2>12, <2>13, <2>14, <2>15, RowsFound
<1>. QED BY <1>15, <1>16, <1>17 DEF Sound, KeepsRows

(* Steps that leave the disk and the writers alone.                        *)
LEMMA DiskStays ==
    ASSUME Sound, UNCHANGED <<hourKey, buf, old, dir, file, aside, rows>>,
           hkt' \in Hours, hkt' >= hkt, ProcTypes', HourInv', OldInv',
           \A k \in Files : (NotOpen(k)' <=> NotOpen(k)) /\ (Rolled(k)' <=> Rolled(k)),
           hkt' = hkt \/ \A k \in Files : ~Rolled(k)
    PROVE  Sound'
<1>1. DiskTypes'
  BY DEF Sound, DiskTypes
<1>2. hkt \in Nat /\ hkt' \in Nat
  BY Numbers DEF Sound, DiskTypes
<1>3. ASSUME NEW k \in Files PROVE KindInv(k)'
  <2>1. KindInv(k) /\ NothingLater(dir, k, hkt) /\ Finished(dir, file, k, hkt)
    BY DEF Sound, KindInv
  <2>2. NothingLater(dir, k, hkt')
    BY <1>2, <2>1, Numbers DEF NothingLater
  <2>3. Finished(dir, file, k, hkt')
    BY <1>2, <2>1, Numbers DEF Finished
  <2>. QED BY <2>1, <2>2, <2>3 DEF KindInv
<1>. QED BY <1>1, <1>3 DEF Sound

LEMMA SameDisk ==
    ASSUME UNCHANGED <<dir, file, aside>>, NEW k \in Files
    PROVE  OnDisk(k)' = OnDisk(k)
BY DEF OnDisk, Exists, Content

LEMMA SameRows ==
    ASSUME UNCHANGED <<dir, file, aside, buf, old>>, old = NoBuf
    PROVE  KeepsRows
<1> SUFFICES ASSUME NEW k \in Files
             PROVE  OnDisk(k) \cup InMemory(k) \subseteq (OnDisk(k) \cup InMemory(k))'
  BY DEF KeepsRows
<1>1. OnDisk(k)' = OnDisk(k)
  BY SameDisk
<1>2. InMemory(k) = buf[k].memory /\ InMemory(k)' = buf[k].memory
  BY DEF InMemory, NoBuf
<1>. QED BY <1>1, <1>2

(* A start, a look at the clock, a tick without a quote, the next hour.    *)
Quiet == StartProcess \/ Recovered \/ CheckHour \/ NoSample \/ NextHour

LEMMA QuietKeeps ==
    ASSUME Sound, Quiet
    PROVE  Sound' /\ KeepsRows
<1>1. UNCHANGED <<hourKey, buf, old, dir, file, aside, rows>>
  BY DEF Quiet, StartProcess, Recovered, CheckHour, NoSample, NextHour, diskVars
<1>2. /\ hkt \in Hours /\ hourKey \in Hours /\ hkt \in Nat /\ hourKey \in Nat /\ hourKey <= hkt
      /\ ProcTypes /\ OldInv /\ HourInv
  BY Numbers DEF Sound, DiskTypes, HourInv
<1>3. CASE StartProcess
  <2>1. proc = At("down", 0) /\ proc' = At("orphans", 0) /\ hkt' = hkt
    BY <1>3 DEF StartProcess, Down
  <2>2. old = NoBuf /\ OldInv'
    BY <1>1, <1>2, <2>1 DEF OldInv, At, Alone
  <2>3. ProcTypes' /\ HourInv'
    BY <1>1, <1>2, <2>1 DEF ProcTypes, HourInv, At, Alone
  <2>4. \A k \in Files : (NotOpen(k)' <=> NotOpen(k)) /\ (Rolled(k)' <=> Rolled(k))
    BY <2>1 DEF NotOpen, Rolled, At
  <2>. QED BY <1>1, <1>2, <2>1, <2>2, <2>3, <2>4, DiskStays, SameRows
<1>4. CASE Recovered
  <2>1. proc = At("orphans", 0) /\ proc' = At("new", 1) /\ hkt' = hkt
    BY <1>4 DEF Recovered
  <2>2. old = NoBuf /\ OldInv'
    BY <1>1, <1>2, <2>1 DEF OldInv, At, Alone
  <2>3. ProcTypes' /\ HourInv'
    BY <1>1, <1>2, <2>1, Numbers DEF ProcTypes, HourInv, At, AtFile
  <2>4. \A k \in Files : (NotOpen(k)' <=> NotOpen(k)) /\ (Rolled(k)' <=> Rolled(k))
    BY <2>1, Numbers DEF NotOpen, Rolled, At
  <2>. QED BY <1>1, <1>2, <2>1, <2>2, <2>3, <2>4, DiskStays, SameRows
<1>5. CASE CheckHour
  <2>1. /\ proc = At("check", 0) /\ hkt' = hkt
        /\ proc' = IF hkt = hourKey THEN At("write", 0) ELSE At("open", 1)
    BY <1>2, <1>5 DEF CheckHour, ProcTypes, At, Alone, AtFile
  <2>2. old = NoBuf /\ OldInv'
    BY <1>1, <1>2, <2>1 DEF OldInv, At, Alone
  <2>3. ProcTypes'
    BY <2>1, Numbers DEF ProcTypes, Alone, AtFile
  <2>4. HourInv'
    BY <1>1, <1>2, <2>1 DEF HourInv, At
  <2>5. \A k \in Files : (NotOpen(k)' <=> NotOpen(k)) /\ (Rolled(k)' <=> Rolled(k))
    BY <2>1, Numbers DEF NotOpen, Rolled, At
  <2>. QED BY <1>1, <1>2, <2>1, <2>2, <2>3, <2>4, <2>5, DiskStays, SameRows
<1>6. CASE NoSample
  <2>1. proc = At("write", 0) /\ proc' = At("check", 0) /\ hkt' = hkt
    BY <1>2, <1>6 DEF NoSample, ProcTypes, At, Alone, AtFile
  <2>2. old = NoBuf /\ OldInv'
    BY <1>1, <1>2, <2>1 DEF OldInv, At, Alone
  <2>3. ProcTypes' /\ HourInv'
    BY <1>1, <1>2, <2>1 DEF ProcTypes, HourInv, At, Alone
  <2>4. \A k \in Files : (NotOpen(k)' <=> NotOpen(k)) /\ (Rolled(k)' <=> Rolled(k))
    BY <2>1 DEF NotOpen, Rolled, At
  <2>. QED BY <1>1, <1>2, <2>1, <2>2, <2>3, <2>4, DiskStays, SameRows
<1>7. CASE NextHour
  <2>1. hkt < MaxHour /\ hkt' = hkt + 1 /\ proc' = proc
    BY <1>7 DEF NextHour
  <2>2. hkt' \in Hours /\ hkt' >= hkt
    BY <1>2, <2>1, BoundAssumption DEF Hours
  <2>3. proc.at \in {"down", "check", "write"} \/ proc = At("new", 1)
    BY <1>7 DEF NextHour
  <2>4. old = NoBuf /\ OldInv' /\ \A k \in Files : ~Rolled(k)
    BY <1>1, <1>2, <2>1, <2>3, Numbers DEF OldInv, At, Alone, Rolled
  <2>5. ProcTypes'
    BY <1>2, <2>1 DEF ProcTypes
  <2>6. HourInv'
    BY <1>1, <1>2, <2>1, <2>3 DEF HourInv, At
  <2>7. \A k \in Files : (NotOpen(k)' <=> NotOpen(k)) /\ (Rolled(k)' <=> Rolled(k))
    BY <2>1 DEF NotOpen, Rolled
  <2>. QED BY <1>1, <2>2, <2>4, <2>5, <2>6, <2>7, DiskStays, SameRows
<1>. QED BY <1>3, <1>4, <1>5, <1>6, <1>7 DEF Quiet

(* A crash takes the writers, and leaves every entry and every file.       *)
LEMMA CrashLeavesTheDisk ==
    ASSUME Sound, CrashProcess
    PROVE  Sound' /\ proc' = Down /\ \A k \in Files : OnDisk(k)' = OnDisk(k)
<1>1. /\ UNCHANGED <<hkt, hourKey, dir, file, aside, rows>>
      /\ proc' = Down /\ old' = NoBuf /\ buf' = [k \in Files |-> NoBuf]
  BY DEF CrashProcess, diskVars
<1>2. NoBuf \in Buffers
  BY Numbers DEF NoBuf, Buffers
<1>3. DiskTypes'
  <2>1. buf' \in [Files -> Buffers] /\ old' \in Buffers
    BY <1>1, <1>2
  <2>. QED BY <1>1, <2>1 DEF Sound, DiskTypes
<1>4. ProcTypes' /\ OldInv' /\ HourInv'
  BY <1>1 DEF Sound, ProcTypes, OldInv, HourInv, Down, At, Alone
<1>5. ASSUME NEW k \in Files PROVE KindInv(k)'
  <2>1. NothingLater(dir, k, hkt) /\ Finished(dir, file, k, hkt)
    BY DEF Sound, KindInv
  <2>2. NotOpen(k)'
    BY <1>1 DEF NotOpen, Down, At
  <2>. QED BY <1>1, <2>1, <2>2 DEF KindInv
<1>6. \A k \in Files : OnDisk(k)' = OnDisk(k)
  BY <1>1, SameDisk
<1>. QED BY <1>1, <1>3, <1>4, <1>5, <1>6 DEF Sound

-----------------------------------------------------------------------------
LEMMA FileInvInit == HourFileInit => FileInv
<1> SUFFICES ASSUME HourFileInit PROVE FileInv
  OBVIOUS
<1> USE DEF HourFileInit
<1>1. NoBuf \in Buffers
  BY Numbers DEF NoBuf, Buffers
<1>2. \A x \in Entries : dir[x] = 0
  OBVIOUS
<1>3. DiskTypes
  <2>1. file \in Seq(FileRecord) /\ Len(file) = 0
    BY EmptySeq
  <2>2. dir \in [Entries -> 0 .. Len(file)]
    BY <2>1
  <2>3. OneName(dir)
    BY <1>2 DEF OneName
  <2>4. /\ buf \in [Files -> Buffers] /\ old \in Buffers /\ aside \in [Files -> SUBSET Nat]
        /\ hkt \in Hours /\ hourKey \in Hours /\ rows \in Nat
    BY <1>1, Numbers
  <2>. QED BY <2>1, <2>2, <2>3, <2>4 DEF DiskTypes
<1>4. ProcTypes /\ OldInv /\ HourInv
  BY DEF ProcTypes, OldInv, HourInv, Down, At, Alone
<1>5. ASSUME NEW k \in Files PROVE KindInv(k)
  <2>1. NothingLater(dir, k, hkt) /\ Finished(dir, file, k, hkt)
    BY <1>2, Names DEF NothingLater, Finished
  <2>2. NotOpen(k) /\ buf[k] = NoBuf
    BY DEF NotOpen, Down, At
  <2>. QED BY <2>1, <2>2 DEF KindInv
<1>. QED BY <1>3, <1>4, <1>5 DEF FileInv, Sound

(* What a step may take away.                                              *)
Loses ==
    \A k \in Files :
      \/ doubt'
      \/ OnDisk(k) \cup InMemory(k) \subseteq (OnDisk(k) \cup InMemory(k))'
      \/ proc' = Down /\ OnDisk(k) \subseteq OnDisk(k)'

LEMMA FileInvStep ==
    ASSUME FileInv, HourFileNext
    PROVE  FileInv' /\ Loses
<1>1. doubt \in BOOLEAN /\ (~doubt => Sound)
  BY DEF FileInv
<1>2. doubt' \in BOOLEAN /\ (doubt => doubt')
  <2>1. doubt' = doubt \/ New \/ SealFails
    BY DEF HourFileNext, Work, StartProcess, OpenOrphan, FinishOrphan, RemoveOrphan, Recovered,
           CheckHour, Write, NoSample, OpenNext, Close, Rename, LastRename, Stop, CrashProcess,
           NextHour
  <2>2. New => doubt' = (doubt \/ (Exists(Tmp(proc.k, hkt)) /\ Exists(Parquet(proc.k, hkt))))
    BY DEF New, OpenForHour
  <2>3. SealFails => doubt' = TRUE
    BY DEF SealFails
  <2>4. Exists(Tmp(proc.k, hkt)) \in BOOLEAN /\ Exists(Parquet(proc.k, hkt)) \in BOOLEAN
    BY DEF Exists
  <2>5. New => doubt' \in BOOLEAN /\ (doubt => doubt')
    BY <1>1, <2>2, <2>4
  <2>. QED BY <1>1, <2>1, <2>3, <2>5
<1>3. CASE doubt'
  BY <1>2, <1>3 DEF FileInv, Loses
<1>4. CASE ~doubt'
  <2>1. Sound
    BY <1>1, <1>2, <1>4
  <2>2. CASE CrashProcess
    BY <1>2, <2>1, <2>2, CrashLeavesTheDisk DEF FileInv, Loses
  <2>3. CASE ~CrashProcess
    <3>1. ~SealFails
      BY <1>4 DEF SealFails
    <3>2. Sound' /\ KeepsRows
      <4>1. CASE Quiet
        BY <2>1, <4>1, QuietKeeps
      <4>2. CASE OpenOrphan \/ FinishOrphan \/ RemoveOrphan \/ New
        BY <1>4, <2>1, <4>2, OpenOrphanKeeps, FinishOrphanKeeps, RemoveOrphanKeeps, NewKeeps
      <4>3. CASE Write \/ OpenNext \/ Close \/ Rename \/ LastRename \/ Stop
        BY <2>1, <4>3, WriteKeeps, OpenNextKeeps, CloseKeeps, RenameKeeps, LastRenameKeeps,
           StopKeeps
      <4>. QED BY <2>3, <3>1, <4>1, <4>2, <4>3 DEF HourFileNext, Work, Quiet
    <3>. QED BY <1>2, <3>2 DEF FileInv, Loses, KeepsRows
  <2>. QED BY <2>2, <2>3
<1>. QED BY <1>3, <1>4

LEMMA FileStutters ==
    ASSUME FileInv, UNCHANGED hourFileVars
    PROVE  FileInv'
<1> USE DEF hourFileVars, diskVars
<1>1. DiskTypes' <=> DiskTypes
  BY DEF DiskTypes
<1>2. (ProcTypes' <=> ProcTypes) /\ (OldInv' <=> OldInv) /\ (HourInv' <=> HourInv)
  BY DEF ProcTypes, OldInv, HourInv
<1>3. \A k \in Files : KindInv(k)' <=> KindInv(k)
  BY DEF KindInv, NotOpen, Rolled
<1>. QED BY <1>1, <1>2, <1>3 DEF FileInv, Sound

LEMMA HourFileInvariant == HourFileSpec => []FileInv
<1>1. HourFileInit => FileInv
  BY FileInvInit
<1>2. FileInv /\ [HourFileNext]_hourFileVars => FileInv'
  BY FileInvStep, FileStutters
<1>. QED BY <1>1, <1>2, PTL DEF HourFileSpec

(* Whatever crashes and restarts there have been: a sealed name without a  *)
(* footer is the unfinished copy of an orphan of an hour that is over, and *)
(* that orphan is still under its .tmp with its footer, so the rows can be *)
(* copied again.                                                           *)
THEOREM OrphansOutliveTheirCopies == HourFileSpec => []CopyKeepsOrphan
<1>1. FileInv => CopyKeepsOrphan
  <2> SUFFICES ASSUME FileInv, ~doubt, NEW k \in Files, NEW h \in Hours,
                      Exists(Parquet(k, h)), ~Content(Parquet(k, h)).footer
               PROVE  Readable(Tmp(k, h))
    BY DEF CopyKeepsOrphan
  <2>1. Finished(dir, file, k, hkt)
    BY DEF FileInv, Sound, KindInv
  <2>. QED BY <2>1 DEF Finished, Exists, Content, Readable
<1>. QED BY <1>1, HourFileInvariant, PTL

(* Of the rows a kind has on the disk or in its writer every step keeps    *)
(* all, at any number of files, hours, samples and restarts, and a crash   *)
(* keeps those on the disk; until a seal fails or a start finds both files *)
(* of its hour.                                                            *)
THEOREM RowsSurvive == HourFileSpec => OnlyCrashLoses
<1>1. FileInv /\ [HourFileNext]_hourFileVars => [Loses]_hourFileVars
  BY FileInvStep
<1>2. HourFileSpec => [][Loses]_hourFileVars
  BY <1>1, HourFileInvariant, PTL DEF HourFileSpec
<1>. QED BY <1>2 DEF OnlyCrashLoses, Loses
=============================================================================
