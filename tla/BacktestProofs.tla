--------------------------- MODULE BacktestProofs ---------------------------
(***************************************************************************)
(* Proofs about the replay, for any windows, rows, strategies and limits:  *)
(* it implements TradeLifecycle, its streak never runs past the limit, a   *)
(* position rides to the end of its window only in silence, and an entry   *)
(* is judged on the prices of its own window.                              *)
(***************************************************************************)
EXTENDS Backtest, MachineProofs, FiniteSetTheorems

(* A window ends after the one before it and is CycleLen long.             *)
LEMMA WindowsGrow ==
    ASSUME NEW c \in Nat
    PROVE  /\ Start(c) \in Nat /\ End(c) \in Nat
           /\ End(c) > 0 /\ End(c) = Start(c) + CycleLen /\ End(c + 1) > End(c)
  BY BacktestAssumption DEF Start, End

(* A set of which any two members are equal has at most one.               *)
LEMMA AtMostOne ==
    ASSUME NEW S, \A x, y \in S : x = y
    PROVE  /\ Cardinality(S) \in {0, 1}
           /\ S = {} => Cardinality(S) = 0
<1>1. CASE S = {}
  BY <1>1, FS_EmptySet
<1>2. CASE S # {}
  <2>1. PICK x : S = {x}
    BY <1>2
  <2>. QED BY <1>2, <2>1, FS_Singleton
<1>. QED BY <1>1, <1>2

-----------------------------------------------------------------------------
(* The inductive invariants.                                               *)

Types ==
    /\ cycle \in Nat /\ replaying \in BOOLEAN
    /\ machines \in [Traded -> Machines]
    /\ halts \in [Traded -> Trackers]
    /\ now \in Int /\ seen \subseteq {"binance", "poly"}

(* What is held was bought in the window that is being replayed.           *)
Windows ==
    /\ replaying => Start(cycle) <= now
    /\ \A s \in Traded :
        /\ machines[s].kind = s
        /\ machines[s].end <= End(cycle)
        /\ replaying => machines[s].end = End(cycle)
        /\ IsHolding(machines[s]) => replaying /\ machines[s].fired

ReplayInv == Types /\ Windows /\ RidesOnlyInSilence

(* A machine has at most one trade in a window, none before it has fired.  *)
None(s) == \A r \in completed : r.strategy # s
Counting ==
    /\ \A r, q \in completed : r.strategy = q.strategy => r = q
    /\ \A s \in Traded :
        /\ ~machines[s].fired \/ IsHolding(machines[s]) => None(s)
        /\ machines[s].state = Halted => ~machines[s].fired
        /\ HaltMax > 0 /\ replaying /\ machines[s].state # Halted
               => halts[s].losses < HaltMax

StreakInv == Counting /\ StreakNeverOvershoots

(* What is latched was seen in this window.                                *)
JudgeInv ==
    replaying => \A s \in Traded :
        /\ machines[s].sawLow # {} \/ machines[s].dipped # {} =>
               machines[s].ts >= Start(cycle)
        /\ machines[s].price > 0 => "binance" \in seen
        /\ IsHolding(machines[s]) =>
               /\ machines[s].state.entry_price_ts >= Start(cycle)
               /\ s # "v_shape" => "binance" \in seen

-----------------------------------------------------------------------------
(* What a row does, whichever feed it is of.                               *)

MachineStep(m, n, records, ts) ==
    /\ n \in Machines /\ SameWindow(m, n)
    /\ OneRecordOf(m, records)
    /\ \/ LeavesStep(m, n)
       \/ records = {} /\ EntersStep(m, n) /\ Judged(n, ts)
       \/ /\ records = {} /\ StaysStep(m, n)
          /\ IsHolding(m) => m.end <= 0 \/ m.end - ts > ForceUnwind

(* Signals move by a quote, which is no older than the window, or by the   *)
(* price of the reference.                                                 *)
SignalStep(m, n, ts) ==
    \/ n.ts >= ts /\ n.price = m.price
    \/ /\ "binance" \in seen'
       /\ n.ts = m.ts /\ n.sawLow = m.sawLow /\ n.dipped = m.dipped

RowStep(recs, ts) ==
    /\ replaying /\ replaying' = TRUE /\ cycle' = cycle /\ halts' = halts
    /\ ts \in Int /\ ts >= now /\ now' = ts
    /\ seen \subseteq seen' /\ seen' \subseteq {"binance", "poly"}
    /\ machines' \in [Traded -> Machines]
    /\ completed' = completed \cup UNION {recs[s] : s \in Traded}
    /\ \A s \in Traded : /\ MachineStep(machines[s], machines'[s], recs[s], ts)
                         /\ SignalStep(machines[s], machines'[s], ts)

(* A row of the reference moves every machine by one step of its own.      *)
LEMMA BinanceRowStep ==
    ASSUME Types, NEW price \in RefPrices, NEW ts \in Start(cycle) .. End(cycle),
           BinanceRow(price, ts)
    PROVE  \E recs : RowStep(recs, ts)
<1> DEFINE t == [ts |-> ts, price |-> price]
           recs == [s \in Traded |-> BinanceRecords(machines[s], t)]
<1>1. ts \in Int /\ t \in BinanceTicks /\ t.ts = ts
  BY WindowsGrow, BacktestAssumption DEF Types, BinanceTicks
<1>2. /\ replaying /\ replaying' = TRUE /\ cycle' = cycle /\ halts' = halts
      /\ ts >= now /\ now' = ts
      /\ seen \subseteq seen' /\ seen' \subseteq {"binance", "poly"} /\ "binance" \in seen'
  BY <1>1 DEF BinanceRow, Row, InOrder, Types
<1>3. machines' = [s \in Traded |-> OnBinance(machines[s], t)]
  BY DEF BinanceRow
<1>4. completed' = completed \cup UNION {recs[s] : s \in Traded}
  <2>1. {recs[s] : s \in Traded} = {BinanceRecords(machines[s], t) : s \in Traded}
    OBVIOUS
  <2>. QED BY <2>1 DEF BinanceRow
<1>. HIDE DEF t
<1>5. ASSUME NEW s \in Traded
      PROVE  /\ MachineStep(machines[s], machines'[s], recs[s], ts)
             /\ SignalStep(machines[s], machines'[s], ts)
  <2>1. machines[s] \in Machines
    BY DEF Types
  <2>2. machines'[s] = OnBinance(machines[s], t)
    BY <1>3
  <2>3. SameSignals(ObserveBinance(machines[s], t), machines'[s])
    BY <1>1, <2>1, <2>2, OnBinanceStep
  <2>4. MachineStep(machines[s], machines'[s], recs[s], ts)
    BY <1>1, <2>1, <2>2, OnBinanceStep, ObserveBinanceStep
       DEF MachineStep, SameSignals, SameWindow
  <2>5. SignalStep(machines[s], machines'[s], ts)
    BY <1>1, <1>2, <2>1, <2>3, ObserveBinanceStep DEF SignalStep, SameSignals
  <2>. QED BY <2>4, <2>5
<1>6. machines' \in [Traded -> Machines]
  BY <1>3, <1>5 DEF MachineStep
<1>. QED BY <1>1, <1>2, <1>4, <1>5, <1>6 DEF RowStep

(* So does a row of the market.                                            *)
LEMMA PolyRowStep ==
    ASSUME Types, NEW q \in Quotes, NEW ts \in Start(cycle) .. End(cycle), PolyRow(q, ts)
    PROVE  \E recs : RowStep(recs, ts)
<1> DEFINE t == [ts |-> ts, up |-> q.up, dn |-> q.dn]
           recs == [s \in Traded |-> PolyRecords(machines[s], t)]
<1>1. ts \in Int /\ t \in PolyTicks /\ t.ts = ts
  BY WindowsGrow, BacktestAssumption DEF Types, PolyTicks
<1>2. /\ replaying /\ replaying' = TRUE /\ cycle' = cycle /\ halts' = halts
      /\ ts >= now /\ now' = ts
      /\ seen \subseteq seen' /\ seen' \subseteq {"binance", "poly"}
  BY <1>1 DEF PolyRow, Row, InOrder, Types
<1>3. machines' = [s \in Traded |-> OnPoly(machines[s], t)]
  BY DEF PolyRow
<1>4. completed' = completed \cup UNION {recs[s] : s \in Traded}
  <2>1. {recs[s] : s \in Traded} = {PolyRecords(machines[s], t) : s \in Traded}
    OBVIOUS
  <2>. QED BY <2>1 DEF PolyRow
<1>. HIDE DEF t
<1>5. ASSUME NEW s \in Traded
      PROVE  /\ MachineStep(machines[s], machines'[s], recs[s], ts)
             /\ SignalStep(machines[s], machines'[s], ts)
  <2>1. machines[s] \in Machines
    BY DEF Types
  <2>2. machines'[s] = OnPoly(machines[s], t)
    BY <1>3
  <2>3. SameSignals(ObservePoly(machines[s], t), machines'[s])
    BY <1>1, <2>1, <2>2, OnPolyStep
  <2>4. MachineStep(machines[s], machines'[s], recs[s], ts)
    BY <1>1, <2>1, <2>2, OnPolyStep, ObservePolyStep
       DEF MachineStep, SameSignals, SameWindow
  <2>5. SignalStep(machines[s], machines'[s], ts)
    BY <1>1, <2>1, <2>3, ObservePolyStep DEF SignalStep, SameSignals
  <2>. QED BY <2>4, <2>5
<1>6. machines' \in [Traded -> Machines]
  BY <1>3, <1>5 DEF MachineStep
<1>. QED BY <1>1, <1>2, <1>4, <1>5, <1>6 DEF RowStep

-----------------------------------------------------------------------------
(* What the start of a window does.                                        *)

(* A session that starts over clears the streak or leaves it.              *)
LEMMA SessionReset ==
    ASSUME NEW h \in Trackers, NEW c \in Nat
    PROVE  /\ ResetIfNewSession(h, SessionOf(c)) \in Trackers
           /\ ResetIfNewSession(h, SessionOf(c)).losses \in {0, h.losses}
<1>1. SessionOf(c) \in Int
  BY SessionAssumption DEF SessionOf
<1>. QED BY <1>1 DEF ResetIfNewSession, Trackers

(* The next window in order may clear streaks and nothing else.            *)
LEMMA NextWindowStep ==
    ASSUME Types, NextWindow
    PROVE  /\ cycle' = cycle + 1 /\ cycle' \in Nat /\ ~replaying
           /\ halts' \in [Traded -> Trackers]
           /\ \A s \in Traded : halts'[s].losses \in {0, halts[s].losses}
  BY SessionReset DEF NextWindow, HaltsOf, Types

(* A window that is replayed starts with fresh machines, the halted ones   *)
(* kept out.                                                               *)
LEMMA OpenCycleStep ==
    ASSUME Types, NEW p \in RefPrices, OpenCycle(p)
    PROVE  /\ machines' \in [Traded -> Machines]
           /\ replaying' = TRUE /\ seen' = {} /\ completed' = {} /\ now' = Start(cycle')
           /\ \A s \in Traded :
                LET n == machines'[s]
                IN  /\ n.kind = machines[s].kind /\ n.end = End(cycle')
                    /\ ~n.fired /\ n.price = 0 /\ n.sawLow = {} /\ n.dipped = {}
                    /\ n.state = IF IsHalted(halts'[s]) THEN Halted ELSE Watching
<1>1. cycle' \in Nat /\ halts' = HaltsOf(cycle')
  BY NextWindowStep DEF OpenCycle, NextWindow
<1>2. End(cycle') \in Int /\ p \in Int
  BY <1>1, WindowsGrow, BacktestAssumption
<1>3. machines' = [s \in Traded |->
          CycleOpen(machines[s], End(cycle'), p, IsHalted(halts'[s]))]
  BY <1>1 DEF OpenCycle, Suppressed
<1>4. ASSUME NEW s \in Traded
      PROVE  LET n == machines'[s]
             IN  /\ n \in Machines /\ n.kind = machines[s].kind /\ n.end = End(cycle')
                 /\ ~n.fired /\ n.price = 0 /\ n.sawLow = {} /\ n.dipped = {}
                 /\ n.state = IF IsHalted(halts'[s]) THEN Halted ELSE Watching
  <2>1. machines[s] \in Machines /\ IsHalted(halts'[s]) \in BOOLEAN
    BY DEF Types, IsHalted
  <2>2. machines'[s] = CycleOpen(machines[s], End(cycle'), p, IsHalted(halts'[s]))
    BY <1>3
  <2>. QED BY <1>2, <2>1, <2>2, CycleOpenStep
<1>. QED BY <1>3, <1>4 DEF OpenCycle

(* What its end does.                                                      *)
CloseStep(recs) ==
    /\ replaying /\ replaying' = FALSE /\ cycle' = cycle /\ now' = now /\ seen' = seen
    /\ machines' \in [Traded -> Machines]
    /\ completed' = completed \cup UNION {recs[s] : s \in Traded}
    /\ halts' = Counted(halts, completed')
    /\ \A s \in Traded :
        /\ SameWindow(machines[s], machines'[s]) /\ ~IsHolding(machines'[s])
        /\ OneRecordOf(machines[s], recs[s])
        /\ \/ LeavesStep(machines[s], machines'[s])
           \/ /\ ~IsHolding(machines[s]) /\ recs[s] = {}
              /\ StaysStep(machines[s], machines'[s])

(* The end of a window leaves nobody holding, and each machine with at     *)
(* most one record more.                                                   *)
LEMMA CloseCycleStep ==
    ASSUME Types, CloseCycle
    PROVE  \E recs : CloseStep(recs)
<1> DEFINE recs == [s \in Traded |-> CloseRecords(machines[s])]
<1>1. /\ replaying /\ replaying' = FALSE /\ cycle' = cycle /\ now' = now /\ seen' = seen
      /\ halts' = Counted(halts, completed')
      /\ machines' = [s \in Traded |-> CycleClose(machines[s])]
  BY DEF CloseCycle
<1>2. completed' = completed \cup UNION {recs[s] : s \in Traded}
  <2>1. {recs[s] : s \in Traded} = {CloseRecords(machines[s]) : s \in Traded}
    OBVIOUS
  <2>. QED BY <2>1 DEF CloseCycle
<1>3. ASSUME NEW s \in Traded
      PROVE  /\ machines'[s] \in Machines
             /\ SameWindow(machines[s], machines'[s]) /\ ~IsHolding(machines'[s])
             /\ OneRecordOf(machines[s], recs[s])
             /\ \/ LeavesStep(machines[s], machines'[s])
                \/ /\ ~IsHolding(machines[s]) /\ recs[s] = {}
                   /\ StaysStep(machines[s], machines'[s])
  <2>1. machines[s] \in Machines
    BY DEF Types
  <2>2. machines'[s] = CycleClose(machines[s]) /\ recs[s] = CloseRecords(machines[s])
    BY <1>1
  <2>. QED BY <2>1, <2>2, CycleCloseStep DEF SameSignals, StaysStep
<1>4. machines' \in [Traded -> Machines]
  BY <1>1, <1>3
<1>. QED BY <1>1, <1>2, <1>3, <1>4 DEF CloseStep

-----------------------------------------------------------------------------
(* The types, the windows and the rides are one inductive invariant.       *)
(* The first state satisfies it.                                           *)
LEMMA ReplayInit == Init => ReplayInv
<1> SUFFICES ASSUME Init PROVE ReplayInv
  OBVIOUS
<1>1. \A s \in Traded : /\ machines[s] \in Machines /\ machines[s].kind = s
                        /\ machines[s].end = 0 /\ machines[s].state = Watching
  BY NewMachineStep, BacktestAssumption DEF Init
<1>2. \A s \in Traded : ~IsHolding(machines[s])
  BY <1>1 DEF IsHolding, Watching
<1>3. NewTracker \in Trackers
  BY DEF NewTracker, Trackers, NoSession
<1>4. Types
  <2>1. cycle \in Nat /\ now \in Int /\ seen = {} /\ replaying = FALSE
    BY DEF Init
  <2>2. machines \in [Traded -> Machines]
    BY <1>1 DEF Init
  <2>3. halts \in [Traded -> Trackers]
    BY <1>3 DEF Init
  <2>. QED BY <2>1, <2>2, <2>3 DEF Types
<1>5. End(cycle) > 0 /\ End(cycle) \in Nat /\ replaying = FALSE
  BY WindowsGrow DEF Init
<1>6. Windows
  BY <1>1, <1>2, <1>5 DEF Windows
<1>7. RidesOnlyInSilence
  BY <1>2 DEF RidesOnlyInSilence
<1>. QED BY <1>4, <1>6, <1>7 DEF ReplayInv

(* A row keeps it: what is still held after the row has just been bought   *)
(* or is not in its last seconds.                                          *)
LEMMA RowKeepsReplay ==
    ASSUME ReplayInv, NEW recs, NEW ts, RowStep(recs, ts)
    PROVE  ReplayInv'
<1>1. Types'
  BY DEF ReplayInv, Types, RowStep
<1>2. cycle \in Nat /\ End(cycle) \in Nat /\ End(cycle) > 0 /\ Start(cycle) \in Nat
      /\ End(cycle)' = End(cycle) /\ Start(cycle)' = Start(cycle)
  BY WindowsGrow DEF ReplayInv, Types, RowStep, Start, End
<1>3. Windows'
  <2>1. Start(cycle) <= now'
    BY <1>2 DEF ReplayInv, Windows, Types, RowStep
  <2>2. ASSUME NEW s \in Traded
        PROVE  /\ machines'[s].kind = s /\ machines'[s].end = End(cycle)
               /\ IsHolding(machines'[s]) => machines'[s].fired
    <3>1. /\ machines[s].kind = s /\ machines[s].end = End(cycle)
          /\ IsHolding(machines[s]) => machines[s].fired
      BY DEF ReplayInv, Windows, RowStep
    <3>2. MachineStep(machines[s], machines'[s], recs[s], ts)
      BY DEF RowStep
    <3>3. IsHolding(machines'[s]) => machines'[s].fired
      BY <3>1, <3>2 DEF MachineStep, LeavesStep, EntersStep, StaysStep, IsHolding, Watching
    <3>. QED BY <3>1, <3>2, <3>3 DEF MachineStep, SameWindow
  <2>. QED BY <1>2, <2>1, <2>2 DEF Windows, RowStep
<1>4. RidesOnlyInSilence'
  <2> SUFFICES ASSUME NEW s \in Traded, IsHolding(machines'[s]),
                      End(cycle) - now' <= ForceUnwind
               PROVE  machines'[s].state.entry_ts = now'
    BY <1>2 DEF RidesOnlyInSilence
  <2>1. machines[s].end = End(cycle) /\ now' = ts /\ ts \in Int
    BY DEF ReplayInv, Windows, RowStep
  <2>2. MachineStep(machines[s], machines'[s], recs[s], ts)
    BY DEF RowStep
  <2>3. ~LeavesStep(machines[s], machines'[s])
    BY DEF LeavesStep, IsHolding, Watching
  <2>4. ~(IsHolding(machines[s]) /\ (machines[s].end <= 0 \/ machines[s].end - ts > ForceUnwind))
    BY <1>2, <2>1, MachineAssumption
  <2>5. Judged(machines'[s], ts)
    BY <2>2, <2>3, <2>4 DEF MachineStep, StaysStep, IsHolding
  <2>. QED BY <2>1, <2>5 DEF Judged
<1>. QED BY <1>1, <1>3, <1>4 DEF ReplayInv

(* The start of a window keeps it: nothing is held.                        *)
LEMMA OpenKeepsReplay ==
    ASSUME ReplayInv, NEW p \in RefPrices, OpenCycle(p)
    PROVE  ReplayInv'
<1>1. NextWindow
  BY DEF OpenCycle
<1>2. /\ cycle' \in Nat /\ halts' \in [Traded -> Trackers]
      /\ Start(cycle') \in Nat /\ End(cycle') \in Nat
  BY <1>1, NextWindowStep, WindowsGrow DEF ReplayInv
<1>3. /\ machines' \in [Traded -> Machines]
      /\ replaying' = TRUE /\ seen' = {} /\ now' = Start(cycle')
  BY OpenCycleStep DEF ReplayInv
<1>4. ASSUME NEW s \in Traded
      PROVE  /\ ~IsHolding(machines'[s]) /\ machines'[s].end = End(cycle')
             /\ machines'[s].kind = s
  <2>1. /\ machines'[s].kind = machines[s].kind /\ machines'[s].end = End(cycle')
        /\ machines'[s].state \in {Halted, Watching}
    BY OpenCycleStep DEF ReplayInv
  <2>2. machines'[s] \in Machines
    BY <1>3
  <2>3. machines[s].kind = s
    BY DEF ReplayInv, Windows
  <2>. QED BY <2>1, <2>2, <2>3, Tags
<1>5. Types'
  BY <1>2, <1>3 DEF Types
<1>6. Windows'
  BY <1>2, <1>3, <1>4 DEF Windows
<1>. QED BY <1>4, <1>5, <1>6 DEF ReplayInv, RidesOnlyInSilence

(* A window left out keeps it: the machines are those of the window        *)
(* before.                                                                 *)
LEMMA SkipKeepsReplay ==
    ASSUME ReplayInv, SkipCycle
    PROVE  ReplayInv'
<1>1. /\ cycle' = cycle + 1 /\ cycle' \in Nat /\ ~replaying
      /\ halts' \in [Traded -> Trackers]
      /\ UNCHANGED <<machines, replaying, seen, now>>
  BY NextWindowStep DEF SkipCycle, ReplayInv
<1>2. End(cycle') > End(cycle) /\ End(cycle') \in Nat /\ End(cycle) \in Nat
  BY <1>1, WindowsGrow DEF ReplayInv, Types
<1>3. Types'
  BY <1>1 DEF ReplayInv, Types
<1>4. \A s \in Traded : machines[s].end \in Int
  BY DEF ReplayInv, Types, Machines
<1>5. Windows'
  BY <1>1, <1>2, <1>4 DEF ReplayInv, Windows
<1>. QED BY <1>1, <1>3, <1>5 DEF ReplayInv, RidesOnlyInSilence

(* When no strategy has two records, each counts at most one loss.         *)
LEMMA LossCount ==
    ASSUME NEW s \in Traded, NEW records, \A r, q \in records : r.strategy = q.strategy => r = q
    PROVE  /\ Cardinality(LossesOf(s, records)) \in {0, 1}
           /\ (\A r \in records : r.strategy # s) => Cardinality(LossesOf(s, records)) = 0
<1>1. \A x, y \in LossesOf(s, records) : x = y
  BY DEF LossesOf
<1>2. (\A r \in records : r.strategy # s) => LossesOf(s, records) = {}
  BY DEF LossesOf
<1>. HIDE DEF LossesOf
<1>. QED BY <1>1, <1>2, AtMostOne

(* A machine adds a record only when it has none in this window.           *)
LEMMA RecordsGrow ==
    ASSUME Windows, Counting, NEW recs,
           completed' = completed \cup UNION {recs[s] : s \in Traded},
           \A s \in Traded : OneRecordOf(machines[s], recs[s]),
           \A s \in Traded : recs[s] # {} => IsHolding(machines[s])
    PROVE  /\ \A r, q \in completed' : r.strategy = q.strategy => r = q
           /\ \A s \in Traded : None(s) /\ recs[s] = {} => None(s)'
<1>1. \A s \in Traded : \A r \in recs[s] : r.strategy = s
  BY DEF OneRecordOf, Windows
<1>2. \A r \in completed' : r \in completed \/ \E s \in Traded : r \in recs[s] /\ r.strategy = s
  BY <1>1
<1>3. \A s \in Traded : recs[s] # {} => None(s)
  BY DEF Counting
<1>4. \A s \in Traded : None(s) /\ recs[s] = {} => None(s)'
  BY <1>2 DEF None
<1>5. ASSUME NEW r \in completed', NEW q \in completed', r.strategy = q.strategy
      PROVE  r = q
  <2>1. CASE r \in completed /\ q \in completed
    BY <1>5, <2>1 DEF Counting
  <2>2. CASE r \in completed /\ q \notin completed
    BY <1>2, <1>3, <1>5, <2>2 DEF None
  <2>3. CASE r \notin completed /\ q \in completed
    BY <1>2, <1>3, <1>5, <2>3 DEF None
  <2>4. CASE r \notin completed /\ q \notin completed
    BY <1>2, <1>5, <2>4 DEF OneRecordOf
  <2>. QED BY <2>1, <2>2, <2>3, <2>4
<1>. QED BY <1>4, <1>5

(* Counting the losses adds what was lost and keeps the trackers.          *)
LEMMA CountedType ==
    ASSUME Types, NEW records, \A r, q \in records : r.strategy = q.strategy => r = q
    PROVE  /\ Counted(halts, records) \in [Traded -> Trackers]
           /\ \A s \in Traded :
                Counted(halts, records)[s].losses =
                    halts[s].losses + Cardinality(LossesOf(s, records))
<1>1. ASSUME NEW s \in Traded
      PROVE  /\ Counted(halts, records)[s] \in Trackers
             /\ Counted(halts, records)[s].losses =
                    halts[s].losses + Cardinality(LossesOf(s, records))
  <2> DEFINE k == Cardinality(LossesOf(s, records))
  <2>1. k \in Int
    BY LossCount
  <2>2. halts[s] \in Trackers
    BY DEF Types
  <2>3. Counted(halts, records)[s] = [halts[s] EXCEPT !.losses = @ + k]
    BY DEF Counted
  <2>. HIDE DEF k
  <2>4. /\ Counted(halts, records)[s] \in Trackers
        /\ Counted(halts, records)[s].losses = halts[s].losses + k
    BY <2>1, <2>2, <2>3 DEF Trackers
  <2>. QED BY <2>4 DEF k
<1>. QED BY <1>1 DEF Counted

(* The end of a window keeps it.                                           *)
LEMMA CloseKeepsReplay ==
    ASSUME ReplayInv, NEW recs, CloseStep(recs),
           \A r, q \in completed' : r.strategy = q.strategy => r = q
    PROVE  ReplayInv'
<1>1. halts' \in [Traded -> Trackers]
  BY CountedType DEF CloseStep, ReplayInv
<1>2. Types'
  BY <1>1 DEF CloseStep, ReplayInv, Types
<1>3. Windows'
  BY DEF CloseStep, ReplayInv, Windows, SameWindow
<1>. QED BY <1>2, <1>3 DEF ReplayInv, RidesOnlyInSilence, CloseStep

-----------------------------------------------------------------------------
(* The records and the latch agree: so the streak stays within its limit.  *)
Steps(m, n, records) ==
    /\ OneRecordOf(m, records)
    /\ \/ LeavesStep(m, n)
       \/ records = {} /\ (EntersStep(m, n) \/ StaysStep(m, n))

(* Whatever moves the machines keeps the records in step with the latches. *)
LEMMA CountingKept ==
    ASSUME Types, Windows, Counting, NEW recs,
           machines' \in [Traded -> Machines],
           completed' = completed \cup UNION {recs[s] : s \in Traded},
           \A s \in Traded : Steps(machines[s], machines'[s], recs[s])
    PROVE  /\ \A r, q \in completed' : r.strategy = q.strategy => r = q
           /\ \A s \in Traded :
                /\ ~machines'[s].fired \/ IsHolding(machines'[s]) => None(s)'
                /\ machines'[s].state = Halted <=> machines[s].state = Halted
                /\ machines'[s].state = Halted => ~machines'[s].fired
<1>1. \A s \in Traded : recs[s] # {} => IsHolding(machines[s])
  BY DEF Steps, LeavesStep
<1>2. /\ \A r, q \in completed' : r.strategy = q.strategy => r = q
      /\ \A s \in Traded : None(s) /\ recs[s] = {} => None(s)'
  BY <1>1, RecordsGrow DEF Steps
<1>3. ASSUME NEW s \in Traded
      PROVE  /\ ~machines'[s].fired \/ IsHolding(machines'[s]) => None(s)'
             /\ machines'[s].state = Halted <=> machines[s].state = Halted
             /\ machines'[s].state = Halted => ~machines'[s].fired
  <2> DEFINE m == machines[s]
             n == machines'[s]
  <2>1. m \in Machines /\ n \in Machines
    BY DEF Types
  <2>2. /\ IsHolding(m) => m.fired
        /\ ~m.fired \/ IsHolding(m) => None(s)
        /\ m.state = Halted => ~m.fired
    BY DEF Windows, Counting
  <2>. HIDE DEF m, n
  <2>3. CASE LeavesStep(m, n)
    <3>1. ~IsHolding(n) /\ n.fired /\ n.state # Halted /\ m.state # Halted
      BY <2>1, <2>2, <2>3, Tags DEF LeavesStep
    <3>. QED BY <3>1 DEF m, n
  <2>4. CASE recs[s] = {} /\ EntersStep(m, n)
    <3>1. None(s)'
      BY <1>2, <2>2, <2>4 DEF EntersStep
    <3>2. n.state # Halted /\ m.state # Halted
      BY <2>1, <2>4, Tags DEF EntersStep
    <3>. QED BY <3>1, <3>2 DEF m, n
  <2>5. CASE recs[s] = {} /\ StaysStep(m, n)
    <3>1. n.state = m.state /\ n.fired = m.fired /\ (IsHolding(n) <=> IsHolding(m))
      BY <2>5 DEF StaysStep, IsHolding
    <3>. QED BY <1>2, <2>2, <2>5, <3>1 DEF m, n
  <2>. QED BY <2>3, <2>4, <2>5 DEF Steps, m, n
<1>. QED BY <1>2, <1>3

(* At the start nothing is recorded and nothing is counted.                *)
LEMMA StreakInit == Init => StreakInv
<1> SUFFICES ASSUME Init PROVE StreakInv
  OBVIOUS
<1>1. replaying = FALSE /\ completed = {}
  BY DEF Init
<1>2. \A s \in Traded : machines[s].state = Watching /\ halts[s].losses = 0
  BY NewMachineStep, BacktestAssumption DEF Init, NewTracker
<1>3. Counting
  BY <1>1, <1>2, Tags DEF Counting, None
<1>. QED BY <1>2, <1>3, HaltMaxAssumption DEF StreakInv, StreakNeverOvershoots

(* A row adds records, the trackers wait for the end of the window.        *)
LEMMA RowKeepsStreak ==
    ASSUME ReplayInv, StreakInv, NEW recs, NEW ts, RowStep(recs, ts)
    PROVE  StreakInv'
<1>1. \A s \in Traded : Steps(machines[s], machines'[s], recs[s])
  BY DEF RowStep, MachineStep, Steps
<1>2. Types /\ Windows /\ Counting
  BY DEF ReplayInv, StreakInv
<1>3. /\ machines' \in [Traded -> Machines]
      /\ completed' = completed \cup UNION {recs[s] : s \in Traded}
      /\ replaying /\ replaying' = TRUE /\ halts' = halts
  BY DEF RowStep
<1>4. /\ \A r, q \in completed' : r.strategy = q.strategy => r = q
      /\ \A s \in Traded :
           /\ ~machines'[s].fired \/ IsHolding(machines'[s]) => None(s)'
           /\ machines'[s].state = Halted <=> machines[s].state = Halted
           /\ machines'[s].state = Halted => ~machines'[s].fired
  BY <1>1, <1>2, <1>3, CountingKept
<1>5. \A s \in Traded : HaltMax > 0 /\ machines[s].state # Halted => halts[s].losses < HaltMax
  BY <1>2, <1>3 DEF Counting
<1>6. Counting'
  BY <1>3, <1>4, <1>5 DEF Counting
<1>7. StreakNeverOvershoots'
  BY <1>3 DEF StreakInv, StreakNeverOvershoots
<1>. QED BY <1>6, <1>7 DEF StreakInv

(* A window starts with no records, and a machine under a full streak      *)
(* does not take part.                                                     *)
LEMMA OpenKeepsStreak ==
    ASSUME ReplayInv, StreakInv, NEW p \in RefPrices, OpenCycle(p)
    PROVE  StreakInv'
<1>1. /\ halts' \in [Traded -> Trackers]
      /\ \A s \in Traded : halts'[s].losses \in {0, halts[s].losses}
  BY NextWindowStep DEF OpenCycle, ReplayInv
<1>2. /\ completed' = {}
      /\ \A s \in Traded : /\ ~machines'[s].fired
                           /\ machines'[s].state # Halted => ~IsHalted(halts'[s])
  BY OpenCycleStep DEF ReplayInv
<1>3. ASSUME NEW s \in Traded, HaltMax > 0, machines'[s].state # Halted
      PROVE  halts'[s].losses < HaltMax
  BY <1>1, <1>2, <1>3, HaltMaxAssumption DEF IsHalted, Trackers
<1>4. Counting'
  BY <1>2, <1>3 DEF Counting, None
<1>5. StreakNeverOvershoots'
  BY <1>1, HaltMaxAssumption DEF StreakInv, StreakNeverOvershoots
<1>. QED BY <1>4, <1>5 DEF StreakInv

(* A window left out moves the trackers towards zero only.                 *)
LEMMA SkipKeepsStreak ==
    ASSUME ReplayInv, StreakInv, SkipCycle
    PROVE  StreakInv'
<1>1. /\ ~replaying /\ UNCHANGED <<machines, replaying, completed>>
      /\ \A s \in Traded : halts'[s].losses \in {0, halts[s].losses}
  BY NextWindowStep DEF SkipCycle, ReplayInv
<1>2. Counting'
  BY <1>1 DEF StreakInv, Counting, None
<1>3. StreakNeverOvershoots'
  BY <1>1, HaltMaxAssumption DEF StreakInv, StreakNeverOvershoots
<1>. QED BY <1>2, <1>3 DEF StreakInv

(* The end of a window counts at most one loss of each machine that took   *)
(* part, and none of a halted one.                                         *)
LEMMA CloseKeepsBoth ==
    ASSUME ReplayInv, StreakInv, NEW recs, CloseStep(recs)
    PROVE  ReplayInv' /\ StreakInv'
<1>1. \A s \in Traded : Steps(machines[s], machines'[s], recs[s])
  BY DEF CloseStep, Steps
<1>2. Types /\ Windows /\ Counting
  BY DEF ReplayInv, StreakInv
<1>3. /\ machines' \in [Traded -> Machines]
      /\ completed' = completed \cup UNION {recs[s] : s \in Traded}
      /\ replaying /\ replaying' = FALSE /\ halts' = Counted(halts, completed')
  BY DEF CloseStep
<1>4. /\ \A r, q \in completed' : r.strategy = q.strategy => r = q
      /\ \A s \in Traded :
           /\ ~machines'[s].fired \/ IsHolding(machines'[s]) => None(s)'
           /\ machines'[s].state = Halted <=> machines[s].state = Halted
           /\ machines'[s].state = Halted => ~machines'[s].fired
  BY <1>1, <1>2, <1>3, CountingKept
<1>5. Counting'
  BY <1>3, <1>4 DEF Counting
<1>6. ASSUME NEW s \in Traded, HaltMax > 0
      PROVE  halts'[s].losses <= HaltMax
  <2> DEFINE k == Cardinality(LossesOf(s, completed'))
  <2>1. k \in {0, 1} /\ (None(s)' => k = 0)
    BY <1>4, LossCount DEF None
  <2>2. halts'[s].losses = halts[s].losses + k
    BY <1>2, <1>3, <1>4, CountedType
  <2>3. halts[s].losses \in Int /\ halts[s].losses <= HaltMax
    BY <1>2, <1>6 DEF Types, Trackers, StreakInv, StreakNeverOvershoots
  <2>4. machines[s].state # Halted => halts[s].losses < HaltMax
    BY <1>2, <1>3, <1>6 DEF Counting
  <2>5. machines[s].state = Halted => None(s)'
    BY <1>4
  <2>. HIDE DEF k
  <2>. QED BY <2>1, <2>2, <2>3, <2>4, <2>5, HaltMaxAssumption
<1>7. StreakNeverOvershoots'
  BY <1>6 DEF StreakNeverOvershoots
<1>8. ReplayInv'
  BY <1>4, CloseKeepsReplay
<1>. QED BY <1>5, <1>7, <1>8 DEF StreakInv

(* Every step is one of these, or leaves all as it is.                     *)
LEMMA StepKeepsBoth ==
    ASSUME ReplayInv, StreakInv, [Next]_vars
    PROVE  ReplayInv' /\ StreakInv'
<1>0. Types
  BY DEF ReplayInv
<1>1. CASE SkipCycle
  BY <1>1, SkipKeepsReplay, SkipKeepsStreak
<1>2. ASSUME NEW p \in RefPrices, OpenCycle(p)
      PROVE  ReplayInv' /\ StreakInv'
  BY <1>2, OpenKeepsReplay, OpenKeepsStreak
<1>3. ASSUME NEW p \in RefPrices, NEW ts \in Start(cycle) .. End(cycle), BinanceRow(p, ts)
      PROVE  ReplayInv' /\ StreakInv'
  <2>1. PICK recs : RowStep(recs, ts)
    BY <1>0, <1>3, BinanceRowStep
  <2>. QED BY <2>1, RowKeepsReplay, RowKeepsStreak
<1>4. ASSUME NEW q \in Quotes, NEW ts \in Start(cycle) .. End(cycle), PolyRow(q, ts)
      PROVE  ReplayInv' /\ StreakInv'
  <2>1. PICK recs : RowStep(recs, ts)
    BY <1>0, <1>4, PolyRowStep
  <2>. QED BY <2>1, RowKeepsReplay, RowKeepsStreak
<1>5. CASE CloseCycle
  <2>1. PICK recs : CloseStep(recs)
    BY <1>0, <1>5, CloseCycleStep
  <2>. QED BY <2>1, CloseKeepsBoth
<1>6. CASE UNCHANGED vars
  BY <1>6 DEF vars, ReplayInv, Types, Windows, RidesOnlyInSilence, StreakInv, Counting,
              None, StreakNeverOvershoots, Start, End, IsHolding
<1>. QED BY <1>1, <1>2, <1>3, <1>4, <1>5, <1>6 DEF Next

(* The replay never leaves its types, its windows and its limits.          *)
THEOREM ReplayIsSound == Spec => [](ReplayInv /\ StreakInv)
<1>1. Init => ReplayInv /\ StreakInv
  BY ReplayInit, StreakInit
<1>2. (ReplayInv /\ StreakInv) /\ [Next]_vars => (ReplayInv /\ StreakInv)'
  BY StepKeepsBoth
<1>. QED BY <1>1, <1>2, PTL DEF Spec

(* A position rides to the end of its window only where the feeds are      *)
(* silent after its entry.                                                 *)
THEOREM PositionsDoNotRide == Spec => []RidesOnlyInSilence
<1>1. ReplayInv /\ StreakInv => RidesOnlyInSilence
  BY DEF ReplayInv
<1>. QED BY <1>1, ReplayIsSound, PTL

(* Losses are counted after the window and read before it: no streak runs  *)
(* past its limit.                                                         *)
THEOREM StreakIsBounded == Spec => []StreakNeverOvershoots
<1>1. ReplayInv /\ StreakInv => StreakNeverOvershoots
  BY DEF StreakInv
<1>. QED BY <1>1, ReplayIsSound, PTL

-----------------------------------------------------------------------------
(* What an entry is judged on.  The gate bounds the age of a quote and     *)
(* high_prob waits for the end of the window: a quote that passes both is  *)
(* one of this window when the two times fit into it.                      *)

(* A row latches what it saw and enters on what is latched.                *)
LEMMA RowKeepsJudge ==
    ASSUME EnterWhen + MaxAge <= CycleLen,
           ReplayInv, JudgeInv, NEW recs, NEW ts, RowStep(recs, ts)
    PROVE  JudgeInv'
<1>1. /\ cycle' = cycle /\ Start(cycle) \in Nat /\ End(cycle) = Start(cycle) + CycleLen
      /\ Start(cycle)' = Start(cycle)
  BY WindowsGrow DEF ReplayInv, Types, RowStep, Start
<1>2. ts \in Int /\ ts >= Start(cycle) /\ seen \subseteq seen'
  BY <1>1 DEF ReplayInv, Types, Windows, RowStep
<1>3. ASSUME NEW s \in Traded
      PROVE  /\ machines'[s].sawLow # {} \/ machines'[s].dipped # {} =>
                    machines'[s].ts >= Start(cycle)
             /\ machines'[s].price > 0 => "binance" \in seen'
             /\ IsHolding(machines'[s]) =>
                    /\ machines'[s].state.entry_price_ts >= Start(cycle)
                    /\ s # "v_shape" => "binance" \in seen'
  <2> DEFINE m == machines[s]
             n == machines'[s]
  <2>1. m \in Machines /\ n \in Machines
    BY DEF ReplayInv, Types, RowStep
  <2>2. /\ m.sawLow # {} \/ m.dipped # {} => m.ts >= Start(cycle)
        /\ m.price > 0 => "binance" \in seen
        /\ IsHolding(m) => /\ m.state.entry_price_ts >= Start(cycle)
                           /\ s # "v_shape" => "binance" \in seen
        /\ m.kind = s /\ m.end = End(cycle)
    BY DEF JudgeInv, RowStep, ReplayInv, Windows
  <2>3. MachineStep(m, n, recs[s], ts) /\ SignalStep(m, n, ts)
    BY DEF RowStep
  <2>4. n.kind = s /\ n.end = End(cycle)
    BY <2>2, <2>3 DEF MachineStep, SameWindow
  <2>. HIDE DEF m, n
  <2>5. /\ n.sawLow # {} \/ n.dipped # {} => n.ts >= Start(cycle)
        /\ n.price > 0 => "binance" \in seen'
    <3>1. n.ts \in Int
      BY <2>1 DEF Machines
    <3>. QED BY <1>1, <1>2, <2>2, <2>3, <3>1 DEF SignalStep
  <2>6. CASE LeavesStep(m, n)
    BY <2>1, <2>5, <2>6, Tags DEF LeavesStep, m, n
  <2>7. CASE EntersStep(m, n) /\ Judged(n, ts)
    <3>1. n.ts \in Int /\ n.kind \in Strategies /\ EnterWhen \in Int /\ MaxAge \in Int
      BY <2>1, MachineAssumption DEF Machines
    <3>2. CycleLen \in Int
      BY BacktestAssumption
    <3>3. CASE s = "reversal"
      BY <2>4, <2>5, <2>7, <3>3 DEF Judged, m, n
    <3>4. CASE s = "high_prob"
      <4>1. n.ts >= Start(cycle)
        BY <1>1, <1>2, <2>4, <2>7, <3>1, <3>2, <3>4 DEF Judged
      <4>. QED BY <2>4, <2>5, <2>7, <3>4, <4>1 DEF Judged, m, n
    <3>5. CASE s = "v_shape"
      BY <2>4, <2>5, <2>7, <3>5 DEF Judged, m, n
    <3>. QED BY <2>4, <3>1, <3>3, <3>4, <3>5 DEF Strategies
  <2>8. CASE StaysStep(m, n)
    BY <1>2, <2>2, <2>5, <2>8 DEF StaysStep, IsHolding, m, n
  <2>. QED BY <2>3, <2>6, <2>7, <2>8 DEF MachineStep
<1>. QED BY <1>1, <1>3 DEF JudgeInv

(* A new window is opened with empty latches and no price.                 *)
LEMMA OpenKeepsJudge ==
    ASSUME ReplayInv, NEW p \in RefPrices, OpenCycle(p)
    PROVE  JudgeInv'
<1>1. \A s \in Traded : /\ machines'[s].price = 0
                        /\ machines'[s].sawLow = {} /\ machines'[s].dipped = {}
  BY OpenCycleStep DEF ReplayInv
<1>2. \A s \in Traded : ~IsHolding(machines'[s])
  <2>1. \A s \in Traded : machines'[s].state \in {Halted, Watching} /\ machines'[s] \in Machines
    BY OpenCycleStep DEF ReplayInv
  <2>. QED BY <2>1, Tags
<1>. QED BY <1>1, <1>2 DEF JudgeInv

(* Nobody buys on the quotes of the window before, or before the reference *)
(* has traded in this one, when the time high_prob waits for and the age   *)
(* the gate allows fit into a window together.                             *)
THEOREM EntriesAreJudged ==
    ASSUME EnterWhen + MaxAge <= CycleLen
    PROVE  Spec => []EntryJudgesThisCycle
<1>1. Init => JudgeInv
  BY DEF Init, JudgeInv
<1>2. ASSUME ReplayInv, JudgeInv, [Next]_vars
      PROVE  JudgeInv'
  <2>0. Types
    BY <1>2 DEF ReplayInv
  <2>1. CASE SkipCycle
    BY <2>1 DEF SkipCycle, NextWindow, JudgeInv
  <2>2. ASSUME NEW p \in RefPrices, OpenCycle(p)
        PROVE  JudgeInv'
    BY <1>2, <2>2, OpenKeepsJudge
  <2>3. ASSUME NEW p \in RefPrices, NEW ts \in Start(cycle) .. End(cycle), BinanceRow(p, ts)
        PROVE  JudgeInv'
    <3>1. PICK recs : RowStep(recs, ts)
      BY <2>0, <2>3, BinanceRowStep
    <3>. QED BY <1>2, <3>1, RowKeepsJudge
  <2>4. ASSUME NEW q \in Quotes, NEW ts \in Start(cycle) .. End(cycle), PolyRow(q, ts)
        PROVE  JudgeInv'
    <3>1. PICK recs : RowStep(recs, ts)
      BY <2>0, <2>4, PolyRowStep
    <3>. QED BY <1>2, <3>1, RowKeepsJudge
  <2>5. CASE CloseCycle
    BY <2>5 DEF CloseCycle, JudgeInv
  <2>6. CASE UNCHANGED vars
    BY <1>2, <2>6 DEF vars, JudgeInv, Start, IsHolding
  <2>. QED BY <1>2, <2>1, <2>2, <2>3, <2>4, <2>5, <2>6 DEF Next
<1>3. ReplayInv /\ JudgeInv => EntryJudgesThisCycle
  BY DEF ReplayInv, Windows, JudgeInv, EntryJudgesThisCycle
<1>4. ReplayInv /\ StreakInv => ReplayInv
  OBVIOUS
<1>. QED BY <1>1, <1>2, <1>3, <1>4, ReplayIsSound, PTL DEF Spec

-----------------------------------------------------------------------------
(* The replay implements TradeLifecycle.                                   *)

(* What the handlers do to a machine is a step of its life.                *)
LEMMA LifeOfMachine ==
    ASSUME Types, NEW s \in Traded, machines' \in [Traded -> Machines],
           SameWindow(machines[s], machines'[s]),
           \/ LeavesStep(machines[s], machines'[s])
           \/ EntersStep(machines[s], machines'[s])
           \/ StaysStep(machines[s], machines'[s])
    PROVE  Lifecycle!Enter(s) \/ Lifecycle!Leave(s) \/ Lifecycle!Stay(s)
<1> DEFINE m == machines[s]
           n == machines'[s]
<1>1. m \in Machines /\ n \in Machines /\ n.end = m.end
  BY DEF Types, SameWindow
<1>2. (n.state = Halted) = (m.state = Halted) => Lifecycle!SameWindow(s)
  BY <1>1 DEF Lifecycle!SameWindow
<1>. HIDE DEF m, n
<1>3. CASE LeavesStep(m, n)
  <2>1. IsHolding(m) /\ ~IsHolding(n) /\ n.fired = m.fired
        /\ n.state # Halted /\ m.state # Halted
    BY <1>1, <1>3, Tags DEF LeavesStep
  <2>. QED BY <1>2, <2>1 DEF Lifecycle!Leave, m, n
<1>4. CASE EntersStep(m, n)
  <2>1. ~IsHolding(m) /\ IsHolding(n) /\ ~m.fired /\ n.fired
        /\ n.state # Halted /\ m.state # Halted
    BY <1>1, <1>4, Tags DEF EntersStep
  <2>. QED BY <1>2, <2>1 DEF Lifecycle!Enter, m, n
<1>5. CASE StaysStep(m, n)
  <2>1. n.state = m.state /\ n.fired = m.fired /\ IsHolding(n) = IsHolding(m)
    BY <1>5 DEF StaysStep, IsHolding
  <2>. QED BY <1>2, <2>1 DEF Lifecycle!Stay, m, n
<1>. QED BY <1>3, <1>4, <1>5 DEF m, n

(* The start of a window is the start of a life.                           *)
LEMMA LifeOpens ==
    ASSUME ReplayInv, NEW p \in RefPrices, OpenCycle(p), NEW s \in Traded
    PROVE  Lifecycle!Open(s)
<1>1. cycle' = cycle + 1 /\ cycle \in Nat /\ ~replaying
  BY NextWindowStep DEF OpenCycle, ReplayInv, Types
<1>2. /\ End(cycle') > End(cycle) /\ End(cycle') \in Nat /\ End(cycle) \in Nat
  BY <1>1, WindowsGrow
<1>3. machines[s].end \in Int /\ machines[s].end <= End(cycle) /\ ~IsHolding(machines[s])
  BY <1>1 DEF ReplayInv, Types, Machines, Windows
<1>4. machines'[s].end = End(cycle') /\ ~machines'[s].fired
  BY OpenCycleStep DEF ReplayInv
<1>5. ~IsHolding(machines'[s])
  <2>1. machines'[s].state \in {Halted, Watching} /\ machines'[s] \in Machines
    BY OpenCycleStep DEF ReplayInv
  <2>. QED BY <2>1, Tags
<1>6. machines'[s].end > machines[s].end
  BY <1>2, <1>3, <1>4
<1>. QED BY <1>3, <1>4, <1>5, <1>6 DEF Lifecycle!Open

(* At most one position per window and machine, none under a halt, none    *)
(* carried over: for any rows, windows and limits.                         *)
THEOREM ReplayKeepsThePromise == Spec => OnePositionPerWindow
<1>1. Init => Lifecycle!Init
  <2> SUFFICES ASSUME Init PROVE Lifecycle!Init
    OBVIOUS
  <2>1. \A s \in Traded : /\ machines[s].end = 0 /\ machines[s].fired = FALSE
                          /\ (machines[s].state = Halted) = FALSE
                          /\ IsHolding(machines[s]) = FALSE
    BY NewMachineStep, BacktestAssumption, Tags DEF Init, IsHolding, Watching, NewMachine
  <2>. QED BY <2>1 DEF Lifecycle!Init
<1>2. ASSUME ReplayInv, [Next]_vars
      PROVE  [Lifecycle!Next]_(Lifecycle!vars)
  <2>0. Types
    BY <1>2 DEF ReplayInv
  <2>1. CASE SkipCycle
    BY <2>1 DEF SkipCycle, Lifecycle!vars
  <2>2. ASSUME NEW p \in RefPrices, OpenCycle(p)
        PROVE  Lifecycle!Next
    BY <1>2, <2>2, LifeOpens DEF Lifecycle!Next
  <2>3. ASSUME NEW recs, NEW ts, RowStep(recs, ts)
        PROVE  Lifecycle!Next
    BY <2>0, <2>3, LifeOfMachine DEF Lifecycle!Next, RowStep, MachineStep
  <2>4. CASE CloseCycle
    <3>1. PICK recs : CloseStep(recs)
      BY <2>0, <2>4, CloseCycleStep
    <3>. QED BY <2>0, <3>1, LifeOfMachine DEF Lifecycle!Next, CloseStep
  <2>5. CASE UNCHANGED vars
    BY <2>5 DEF vars, Lifecycle!vars
  <2>6. CASE \E p \in RefPrices, ts \in Start(cycle) .. End(cycle) : BinanceRow(p, ts)
    BY <2>0, <2>3, <2>6, BinanceRowStep
  <2>7. CASE \E q \in Quotes, ts \in Start(cycle) .. End(cycle) : PolyRow(q, ts)
    BY <2>0, <2>3, <2>7, PolyRowStep
  <2>. QED BY <1>2, <2>1, <2>2, <2>4, <2>5, <2>6, <2>7 DEF Next
<1>3. ReplayInv /\ StreakInv => ReplayInv
  OBVIOUS
<1>. QED BY <1>1, <1>2, <1>3, ReplayIsSound, PTL DEF Spec, OnePositionPerWindow, Lifecycle!Spec
=============================================================================
