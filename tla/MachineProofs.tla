---------------------------- MODULE MachineProofs ----------------------------
(***************************************************************************)
(* What the handlers of Machine do to a machine, whatever they are fed:    *)
(* the lemmas that the proofs about the replay and about the paper harness *)
(* rest on.                                                                *)
(***************************************************************************)
EXTENDS Machine, TLAPS

States ==
    {Watching, Halted} \cup
    [tag : {"Holding"}, side : Sides, price : Int, entry_ts : Int, entry_price_ts : Int]

Machines ==
    [kind : Strategies, sawLow : SUBSET Sides, sawHigh : SUBSET Sides,
     dipped : SUBSET Sides, up : Int, dn : Int, ts : Int, price : Int, open : Int,
     last : Int, end : Int, fired : BOOLEAN, state : States]

PolyTicks == [ts : Int, up : Int, dn : Int]
BinanceTicks == [ts : Int, price : Int]

(* What observing a row, entering and leaving keep.                        *)
SameWindow(m, n) == n.kind = m.kind /\ n.end = m.end
SameSignals(m, n) ==
    /\ SameWindow(m, n)
    /\ n.ts = m.ts /\ n.price = m.price /\ n.open = m.open
    /\ n.sawLow = m.sawLow /\ n.dipped = m.dipped

EntersStep(m, n) == m.state = Watching /\ ~m.fired /\ n.fired /\ IsHolding(n)
LeavesStep(m, n) == IsHolding(m) /\ n.state = Watching /\ n.fired = m.fired
StaysStep(m, n) == n.state = m.state /\ n.fired = m.fired

(* What an entry rests on.                                                 *)
Judged(n, now) ==
    /\ n.state.entry_ts = now /\ n.state.entry_price_ts = n.ts
    /\ now - n.ts <= MaxAge
    /\ n.kind = "reversal" => n.sawLow # {} /\ n.price > 0
    /\ n.kind = "high_prob" => n.end - now <= EnterWhen /\ n.price > 0
    /\ n.kind = "v_shape" => n.dipped # {}

(* A handler's records: at most one, of the machine's own strategy.        *)
OneRecordOf(m, records) ==
    /\ \A r \in records : r.strategy = m.kind
    /\ \A r, q \in records : r = q

-----------------------------------------------------------------------------
(* A tag tells the states apart.                                           *)
LEMMA Tags ==
    /\ Watching # Halted
    /\ \A m \in Machines :
        /\ IsHolding(m) => m.state # Watching /\ m.state # Halted
        /\ ~IsHolding(m) => m.state \in {Watching, Halted}
  BY DEF Watching, Halted, IsHolding, Machines, States

(* A quote reaches the signals only.                                       *)
LEMMA ObservePolyStep ==
    ASSUME NEW m \in Machines, NEW t \in PolyTicks
    PROVE  LET n == ObservePoly(m, t)
           IN  /\ n \in Machines /\ SameWindow(m, n) /\ StaysStep(m, n)
               /\ n.ts >= m.ts /\ n.ts >= t.ts /\ n.price = m.price
<1> DEFINE up == Positive(t.up, m.up)
           dn == Positive(t.dn, m.dn)
           ts == IF t.ts > m.ts THEN t.ts ELSE m.ts
           low == m.sawLow \cup Dips(m, t)
           high == Highs(m, t)
           dipped == m.dipped \cup LowsAfterHigh(m, t)
<1>1. up \in Int /\ dn \in Int /\ ts \in Int /\ ts >= m.ts /\ ts >= t.ts
  BY DEF Positive, Machines, PolyTicks
<1>2. high \in SUBSET Sides /\ low \in SUBSET Sides
  BY DEF Dips, Highs, Machines
<1>3. dipped \in SUBSET Sides
  BY <1>2 DEF LowsAfterHigh, Machines
<1>4. ObservePoly(m, t) = [m EXCEPT !.up = up, !.dn = dn, !.ts = ts, !.sawLow = low,
                                    !.sawHigh = high, !.dipped = dipped]
  BY DEF ObservePoly
<1>. HIDE DEF up, dn, ts, low, high, dipped
<1>. QED BY <1>1, <1>2, <1>3, <1>4 DEF Machines, SameWindow, StaysStep

(* A trade of the reference exchange reaches its price only.               *)
LEMMA ObserveBinanceStep ==
    ASSUME NEW m \in Machines, NEW t \in BinanceTicks
    PROVE  LET n == ObserveBinance(m, t)
           IN  /\ n \in Machines /\ SameWindow(m, n) /\ StaysStep(m, n)
               /\ n.ts = m.ts /\ n.sawLow = m.sawLow /\ n.dipped = m.dipped
  BY DEF ObserveBinance, Machines, BinanceTicks, SameWindow, StaysStep, Positive

(* A side that fires is one of the two, and its strategy's condition holds.*)
LEMMA IntentStep ==
    ASSUME NEW m \in Machines, NEW now \in Int, NEW s \in Intent(m, now)
    PROVE  /\ s \in Sides /\ ~m.fired
           /\ m.kind = "reversal" => m.sawLow # {} /\ m.price > 0
           /\ m.kind = "high_prob" => m.end - now <= EnterWhen /\ m.price > 0
           /\ m.kind = "v_shape" => m.dipped # {}
<1>1. s \in Sides /\ Fires(m, s, now)
  BY DEF Intent, Sides
<1>2. Toward(s, Delta(m)) => m.price > 0
  BY DEF Toward, Delta, Machines
<1>. QED
  BY <1>1, <1>2 DEF Fires, ReversalFires, HighProbFires, VShapeFires, TimeLeft

(* A machine that does not hold enters or goes on.                         *)
LEMMA TryEnterStep ==
    ASSUME NEW m \in Machines, NEW now \in Int
    PROVE  LET n == TryEnter(m, now)
           IN  /\ n \in Machines /\ SameSignals(m, n)
               /\ n = m \/ (EntersStep(m, n) /\ Judged(n, now))
<1> DEFINE side == Intent(m, now)
           s == CHOOSE x \in side : TRUE
<1>1. CASE m.state = Watching /\ \E x \in side : GatesPass(m, x, now)
  <2>1. TryEnter(m, now) = Entered(m, s, now)
    BY <1>1 DEF TryEnter
  <2>2. s \in side
    BY <1>1
  <2>3. /\ s \in Sides /\ ~m.fired
        /\ m.kind = "reversal" => m.sawLow # {} /\ m.price > 0
        /\ m.kind = "high_prob" => m.end - now <= EnterWhen /\ m.price > 0
        /\ m.kind = "v_shape" => m.dipped # {}
    BY <2>2, IntentStep
  <2>4. PriceOf(m, s) \in Int /\ m.ts \in Int
    BY DEF PriceOf, Machines
  <2>5. /\ Holding(s, PriceOf(m, s), now, m.ts) \in States
        /\ Holding(s, PriceOf(m, s), now, m.ts).tag = "Holding"
        /\ Holding(s, PriceOf(m, s), now, m.ts).entry_ts = now
        /\ Holding(s, PriceOf(m, s), now, m.ts).entry_price_ts = m.ts
    BY <2>3, <2>4 DEF Holding, States
  <2>6. now - m.ts <= MaxAge
    BY <1>1 DEF GatesPass
  <2>. HIDE DEF s, side
  <2>7. /\ Entered(m, s, now) \in Machines /\ SameSignals(m, Entered(m, s, now))
        /\ Entered(m, s, now).fired
        /\ Entered(m, s, now).state = Holding(s, PriceOf(m, s), now, m.ts)
    BY <2>5 DEF Entered, Machines, SameSignals, SameWindow
  <2>8. EntersStep(m, Entered(m, s, now)) /\ Judged(Entered(m, s, now), now)
    BY <1>1, <2>3, <2>5, <2>6, <2>7 DEF EntersStep, IsHolding, Judged, SameSignals, SameWindow
  <2>. QED BY <2>1, <2>7, <2>8
<1>2. CASE ~(m.state = Watching /\ \E x \in side : GatesPass(m, x, now))
  BY <1>2 DEF TryEnter, SameSignals, SameWindow
<1>. QED BY <1>1, <1>2

(* A closed position leaves the latch as it is.                            *)
LEMMA ClosedStep ==
    ASSUME NEW m \in Machines
    PROVE  /\ Closed(m) \in Machines /\ SameSignals(m, Closed(m))
           /\ Closed(m).state = Watching /\ Closed(m).fired = m.fired
  BY DEF Closed, Machines, States, SameSignals, SameWindow

-----------------------------------------------------------------------------
(* The clock closes a position in the last seconds, whatever else it does. *)
LEMMA ClockExitStep ==
    ASSUME NEW m \in Machines, NEW now \in Int, NEW price
    PROVE  /\ OneRecordOf(m, ClockExit(m, now, price))
           /\ ClockExit(m, now, price) = {} =>
                  m.end <= 0 \/ m.end - now > ForceUnwind
<1>1. m.end \in Int /\ ForceUnwind \in Int
  BY MachineAssumption DEF Machines
<1>2. \A o : TradeRecord(m, o, price).strategy = m.kind
  BY DEF TradeRecord
<1>. QED BY <1>1, <1>2 DEF ClockExit, OneRecordOf, TimeLeft

(* So does a quote, which looks at the price first.                        *)
LEMMA PolyExitStep ==
    ASSUME NEW m \in Machines, NEW t \in PolyTicks
    PROVE  /\ OneRecordOf(m, PolyExit(m, t))
           /\ PolyExit(m, t) = {} => m.end <= 0 \/ m.end - t.ts > ForceUnwind
<1> DEFINE price == PriceOf(t, m.state.side)
           entry == m.state.price
           stop == SlPnl > 0 /\ price <= entry - SlPnl
           low == Sl > 0 /\ price < Sl
           gain == UnwindPnl > 0 /\ price >= entry + UnwindPnl
<1>1. t.ts \in Int
  BY DEF PolyTicks
<1>2. \A o, x : OneRecordOf(m, {TradeRecord(m, o, x)})
  BY DEF TradeRecord, OneRecordOf
<1>3. CASE stop
  <2>1. PolyExit(m, t) = {TradeRecord(m, "StopLoss", entry - SlPnl)}
    BY <1>3 DEF PolyExit
  <2>. QED BY <1>2, <2>1
<1>4. CASE ~stop /\ low
  <2>1. PolyExit(m, t) = {TradeRecord(m, "StopLoss", price)}
    BY <1>4 DEF PolyExit
  <2>. QED BY <1>2, <2>1
<1>5. CASE ~stop /\ ~low /\ gain
  <2>1. PolyExit(m, t) = {TradeRecord(m, "Unwind", entry + UnwindPnl)}
    BY <1>5 DEF PolyExit
  <2>. QED BY <1>2, <2>1
<1>6. CASE ~stop /\ ~low /\ ~gain
  <2>1. PolyExit(m, t) = ClockExit(m, t.ts, price)
    BY <1>6 DEF PolyExit
  <2>. QED BY <1>1, <2>1, ClockExitStep
<1>. QED BY <1>3, <1>4, <1>5, <1>6

(* One quote: it enters, leaves with one record, or does neither, and a    *)
(* position it leaves open is not in its last seconds.                     *)
LEMMA OnPolyStep ==
    ASSUME NEW m \in Machines, NEW t \in PolyTicks
    PROVE  LET n == OnPoly(m, t)
           IN  /\ n \in Machines /\ SameSignals(ObservePoly(m, t), n)
               /\ OneRecordOf(m, PolyRecords(m, t))
               /\ \/ LeavesStep(m, n)
                  \/ PolyRecords(m, t) = {} /\ EntersStep(m, n) /\ Judged(n, t.ts)
                  \/ /\ PolyRecords(m, t) = {} /\ StaysStep(m, n)
                     /\ IsHolding(m) => m.end <= 0 \/ m.end - t.ts > ForceUnwind
<1> DEFINE n == ObservePoly(m, t)
<1>1. n \in Machines /\ SameWindow(m, n) /\ StaysStep(m, n)
  BY ObservePolyStep
<1>2. t.ts \in Int
  BY DEF PolyTicks
<1>. HIDE DEF n
<1>3. CASE ~IsHolding(m)
  <2>1. OnPoly(m, t) = TryEnter(n, t.ts) /\ PolyRecords(m, t) = {}
    BY <1>3 DEF OnPoly, PolyRecords, n
  <2>2. OneRecordOf(m, {})
    BY DEF OneRecordOf
  <2>. QED BY <1>1, <1>2, <1>3, <2>1, <2>2, TryEnterStep
       DEF n, EntersStep, StaysStep
<1>4. CASE IsHolding(m)
  <2>1. PolyRecords(m, t) = PolyExit(n, t)
    BY <1>4 DEF PolyRecords, n
  <2>2. /\ OneRecordOf(n, PolyExit(n, t))
        /\ PolyExit(n, t) = {} => n.end <= 0 \/ n.end - t.ts > ForceUnwind
    BY <1>1, PolyExitStep
  <2>3. OneRecordOf(m, PolyRecords(m, t))
    BY <1>1, <2>1, <2>2 DEF OneRecordOf, SameWindow
  <2>4. CASE PolyRecords(m, t) # {}
    <3>1. OnPoly(m, t) = Closed(n)
      BY <1>4, <2>4 DEF OnPoly, n
    <3>. QED BY <1>1, <1>4, <2>3, <3>1, ClosedStep DEF LeavesStep, StaysStep, n
  <2>5. CASE PolyRecords(m, t) = {}
    <3>1. OnPoly(m, t) = n
      BY <1>4, <2>5 DEF OnPoly, n
    <3>2. SameSignals(n, n)
      BY DEF SameSignals, SameWindow
    <3>. QED BY <1>1, <2>1, <2>2, <2>3, <2>5, <3>1, <3>2 DEF SameWindow, n
  <2>. QED BY <2>4, <2>5
<1>. QED BY <1>3, <1>4

(* The same of a trade of the reference exchange.                          *)
LEMMA OnBinanceStep ==
    ASSUME NEW m \in Machines, NEW t \in BinanceTicks
    PROVE  LET n == OnBinance(m, t)
           IN  /\ n \in Machines /\ SameSignals(ObserveBinance(m, t), n)
               /\ OneRecordOf(m, BinanceRecords(m, t))
               /\ \/ LeavesStep(m, n)
                  \/ BinanceRecords(m, t) = {} /\ EntersStep(m, n) /\ Judged(n, t.ts)
                  \/ /\ BinanceRecords(m, t) = {} /\ StaysStep(m, n)
                     /\ IsHolding(m) => m.end <= 0 \/ m.end - t.ts > ForceUnwind
<1> DEFINE n == ObserveBinance(m, t)
<1>1. n \in Machines /\ SameWindow(m, n) /\ StaysStep(m, n)
  BY ObserveBinanceStep
<1>2. t.ts \in Int
  BY DEF BinanceTicks
<1>. HIDE DEF n
<1>3. CASE ~IsHolding(m)
  <2>1. OnBinance(m, t) = TryEnter(n, t.ts) /\ BinanceRecords(m, t) = {}
    BY <1>3 DEF OnBinance, BinanceRecords, n
  <2>2. OneRecordOf(m, {})
    BY DEF OneRecordOf
  <2>. QED BY <1>1, <1>2, <1>3, <2>1, <2>2, TryEnterStep
       DEF n, EntersStep, StaysStep
<1>4. CASE IsHolding(m)
  <2>1. BinanceRecords(m, t) = ClockExit(m, t.ts, PriceOf(m, m.state.side))
    BY <1>4 DEF BinanceRecords
  <2>2. /\ OneRecordOf(m, BinanceRecords(m, t))
        /\ BinanceRecords(m, t) = {} => m.end <= 0 \/ m.end - t.ts > ForceUnwind
    BY <1>2, <2>1, ClockExitStep
  <2>4. CASE BinanceRecords(m, t) # {}
    <3>1. OnBinance(m, t) = Closed(n)
      BY <1>4, <2>4 DEF OnBinance, n
    <3>. QED BY <1>1, <1>4, <2>2, <3>1, ClosedStep DEF LeavesStep, StaysStep, n
  <2>5. CASE BinanceRecords(m, t) = {}
    <3>1. OnBinance(m, t) = n
      BY <1>4, <2>5 DEF OnBinance, n
    <3>2. SameSignals(n, n)
      BY DEF SameSignals, SameWindow
    <3>. QED BY <1>1, <2>2, <2>5, <3>1, <3>2 DEF n
  <2>. QED BY <2>4, <2>5
<1>. QED BY <1>3, <1>4

-----------------------------------------------------------------------------
(* The end of a window closes what is held, with one record.               *)
LEMMA CycleCloseStep ==
    ASSUME NEW m \in Machines
    PROVE  LET n == CycleClose(m)
           IN  /\ n \in Machines /\ SameSignals(m, n) /\ ~IsHolding(n)
               /\ OneRecordOf(m, CloseRecords(m))
               /\ \/ LeavesStep(m, n)
                  \/ ~IsHolding(m) /\ n = m /\ CloseRecords(m) = {}
<1>1. CASE IsHolding(m)
  <2>1. CycleClose(m) = Closed(m)
    BY <1>1 DEF CycleClose
  <2>2. ~IsHolding(Closed(m))
    BY ClosedStep DEF IsHolding, Watching
  <2>3. OneRecordOf(m, CloseRecords(m))
    BY <1>1 DEF CloseRecords, OneRecordOf, TradeRecord
  <2>. QED BY <1>1, <2>1, <2>2, <2>3, ClosedStep DEF LeavesStep
<1>2. CASE ~IsHolding(m)
  BY <1>2 DEF CycleClose, CloseRecords, OneRecordOf, SameSignals, SameWindow
<1>. QED BY <1>1, <1>2

(* A new window starts with nothing latched and nothing held.              *)
LEMMA CycleOpenStep ==
    ASSUME NEW m \in Machines, NEW e \in Int, NEW p \in Int, NEW suppressed \in BOOLEAN
    PROVE  LET n == CycleOpen(m, e, p, suppressed)
           IN  /\ n \in Machines /\ n.kind = m.kind /\ n.end = e
               /\ ~n.fired /\ n.state = IF suppressed THEN Halted ELSE Watching
               /\ n.price = 0 /\ n.sawLow = {} /\ n.dipped = {}
<1> DEFINE st == IF suppressed THEN Halted ELSE Watching
           zero == 0
<1>1. st \in States /\ zero \in Int
  BY DEF States
<1>2. CycleOpen(m, e, p, suppressed) =
          [m EXCEPT !.sawLow = {}, !.sawHigh = {}, !.dipped = {}, !.price = zero,
                    !.open = p, !.last = p, !.end = e, !.fired = FALSE, !.state = st]
  BY DEF CycleOpen
<1>. HIDE DEF st, zero
<1> DEFINE n == CycleOpen(m, e, p, suppressed)
<1>3. n \in Machines
  <2>1. [m EXCEPT !.sawLow = {}, !.sawHigh = {}, !.dipped = {}, !.price = zero,
                  !.open = p, !.last = p, !.end = e, !.fired = FALSE, !.state = st]
            \in Machines
    BY <1>1 DEF Machines
  <2>. QED BY <1>2, <2>1
<1>4. n.kind = m.kind /\ n.end = e /\ ~n.fired /\ n.state = st
  BY <1>1, <1>2 DEF Machines
<1>5. n.price = zero /\ n.sawLow = {} /\ n.dipped = {}
  BY <1>1, <1>2 DEF Machines
<1>. QED BY <1>3, <1>4, <1>5 DEF st, zero

(* The machine before its first window.                                    *)
LEMMA NewMachineStep ==
    ASSUME NEW kind \in Strategies
    PROVE  /\ NewMachine(kind) \in Machines /\ NewMachine(kind).kind = kind
           /\ NewMachine(kind).end = 0 /\ ~NewMachine(kind).fired
           /\ NewMachine(kind).state = Watching
  BY DEF NewMachine, Machines, States
=============================================================================
