---------------------------- MODULE SiglabProofs -----------------------------
(***************************************************************************)
(* Proofs about the paper harness, for any variants, prices, periods,      *)
(* queues and logs: the task of a rotating market implements               *)
(* TradeLifecycle, also when the next market is found late and the feeds   *)
(* queue up meanwhile; a trade is logged by the step that closes it, a     *)
(* repair leaves none out, and the snapshots of a run stay.                *)
(***************************************************************************)
EXTENDS Siglab, MachineProofs, SequenceTheorems

Ids == DOMAIN Variants

(* A market starts at a multiple of its period.                            *)
Slots == {x \in Nat : \E k \in Nat : x = k * CycleLen}

Types ==
    /\ now \in Nat /\ lastRef \in Int
    /\ machines \in [Ids -> Machines]
    /\ refs \in Seq(BinanceTicks) /\ quotes \in Seq(PolyTicks)

(* The machines trade the market that is subscribed, and while the next    *)
(* one is looked for nobody holds anything.                                *)
Rotation ==
    /\ slot = -1 \/ slot \in Slots
    /\ slot <= now
    /\ \A v \in Ids : /\ machines[v].end = IF slot = -1 THEN 0 ELSE slot + CycleLen
                      /\ slot = -1 => ~IsHolding(machines[v])
    /\ \A next \in fetching : /\ next \in Slots /\ next <= now /\ next > slot
                              /\ \A v \in Ids : ~IsHolding(machines[v])

MarketInv == task = "crypto" => Types /\ Rotation

-----------------------------------------------------------------------------
(* The slot of a time is the last multiple of the period that has begun.   *)
LEMMA SlotOfTime ==
    ASSUME NEW t \in Nat
    PROVE  /\ CurrentSlotAt(t) \in Slots /\ CurrentSlotAt(t) <= t
           /\ t < CurrentSlotAt(t) + CycleLen
<1> DEFINE k == t \div CycleLen
<1>1. CycleLen \in Nat \ {0}
  BY MarketAssumption
<1>2. k \in Nat /\ k * CycleLen <= t /\ t < (k + 1) * CycleLen /\ k * CycleLen \in Nat
  BY <1>1
<1>. QED BY <1>1, <1>2 DEF CurrentSlotAt, Slots

(* So another slot than the one that is traded is a later one.             *)
LEMMA SlotsGrow ==
    ASSUME NEW t \in Nat, slot = -1 \/ slot \in Slots, slot <= t, CurrentSlotAt(t) # slot
    PROVE  CurrentSlotAt(t) > slot
<1>1. CASE slot = -1
  BY <1>1, SlotOfTime DEF Slots
<1>2. CASE slot \in Slots
  <2>1. PICK k \in Nat : slot = k * CycleLen
    BY <1>2 DEF Slots
  <2>2. PICK n \in Nat : CurrentSlotAt(t) = n * CycleLen
    BY SlotOfTime DEF Slots
  <2>3. CycleLen \in Nat \ {0}
    BY MarketAssumption
  <2>4. t < (n + 1) * CycleLen
    BY <2>2, <2>3, SlotOfTime
  <2>5. k <= n
    <3>1. ASSUME k > n PROVE FALSE
      <4>1. (n + 1) * CycleLen <= k * CycleLen
        BY <2>3, <3>1
      <4>. QED BY <2>1, <2>3, <2>4, <4>1
    <3>. QED BY <3>1
  <2>6. k # n
    BY <2>1, <2>2
  <2>7. k * CycleLen < n * CycleLen
    BY <2>3, <2>5, <2>6
  <2>. QED BY <2>1, <2>2, <2>7
<1>. QED BY <1>1, <1>2

-----------------------------------------------------------------------------
(* What the handlers do to the machines.                                   *)
HandlersStep ==
    /\ machines' \in [Ids -> Machines]
    /\ \A v \in Ids : /\ SameWindow(machines[v], machines'[v])
                      /\ \/ LeavesStep(machines[v], machines'[v])
                         \/ EntersStep(machines[v], machines'[v])
                         \/ StaysStep(machines[v], machines'[v])

(* Together the machines then make a step of TradeLifecycle.               *)
LEMMA LifeOfMachine ==
    ASSUME Types, HandlersStep
    PROVE  Lifecycle!Next
<1> SUFFICES ASSUME NEW v \in Ids
             PROVE  Lifecycle!Enter(v) \/ Lifecycle!Leave(v) \/ Lifecycle!Stay(v)
  BY DEF Lifecycle!Next, Ids
<1> DEFINE m == machines[v]
           n == machines'[v]
<1>1. /\ m \in Machines /\ n \in Machines /\ n.end = m.end
      /\ LeavesStep(m, n) \/ EntersStep(m, n) \/ StaysStep(m, n)
  BY DEF Types, HandlersStep, SameWindow
<1>2. (n.state = Halted) = (m.state = Halted) => Lifecycle!SameWindow(v)
  BY <1>1 DEF Lifecycle!SameWindow, Ids
<1>. HIDE DEF m, n
<1>3. CASE LeavesStep(m, n)
  <2>1. IsHolding(m) /\ ~IsHolding(n) /\ n.fired = m.fired
        /\ n.state # Halted /\ m.state # Halted
    BY <1>1, <1>3, Tags DEF LeavesStep
  <2>. QED BY <1>2, <2>1 DEF Lifecycle!Leave, m, n, Ids
<1>4. CASE EntersStep(m, n)
  <2>1. ~IsHolding(m) /\ IsHolding(n) /\ ~m.fired /\ n.fired
        /\ n.state # Halted /\ m.state # Halted
    BY <1>1, <1>4, Tags DEF EntersStep
  <2>. QED BY <1>2, <2>1 DEF Lifecycle!Enter, m, n, Ids
<1>5. CASE StaysStep(m, n)
  <2>1. n.state = m.state /\ n.fired = m.fired /\ IsHolding(n) = IsHolding(m)
    BY <1>5 DEF StaysStep, IsHolding
  <2>. QED BY <1>2, <2>1 DEF Lifecycle!Stay, m, n, Ids
<1>. QED BY <1>1, <1>3, <1>4, <1>5

(* A trade of the reference reaches the machines of a market as one of     *)
(* their steps.                                                            *)
LEMMA ReferenceStep ==
    ASSUME Types, NEW t \in BinanceTicks, OnReference(t)
    PROVE  lastRef' \in Int /\ (HandlersStep \/ machines' = machines)
           /\ slot' = slot /\ fetching' = fetching
           /\ (slot = -1 => machines' = machines)
<1>1. CASE slot = -1
  BY <1>1 DEF OnReference, Subscribed, BinanceTicks
<1>2. CASE slot # -1
  <2>1. machines' = [v \in Ids |-> OnBinance(machines[v], t)]
    BY <1>2 DEF OnReference, Subscribed, Ids
  <2>2. ASSUME NEW v \in Ids
        PROVE  /\ machines'[v] \in Machines /\ SameWindow(machines[v], machines'[v])
               /\ \/ LeavesStep(machines[v], machines'[v])
                  \/ EntersStep(machines[v], machines'[v])
                  \/ StaysStep(machines[v], machines'[v])
    <3>1. machines[v] \in Machines /\ machines'[v] = OnBinance(machines[v], t)
      BY <2>1 DEF Types
    <3>. QED BY <3>1, OnBinanceStep, ObserveBinanceStep DEF SameSignals, SameWindow
  <2>. QED BY <1>2, <2>1, <2>2 DEF HandlersStep, OnReference, BinanceTicks
<1>. QED BY <1>1, <1>2

(* So does a quote.                                                        *)
LEMMA QuoteStep ==
    ASSUME Types, NEW t \in PolyTicks, OnQuote(t)
    PROVE  lastRef' = lastRef /\ (HandlersStep \/ machines' = machines)
           /\ slot' = slot /\ fetching' = fetching
           /\ (slot = -1 => machines' = machines)
<1>1. CASE slot = -1
  BY <1>1 DEF OnQuote, Subscribed
<1>2. CASE slot # -1
  <2>1. machines' = [v \in Ids |-> OnPoly(machines[v], t)]
    BY <1>2 DEF OnQuote, Subscribed, Ids
  <2>2. ASSUME NEW v \in Ids
        PROVE  /\ machines'[v] \in Machines /\ SameWindow(machines[v], machines'[v])
               /\ \/ LeavesStep(machines[v], machines'[v])
                  \/ EntersStep(machines[v], machines'[v])
                  \/ StaysStep(machines[v], machines'[v])
    <3>1. machines[v] \in Machines /\ machines'[v] = OnPoly(machines[v], t)
      BY <2>1 DEF Types
    <3>. QED BY <3>1, OnPolyStep, ObservePolyStep DEF SameSignals, SameWindow
  <2>. QED BY <1>2, <2>1, <2>2 DEF HandlersStep, OnQuote
<1>. QED BY <1>1, <1>2

(* A step of the handlers stays in the market, and none is subscribed      *)
(* before the first.                                                       *)
LEMMA SameMarket ==
    ASSUME Types, Rotation, HandlersStep \/ machines' = machines,
           slot = -1 => machines' = machines, slot' = slot,
           fetching' = {}, now' = now
    PROVE  Rotation'
<1>1. \A v \in Ids : machines'[v].end = machines[v].end
  BY DEF HandlersStep, SameWindow
<1>. QED BY <1>1 DEF Rotation

MarketStep ==
    /\ Types' /\ Rotation'
    /\ Lifecycle!Next \/ UNCHANGED machines

(* The trades of the reference, those that waited too.                     *)
LEMMA TradesKeep ==
    ASSUME Types, Rotation, QueuedTrade \/ \E p \in RefPrices : Trade(p)
    PROVE  MarketStep
<1>1. ASSUME NEW t \in BinanceTicks, OnReference(t), Selecting,
             refs' \in Seq(BinanceTicks), UNCHANGED <<now, quotes>>
      PROVE  MarketStep
  <2>1. /\ lastRef' \in Int /\ (HandlersStep \/ machines' = machines)
        /\ slot' = slot /\ fetching' = fetching
        /\ (slot = -1 => machines' = machines)
    BY <1>1, ReferenceStep
  <2>2. machines' \in [Ids -> Machines]
    BY <2>1 DEF Types, HandlersStep
  <2>3. Types'
    BY <1>1, <2>1, <2>2 DEF Types
  <2>4. Rotation'
    BY <1>1, <2>1, SameMarket DEF Selecting
  <2>5. HandlersStep => Lifecycle!Next
    BY LifeOfMachine
  <2>. QED BY <2>1, <2>3, <2>4, <2>5 DEF MarketStep
<1>2. CASE QueuedTrade
  <2>1. /\ Head(refs) \in BinanceTicks /\ Tail(refs) \in Seq(BinanceTicks)
    BY <1>2 DEF QueuedTrade, Types
  <2>. QED BY <1>1, <1>2, <2>1 DEF QueuedTrade
<1>3. ASSUME NEW p \in RefPrices, Trade(p)
      PROVE  MarketStep
  <2> DEFINE t == [ts |-> now, price |-> p]
  <2>1. t \in BinanceTicks
    BY MarketAssumption DEF Types, BinanceTicks
  <2>2. CASE Selecting /\ OnReference(t) /\ UNCHANGED <<now, refs, quotes>>
    BY <1>1, <2>1, <2>2 DEF Types
  <2>3. CASE /\ refs' = Append(refs, t)
             /\ UNCHANGED <<now, slot, machines, lastRef, fetching, quotes>>
    <3>1. refs' \in Seq(BinanceTicks)
      BY <2>1, <2>3 DEF Types
    <3>. QED BY <2>3, <3>1 DEF MarketStep, Types, Rotation
  <2>. QED BY <1>3, <2>2, <2>3 DEF Trade
<1>. QED BY <1>2, <1>3

(* The quotes, those that waited too.                                      *)
LEMMA QuotesKeep ==
    ASSUME Types, Rotation, QueuedQuote \/ \E p \in Ups : Quote(p)
    PROVE  MarketStep
<1>1. ASSUME NEW t \in PolyTicks, OnQuote(t), Selecting,
             quotes' \in Seq(PolyTicks), UNCHANGED <<now, refs>>
      PROVE  MarketStep
  <2>1. /\ lastRef' = lastRef /\ (HandlersStep \/ machines' = machines)
        /\ slot' = slot /\ fetching' = fetching
        /\ (slot = -1 => machines' = machines)
    BY <1>1, QuoteStep
  <2>2. machines' \in [Ids -> Machines]
    BY <2>1 DEF Types, HandlersStep
  <2>3. Types'
    BY <1>1, <2>1, <2>2 DEF Types
  <2>4. Rotation'
    BY <1>1, <2>1, SameMarket DEF Selecting
  <2>5. HandlersStep => Lifecycle!Next
    BY LifeOfMachine
  <2>. QED BY <2>1, <2>3, <2>4, <2>5 DEF MarketStep
<1>2. CASE QueuedQuote
  <2>1. /\ Head(quotes) \in PolyTicks /\ Tail(quotes) \in Seq(PolyTicks)
    BY <1>2 DEF QueuedQuote, Types
  <2>. QED BY <1>1, <1>2, <2>1 DEF QueuedQuote
<1>3. ASSUME NEW p \in Ups, Quote(p)
      PROVE  MarketStep
  <2> DEFINE t == [ts |-> now, up |-> p, dn |-> One - p]
  <2>1. t \in PolyTicks
    <3>1. now \in Int /\ p \in Int /\ One - p \in Int
      BY MarketAssumption, MachineAssumption DEF Types
    <3>. QED BY <3>1 DEF PolyTicks
  <2>2. CASE Selecting /\ OnQuote(t) /\ UNCHANGED <<now, refs, quotes>>
    BY <1>1, <2>1, <2>2 DEF Types
  <2>3. CASE /\ quotes' = Append(quotes, t)
             /\ UNCHANGED <<now, slot, machines, lastRef, fetching, refs>>
    <3>1. quotes' \in Seq(PolyTicks)
      BY <2>1, <2>3 DEF Types
    <3>. QED BY <2>3, <3>1 DEF MarketStep, Types, Rotation
  <2>. QED BY <1>3, <2>2, <2>3 DEF Quote
<1>. QED BY <1>2, <1>3

(* The end of a market closes what is held before the next is asked for,   *)
(* also when it is done again because the next could not be found.         *)
LEMMA TickerKeeps ==
    ASSUME Types, Rotation, OnTicker
    PROVE  MarketStep
<1>1. /\ fetching = {} /\ fetching' \subseteq {CurrentSlotAt(now)}
      /\ UNCHANGED <<now, slot, lastRef, refs, quotes>>
  BY DEF OnTicker, Selecting
<1>2. /\ CurrentSlotAt(now) \in Slots /\ CurrentSlotAt(now) <= now
      /\ CurrentSlotAt(now) > slot
  BY SlotOfTime, SlotsGrow DEF OnTicker, Types, Rotation
<1>3. CASE slot = -1
  <2>1. machines' = machines
    BY <1>3 DEF OnTicker, CloseAll, Subscribed
  <2>. QED BY <1>1, <1>2, <1>3, <2>1 DEF MarketStep, Types, Rotation
<1>4. CASE slot # -1
  <2>1. machines' = [v \in Ids |-> CycleClose(machines[v])]
    BY <1>4 DEF OnTicker, CloseAll, Subscribed, Ids
  <2>2. ASSUME NEW v \in Ids
        PROVE  /\ machines'[v] \in Machines /\ ~IsHolding(machines'[v])
               /\ SameWindow(machines[v], machines'[v])
               /\ \/ LeavesStep(machines[v], machines'[v])
                  \/ StaysStep(machines[v], machines'[v])
    <3>1. machines[v] \in Machines /\ machines'[v] = CycleClose(machines[v])
      BY <2>1 DEF Types
    <3>. QED BY <3>1, CycleCloseStep DEF SameSignals, StaysStep
  <2>3. HandlersStep
    BY <2>1, <2>2 DEF HandlersStep
  <2>4. Types'
    BY <1>1, <2>3 DEF Types, HandlersStep
  <2>5. Rotation'
    BY <1>1, <1>2, <1>4, <2>2 DEF Rotation, SameWindow
  <2>. QED BY <2>3, <2>4, <2>5, LifeOfMachine DEF MarketStep
<1>. QED BY <1>3, <1>4

(* The next market opens in machines that hold nothing.                    *)
LEMMA FetchKeeps ==
    ASSUME Types, Rotation, FetchOk
    PROVE  MarketStep
<1>1. PICK next \in fetching :
        /\ slot' = next /\ fetching' = {}
        /\ machines' = [v \in Ids |->
               CycleOpen(machines[v], next + CycleLen, lastRef, FALSE)]
        /\ UNCHANGED <<now, lastRef, refs, quotes>>
  BY DEF FetchOk, Ids
<1>2. /\ next \in Nat /\ next \in Slots /\ next <= now /\ next > slot
      /\ slot = -1 \/ slot \in Nat
      /\ CycleLen \in Nat \ {0}
  BY MarketAssumption DEF Rotation, Slots
<1>3. ASSUME NEW v \in Ids
      PROVE  /\ machines'[v] \in Machines /\ machines'[v].end = next + CycleLen
             /\ ~IsHolding(machines'[v]) /\ ~machines'[v].fired
  <2>1. /\ machines[v] \in Machines /\ lastRef \in Int /\ next + CycleLen \in Int
        /\ machines'[v] = CycleOpen(machines[v], next + CycleLen, lastRef, FALSE)
    BY <1>1, <1>2 DEF Types
  <2>2. PICK e \in Int, no \in BOOLEAN : e = next + CycleLen /\ no = FALSE
    BY <2>1
  <2>3. machines'[v] = CycleOpen(machines[v], e, lastRef, no)
    BY <2>1, <2>2
  <2>4. /\ machines'[v] \in Machines /\ machines'[v].end = e
        /\ ~machines'[v].fired /\ machines'[v].state = IF no THEN Halted ELSE Watching
    <3>1. e \in Int /\ no \in BOOLEAN /\ machines[v] \in Machines /\ lastRef \in Int
      BY <2>1, <2>2
    <3>2. CycleOpen(machines[v], e, lastRef, no) \in Machines
      BY <3>1, CycleOpenStep
    <3>. QED BY <2>3, <3>1, CycleOpenStep
  <2>. QED BY <2>2, <2>4, Tags
<1>4. ASSUME NEW v \in Ids
      PROVE  Lifecycle!Open(v)
  <2>1. /\ ~IsHolding(machines[v])
        /\ machines[v].end = IF slot = -1 THEN 0 ELSE slot + CycleLen
    BY DEF Rotation
  <2>2. machines'[v].end > machines[v].end
    BY <1>2, <1>3, <2>1
  <2>. QED BY <1>3, <2>1, <2>2 DEF Lifecycle!Open, Ids
<1>5. Types'
  <2>1. machines' \in [Ids -> Machines]
    BY <1>1, <1>3
  <2>. QED BY <1>1, <2>1 DEF Types
<1>6. Rotation'
  <2>1. slot' \in Slots /\ slot' <= now' /\ slot' # -1 /\ fetching' = {}
    BY <1>1, <1>2
  <2>2. \A v \in Ids : machines'[v].end = slot' + CycleLen
    BY <1>1, <1>3
  <2>. QED BY <2>1, <2>2 DEF Rotation
<1>. QED BY <1>4, <1>5, <1>6 DEF MarketStep, Lifecycle!Next, Ids

(* Every step of the harness, of this task or of another.                  *)
LEMMA HarnessStep ==
    ASSUME MarketInv, [Next]_vars
    PROVE  MarketInv' /\ [Lifecycle!Next]_(Lifecycle!vars)
<1>1. task' = task
  BY DEF Next, vars, Tick, CryptoTask, WeatherTask, ReportTask
<1>2. UNCHANGED machines => UNCHANGED Lifecycle!vars
  BY DEF Lifecycle!vars
<1>3. CASE task # "crypto"
  <2>1. UNCHANGED machines
    BY <1>3 DEF Next, vars, marketVars, Tick, CryptoTask, WeatherTask, ReportTask
  <2>. QED BY <1>1, <1>2, <1>3, <2>1 DEF MarketInv
<1>4. CASE task = "crypto"
  <2>1. Types /\ Rotation
    BY <1>4 DEF MarketInv
  <2>2. CASE Tick
    <3>1. now' = now + 1 /\ UNCHANGED marketVars
      BY <2>2 DEF Tick
    <3>2. slot \in Int /\ now \in Int /\ \A next \in fetching : next \in Int
      BY <2>1 DEF Types, Rotation, Slots
    <3>3. Types' /\ Rotation'
      BY <2>1, <3>1, <3>2 DEF Types, Rotation, marketVars
    <3>. QED BY <1>2, <3>1, <3>3 DEF MarketInv, marketVars
  <2>3. CASE CryptoTask
    <3>1. MarketStep
      <4>1. CASE FetchFails
        BY <2>1, <4>1 DEF FetchFails, MarketStep, Types, Rotation
      <4>. QED BY <2>1, <2>3, <4>1, TradesKeep, QuotesKeep, TickerKeeps, FetchKeeps
               DEF CryptoTask, MarketNext
    <3>. QED BY <1>2, <3>1 DEF MarketStep, MarketInv
  <2>4. CASE UNCHANGED vars
    <3>1. Types' /\ Rotation'
      BY <2>1, <2>4 DEF vars, marketVars, Types, Rotation
    <3>. QED BY <1>2, <2>4, <3>1 DEF vars, marketVars, MarketInv
  <2>. QED BY <1>4, <2>2, <2>3, <2>4 DEF Next, WeatherTask, ReportTask
<1>. QED BY <1>3, <1>4

(* The harness starts with fresh machines and no market.                   *)
LEMMA HarnessStart == Init => MarketInv /\ Lifecycle!Init
<1> SUFFICES ASSUME Init PROVE MarketInv /\ Lifecycle!Init
  OBVIOUS
<1>1. /\ now = 0 /\ slot = -1 /\ lastRef = 0 /\ fetching = {}
      /\ refs = <<>> /\ quotes = <<>>
      /\ machines = [v \in Ids |-> NewMachine(Variants[v])]
  BY DEF Init, MarketInit, Ids
<1>2. \A v \in Ids : /\ machines[v] \in Machines /\ machines[v].end = 0
                     /\ machines[v].state = Watching /\ ~machines[v].fired
  BY <1>1, NewMachineStep, MarketAssumption DEF Ids
<1>3. \A v \in Ids : ~IsHolding(machines[v]) /\ machines[v].state # Halted
  BY <1>2, Tags
<1>4. \A v \in Ids : machines[v].fired = FALSE
  BY <1>1 DEF NewMachine
<1>5. Types
  <2>1. machines \in [Ids -> Machines]
    BY <1>1, <1>2
  <2>2. now \in Nat /\ lastRef \in Int
    BY <1>1
  <2>3. refs \in Seq(BinanceTicks) /\ quotes \in Seq(PolyTicks)
    BY <1>1
  <2>. QED BY <2>1, <2>2, <2>3 DEF Types
<1>6. Rotation
  BY <1>1, <1>2, <1>3 DEF Rotation
<1>7. \A v \in Ids : /\ (machines[v].state = Halted) = FALSE
                     /\ IsHolding(machines[v]) = FALSE
  BY <1>3 DEF IsHolding
<1>8. Lifecycle!Init
  BY <1>2, <1>4, <1>7 DEF Lifecycle!Init, Ids
<1>. QED BY <1>5, <1>6, <1>8 DEF MarketInv

(* market.rs:166: whatever the feeds do and however late the next market   *)
(* is found, a variant opens at most one position per market and carries   *)
(* none into the next.                                                     *)
THEOREM PaperKeepsThePromise == FairSpec => PaperLifecycle
<1>1. Init => MarketInv /\ Lifecycle!Init
  BY HarnessStart
<1>2. MarketInv /\ [Next]_vars => MarketInv' /\ [Lifecycle!Next]_(Lifecycle!vars)
  BY HarnessStep
<1>. QED BY <1>1, <1>2, PTL DEF FairSpec, Spec, PaperLifecycle, Lifecycle!Spec

-----------------------------------------------------------------------------
(* The trade log and the files made from it.                               *)

Waiting == {queue[i] : i \in DOMAIN queue}

(* A trade is waiting for the writer, or has been written or lost.         *)
Numbered ==
    /\ now \in Nat /\ at \in Seq(Nat)
    /\ queue \in Seq(1 .. Len(at))
    /\ \A i, j \in DOMAIN queue : queue[i] = queue[j] => i = j
    /\ readable \subseteq 1 .. Len(at) /\ readable \cap Waiting = {}

IsFile(f) == /\ f = [there |-> f.there, marked |-> f.marked, table |-> f.table, runs |-> f.runs]
             /\ f.marked => f.there
Filed == files = [h \in Log!Hours |-> files[h]] /\ \A h \in Log!Hours : IsFile(files[h])

(* A maintenance process holds one file between its read and its write.    *)
ToolFields == {"step", "ran", "mode", "ids", "held", "hours", "days"}
Busy == tool.step # "idle"
Tooled ==
    Busy =>
        /\ tool = [field \in ToolFields |-> tool[field]]
        /\ tool.step \in {"files", "write"} /\ tool.mode \in Log!Modes
        /\ tool.ids \subseteq 1 .. Len(at) /\ tool.ids \cap Waiting = {}
        /\ tool.step = "files" => tool.held = {}
        /\ tool.step = "write" => \E f : tool.held = {f}
        /\ \A f \in tool.held : /\ f = [hour |-> f.hour, content |-> f.content]
                                /\ IsFile(f.content)

(* What it has read of an hour, as far as the log still has it, is in the  *)
(* hour's file when its turn is over, or will be with the write that is    *)
(* due; a file that had no tables then has got them from the live process. *)
OfLog(h) == {i \in tool.ids \cap readable : Log!HourOf(at[i]) = h}
Repaired ==
    Busy /\ tool.mode # "summaries" =>
        \A h \in Log!Hours \ tool.hours :
            files[h].marked => \/ OfLog(h) \subseteq files[h].table
                               \/ \E f \in tool.held : f.hour = h /\ f.content.marked

LogInv == Numbered /\ Filed /\ Tooled /\ Repaired
ReportInv == task = "report" => LogInv

(* A time belongs to the hour it is divided into.                          *)
LEMMA HourBounds ==
    ASSUME NEW t \in Nat, NEW h \in Int
    PROVE  Log!HourOf(t) = h <=> h * HourLen <= t /\ t < (h + 1) * HourLen
<1> DEFINE k == t \div HourLen
<1>1. HourLen \in Nat \ {0}
  BY ReportAssumption
<1>2. k \in Nat /\ k * HourLen <= t /\ t < (k + 1) * HourLen
  BY <1>1
<1>3. ASSUME h * HourLen <= t, t < (h + 1) * HourLen PROVE k = h
  <2>1. ASSUME k < h PROVE FALSE
    <3>1. (k + 1) * HourLen <= h * HourLen
      BY <1>1, <1>2, <2>1
    <3>. QED BY <1>1, <1>2, <1>3, <3>1
  <2>2. ASSUME h < k PROVE FALSE
    <3>1. (h + 1) * HourLen <= k * HourLen
      BY <1>1, <1>2, <2>2
    <3>. QED BY <1>1, <1>2, <1>3, <3>1
  <2>. QED BY <1>2, <2>1, <2>2
<1>4. Log!HourOf(t) = k
  BY DEF Log!HourOf
<1>. HIDE DEF k
<1>. QED BY <1>2, <1>3, <1>4

(* The time of a trade.                                                    *)
LEMMA TimeOf ==
    ASSUME Numbered, NEW i \in readable
    PROVE  at[i] \in Nat
BY ElementOfSeq DEF Numbered

(* Taking from the queue, and emptying it.                                 *)
LEMMA Dequeued ==
    ASSUME Numbered, queue # <<>>
    PROVE  LET rest == Tail(queue)
               left == {rest[i] : i \in DOMAIN rest}
           IN  /\ rest \in Seq(1 .. Len(at)) /\ Waiting = {Head(queue)} \cup left
               /\ Head(queue) \notin left
               /\ \A i, j \in DOMAIN rest : rest[i] = rest[j] => i = j
<1> DEFINE rest == Tail(queue)
           left == {rest[i] : i \in DOMAIN rest}
           S == 1 .. Len(at)
<1>1. /\ queue \in Seq(S) /\ Len(queue) \in Nat \ {0} /\ DOMAIN queue = 1 .. Len(queue)
      /\ Head(queue) = queue[1]
      /\ \A i, j \in DOMAIN queue : queue[i] = queue[j] => i = j
  BY EmptySeq, LenProperties DEF Numbered
<1>2. /\ rest \in Seq(S) /\ DOMAIN rest = 1 .. Len(rest) /\ Len(rest) = Len(queue) - 1
      /\ \A i \in 1 .. Len(rest) : rest[i] = queue[i + 1]
  BY <1>1, HeadTailProperties, LenProperties
<1>. HIDE DEF rest, S
<1>3. \A i, j \in DOMAIN rest : rest[i] = rest[j] => i = j
  <2> SUFFICES ASSUME NEW i \in DOMAIN rest, NEW j \in DOMAIN rest, rest[i] = rest[j]
               PROVE  i = j
    OBVIOUS
  <2>1. /\ i \in Int /\ j \in Int /\ i + 1 \in DOMAIN queue /\ j + 1 \in DOMAIN queue
        /\ queue[i + 1] = queue[j + 1]
    BY <1>1, <1>2
  <2>2. i + 1 = j + 1
    BY <1>1, <2>1
  <2>. QED BY <2>1, <2>2
<1>4. Waiting = {Head(queue)} \cup left
  <2>1. \A i \in DOMAIN queue : i = 1 \/ (i - 1 \in DOMAIN rest /\ rest[i - 1] = queue[i])
    BY <1>1, <1>2
  <2>2. \A i \in DOMAIN rest : i + 1 \in DOMAIN queue /\ rest[i] = queue[i + 1]
    BY <1>1, <1>2
  <2>3. 1 \in DOMAIN queue
    BY <1>1
  <2>. QED BY <1>1, <2>1, <2>2, <2>3 DEF Waiting
<1>5. Head(queue) \notin left
  <2> SUFFICES ASSUME NEW i \in DOMAIN rest, rest[i] = queue[1] PROVE FALSE
    BY <1>1
  <2>1. i \in Nat \ {0} /\ i + 1 \in DOMAIN queue /\ 1 \in DOMAIN queue /\ queue[i + 1] = queue[1]
    BY <1>1, <1>2
  <2>2. i + 1 = 1
    BY <1>1, <2>1
  <2>. QED BY <2>1, <2>2
<1>. QED BY <1>2, <1>3, <1>4, <1>5 DEF rest, S

(* The trades go on: one more is made, is written, or is lost.             *)
LogMoves ==
    /\ Numbered'
    /\ Len(at) <= Len(at') /\ \A i \in 1 .. Len(at) : at'[i] = at[i]
    /\ readable' \subseteq readable \cup Waiting
    /\ Waiting' \subseteq Waiting \cup (Len(at) + 1 .. Len(at'))

(* That leaves the work of a maintenance process as good as it was.        *)
LEMMA LogMovesKeep ==
    ASSUME LogInv, LogMoves, UNCHANGED tool
    PROVE  Tooled' /\ \A h : Busy => OfLog(h)' \subseteq OfLog(h)
<1>1. Len(at) \in Nat /\ Len(at') \in Nat
  BY LenProperties DEF LogInv, LogMoves, Numbered
<1>2. Tooled'
  <2> SUFFICES ASSUME Busy PROVE Tooled'
    BY DEF Tooled, Busy
  <2>1. tool.ids \subseteq 1 .. Len(at) /\ tool.ids \cap Waiting = {} /\ Tooled
    BY DEF LogInv, Tooled
  <2>2. tool.ids \subseteq 1 .. Len(at')
    BY <1>1, <2>1 DEF LogMoves
  <2>3. tool.ids \cap Waiting' = {}
    BY <1>1, <2>1 DEF LogMoves
  <2>4. tool' = tool
    OBVIOUS
  <2>. QED BY <2>1, <2>2, <2>3, <2>4 DEF Tooled, Busy
<1>3. ASSUME NEW h, Busy PROVE OfLog(h)' \subseteq OfLog(h)
  <2>1. tool.ids \subseteq 1 .. Len(at) /\ tool.ids \cap Waiting = {}
    BY <1>3 DEF LogInv, Tooled
  <2>. QED BY <2>1 DEF LogMoves, OfLog
<1>. QED BY <1>2, <1>3

(* The live process makes a trade, writes one, loses one, stops or starts. *)
LEMMA TradesMove ==
    ASSUME Numbered,
           \/ Log!TradeCloses
           \/ Log!WriterAppends \/ Log!AppendFails
           \/ Log!Crash \/ Log!CrashInTables \/ \E whole \in BOOLEAN : Log!CrashInAppend(whole)
           \/ UNCHANGED <<now, at, queue, readable>>
    PROVE  LogMoves
<1>1. Len(at) \in Nat /\ DOMAIN queue = 1 .. Len(queue) /\ Len(queue) \in Nat
  BY LenProperties DEF Numbered
<1>2. CASE UNCHANGED <<now, at, queue, readable>>
  BY <1>1, <1>2 DEF LogMoves, Numbered, Waiting
<1>3. CASE Log!TradeCloses
  <2> DEFINE n == Len(at) + 1
             S == 1 .. n
  <2>1. at' = Append(at, now) /\ queue' = Append(queue, n) /\ UNCHANGED <<now, readable>>
    BY <1>3 DEF Log!TradeCloses
  <2>2. /\ at' \in Seq(Nat) /\ Len(at') = n /\ \A i \in 1 .. Len(at) : at'[i] = at[i]
    BY <2>1, AppendProperties DEF Numbered
  <2>3. queue \in Seq(S)
    BY <1>1, SeqMonotonic DEF Numbered
  <2>4. n \in S /\ n \notin 1 .. Len(at)
    BY <1>1
  <2>. HIDE DEF S
  <2>5. /\ queue' \in Seq(S) /\ Len(queue') = Len(queue) + 1
        /\ queue'[Len(queue) + 1] = n /\ \A i \in 1 .. Len(queue) : queue'[i] = queue[i]
        /\ DOMAIN queue' = 1 .. Len(queue) + 1
    <3>1. queue' \in Seq(S) /\ Len(queue') = Len(queue) + 1
      BY <2>1, <2>3, <2>4, AppendProperties
    <3>. QED BY <2>1, <2>3, <2>4, <3>1, AppendProperties, LenProperties
  <2>6. \A i \in 1 .. Len(queue) : queue[i] \in 1 .. Len(at)
    BY ElementOfSeq DEF Numbered
  <2>. HIDE DEF n
  <2>7. Waiting' = Waiting \cup {n}
    BY <1>1, <2>5 DEF Waiting
  <2>8. \A i, j \in DOMAIN queue' : queue'[i] = queue'[j] => i = j
    <3>1. \A i \in DOMAIN queue' :
             \/ i \in 1 .. Len(queue) /\ queue'[i] = queue[i] /\ queue[i] # n
             \/ i = Len(queue) + 1 /\ queue'[i] = n
      BY <1>1, <2>4, <2>5, <2>6
    <3>. QED BY <1>1, <3>1 DEF Numbered
  <2>9. Numbered'
    <3>1. readable' \subseteq 1 .. Len(at') /\ readable' \cap Waiting' = {}
      <4>1. readable' = readable /\ readable \subseteq 1 .. Len(at) /\ readable \cap Waiting = {}
        BY <2>1 DEF Numbered
      <4>2. 1 .. Len(at) \subseteq 1 .. Len(at')
        BY <1>1, <2>2 DEF n
      <4>3. n \notin readable
        BY <2>4, <4>1
      <4>. QED BY <2>7, <4>1, <4>2, <4>3
    <3>2. queue' \in Seq(1 .. Len(at'))
      BY <2>2, <2>5 DEF S
    <3>. QED BY <2>1, <2>2, <2>8, <3>1, <3>2 DEF Numbered
  <2>10. Len(at') = Len(at) + 1 /\ n = Len(at) + 1
    BY <2>2 DEF n
  <2>11. n \in Len(at) + 1 .. Len(at')
    BY <1>1, <2>10
  <2>12. Len(at) <= Len(at')
    BY <1>1, <2>10
  <2>. QED BY <2>1, <2>2, <2>7, <2>9, <2>11, <2>12 DEF LogMoves
<1>8. ASSUME Numbered', at' = at, readable' \subseteq readable \cup Waiting,
             Waiting' \subseteq Waiting
      PROVE  LogMoves
  <2>1. Len(at') = Len(at) /\ \A i \in 1 .. Len(at) : at'[i] = at[i]
    BY <1>8
  <2>2. Len(at) <= Len(at')
    BY <1>1, <2>1
  <2>. QED BY <1>8, <2>1, <2>2 DEF LogMoves
<1>4. ASSUME queue # <<>>, queue' = Tail(queue), UNCHANGED <<now, at>>,
             readable' \subseteq readable \cup {Head(queue)}
      PROVE  LogMoves
  <2>1. /\ queue' \in Seq(1 .. Len(at)) /\ Waiting = {Head(queue)} \cup Waiting'
        /\ Head(queue) \notin Waiting'
        /\ \A i, j \in DOMAIN queue' : queue'[i] = queue'[j] => i = j
    BY <1>4, Dequeued DEF Waiting
  <2>2. Head(queue) \in 1 .. Len(at)
    BY <1>4, HeadTailProperties DEF Numbered
  <2>3. Numbered'
    BY <1>4, <2>1, <2>2 DEF Numbered
  <2>. QED BY <1>4, <1>8, <2>1, <2>3
<1>5. ASSUME queue' = <<>>, UNCHANGED <<now, at>>,
             readable' \subseteq readable \/ (queue # <<>> /\ readable' \subseteq readable \cup {Head(queue)})
      PROVE  LogMoves
  <2>1. Waiting' = {} /\ queue' \in Seq(1 .. Len(at)) /\ DOMAIN queue' = {}
    BY <1>5, EmptySeq DEF Waiting
  <2>2. queue # <<>> => Head(queue) \in Waiting /\ Head(queue) \in 1 .. Len(at)
    BY Dequeued, HeadTailProperties DEF Numbered
  <2>3. Numbered'
    BY <1>5, <2>1, <2>2 DEF Numbered
  <2>. QED BY <1>5, <1>8, <2>1, <2>2, <2>3
<1>6. CASE Log!WriterAppends \/ Log!AppendFails
  BY <1>4, <1>6 DEF Log!WriterAppends, Log!AppendFails
<1>7. CASE Log!Crash \/ Log!CrashInTables \/ \E whole \in BOOLEAN : Log!CrashInAppend(whole)
  BY <1>5, <1>7 DEF Log!Crash, Log!CrashInTables, Log!CrashInAppend, Log!Stop
<1>. QED BY <1>2, <1>3, <1>6, <1>7

(* Steps that touch neither files nor maintenance.                         *)
LEMMA FilesUntouched ==
    ASSUME LogInv, LogMoves, UNCHANGED <<files, tool>>
    PROVE  LogInv'
<1>1. Tooled' /\ \A h : Busy => OfLog(h)' \subseteq OfLog(h)
  BY LogMovesKeep
<1>2. Filed'
  BY DEF LogInv, Filed
<1>3. Repaired'
  BY <1>1 DEF LogInv, Repaired, Busy
<1>. QED BY <1>1, <1>2, <1>3 DEF LogInv, LogMoves

(* The live process writes a file: all that the log has of its hour, or    *)
(* nothing at all when it is stopped.                                      *)
LEMMA LiveWrites ==
    ASSUME LogInv, LogMoves, UNCHANGED tool, NEW hour, NEW f, IsFile(f),
           files' = [files EXCEPT ![hour] = f],
           f.marked /\ hour \in Log!Hours => OfLog(hour)' \subseteq f.table
    PROVE  LogInv'
<1>1. Tooled' /\ \A h : Busy => OfLog(h)' \subseteq OfLog(h)
  BY LogMovesKeep
<1>2. /\ files' = [h \in Log!Hours |-> files'[h]]
      /\ \A h \in Log!Hours : files'[h] = IF h = hour THEN f ELSE files[h]
  BY DEF LogInv, Filed
<1>3. Filed'
  BY <1>2 DEF LogInv, Filed
<1>4. Repaired'
  <2> SUFFICES ASSUME Busy, tool.mode # "summaries", NEW h \in Log!Hours \ tool.hours,
                      files'[h].marked
               PROVE  \/ OfLog(h)' \subseteq files'[h].table
                      \/ \E g \in tool.held : g.hour = h /\ g.content.marked
    BY DEF Repaired, Busy
  <2>1. CASE h = hour
    BY <1>2, <2>1
  <2>2. CASE h # hour
    BY <1>1, <1>2, <2>2 DEF LogInv, Repaired
  <2>. QED BY <2>1, <2>2
<1>. QED BY <1>1, <1>3, <1>4 DEF LogInv, LogMoves

(* The tables of a report have all that the log has of their hour.         *)
LEMMA TablesAreFull ==
    ASSUME Numbered, NEW h \in Log!Hours, NEW i \in readable, Log!HourOf(at[i]) = h
    PROVE  i \in Log!RecentTrades(h * HourLen)
<1>1. at[i] \in Nat /\ h \in Int
  BY TimeOf DEF Log!Hours
<1>2. h * HourLen <= at[i]
  BY <1>1, HourBounds
<1>3. h * HourLen \in Int
  BY <1>1, ReportAssumption
<1>. QED BY <1>1, <1>2, <1>3 DEF Log!RecentTrades

(* What is written is a file.                                              *)
LEMMA FileShape ==
    /\ \A ids, blocks : /\ IsFile(Log!HourFile(ids, blocks))
                         /\ Log!HourFile(ids, blocks).table = ids
                         /\ Log!HourFile(ids, blocks).runs = blocks
    /\ IsFile(Log!NoFile) /\ ~Log!NoFile.marked /\ IsFile(Log!NoHeader) /\ ~Log!NoHeader.marked
<1>1. ASSUME NEW f, NEW b \in BOOLEAN, NEW c, NEW d,
             f = [there |-> TRUE, marked |-> b, table |-> c, runs |-> d]
      PROVE  IsFile(f) /\ f.marked = b /\ f.table = c /\ f.runs = d
  BY <1>1 DEF IsFile
<1>2. Log!NoHeader = [there |-> TRUE, marked |-> FALSE, table |-> {}, runs |-> {}]
  <2>1. PICK f : f = Log!NoFile
    OBVIOUS
  <2>2. IsFile(f) /\ f.marked = FALSE /\ f.table = {} /\ f.runs = {}
    BY <2>1 DEF Log!NoFile, IsFile
  <2>3. PICK g : g = [f EXCEPT !.there = TRUE]
    OBVIOUS
  <2>4. g = [there |-> TRUE, marked |-> f.marked, table |-> f.table, runs |-> f.runs]
    BY <2>2, <2>3 DEF IsFile
  <2>. QED BY <2>1, <2>2, <2>3, <2>4 DEF Log!NoHeader
<1>3. IsFile(Log!NoFile) /\ ~Log!NoFile.marked
  BY DEF IsFile, Log!NoFile
<1>. QED BY <1>1, <1>2, <1>3 DEF Log!HourFile

(* A refresh replaces the tables.                                          *)
LEMMA Revised ==
    ASSUME NEW f, IsFile(f), NEW ids, NEW g, g = [f EXCEPT !.table = ids]
    PROVE  IsFile(g) /\ g.marked = f.marked /\ g.table = ids /\ g.runs = f.runs
<1>1. g = [there |-> f.there, marked |-> f.marked, table |-> ids, runs |-> f.runs]
  BY DEF IsFile
<1>. QED BY <1>1 DEF IsFile

(* Every step of the live process.                                         *)
LEMMA LiveKeeps ==
    ASSUME LogInv,
           \/ Log!TradeCloses \/ Log!Writer \/ Log!LiveReport \/ Log!ReportFails
           \/ Log!Crash \/ Log!CrashInTables \/ Log!Restart
           \/ \E whole \in BOOLEAN : Log!CrashInAppend(whole)
    PROVE  LogInv'
<1>1. CASE Log!WriteTables
  <2>1. PICK hour, f, kept : /\ hour = live.hour /\ f = Log!HourFile(Log!RecentTrades(hour * HourLen), kept)
                             /\ files' = [files EXCEPT ![hour] = f]
                             /\ UNCHANGED <<now, at, queue, readable, tool>>
    BY <1>1 DEF Log!WriteTables, Log!Tables
  <2>2. IsFile(f) /\ f.table = Log!RecentTrades(hour * HourLen)
    BY <2>1, FileShape
  <2>3. LogMoves
    BY <2>1, TradesMove DEF LogInv
  <2>4. f.marked /\ hour \in Log!Hours => OfLog(hour)' \subseteq f.table
    <3> SUFFICES ASSUME hour \in Log!Hours PROVE OfLog(hour)' \subseteq f.table
      OBVIOUS
    <3>1. OfLog(hour)' = OfLog(hour)
      BY <2>1 DEF OfLog
    <3>2. Numbered
      BY DEF LogInv
    <3>. QED BY <2>2, <3>1, <3>2, TablesAreFull DEF OfLog
  <2>5. files' = [files EXCEPT ![hour] = f] /\ UNCHANGED tool
    BY <2>1
  <2>. QED BY <2>2, <2>3, <2>4, <2>5, LiveWrites
<1>2. CASE Log!CrashInTables
  <2>1. PICK hour, f : hour = live.hour /\ f = Log!NoHeader
    OBVIOUS
  <2>2. files' = [files EXCEPT ![hour] = f] /\ UNCHANGED tool
    BY <1>2, <2>1 DEF Log!CrashInTables
  <2>3. IsFile(f) /\ ~f.marked
    BY <2>1, FileShape
  <2>4. LogMoves
    BY <1>2, TradesMove DEF LogInv
  <2>. QED BY <2>2, <2>3, <2>4, LiveWrites
<1>3. CASE \/ Log!TradeCloses \/ Log!Writer \/ Log!Crash
           \/ \E whole \in BOOLEAN : Log!CrashInAppend(whole)
  <2>1. UNCHANGED <<files, tool>>
    BY <1>3 DEF Log!TradeCloses, Log!Writer, Log!WriterAppends, Log!AppendFails, Log!Crash,
                Log!CrashInAppend
  <2>2. LogMoves
    BY <1>3, TradesMove DEF LogInv, Log!Writer
  <2>. QED BY <2>1, <2>2, FilesUntouched
<1>4. CASE Log!ReportStarts \/ Log!WriteSummary \/ Log!ReportFails \/ Log!Restart
  <2>1. UNCHANGED <<now, at, queue, readable, files, tool>>
    BY <1>4 DEF Log!ReportStarts, Log!WriteSummary, Log!ReportFails, Log!Restart
  <2>2. LogMoves
    BY <2>1, TradesMove DEF LogInv
  <2>. QED BY <2>1, <2>2, FilesUntouched
<1>. QED BY <1>1, <1>2, <1>3, <1>4 DEF Log!LiveReport

(* Maintenance reads the log and chooses the hours it will work on: a      *)
(* file that a refresh does not find has no tables to lose a trade from,   *)
(* and an hour that a regeneration passes over has no trades it has read.  *)
LEMMA ToolStartKeeps ==
    ASSUME LogInv, NEW mode \in Log!Modes, NEW since, Log!ToolStarts(mode, since)
    PROVE  LogInv'
<1> DEFINE ids == IF mode = "refresh" THEN readable ELSE Log!Since(readable, since)
           hours == CASE mode = "refresh"    -> {h \in Log!Hours : files[h].there}
                      [] mode = "regenerate" -> {h \in Log!Hours : Log!OfHour(ids, h) # {}}
                      [] mode = "summaries"  -> {}
           days == IF mode = "refresh" THEN {} ELSE {Log!DayOf(at[i]) : i \in ids}
<1>1. /\ tool' = [step |-> "files", ran |-> tool.ran + 1, mode |-> mode, ids |-> ids, held |-> {},
                  hours |-> hours, days |-> days]
      /\ UNCHANGED <<now, at, queue, readable, files>>
  BY DEF Log!ToolStarts
<1>2. ids \subseteq readable
  BY DEF Log!Since
<1>3. PICK n, m : m = hours /\ n = days
  OBVIOUS
<1>. HIDE DEF ids, hours, days
<1>4. /\ tool' = [field \in ToolFields |-> tool'[field]] /\ Busy'
      /\ tool'.step = "files" /\ tool'.mode = mode /\ tool'.ids = ids /\ tool'.held = {}
      /\ tool'.hours = hours
  BY <1>1 DEF ToolFields, Busy
<1>5. Numbered' /\ Filed'
  BY <1>1 DEF LogInv, Numbered, Filed, Waiting
<1>6. Tooled'
  <2>1. ids \subseteq 1 .. Len(at') /\ ids \cap Waiting' = {}
    BY <1>1, <1>2 DEF LogInv, Numbered, Waiting
  <2>. QED BY <1>4, <2>1 DEF Tooled
<1>7. Repaired'
  <2> SUFFICES ASSUME mode # "summaries", NEW h \in Log!Hours \ hours, files[h].marked
               PROVE  OfLog(h)' = {}
    BY <1>1, <1>4 DEF Repaired
  <2>1. CASE mode = "refresh"
    <3>1. files[h].there
      BY DEF LogInv, Filed, IsFile
    <3>. QED BY <2>1, <3>1 DEF hours
  <2>2. CASE mode = "regenerate"
    <3>1. Log!OfHour(ids, h) = {}
      BY <2>2 DEF hours
    <3>2. ASSUME NEW i \in ids, Log!HourOf(at[i]) = h PROVE FALSE
      <4>1. at[i] \in Nat /\ h \in Int
        BY <1>2, TimeOf DEF LogInv, Log!Hours
      <4>2. Log!InHour(i, h)
        BY <3>2, <4>1, HourBounds DEF Log!InHour
      <4>. QED BY <3>1, <4>2 DEF Log!OfHour
    <3>. QED BY <1>1, <1>4, <3>2 DEF OfLog
  <2>. QED BY <2>1, <2>2 DEF Log!Modes
<1>. QED BY <1>5, <1>6, <1>7 DEF LogInv

(* It reads a file, or writes the summary of a day.                        *)
LEMMA ToolReadKeeps ==
    ASSUME LogInv, NEW h \in Log!Hours, Log!ToolReads(h)
    PROVE  LogInv'
<1> DEFINE f == [hour |-> h, content |-> files[h]]
<1>1. /\ tool.step = "files" /\ h \in tool.hours /\ Busy
      /\ tool' = [tool EXCEPT !.step = "write", !.hours = tool.hours \ {h}, !.held = {f}]
      /\ UNCHANGED <<now, at, queue, readable, files>>
  BY DEF Log!ToolReads, Busy
<1>2. tool = [field \in ToolFields |-> tool[field]] /\ Tooled
  BY <1>1 DEF LogInv, Tooled
<1>3. IsFile(files[h]) /\ f.hour = h /\ f.content = files[h] /\ f = [hour |-> f.hour, content |-> f.content]
  BY DEF LogInv, Filed
<1>. HIDE DEF f
<1>4. /\ tool' = [field \in ToolFields |-> tool'[field]] /\ Busy'
      /\ tool'.step = "write" /\ tool'.mode = tool.mode /\ tool'.ids = tool.ids
      /\ tool'.held = {f} /\ tool'.hours = tool.hours \ {h}
  BY <1>1, <1>2 DEF ToolFields, Busy
<1>5. Numbered' /\ Filed'
  BY <1>1 DEF LogInv, Numbered, Filed, Waiting
<1>6. Tooled'
  <2>1. tool.ids \subseteq 1 .. Len(at') /\ tool.ids \cap Waiting' = {} /\ tool.mode \in Log!Modes
    BY <1>1, <1>2 DEF Tooled, Waiting
  <2>. QED BY <1>3, <1>4, <2>1 DEF Tooled
<1>7. Repaired'
  <2> SUFFICES ASSUME tool.mode # "summaries", NEW k \in Log!Hours \ (tool.hours \ {h}), files[k].marked
               PROVE  OfLog(k)' \subseteq files[k].table \/ (f.hour = k /\ f.content.marked)
    BY <1>1, <1>4 DEF Repaired
  <2>1. CASE k = h
    BY <1>3, <2>1
  <2>2. CASE k # h
    <3>1. OfLog(k)' = OfLog(k) /\ tool.held = {}
      BY <1>1, <1>2, <1>4 DEF OfLog, Tooled
    <3>. QED BY <1>1, <2>2, <3>1 DEF LogInv, Repaired
  <2>. QED BY <2>1, <2>2
<1>. QED BY <1>5, <1>6, <1>7 DEF LogInv

LEMMA ToolSummarizesKeeps ==
    ASSUME LogInv, NEW d, Log!ToolSummarizes(d)
    PROVE  LogInv'
<1>1. /\ tool.step = "files" /\ Busy
      /\ tool' = [tool EXCEPT !.days = tool.days \ {d}]
      /\ UNCHANGED <<now, at, queue, readable, files>>
  BY DEF Log!ToolSummarizes, Busy
<1>2. tool = [field \in ToolFields |-> tool[field]] /\ Tooled
  BY <1>1 DEF LogInv, Tooled
<1>3. /\ tool' = [field \in ToolFields |-> tool'[field]] /\ Busy'
      /\ tool'.step = tool.step /\ tool'.mode = tool.mode /\ tool'.ids = tool.ids
      /\ tool'.held = tool.held /\ tool'.hours = tool.hours
  BY <1>1, <1>2 DEF ToolFields, Busy
<1>4. Numbered' /\ Filed'
  BY <1>1 DEF LogInv, Numbered, Filed, Waiting
<1>5. Tooled'
  BY <1>1, <1>2, <1>3 DEF Tooled, Waiting
<1>6. Repaired'
  BY <1>1, <1>3 DEF LogInv, Repaired, OfLog
<1>. QED BY <1>4, <1>5, <1>6 DEF LogInv

(* It writes what it has read of an hour into the hour's file.             *)
LEMMA HourIsComplete ==
    ASSUME LogInv, Busy, NEW h \in Log!Hours
    PROVE  OfLog(h) \subseteq Log!OfHour(tool.ids, h)
<1> SUFFICES ASSUME NEW i \in tool.ids \cap readable, Log!HourOf(at[i]) = h
             PROVE  Log!InHour(i, h)
  BY DEF OfLog, Log!OfHour
<1>1. at[i] \in Nat /\ h \in Int
  BY TimeOf DEF LogInv, Log!Hours
<1>. QED BY <1>1, HourBounds DEF Log!InHour

LEMMA ToolWriteKeeps ==
    ASSUME LogInv, Log!ToolWrites
    PROVE  LogInv'
<1>1. /\ tool.step = "write" /\ Busy
      /\ tool' = [tool EXCEPT !.step = "files", !.held = {}]
      /\ UNCHANGED <<now, at, queue, readable>>
  BY DEF Log!ToolWrites, Busy
<1>2. tool = [field \in ToolFields |-> tool[field]] /\ Tooled
  BY <1>1 DEF LogInv, Tooled
<1>3. PICK f : tool.held = {f} /\ IsFile(f.content)
  BY <1>1, <1>2 DEF Tooled, Busy
<1>4. PICK hour, content, g :
         /\ hour = f.hour /\ content = f.content
         /\ g = [content EXCEPT !.table = Log!OfHour(tool.ids, hour)]
         /\ files' = IF content.marked THEN [files EXCEPT ![hour] = g] ELSE files
  BY <1>3 DEF Log!ToolWrites
<1>5. IsFile(g) /\ g.marked = content.marked /\ g.table = Log!OfHour(tool.ids, hour) /\ g.runs = content.runs
  <2>1. IsFile(content)
    BY <1>3, <1>4
  <2>. QED BY <1>4, <2>1, Revised
<1>6. /\ tool' = [field \in ToolFields |-> tool'[field]] /\ Busy'
      /\ tool'.step = "files" /\ tool'.mode = tool.mode /\ tool'.ids = tool.ids
      /\ tool'.held = {} /\ tool'.hours = tool.hours
  BY <1>1, <1>2 DEF ToolFields, Busy
<1>7. Numbered'
  BY <1>1 DEF LogInv, Numbered, Waiting
<1>8. Tooled'
  <2>1. tool.mode \in Log!Modes /\ tool.ids \subseteq 1 .. Len(at) /\ tool.ids \cap Waiting = {}
    BY <1>1, <1>2 DEF Tooled
  <2>2. at' = at /\ Waiting' = Waiting
    BY <1>1 DEF Waiting
  <2>. QED BY <1>6, <2>1, <2>2 DEF Tooled
<1>9. /\ files' = [h \in Log!Hours |-> files'[h]]
      /\ \A h \in Log!Hours : files'[h] = IF content.marked /\ h = hour THEN g ELSE files[h]
  <2>1. files = [h \in Log!Hours |-> files[h]]
    BY DEF LogInv, Filed
  <2>. QED BY <1>4, <2>1
<1>10. Filed'
  BY <1>5, <1>9 DEF LogInv, Filed
<1>11. Repaired'
  <2> SUFFICES ASSUME tool.mode # "summaries", NEW h \in Log!Hours \ tool.hours, files'[h].marked
               PROVE  OfLog(h)' \subseteq files'[h].table
    BY <1>6 DEF Repaired
  <2>1. OfLog(h)' = OfLog(h)
    BY <1>1, <1>6 DEF OfLog
  <2>2. CASE content.marked /\ h = hour
    <3>1. files'[h] = g
      BY <1>9, <2>2
    <3>2. OfLog(h) \subseteq Log!OfHour(tool.ids, h)
      BY <1>1, HourIsComplete
    <3>. QED BY <1>5, <2>1, <2>2, <3>1, <3>2
  <2>3. CASE ~(content.marked /\ h = hour)
    <3>1. files'[h] = files[h] /\ ~(f.hour = h /\ f.content.marked)
      BY <1>4, <1>9, <2>3
    <3>2. OfLog(h) \subseteq files[h].table \/ \E x \in tool.held : x.hour = h /\ x.content.marked
      BY <1>1, <3>1 DEF LogInv, Repaired
    <3>. QED BY <1>3, <2>1, <3>1, <3>2
  <2>. QED BY <2>2, <2>3
<1>. QED BY <1>7, <1>8, <1>10, <1>11 DEF LogInv

LEMMA ToolRegenerateKeeps ==
    ASSUME LogInv, NEW hour \in Log!Hours, Log!ToolRegenerates(hour)
    PROVE  LogInv'
<1> DEFINE ids == Log!OfHour(tool.ids, hour)
<1>1. PICK g :
        /\ g = Log!HourFile(ids, {}) /\ files' = [files EXCEPT ![hour] = g]
        /\ tool.step = "files" /\ Busy
        /\ tool' = [tool EXCEPT !.hours = tool.hours \ {hour}]
        /\ UNCHANGED <<now, at, queue, readable>>
  BY DEF Log!ToolRegenerates, Busy
<1>2. tool = [field \in ToolFields |-> tool[field]] /\ Tooled
  BY <1>1 DEF LogInv, Tooled
<1>3. IsFile(g) /\ g.table = ids
  BY <1>1, FileShape
<1>4. OfLog(hour) \subseteq ids
  BY <1>1, HourIsComplete
<1>. HIDE DEF ids
<1>5. /\ tool' = [field \in ToolFields |-> tool'[field]] /\ Busy'
      /\ tool'.step = "files" /\ tool'.mode = tool.mode /\ tool'.ids = tool.ids
      /\ tool'.held = tool.held /\ tool'.hours = tool.hours \ {hour}
  BY <1>1, <1>2 DEF ToolFields, Busy
<1>6. Numbered'
  BY <1>1 DEF LogInv, Numbered, Waiting
<1>7. Tooled'
  BY <1>1, <1>2, <1>5 DEF Tooled, Waiting
<1>8. /\ files' = [h \in Log!Hours |-> files'[h]]
      /\ \A h \in Log!Hours : files'[h] = IF h = hour THEN g ELSE files[h]
  <2>1. files = [h \in Log!Hours |-> files[h]]
    BY DEF LogInv, Filed
  <2>. QED BY <1>1, <2>1
<1>9. Filed'
  BY <1>3, <1>8 DEF LogInv, Filed
<1>10. Repaired'
  <2> SUFFICES ASSUME tool.mode # "summaries", NEW h \in Log!Hours \ (tool.hours \ {hour}),
                      files'[h].marked
               PROVE  \/ OfLog(h)' \subseteq files'[h].table
                      \/ \E f \in tool.held : f.hour = h /\ f.content.marked
    BY <1>5 DEF Repaired
  <2>1. OfLog(h)' = OfLog(h)
    BY <1>1, <1>5 DEF OfLog
  <2>2. CASE h = hour
    BY <1>3, <1>4, <1>8, <2>1, <2>2
  <2>3. CASE h # hour
    BY <1>1, <1>8, <2>1, <2>3 DEF LogInv, Repaired
  <2>. QED BY <2>2, <2>3
<1>. QED BY <1>6, <1>7, <1>9, <1>10 DEF LogInv

LEMMA ToolEndKeeps ==
    ASSUME LogInv, Log!ToolEnds
    PROVE  LogInv'
<1>1. tool'.step = "idle" /\ ~Busy' /\ UNCHANGED <<now, at, queue, readable, files>>
  BY DEF Log!ToolEnds, Log!NoTool, Busy
<1>2. Numbered' /\ Filed'
  BY <1>1 DEF LogInv, Numbered, Filed, Waiting
<1>. QED BY <1>1, <1>2 DEF LogInv, Tooled, Repaired

(* The invariant is there at the start and kept by every step.             *)
LEMMA ReportStep ==
    ASSUME ReportInv, [Next]_vars
    PROVE  ReportInv'
<1>1. task' = task
  BY DEF Next, vars, Tick, CryptoTask, WeatherTask, ReportTask
<1> SUFFICES ASSUME task = "report" PROVE LogInv'
  BY <1>1 DEF ReportInv
<1>2. LogInv
  BY DEF ReportInv
<1>3. CASE ReportTask
  <2>1. CASE Log!Maintenance
    BY <1>2, <2>1, ToolStartKeeps, ToolReadKeeps, ToolRegenerateKeeps, ToolSummarizesKeeps,
       ToolWriteKeeps, ToolEndKeeps DEF Log!Maintenance
  <2>. QED BY <1>2, <1>3, <2>1, LiveKeeps DEF ReportTask, Log!ReportNext
<1>4. CASE Tick
  <2>1. now' = now + 1 /\ UNCHANGED <<at, queue, readable, files, tool>>
    BY <1>4 DEF Tick, reportVars
  <2>2. Numbered'
    BY <1>2, <2>1 DEF LogInv, Numbered, Waiting
  <2>3. Len(at) \in Nat
    BY <1>2, LenProperties DEF LogInv, Numbered
  <2>4. LogMoves
    BY <2>1, <2>2, <2>3 DEF LogMoves, Waiting
  <2>. QED BY <1>2, <2>1, <2>4, FilesUntouched
<1>5. CASE UNCHANGED vars
  <2>1. UNCHANGED <<now, at, queue, readable, files, tool>>
    BY <1>5 DEF vars, reportVars
  <2>2. LogMoves
    BY <1>2, <2>1, TradesMove DEF LogInv
  <2>. QED BY <1>2, <2>1, <2>2, FilesUntouched
<1>. QED BY <1>3, <1>4, <1>5 DEF Next, CryptoTask, WeatherTask

LEMMA ReportStart == Init => ReportInv
<1> SUFFICES ASSUME Init PROVE LogInv
  BY DEF ReportInv
<1>1. /\ now = 0 /\ at = <<>> /\ queue = <<>> /\ readable = {} /\ tool.step = "idle"
      /\ files = [h \in Log!Hours |-> Log!NoFile]
  BY DEF Init, Log!ReportInit, Log!NoTool
<1>2. Numbered
  BY <1>1 DEF Numbered, Waiting
<1>3. Filed
  BY <1>1, FileShape DEF Filed
<1>. QED BY <1>1, <1>2, <1>3 DEF LogInv, Tooled, Repaired, Busy

(* A maintenance process ends with its last step only.                     *)
LEMMA OnlyItsEnd ==
    ASSUME LogInv, ReportTask, tool.step # "idle", tool'.step = "idle"
    PROVE  Log!ToolEnds
<1>1. tool = [field \in ToolFields |-> tool[field]] /\ tool' # tool
  BY DEF LogInv, Tooled, Busy
<1>3. ASSUME NEW h, Log!ToolRegenerates(h) PROVE FALSE
  <2>1. tool' = [tool EXCEPT !.hours = tool.hours \ {h}]
    BY <1>3 DEF Log!ToolRegenerates
  <2>. QED BY <1>1, <2>1 DEF ToolFields
<1>4. ASSUME NEW d, Log!ToolSummarizes(d) PROVE FALSE
  <2>1. tool' = [tool EXCEPT !.days = tool.days \ {d}]
    BY <1>4 DEF Log!ToolSummarizes
  <2>. QED BY <1>1, <2>1 DEF ToolFields
<1>5. ASSUME NEW h, Log!ToolReads(h) PROVE FALSE
  <2>1. tool' = [tool EXCEPT !.step = "write", !.hours = tool.hours \ {h},
                             !.held = {[hour |-> h, content |-> files[h]]}]
    BY <1>5 DEF Log!ToolReads
  <2>. QED BY <1>1, <2>1 DEF ToolFields
<1>6. ~Log!ToolWrites
  <2>1. Log!ToolWrites => tool' = [tool EXCEPT !.step = "files", !.held = {}]
    BY DEF Log!ToolWrites
  <2>. QED BY <1>1, <2>1 DEF ToolFields
<1>7. ASSUME NEW mode, NEW d, Log!ToolStarts(mode, d) PROVE FALSE
  BY <1>7 DEF Log!ToolStarts
<1>8. Log!Maintenance
  <2>1. ~(Log!TradeCloses \/ Log!Writer \/ Log!LiveReport \/ Log!ReportFails)
    BY <1>1 DEF Log!TradeCloses, Log!Writer, Log!WriterAppends, Log!AppendFails, Log!LiveReport,
                Log!ReportStarts, Log!WriteTables, Log!WriteSummary, Log!ReportFails
  <2>2. ~(Log!Crash \/ Log!CrashInTables \/ Log!Restart \/ \E whole \in BOOLEAN : Log!CrashInAppend(whole))
    BY <1>1 DEF Log!Crash, Log!CrashInTables, Log!Restart, Log!CrashInAppend
  <2>. QED BY <2>1, <2>2 DEF ReportTask, Log!ReportNext
<1>. QED BY <1>3, <1>4, <1>5, <1>6, <1>7, <1>8 DEF Log!Maintenance

-----------------------------------------------------------------------------
(* What the log and its files promise.                                     *)

(* report.rs:915, 1057: when a maintenance process has ended, each file   *)
(* with tables has every trade of its hour that the process read and the   *)
(* log still has, also where the live process wrote the file meanwhile.    *)
THEOREM RepairsAreComplete == FairSpec => RepairIsComplete
<1>1. ASSUME ReportInv, [Next]_vars
      PROVE  [tool.step # "idle" /\ tool'.step = "idle" /\ tool.mode # "summaries" =>
                 \A h \in DOMAIN files : files[h].marked =>
                     {i \in tool.ids \cap readable : Log!HourOf(at[i]) = h} \subseteq files[h].table]_vars
  <2> SUFFICES ASSUME Next, tool.step # "idle", tool'.step = "idle", tool.mode # "summaries",
                      NEW h \in DOMAIN files, files[h].marked
               PROVE  OfLog(h) \subseteq files[h].table
    BY <1>1 DEF OfLog
  <2>1. ReportTask
    <3>1. tool' # tool
      OBVIOUS
    <3>. QED BY <3>1 DEF Next, Tick, CryptoTask, WeatherTask, reportVars
  <2>2. LogInv
    BY <1>1, <2>1 DEF ReportTask, ReportInv
  <2>3. Log!ToolEnds
    BY <2>1, <2>2, OnlyItsEnd
  <2>4. tool.held = {} /\ tool.hours = {} /\ Busy
    BY <2>2, <2>3 DEF LogInv, Tooled, Busy, Log!ToolEnds
  <2>5. h \in Log!Hours
    <3>1. files = [k \in Log!Hours |-> files[k]]
      BY <2>2 DEF LogInv, Filed
    <3>. QED BY <3>1
  <2>. QED BY <2>2, <2>4, <2>5 DEF LogInv, Repaired
<1>2. ReportInv /\ [Next]_vars => ReportInv'
  BY ReportStep
<1>. QED BY <1>1, <1>2, ReportStart, PTL DEF FairSpec, Spec, RepairIsComplete

(* Four steps write into the files.                                        *)
LEMMA WhoWrites ==
    ASSUME Next, files' # files
    PROVE  /\ ReportTask
           /\ \/ Log!WriteTables \/ Log!ToolWrites \/ Log!CrashInTables
              \/ \E h \in Log!Hours : Log!ToolRegenerates(h)
<1>1. ReportTask
  BY DEF Next, Tick, CryptoTask, WeatherTask, reportVars
<1>2. ~(Log!TradeCloses \/ Log!Writer \/ Log!ReportStarts \/ Log!WriteSummary \/ Log!ReportFails)
  BY DEF Log!TradeCloses, Log!Writer, Log!WriterAppends, Log!AppendFails,
         Log!ReportStarts, Log!WriteSummary, Log!ReportFails
<1>3. ~(Log!Crash \/ Log!Restart \/ \E whole \in BOOLEAN : Log!CrashInAppend(whole))
  BY DEF Log!Crash, Log!Restart, Log!CrashInAppend
<1>4. Log!Maintenance => Log!ToolWrites \/ \E h \in Log!Hours : Log!ToolRegenerates(h)
  BY DEF Log!Maintenance, Log!ToolStarts, Log!ToolReads, Log!ToolSummarizes, Log!ToolEnds
<1>. QED BY <1>1, <1>2, <1>3, <1>4 DEF ReportTask, Log!ReportNext, Log!LiveReport

(* report.rs:1105, 1057: a run's snapshots leave the file of their hour     *)
(* only when the write of a live process that is stopped is cut, when the  *)
(* files are regenerated from the log, and when a writer had read the file *)
(* before they came into it.                                               *)
THEOREM SnapshotsStay == FairSpec => SnapshotsKept
<1>1. ASSUME ReportInv, [Next]_vars
      PROVE  [\A h \in DOMAIN files : ~(files[h].runs \subseteq files'[h].runs) =>
                 \/ up /\ ~up'
                 \/ tool.step = "files" /\ tool.mode = "regenerate"
                 \/ live.step = "tables" /\ ~(files[h].runs \subseteq live.kept)
                 \/ tool.step = "write" /\ \E f \in tool.held :
                       f.hour = h /\ ~(files[h].runs \subseteq f.content.runs)]_vars
  <2> SUFFICES ASSUME Next, NEW h \in DOMAIN files, ~(files[h].runs \subseteq files'[h].runs)
               PROVE  \/ up /\ ~up'
                      \/ tool.step = "files" /\ tool.mode = "regenerate"
                      \/ live.step = "tables" /\ ~(files[h].runs \subseteq live.kept)
                      \/ tool.step = "write" /\ \E f \in tool.held :
                            f.hour = h /\ ~(files[h].runs \subseteq f.content.runs)
    BY <1>1
  <2>1. files' # files
    OBVIOUS
  <2>2. LogInv
    BY <1>1, <2>1, WhoWrites DEF ReportTask, ReportInv
  <2>3. \/ Log!WriteTables \/ Log!ToolWrites \/ Log!CrashInTables
        \/ \E k \in Log!Hours : Log!ToolRegenerates(k)
    BY <2>1, WhoWrites
  <2>4. CASE Log!WriteTables
    <3>1. PICK hour, f, ids : /\ f = Log!HourFile(ids, live.kept \cup Log!RunBlock(live.run))
                              /\ files' = [files EXCEPT ![hour] = f]
                              /\ live.step = "tables"
      BY <2>4 DEF Log!WriteTables, Log!Tables
    <3>2. f.runs = live.kept \cup Log!RunBlock(live.run)
      BY <3>1, FileShape
    <3>3. files'[h] = f \/ files'[h] = files[h]
      BY <3>1
    <3>. QED BY <3>1, <3>2, <3>3
  <2>5. CASE Log!ToolWrites
    <3>1. tool.step = "write" /\ Busy
      BY <2>5 DEF Log!ToolWrites, Busy
    <3>2. PICK f : tool.held = {f} /\ IsFile(f.content)
      BY <2>2, <3>1 DEF LogInv, Tooled
    <3>3. PICK hour, content, g :
             /\ hour = f.hour /\ content = f.content
             /\ g = [content EXCEPT !.table = Log!OfHour(tool.ids, hour)]
             /\ files' = IF content.marked THEN [files EXCEPT ![hour] = g] ELSE files
      BY <2>5, <3>2 DEF Log!ToolWrites
    <3>4. g.runs = content.runs
      BY <3>2, <3>3, Revised
    <3>5. files'[h] = files[h] \/ (h = hour /\ files'[h] = g)
      BY <3>3
    <3>. QED BY <3>1, <3>2, <3>3, <3>4, <3>5
  <2>6. CASE Log!CrashInTables
    BY <2>6 DEF Log!CrashInTables, Log!Stop
  <2>7. CASE \E k \in Log!Hours : Log!ToolRegenerates(k)
    BY <2>7 DEF Log!ToolRegenerates
  <2>. QED BY <2>3, <2>4, <2>5, <2>6, <2>7
<1>2. ReportInv /\ [Next]_vars => ReportInv'
  BY ReportStep
<1>. QED BY <1>1, <1>2, ReportStart, PTL DEF FairSpec, Spec, SnapshotsKept

(* report.rs:1106, 1057: a trade leaves the table of its hour only when    *)
(* the write of a live process that is stopped is cut, and by a            *)
(* maintenance process whose copy of the log is older than the trade.      *)
THEOREM TradesStayInTables == FairSpec => TablesKeepTrades
<1>1. ASSUME ReportInv, [Next]_vars
      PROVE  [\A h \in DOMAIN files :
                 LET gone == {i \in readable' \cap files[h].table :
                                 Log!HourOf(at[i]) = h /\ i \notin files'[h].table}
                 IN  gone # {} => \/ up /\ ~up'
                                  \/ tool.step # "idle" /\ gone \cap tool.ids = {}]_vars
  <2> SUFFICES ASSUME Next, NEW h \in DOMAIN files,
                      NEW i \in readable' \cap files[h].table,
                      Log!HourOf(at[i]) = h, i \notin files'[h].table
               PROVE  \/ up /\ ~up'
                      \/ /\ tool.step # "idle"
                         /\ \A j \in readable' \cap files[h].table :
                               Log!HourOf(at[j]) = h /\ j \in tool.ids => j \in files'[h].table
    BY <1>1
  <2>1. files' # files
    OBVIOUS
  <2>2. LogInv
    BY <1>1, <2>1, WhoWrites DEF ReportTask, ReportInv
  <2>3. \/ Log!WriteTables \/ Log!ToolWrites \/ Log!CrashInTables
        \/ \E k \in Log!Hours : Log!ToolRegenerates(k)
    BY <2>1, WhoWrites
  <2>4. h \in Log!Hours
    <3>1. files = [k \in Log!Hours |-> files[k]]
      BY <2>2 DEF LogInv, Filed
    <3>. QED BY <3>1
  <2>5. CASE Log!WriteTables
    <3>1. PICK hour, f : /\ f = Log!HourFile(Log!RecentTrades(hour * HourLen),
                                             live.kept \cup Log!RunBlock(live.run))
                         /\ files' = [files EXCEPT ![hour] = f]
                         /\ readable' = readable
      BY <2>5 DEF Log!WriteTables, Log!Tables
    <3>2. f.table = Log!RecentTrades(hour * HourLen)
      BY <3>1, FileShape
    <3>3. hour = h /\ files'[h] = f
      BY <3>1
    <3>4. i \in Log!RecentTrades(h * HourLen)
      BY <2>2, <2>4, <3>1, TablesAreFull DEF LogInv
    <3>. QED BY <3>2, <3>3, <3>4
  <2>6. CASE Log!ToolWrites
    <3>1. Busy
      BY <2>6 DEF Log!ToolWrites, Busy
    <3>2. PICK f : tool.held = {f} /\ IsFile(f.content)
      BY <2>2, <2>6 DEF LogInv, Tooled, Log!ToolWrites, Busy
    <3>3. PICK hour, content, g :
             /\ hour = f.hour /\ content = f.content
             /\ g = [content EXCEPT !.table = Log!OfHour(tool.ids, hour)]
             /\ files' = IF content.marked THEN [files EXCEPT ![hour] = g] ELSE files
             /\ readable' = readable
      BY <2>6, <3>2 DEF Log!ToolWrites
    <3>4. hour = h /\ files'[h] = g /\ g.table = Log!OfHour(tool.ids, h)
      BY <3>2, <3>3, Revised
    <3>. QED BY <2>2, <2>4, <3>1, <3>3, <3>4, HourIsComplete DEF Busy, OfLog
  <2>7. CASE Log!CrashInTables
    BY <2>7 DEF Log!CrashInTables, Log!Stop
  <2>8. ASSUME NEW k \in Log!Hours, Log!ToolRegenerates(k)
        PROVE  /\ tool.step # "idle"
               /\ \A j \in readable' \cap files[h].table :
                     Log!HourOf(at[j]) = h /\ j \in tool.ids => j \in files'[h].table
    <3>1. PICK f : /\ f = Log!HourFile(Log!OfHour(tool.ids, k), {})
                   /\ files' = [files EXCEPT ![k] = f]
                   /\ readable' = readable
      BY <2>8 DEF Log!ToolRegenerates
    <3>2. k = h /\ files'[h] = f /\ f.table = Log!OfHour(tool.ids, h)
      BY <3>1, FileShape
    <3>3. Busy
      BY <2>8 DEF Log!ToolRegenerates, Busy
    <3>. QED BY <2>2, <2>4, <3>1, <3>2, <3>3, HourIsComplete DEF Busy, OfLog
  <2>. QED BY <2>3, <2>5, <2>6, <2>7, <2>8
<1>2. ReportInv /\ [Next]_vars => ReportInv'
  BY ReportStep
<1>. QED BY <1>1, <1>2, ReportStart, PTL DEF FairSpec, Spec, TablesKeepTrades

-----------------------------------------------------------------------------
(* The engines, and who has handed a record to the trade channel.          *)

EngineFields == {"kind", "high", "low", "position", "end"}
IsEngine(e) == e = [field \in EngineFields |-> e[field]]

(* Before the first market and while the next one is looked for, nothing   *)
(* is held: opening a market drops no position.                            *)
EngineInv ==
    /\ IsEngine(engine) /\ \A x \in DOMAIN engines : IsEngine(engines[x])
    /\ task = "crypto" /\ (slot = -1 \/ fetching # {}) => ~EngineHolds(engine)
    /\ task = "report" => sent = {}

(* An engine ends its position by leaving, and holds nothing afterwards.   *)
LEMMA EngineSteps ==
    /\ \A kind : IsEngine(NewEngine(kind)) /\ ~EngineHolds(NewEngine(kind))
    /\ \A e : IsEngine(e) =>
          /\ IsEngine(ForceClose(e)) /\ ~EngineHolds(ForceClose(e))
          /\ \A end : /\ IsEngine(EngineCycleOpen(e, end))
                      /\ ~EngineHolds(EngineCycleOpen(e, end))
          /\ \A price, ts :
                /\ IsEngine(EngineTick(e, price, ts))
                /\ Leaves(e, price, ts) <=>
                       EngineHolds(e) /\ ~EngineHolds(EngineTick(e, price, ts))
<1>1. \A kind : IsEngine(NewEngine(kind)) /\ ~EngineHolds(NewEngine(kind))
  BY DEF IsEngine, NewEngine, EngineFields, EngineHolds
<1>2. ASSUME NEW e, IsEngine(e)
      PROVE  IsEngine(FreshWatching(e)) /\ ~EngineHolds(FreshWatching(e))
  BY <1>2 DEF IsEngine, EngineFields, FreshWatching, EngineHolds
<1>3. ASSUME NEW e, IsEngine(e) PROVE IsEngine(ForceClose(e)) /\ ~EngineHolds(ForceClose(e))
  BY <1>2, <1>3 DEF ForceClose
<1>4. ASSUME NEW e, IsEngine(e), NEW end
      PROVE  IsEngine(EngineCycleOpen(e, end)) /\ ~EngineHolds(EngineCycleOpen(e, end))
  <2>1. PICK f : f = FreshWatching(e)
    OBVIOUS
  <2>2. IsEngine(f) /\ ~EngineHolds(f)
    BY <1>2, <1>4, <2>1
  <2>3. IsEngine([f EXCEPT !.end = end]) /\ ~EngineHolds([f EXCEPT !.end = end])
    BY <2>2 DEF IsEngine, EngineFields, EngineHolds
  <2>. QED BY <2>1, <2>3 DEF EngineCycleOpen
<1>5. ASSUME NEW e, IsEngine(e), NEW price, NEW ts PROVE IsEngine(Enters(e, price, ts))
  <2>1. PICK a : a = Advance(e, price)
    OBVIOUS
  <2>2. IsEngine(a)
    <3>1. ASSUME NEW h, NEW l PROVE IsEngine([e EXCEPT !.high = h, !.low = l])
      BY <1>5 DEF IsEngine, EngineFields
    <3>2. PICK h, l : a = [e EXCEPT !.high = h, !.low = l]
      BY <2>1 DEF Advance
    <3>. QED BY <3>1, <3>2
  <2>3. ASSUME NEW p PROVE IsEngine([a EXCEPT !.high = {}, !.low = {}, !.position = p])
    BY <2>2 DEF IsEngine, EngineFields
  <2>4. \/ Enters(e, price, ts) = a
        \/ \E p : Enters(e, price, ts) = [a EXCEPT !.high = {}, !.low = {}, !.position = p]
    BY <2>1 DEF Enters
  <2>. QED BY <2>2, <2>3, <2>4
<1>6. ASSUME NEW e, IsEngine(e), NEW price, NEW ts
      PROVE  /\ IsEngine(EngineTick(e, price, ts))
             /\ Leaves(e, price, ts) <=>
                    EngineHolds(e) /\ ~EngineHolds(EngineTick(e, price, ts))
  <2>1. Leaves(e, price, ts) => EngineHolds(e)
    BY DEF Leaves, EngineHolds
  <2>. QED BY <1>2, <1>5, <1>6, <2>1 DEF EngineTick
<1>. QED BY <1>1, <1>3, <1>4, <1>6

LoggedAreClosed == \A x \in sent' : HeldBy(x) /\ ~HeldBy(x)'
ClosedAreLogged == \A x \in Holders : HeldBy(x) /\ ~HeldBy(x)' => x \in sent'

LogsAsItCloses ==
    /\ LoggedAreClosed
    /\ \A x \in Holders : HeldBy(x) /\ ~HeldBy(x)' /\ x \notin sent' =>
          ReferenceTrade \/ FeedReplaced

(* Who holds a position in the task of a market.                           *)
LEMMA HeldInMarket ==
    ASSUME task = "crypto", task' = task
    PROVE  /\ \A v \in Ids : /\ HeldBy(v) <=> IsHolding(machines[v])
                             /\ HeldBy(v)' <=> IsHolding(machines'[v])
           /\ HeldBy(Engine) <=> EngineHolds(engine)
           /\ HeldBy(Engine)' <=> EngineHolds(engine')
           /\ Holders = Ids \cup {Engine}
<1>1. \A v \in Ids : v # Engine
  BY MarketAssumption DEF Ids
<1>2. Holders = Ids \cup {Engine}
  BY DEF Holders, Ids
<1>. QED BY <1>1, <1>2 DEF HeldBy

(* A step of the market after which everybody holds what they held, or     *)
(* before which nobody held anything, closes nothing.                      *)
LEMMA NothingClosed ==
    ASSUME task = "crypto", task' = task, sent' = {},
           \A v \in Ids : IsHolding(machines[v]) => IsHolding(machines'[v]),
           EngineHolds(engine) => EngineHolds(engine')
    PROVE  LogsAsItCloses
  BY HeldInMarket DEF LogsAsItCloses, LoggedAreClosed

(* A quote logs what it closes, and closes nothing else.                   *)
LEMMA QuoteLogs ==
    ASSUME task = "crypto", task' = task, Types, EngineInv, NEW t \in PolyTicks, OnQuote(t)
    PROVE  /\ LoggedAreClosed /\ ClosedAreLogged
           /\ IsEngine(engine') /\ (slot = -1 => engine' = engine)
<1>1. CASE slot = -1
  <2>1. sent' = {} /\ machines' = machines /\ engine' = engine
    BY <1>1 DEF OnQuote, Subscribed
  <2>. QED BY <2>1, HeldInMarket DEF LoggedAreClosed, ClosedAreLogged, EngineInv
<1>2. CASE slot # -1
  <2>1. /\ machines' = [v \in Ids |-> OnPoly(machines[v], t)]
        /\ engine' = EngineTick(engine, t.up, t.ts)
        /\ sent' = RecordsOfQuote(t)
    BY <1>2 DEF OnQuote, Subscribed, Ids
  <2>2. IsEngine(engine) /\ IsEngine(engine')
    BY <2>1, EngineSteps DEF EngineInv
  <2>3. ASSUME NEW v \in Ids
        PROVE  PolyRecords(machines[v], t) # {} <=>
                   IsHolding(machines[v]) /\ ~IsHolding(machines'[v])
    <3>1. machines[v] \in Machines /\ machines'[v] = OnPoly(machines[v], t)
      BY <2>1 DEF Types
    <3>2. CASE PolyRecords(machines[v], t) # {}
      <4>1. LeavesStep(machines[v], machines'[v])
        BY <3>1, <3>2, OnPolyStep
      <4>2. machines'[v].state = Watching
        BY <4>1 DEF LeavesStep
      <4>. QED BY <3>2, <4>1, <4>2 DEF LeavesStep, IsHolding, Watching
    <3>3. CASE PolyRecords(machines[v], t) = {} /\ IsHolding(machines[v])
      <4>1. machines'[v] = ObservePoly(machines[v], t)
        BY <3>1, <3>3 DEF OnPoly
      <4>2. machines'[v].state = machines[v].state
        BY <3>1, <4>1, ObservePolyStep DEF StaysStep
      <4>. QED BY <3>3, <4>2 DEF IsHolding
    <3>. QED BY <3>2, <3>3
  <2>4. Leaves(engine, t.up, t.ts) <=> EngineHolds(engine) /\ ~EngineHolds(engine')
    BY <2>1, <2>2, EngineSteps
  <2>5. \A v \in Ids : v # Engine
    BY MarketAssumption DEF Ids
  <2>6. \A x : x \in sent' <=> \/ x \in Ids /\ PolyRecords(machines[x], t) # {}
                               \/ x = Engine /\ Leaves(engine, t.up, t.ts)
    BY <2>1, <2>4 DEF RecordsOfQuote, Ids
  <2>. QED BY <1>2, <2>2, <2>3, <2>4, <2>5, <2>6, HeldInMarket
       DEF LoggedAreClosed, ClosedAreLogged
<1>. QED BY <1>1, <1>2

(* So does the end of a market, after which nobody holds anything.         *)
LEMMA CloseLogs ==
    ASSUME task = "crypto", task' = task, Types, Rotation, EngineInv, CloseAll
    PROVE  /\ LoggedAreClosed /\ ClosedAreLogged
           /\ IsEngine(engine') /\ ~EngineHolds(engine')
<1>1. CASE slot = -1
  <2>1. sent' = {} /\ machines' = machines /\ engine' = engine
    BY <1>1 DEF CloseAll, Subscribed
  <2>. QED BY <1>1, <2>1, HeldInMarket DEF LoggedAreClosed, ClosedAreLogged, EngineInv
<1>2. CASE slot # -1
  <2>1. /\ machines' = [v \in Ids |-> CycleClose(machines[v])]
        /\ engine' = ForceClose(engine)
        /\ sent' = {v \in Ids : CloseRecords(machines[v]) # {}}
                   \cup {e \in {Engine} : EngineHolds(engine)}
    BY <1>2 DEF CloseAll, Subscribed, Ids
  <2>2. IsEngine(engine') /\ ~EngineHolds(engine')
    BY <2>1, EngineSteps DEF EngineInv
  <2>3. ASSUME NEW v \in Ids
        PROVE  CloseRecords(machines[v]) # {} <=>
                   IsHolding(machines[v]) /\ ~IsHolding(machines'[v])
    <3>1. machines[v] \in Machines /\ machines'[v] = CycleClose(machines[v])
      BY <2>1 DEF Types
    <3>2. ~IsHolding(machines'[v])
      BY <3>1, CycleCloseStep
    <3>. QED BY <3>2 DEF CloseRecords
  <2>4. \A v \in Ids : v # Engine
    BY MarketAssumption DEF Ids
  <2>5. \A x : x \in sent' <=> \/ x \in Ids /\ CloseRecords(machines[x]) # {}
                               \/ x = Engine /\ EngineHolds(engine)
    BY <2>1
  <2>. QED BY <2>2, <2>3, <2>4, <2>5, HeldInMarket DEF LoggedAreClosed, ClosedAreLogged
<1>. QED BY <1>1, <1>2

(* Every step of the task of a market.                                     *)
LEMMA CryptoLogs ==
    ASSUME task = "crypto", MarketInv, EngineInv, CryptoTask
    PROVE  LogsAsItCloses /\ EngineInv'
<1>1. /\ task' = task /\ UNCHANGED engines /\ Types /\ Rotation /\ IsEngine(engine)
      /\ \A x \in DOMAIN engines : IsEngine(engines[x])
      /\ (slot = -1 \/ fetching # {}) => ~EngineHolds(engine)
  BY DEF CryptoTask, eventVars, MarketInv, EngineInv
<1>2. ASSUME IsEngine(engine'), (slot' = -1 \/ fetching' # {}) => ~EngineHolds(engine')
      PROVE  EngineInv'
  BY <1>1, <1>2 DEF EngineInv
<1>3. LoggedAreClosed /\ ClosedAreLogged => LogsAsItCloses
  BY DEF LogsAsItCloses, ClosedAreLogged
<1>4. CASE OnTicker
  <2>1. LoggedAreClosed /\ ClosedAreLogged /\ IsEngine(engine') /\ ~EngineHolds(engine')
    BY <1>1, <1>4, CloseLogs DEF OnTicker
  <2>. QED BY <1>2, <1>3, <2>1
<1>5. CASE FetchOk
  <2>1. PICK next \in fetching : engine' = EngineCycleOpen(engine, next + CycleLen) /\ sent' = {}
    BY <1>5 DEF FetchOk
  <2>2. IsEngine(engine') /\ ~EngineHolds(engine')
    BY <1>1, <2>1, EngineSteps
  <2>3. ~EngineHolds(engine) /\ \A v \in Ids : ~IsHolding(machines[v])
    BY <1>1, <2>1 DEF Rotation
  <2>. QED BY <1>1, <1>2, <2>1, <2>2, <2>3, NothingClosed
<1>6. CASE FetchFails
  <2>1. sent' = {} /\ fetching' = {} /\ UNCHANGED <<slot, machines, engine>>
    BY <1>6 DEF FetchFails
  <2>. QED BY <1>1, <1>2, <2>1, NothingClosed
<1>7. CASE QueuedTrade \/ \E p \in RefPrices : Trade(p)
  <2>1. sent' = {} /\ UNCHANGED <<slot, fetching, engine>>
    BY <1>7 DEF QueuedTrade, Trade, OnReference
  <2>2. ReferenceTrade
    BY <1>1, <1>7 DEF ReferenceTrade
  <2>3. LogsAsItCloses
    BY <2>1, <2>2 DEF LogsAsItCloses, LoggedAreClosed
  <2>. QED BY <1>1, <1>2, <2>1, <2>3
<1>8. ASSUME NEW t \in PolyTicks, OnQuote(t), Selecting
      PROVE  LogsAsItCloses /\ EngineInv'
  <2>1. /\ LoggedAreClosed /\ ClosedAreLogged
        /\ IsEngine(engine') /\ (slot = -1 => engine' = engine)
    BY <1>1, <1>8, QuoteLogs
  <2>2. slot' = slot /\ fetching' = {}
    BY <1>8 DEF OnQuote, Selecting
  <2>. QED BY <1>1, <1>2, <1>3, <2>1, <2>2
<1>9. CASE QueuedQuote
  <2>1. quotes # <<>> /\ OnQuote(Head(quotes)) /\ Selecting /\ quotes \in Seq(PolyTicks)
    BY <1>1, <1>9 DEF QueuedQuote, Types
  <2>2. Head(quotes) \in PolyTicks
    BY <2>1
  <2>. QED BY <1>8, <2>1, <2>2
<1>10. ASSUME NEW p \in Ups, Quote(p)
       PROVE  LogsAsItCloses /\ EngineInv'
  <2> DEFINE t == [ts |-> now, up |-> p, dn |-> One - p]
  <2>1. t \in PolyTicks
    <3>1. now \in Int /\ p \in Int /\ One - p \in Int
      BY <1>1, MarketAssumption, MachineAssumption DEF Types
    <3>. QED BY <3>1 DEF PolyTicks
  <2>2. \/ OnQuote(t) /\ Selecting
        \/ sent' = {} /\ UNCHANGED <<slot, fetching, machines, engine>>
    BY <1>10 DEF Quote
  <2>. HIDE DEF t
  <2>. QED BY <1>1, <1>2, <1>8, <2>1, <2>2, NothingClosed
<1>. QED BY <1>4, <1>5, <1>6, <1>7, <1>9, <1>10 DEF CryptoTask, MarketNext

(* The engines of the events are those of the markets.                     *)
LEMMA SameEngines ==
    \A e, price, ts : /\ Monitor!EngineTick(e, price, ts) = EngineTick(e, price, ts)
                      /\ Monitor!Leaves(e, price, ts) = Leaves(e, price, ts)
<1>1. \A price, side : Monitor!MidOf(price, side) = MidOf(price, side)
  BY DEF Monitor!MidOf, MidOf
<1>2. \A e, price, ts : Monitor!Leaves(e, price, ts) = Leaves(e, price, ts)
  BY DEF Monitor!Leaves, Leaves, Monitor!MidOf, MidOf, Monitor!StopDistance, StopDistance,
         Monitor!Target, Target, Monitor!MaxHold, MaxHold
<1>3. \A e, price, ts : Monitor!Enters(e, price, ts) = Enters(e, price, ts)
  BY DEF Monitor!Enters, Enters, Monitor!Advance, Advance, Monitor!Ready, Ready,
         Monitor!MidOf, MidOf, Monitor!UpDown, UpDown
<1>4. \A e : /\ Monitor!FreshWatching(e) = FreshWatching(e)
             /\ Monitor!EngineHolds(e) = EngineHolds(e)
  BY DEF Monitor!FreshWatching, FreshWatching, Monitor!EngineHolds, EngineHolds
<1>. QED BY <1>2, <1>3, <1>4 DEF Monitor!EngineTick, EngineTick

(* A bucket's quote logs what it closes; a refresh starts engines anew.    *)
LEMMA WeatherLogs ==
    ASSUME task = "weather", EngineInv, WeatherTask
    PROVE  LogsAsItCloses /\ EngineInv'
<1>1. /\ task' = task /\ UNCHANGED engine /\ IsEngine(engine)
      /\ \A x \in DOMAIN engines : IsEngine(engines[x])
  BY DEF WeatherTask, marketVars, EngineInv
<1>2. (\A x \in DOMAIN engines' : IsEngine(engines'[x])) => EngineInv'
  BY <1>1 DEF EngineInv
<1>3. Holders = DOMAIN engines
  BY DEF Holders
<1>4. \A x : /\ HeldBy(x) <=> x \in DOMAIN engines /\ EngineHolds(engines[x])
             /\ HeldBy(x)' <=> x \in DOMAIN engines' /\ EngineHolds(engines'[x])
  BY <1>1 DEF HeldBy
<1>5. CASE Monitor!RefreshFails \/ Monitor!Subscribe \/ Monitor!StreamCloses
  <2>1. sent' = {} /\ engines' = engines
    BY <1>5 DEF Monitor!RefreshFails, Monitor!Subscribe, Monitor!StreamCloses
  <2>. QED BY <1>1, <1>2, <1>4, <2>1 DEF LogsAsItCloses, LoggedAreClosed
<1>6. ASSUME NEW buckets \in Events, Monitor!RefreshFinds(buckets)
      PROVE  LogsAsItCloses /\ EngineInv'
  <2>1. sent' = {} /\ engines' = [x \in buckets \X Monitor!Kinds |-> NewEngine(x[2])]
    BY <1>6 DEF Monitor!RefreshFinds, Monitor!FreshEngines, Monitor!NewEngine, NewEngine
  <2>2. \A x \in DOMAIN engines' : IsEngine(engines'[x])
    BY <2>1, EngineSteps
  <2>3. FeedReplaced
    BY <1>6 DEF FeedReplaced
  <2>. QED BY <1>2, <2>1, <2>2, <2>3 DEF LogsAsItCloses, LoggedAreClosed
<1>7. ASSUME NEW b \in feed, NEW p \in Ups, Monitor!BucketPrice(b, p)
      PROVE  LogsAsItCloses /\ EngineInv'
  <2>1. /\ engines' = [x \in DOMAIN engines |->
               IF x[1] = b THEN Monitor!EngineTick(engines[x], p, now) ELSE engines[x]]
        /\ sent' = {x \in DOMAIN engines : x[1] = b /\ Monitor!Leaves(engines[x], p, now)}
    BY <1>7 DEF Monitor!BucketPrice
  <2>2. \A e : /\ Monitor!EngineTick(e, p, now) = EngineTick(e, p, now)
               /\ Monitor!Leaves(e, p, now) <=> Leaves(e, p, now)
    BY SameEngines
  <2>3. ASSUME NEW x \in DOMAIN engines
        PROVE  /\ IsEngine(engines'[x])
               /\ x \in sent' <=> EngineHolds(engines[x]) /\ ~EngineHolds(engines'[x])
    <3>1. CASE x[1] = b
      <4>1. engines'[x] = EngineTick(engines[x], p, now)
        BY <2>1, <2>2, <3>1
      <4>2. x \in sent' <=> Leaves(engines[x], p, now)
        BY <2>1, <2>2, <3>1
      <4>3. IsEngine(engines[x])
        BY <1>1
      <4>. QED BY <4>1, <4>2, <4>3, EngineSteps
    <3>2. CASE x[1] # b
      BY <1>1, <2>1, <3>2
    <3>. QED BY <3>1, <3>2
  <2>4. DOMAIN engines' = DOMAIN engines /\ sent' \subseteq DOMAIN engines
    BY <2>1
  <2>. QED BY <1>2, <1>3, <1>4, <2>3, <2>4 DEF LogsAsItCloses, LoggedAreClosed
<1>. QED BY <1>5, <1>6, <1>7 DEF WeatherTask, Monitor!EventNext

(* A step that leaves the traders alone closes and logs nothing.           *)
LEMMA Bystanders ==
    ASSUME UNCHANGED <<task, machines, engine, engines>>, sent' = {}
    PROVE  LogsAsItCloses
<1>1. \A x : HeldBy(x)' <=> HeldBy(x)
  BY DEF HeldBy
<1>. QED BY <1>1 DEF LogsAsItCloses, LoggedAreClosed

(* market.rs:181, 205, event_monitor.rs:229: a trade is logged by the step *)
(* that closes its position, and only then: not again by a later quote, by *)
(* a rollover that is repeated or by another engine.  And each is logged,  *)
(* except by the two steps that end a position without a record: a trade   *)
(* of the reference exchange (market.rs:166) and a refresh of the event.   *)
THEOREM TradesAreLoggedAsTheyClose == FairSpec => LoggedAsItCloses
<1>1. Init => MarketInv /\ EngineInv
  <2> SUFFICES ASSUME Init PROVE EngineInv
    BY HarnessStart
  <2>1. sent = {} /\ engine = NewEngine("v_shape") /\ DOMAIN engines = {}
    BY DEF Init, MarketInit, Monitor!EventInit
  <2>. QED BY <2>1, EngineSteps DEF EngineInv
<1>2. ASSUME MarketInv, EngineInv, [Next]_vars
      PROVE  EngineInv' /\ [LogsAsItCloses]_vars
  <2>1. CASE Tick
    <3>1. UNCHANGED <<task, slot, fetching, machines, engine, engines>> /\ sent' = {}
      BY <2>1 DEF Tick, marketVars, eventVars
    <3>2. EngineInv'
      BY <1>2, <3>1 DEF EngineInv
    <3>. QED BY <3>1, <3>2, Bystanders
  <2>2. CASE CryptoTask
    BY <1>2, <2>2, CryptoLogs DEF CryptoTask
  <2>3. CASE WeatherTask
    BY <1>2, <2>3, WeatherLogs DEF WeatherTask
  <2>4. CASE ReportTask
    <3>1. /\ UNCHANGED <<task, slot, fetching, machines, engine, engines, sent>>
          /\ sent = {}
      BY <1>2, <2>4 DEF ReportTask, marketVars, eventVars, EngineInv
    <3>2. EngineInv'
      BY <1>2, <3>1 DEF EngineInv
    <3>. QED BY <3>1, <3>2, Bystanders
  <2>5. CASE UNCHANGED vars
    <3>1. UNCHANGED <<task, slot, fetching, engine, engines, sent>>
      BY <2>5 DEF vars, marketVars, eventVars
    <3>. QED BY <1>2, <2>5, <3>1 DEF EngineInv
  <2>. QED BY <1>2, <2>1, <2>2, <2>3, <2>4, <2>5 DEF Next
<1>3. MarketInv /\ [Next]_vars => MarketInv'
  BY HarnessStep
<1>. QED BY <1>1, <1>2, <1>3, PTL
     DEF FairSpec, Spec, LoggedAsItCloses, LogsAsItCloses, LoggedAreClosed
=============================================================================
