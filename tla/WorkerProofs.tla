---------------------------- MODULE WorkerProofs ----------------------------
(***************************************************************************)
(* Proofs about Worker, for every value of its constants: its types, and   *)
(* that the loss-streak counter never exceeds the losses that stand.       *)
(***************************************************************************)
EXTENDS Worker, FiniteSetTheorems, SequenceTheorems, TLAPS

USE DEF None, NoOrder, NoLimit, NoCycle, NoSession, Watching, Entering

(* A fee is an integer.                                                    *)
LEMMA FeeType ==
    ASSUME NEW n \in Int, NEW p \in Int
    PROVE  TakerFee(n, p) \in Int
BY PricesAssumption DEF TakerFee

(* A take-profit price is an integer.                                      *)
LEMMA TpType ==
    ASSUME NEW cost \in Int
    PROVE  TpPriceFor(cost) \in Int
BY PricesAssumption DEF TpPriceFor

(* The end of the window before the first one is time zero, so that no     *)
(* entry is possible before a window has been opened.                      *)
LEMMA EntryInWindow ==
    ASSUME NEW now \in Times, cycle \in Nat \cup {NoCycle}, CanEnter(now)
    PROVE  cycle # NoCycle
<1> SUFFICES ASSUME cycle = -1 PROVE FALSE
  OBVIOUS
<1>1. CycleEnd = 0
  BY TimeAssumption DEF CycleEnd
<1>2. 0 - now >= NoEnter
  BY <1>1 DEF CanEnter, TimeLeft
<1> QED
  BY <1>2, TimeAssumption

(* A position yields a trade record of the current window.                 *)
LEMMA RecordType ==
    ASSUME NEW h \in Positions, NEW outcome \in Outcomes, NEW pnl \in Int, cycle \in Nat
    PROVE  /\ Record(h, outcome, pnl) \in TradeRecords
           /\ Record(h, outcome, pnl).cycle = cycle
           /\ Record(h, outcome, pnl).outcome = outcome
BY DEF Record, Positions, TradeRecords

(* What a settled position is worth is an integer.                         *)
LEMMA SettleType ==
    ASSUME NEW h \in Positions, NEW p \in Int
    PROVE  SettlePnl(h, p) \in Int
BY DEF SettlePnl, Positions

(* Counting a trade adds at most one to the counter, and one when it is a  *)
(* loss.                                                                   *)
LEMMA RecordTradeType ==
    ASSUME NEW h \in Trackers, NEW l \in BOOLEAN
    PROVE  /\ RecordTrade(h, l) \in Trackers
           /\ RecordTrade(h, l).losses = IF l THEN h.losses + 1 ELSE h.losses
BY DEF RecordTrade, Trackers

(* A correction moves the counter by the difference of the two outcomes.   *)
LEMMA CorrectTradeType ==
    ASSUME NEW h \in Trackers, NEW was \in BOOLEAN, NEW is \in BOOLEAN
    PROVE  /\ CorrectTrade(h, was, is) \in Trackers
           /\ CorrectTrade(h, was, is).losses =
                CASE was = is -> h.losses
                  [] is /\ ~was -> h.losses + 1
                  [] was /\ ~is -> h.losses - 1
<1>1. CASE was = is
  BY <1>1 DEF CorrectTrade
<1>2. CASE is /\ ~was
  BY <1>2 DEF CorrectTrade, Trackers
<1>3. CASE was /\ ~is
  BY <1>3 DEF CorrectTrade, Trackers
<1> QED
  BY <1>1, <1>2, <1>3

(* Whether a trade counts is a Boolean.                                    *)
LEMMA CountsType ==
    ASSUME NEW rec
    PROVE  Counts(rec) \in BOOLEAN
BY DEF Counts, IsLossForHalt

-----------------------------------------------------------------------------
(* The states of a worker: what each carries, and how each is built.       *)

(* What each state carries.                                                *)
LEMMA StateParts ==
    ASSUME state \in States
    PROVE  /\ HasPosition => state.h \in Positions
           /\ AwaitsVerdict => state.rec \in TradeRecords
           /\ state.tag = "Confirming" => state.rec.outcome \in {"Win", "Loss"}
           /\ state.tag = "EnteringMaker" => state.q \in Quotes
           /\ state = Watching <=> state.tag = "Watching"
           /\ state = Entering <=> state.tag = "Entering"
BY DEF States, HasPosition, AwaitsVerdict, PositionTags, ExitTags

(* A position makes a state of each of the position tags.                  *)
LEMMA PositionState ==
    ASSUME NEW h \in Positions, NEW tag \in PositionTags
    PROVE  Holding(h) \in States /\ Exiting(tag, h) \in States
BY DEF States, Holding, Exiting, PositionTags, ExitTags

(* A quote makes an EnteringMaker.                                         *)
LEMMA QuoteState ==
    ASSUME NEW q \in Quotes
    PROVE  EnteringMaker(q) \in States
BY DEF States, EnteringMaker

(* A provisional record makes a Confirming, a final one an EnrichOnly.     *)
LEMMA VerdictState ==
    ASSUME NEW rec \in TradeRecords
    PROVE  /\ rec.outcome \in {"Win", "Loss"} => Confirming(rec) \in States
           /\ rec.outcome \notin {"Win", "Loss"} => EnrichOnly(rec) \in States
BY DEF States, Confirming, EnrichOnly

(* The states that carry nothing.                                          *)
LEMMA SimpleStates == Watching \in States /\ Entering \in States
BY DEF States

-----------------------------------------------------------------------------
(* Steps that close no trade leave the streak alone: it is enough that the *)
(* state they reach is well-typed, and that a position is only reached     *)
(* from an entry or a position of this window.                             *)
LEMMA QuietStep ==
    ASSUME StreakInv,
           UNCHANGED <<halt, losing, cycle, fired>>,
           state' \in States, suppressed' \in BOOLEAN, pending' \in Sides \cup {None},
           moved' \in BOOLEAN, binTs' \in Int,
           HasOpenPosition' => HasOpenPosition,
           AwaitsVerdict' => UNCHANGED state
    PROVE  StreakInv'
<1>1. TypeOK'
  BY DEF StreakInv, TypeOK
<1>2. NoPhantomLoss'
  BY DEF StreakInv, NoPhantomLoss
<1>3. OneTradePerWindow'
  <2>1. (state.tag = "Confirming")' => UNCHANGED state
    BY DEF AwaitsVerdict
  <2> QED
    BY <2>1 DEF StreakInv, OneTradePerWindow, AwaitsVerdict, Counts
<1> QED
  BY <1>1, <1>2, <1>3 DEF StreakInv

(* Closing a trade of this window counts it once.                          *)
LEMMA CloseOutStep ==
    ASSUME StreakInv, HasPosition,
           UNCHANGED <<suppressed, fired, pending, moved, binTs, cycle>>,
           NEW rec \in TradeRecords, rec.cycle = cycle,
           NEW next \in States, CloseOut(rec, next),
           next = IF rec.outcome \in {"Win", "Loss"} THEN Confirming(rec) ELSE EnrichOnly(rec)
    PROVE  StreakInv'
<1>1. /\ state' = next
      /\ halt' = RecordTrade(halt, Counts(rec))
      /\ losing' = IF Counts(rec) THEN losing \cup {rec.cycle} ELSE losing
  BY DEF CloseOut
<1>2. /\ Counts(rec) \in BOOLEAN
      /\ halt' \in Trackers
      /\ halt'.losses = IF Counts(rec) THEN halt.losses + 1 ELSE halt.losses
  BY <1>1, CountsType, RecordTradeType DEF StreakInv, TypeOK
<1>3. fired /\ cycle \in Nat /\ cycle \notin losing
  BY DEF StreakInv, TypeOK, OneTradePerWindow, HasOpenPosition, HasPosition
<1>4. TypeOK'
  BY <1>1, <1>2, <1>3 DEF StreakInv, TypeOK
<1>5. NoPhantomLoss'
  <2>1. CASE Counts(rec)
    <3>1. /\ IsFiniteSet(losing')
          /\ Cardinality(losing') = Cardinality(losing) + 1
      BY <1>1, <1>3, <2>1, FS_AddElement DEF StreakInv, NoPhantomLoss
    <3> QED
      BY <1>2, <2>1, <3>1, FS_CardinalityType DEF StreakInv, NoPhantomLoss, TypeOK, Trackers
  <2>2. CASE ~Counts(rec)
    BY <1>1, <1>2, <2>2 DEF StreakInv, NoPhantomLoss
  <2> QED
    BY <2>1, <2>2
<1>6. OneTradePerWindow'
  <2>1. /\ \A c \in losing' : c <= cycle'
        /\ fired'
    BY <1>1, <1>3 DEF StreakInv, OneTradePerWindow
  <2>2. /\ ~HasOpenPosition'
        /\ state'.rec = rec
        /\ AwaitsVerdict'
    BY <1>1 DEF Confirming, EnrichOnly, HasOpenPosition, PositionTags, ExitTags, AwaitsVerdict
  <2>3. ~Counts(rec) => rec.cycle \notin losing'
    BY <1>1, <1>3
  <2> QED
    BY <2>1, <2>2, <2>3 DEF OneTradePerWindow, Counts
<1> QED
  BY <1>4, <1>5, <1>6 DEF StreakInv

-----------------------------------------------------------------------------
(* Cycle boundaries.                                                       *)

(* A new window starts unfired, and a new trading day with an empty streak. *)
LEMMA CycleOpenStep ==
    ASSUME StreakInv, NEW c \in Cycles, c > cycle, OnCycleOpen(c)
    PROVE  StreakInv'
<1>1. c \in Nat /\ SessionOf(c) \in Int
  BY TimeAssumption, SessionAssumption DEF SessionOf
<1>2. TypeOK'
  <2>1. state' \in States
    BY SimpleStates DEF OnCycleOpen, StreakInv, TypeOK
  <2>2. halt' \in Trackers
    BY <1>1 DEF OnCycleOpen, ResetIfNewSession, StreakInv, TypeOK, Trackers
  <2>3. losing' \subseteq Nat
    BY DEF OnCycleOpen, StreakInv, TypeOK
  <2>4. /\ cycle' = c /\ fired' = FALSE /\ moved' = FALSE
        /\ UNCHANGED <<suppressed, pending, binTs>>
    BY DEF OnCycleOpen
  <2> QED
    BY <1>1, <2>1, <2>2, <2>3, <2>4 DEF StreakInv, TypeOK
<1>3. NoPhantomLoss'
  <2>1. CASE SessionOf(c) = halt.session
    BY <2>1 DEF OnCycleOpen, ResetIfNewSession, StreakInv, NoPhantomLoss
  <2>2. CASE SessionOf(c) # halt.session
    BY <2>2, FS_EmptySet DEF OnCycleOpen, ResetIfNewSession, StreakInv, NoPhantomLoss
  <2> QED
    BY <2>1, <2>2
<1>4. OneTradePerWindow'
  <2>1. losing' \subseteq losing /\ cycle' = c
    BY DEF OnCycleOpen
  <2>2. \A l \in losing' : l < c
    BY <1>1, <2>1 DEF StreakInv, OneTradePerWindow, TypeOK
  <2>3. /\ ~HasOpenPosition'
        /\ AwaitsVerdict' => UNCHANGED state /\ AwaitsVerdict
    BY DEF OnCycleOpen, HasOpenPosition, AwaitsVerdict, PositionTags, ExitTags
  <2>4. AwaitsVerdict' => state'.rec.cycle < c
    <3>1. AwaitsVerdict => state.rec.cycle \in Nat /\ state.rec.cycle <= cycle
      BY StateParts DEF StreakInv, TypeOK, OneTradePerWindow, TradeRecords
    <3> QED
      BY <1>1, <2>3, <3>1 DEF StreakInv, TypeOK
  <2>5. state'.tag = "Confirming" /\ ~Counts(state'.rec) => state'.rec.cycle \notin losing'
    BY <2>1, <2>3 DEF AwaitsVerdict, StreakInv, OneTradePerWindow
  <2>6. /\ \A l \in losing' : l <= c
        /\ c \notin losing'
    <3>1. losing' \subseteq Nat
      BY <1>2 DEF TypeOK
    <3> QED
      BY <1>1, <2>2, <3>1
  <2> QED
    BY <2>1, <2>3, <2>4, <2>5, <2>6 DEF OneTradePerWindow, Counts
<1> QED
  BY <1>2, <1>3, <1>4 DEF StreakInv

(* A held position is settled, provisionally.                              *)
LEMMA CycleCloseStep ==
    ASSUME StreakInv, OnCycleClose
    PROVE  StreakInv'
<1>1. CASE HasPosition
  <2> DEFINE rec == IF Won(state.h) THEN Record(state.h, "Win", SettlePnl(state.h, One))
                                    ELSE Record(state.h, "Loss", SettlePnl(state.h, 0))
  <2>1. state.h \in Positions /\ cycle \in Nat
    BY <1>1, StateParts DEF StreakInv, TypeOK, OneTradePerWindow, HasOpenPosition, HasPosition
  <2>2. SettlePnl(state.h, One) \in Int /\ SettlePnl(state.h, 0) \in Int
    BY <2>1, SettleType, PricesAssumption
  <2>3. rec \in TradeRecords /\ rec.cycle = cycle /\ rec.outcome \in {"Win", "Loss"}
    BY <2>1, <2>2, RecordType DEF Outcomes
  <2>4. Confirming(rec) \in States
    BY <2>3, VerdictState
  <2>5. CloseOut(rec, Confirming(rec))
    BY <1>1 DEF OnCycleClose
  <2> HIDE DEF rec
  <2> QED
    BY <1>1, <2>3, <2>4, <2>5, CloseOutStep DEF OnCycleClose
<1>2. CASE ~HasPosition
  <2>1. /\ UNCHANGED <<halt, losing, cycle, fired, suppressed, pending, moved, binTs>>
        /\ state' = IF AwaitsVerdict THEN state ELSE Watching
    BY <1>2 DEF OnCycleClose
  <2>2. /\ state' \in States
        /\ HasOpenPosition' => HasOpenPosition
        /\ AwaitsVerdict' => UNCHANGED state
    BY <2>1, SimpleStates DEF StreakInv, TypeOK, HasOpenPosition, PositionTags, ExitTags,
                              AwaitsVerdict
  <2> QED
    BY <2>1, <2>2, QuietStep DEF StreakInv, TypeOK
<1> QED
  BY <1>1, <1>2

-----------------------------------------------------------------------------
(* Entries.                                                                *)

(* An entry uses up the latch of a window that has been opened.            *)
LEMMA EntryStep ==
    ASSUME StreakInv, NEW now \in Times, CanEnter(now),
           NEW side \in Sides, NEW at \in EntryPrices, Enter(side, at),
           UNCHANGED <<suppressed, halt, cycle, losing>>,
           moved' \in BOOLEAN, binTs' \in Int
    PROVE  StreakInv'
<1>1. cycle # NoCycle /\ cycle \notin losing
  BY EntryInWindow DEF StreakInv, TypeOK, OneTradePerWindow, CanEnter
<1>2. state' \in States /\ pending' \in Sides \cup {None} /\ fired' = TRUE
  <2>1. CASE MakerEntry
    <3>1. [side |-> side, quote_price |-> at, order_id |-> NoOrder] \in Quotes
      BY PricesAssumption DEF Quotes
    <3> QED
      BY <2>1, <3>1, QuoteState DEF Enter, StreakInv, TypeOK
  <2>2. CASE ~MakerEntry
    BY <2>2, SimpleStates DEF Enter
  <2> QED
    BY <2>1, <2>2
<1>3. ~AwaitsVerdict'
  BY DEF Enter, EnteringMaker, AwaitsVerdict
<1>4. TypeOK'
  BY <1>2 DEF StreakInv, TypeOK
<1>5. OneTradePerWindow'
  BY <1>1, <1>2, <1>3 DEF StreakInv, OneTradePerWindow, AwaitsVerdict
<1>6. NoPhantomLoss'
  BY DEF StreakInv, NoPhantomLoss
<1> QED
  BY <1>4, <1>5, <1>6 DEF StreakInv

(* A tick that may or may not lead to an entry.                             *)
LEMMA TryEnterStep ==
    ASSUME StreakInv, NEW now \in Times, TryEnter(now),
           UNCHANGED <<suppressed, halt, cycle, losing>>,
           moved' \in BOOLEAN, binTs' \in Int
    PROVE  StreakInv'
<1>1. CASE CanEnter(now) /\ \E side \in Sides, at \in EntryPrices : Enter(side, at)
  BY <1>1, EntryStep
<1>2. CASE Pass
  BY <1>2, QuietStep DEF Pass, StreakInv, TypeOK, HasOpenPosition
<1> QED
  BY <1>1, <1>2 DEF TryEnter

(* A tick of the reference price.                                          *)
LEMMA BinanceStep ==
    ASSUME StreakInv, NEW now \in Times, NEW up \in BOOLEAN, OnBinance(now, up)
    PROVE  StreakInv'
BY TryEnterStep, TimeAssumption DEF OnBinance
(* Pulling a resting quote.                                                *)
LEMMA CancelQuoteStep ==
    ASSUME StreakInv, CancelMakerQuote,
           UNCHANGED <<suppressed, halt, moved, binTs, cycle, losing>>
    PROVE  StreakInv'
<1>1. ~HasOpenPosition' /\ ~AwaitsVerdict' /\ state' \in States
  BY SimpleStates DEF CancelMakerQuote, HasOpenPosition, PositionTags, ExitTags, AwaitsVerdict
<1> QED
  BY <1>1, QuietStep DEF CancelMakerQuote, StreakInv, TypeOK

(* An exit that is decided keeps the position until it is answered.        *)
LEMMA CloseStep ==
    ASSUME StreakInv, state.tag = "Holding", NEW tag \in ExitTags, NEW reason, NEW limit,
           NEW cancels, Close(tag, reason, limit, cancels),
           UNCHANGED <<suppressed, halt, fired, pending, moved, binTs, cycle, losing>>
    PROVE  StreakInv'
<1>1. HasPosition /\ HasOpenPosition
  BY DEF HasPosition, HasOpenPosition, PositionTags
<1>2. state' \in States
  BY <1>1, StateParts, PositionState DEF Close, StreakInv, TypeOK, PositionTags
<1>3. ~AwaitsVerdict'
  BY DEF Close, Exiting, AwaitsVerdict, ExitTags
<1> QED
  BY <1>1, <1>2, <1>3, QuietStep DEF StreakInv, TypeOK

(* A quote of the market's own prices.                                     *)
LEMMA OnPolyStep ==
    ASSUME StreakInv, NEW now \in Times, NEW price, OnPoly(now, price)
    PROVE  StreakInv'
<1>1. UNCHANGED <<suppressed, halt, moved, binTs, cycle, losing>>
  BY DEF OnPoly
<1>2. CASE state.tag = "EnteringMaker"
  <2>1. CheckMakerQuoteCancel(now)
    BY <1>2 DEF OnPoly
  <2>2. CASE CancelMakerQuote
    BY <1>1, <2>2, CancelQuoteStep
  <2>3. CASE Pass
    BY <1>1, <2>3, QuietStep DEF Pass, StreakInv, TypeOK, HasOpenPosition
  <2> QED
    BY <2>1, <2>2, <2>3 DEF CheckMakerQuoteCancel
<1>3. CASE state.tag = "Holding"
  <2> DEFINE at == price[state.h.side]
  <2>1. MonitorPosition(now, at) /\ UNCHANGED <<fired, pending>>
    BY <1>3 DEF OnPoly
  <2> HIDE DEF at
  <2>2. \/ \E tag \in ExitTags, reason \in {"StopLoss", "TakeProfit", "Timeout"} :
             \E limit, cancels : Close(tag, reason, limit, cancels)
        \/ UNCHANGED state
    BY <2>1 DEF MonitorPosition, ExitTags
  <2>3. CASE UNCHANGED state
    BY <1>1, <2>1, <2>3, QuietStep DEF StreakInv, TypeOK, HasOpenPosition
  <2> QED
    BY <1>1, <1>3, <2>1, <2>2, <2>3, CloseStep
<1>4. CASE state.tag \notin {"EnteringMaker", "Holding"}
  <2>1. TryEnter(now)
    BY <1>4 DEF OnPoly
  <2> QED
    BY <1>1, <2>1, TryEnterStep DEF StreakInv, TypeOK
<1> QED
  BY <1>2, <1>3, <1>4

-----------------------------------------------------------------------------
(* Answers to an entry order.                                              *)

(* What a buy order filled becomes the position of this window.            *)
LEMMA FinalizeEntryStep ==
    ASSUME StreakInv, HasOpenPosition, NEW side \in Sides, NEW n \in Nat,
           NEW cost \in Nat \ {0}, FinalizeEntryFill(side, n, cost),
           UNCHANGED <<suppressed, halt, fired, moved, binTs, cycle, losing>>,
           pending' \in Sides \cup {None}
    PROVE  StreakInv'
<1>1. state' \in States /\ ~AwaitsVerdict'
  <2>1. CASE n <= 0
    BY <2>1, SimpleStates DEF FinalizeEntryFill, AwaitsVerdict
  <2>2. CASE ~(n <= 0)
    <3> DEFINE h == [side |-> side, token_price |-> cost, entry_ts |-> binTs, shares |-> n,
                     exit_arm |-> PriceMonitor(TpPriceFor(cost)), realized_pnl |-> 0,
                     fees |-> TakerFee(n, cost)]
    <3>1. TpPriceFor(cost) \in Int /\ TakerFee(n, cost) \in Int
      BY TpType, FeeType
    <3>2. PriceMonitor(TpPriceFor(cost)) \in ExitArms
      BY <3>1 DEF PriceMonitor, ExitArms
    <3>3. h \in Positions
      BY <2>2, <3>1, <3>2 DEF Positions, StreakInv, TypeOK
    <3>4. state' = Holding(h)
      BY <2>2 DEF FinalizeEntryFill, HoldBought, Bought
    <3> HIDE DEF h
    <3> QED
      BY <3>3, <3>4, PositionState DEF Holding, AwaitsVerdict, PositionTags
  <2> QED
    BY <2>1, <2>2
<1> QED
  BY <1>1, QuietStep DEF StreakInv, TypeOK

(* The answer to a market buy.                                             *)
LEMMA OrderFilledStep ==
    ASSUME StreakInv, NEW n \in ShareCounts, NEW cost \in EntryPrices, OnOrderFilled(n, cost)
    PROVE  StreakInv'
<1>1. CASE state = Entering /\ pending # None
  <2>1. HasOpenPosition /\ pending \in Sides
    BY <1>1 DEF HasOpenPosition, StreakInv, TypeOK
  <2> QED
    BY <1>1, <2>1, FinalizeEntryStep, SharesAssumption, PricesAssumption DEF OnOrderFilled
<1>2. CASE ~(state = Entering /\ pending # None)
  BY <1>2, QuietStep DEF OnOrderFilled, StreakInv, TypeOK, HasOpenPosition
<1> QED
  BY <1>1, <1>2

(* A market buy that bought nothing.                                       *)
LEMMA OrderRejectedStep ==
    ASSUME StreakInv, OnOrderRejected
    PROVE  StreakInv'
<1>1. /\ state' \in States
      /\ HasOpenPosition' => HasOpenPosition
      /\ AwaitsVerdict' => UNCHANGED state
  BY SimpleStates DEF OnOrderRejected, StreakInv, TypeOK, HasOpenPosition, PositionTags, ExitTags,
                      AwaitsVerdict
<1> QED
  BY <1>1, QuietStep DEF OnOrderRejected, StreakInv, TypeOK

(* The answer to a resting quote.                                          *)
LEMMA LimitBuyStep ==
    ASSUME StreakInv, NEW status, NEW id \in OrderIds \cup {NoOrder},
           OnLimitBuyPlaced(status, id)
    PROVE  StreakInv'
<1>1. UNCHANGED <<suppressed, halt, fired, pending, moved, binTs, cycle, losing>>
  BY DEF OnLimitBuyPlaced
<1>2. CASE state.tag = "EnteringMaker"
  <2>1. HasOpenPosition /\ state.q \in Quotes
    BY <1>2, StateParts DEF HasOpenPosition, StreakInv, TypeOK
  <2>2. CASE state' = [state EXCEPT !.q.order_id = id]
    <3>1. [state EXCEPT !.q.order_id = id] = EnteringMaker([state.q EXCEPT !.order_id = id])
      BY <1>2 DEF StreakInv, TypeOK, States, EnteringMaker, PositionTags, ExitTags
    <3>2. [state.q EXCEPT !.order_id = id] \in Quotes
      BY <2>1 DEF Quotes
    <3>3. state' \in States /\ ~AwaitsVerdict'
      BY <2>2, <3>1, <3>2, QuoteState DEF EnteringMaker, AwaitsVerdict
    <3> QED
      BY <1>1, <2>1, <3>3, QuietStep DEF StreakInv, TypeOK
  <2>3. CASE FinalizeEntryFill(state.q.side, MinGtc, state.q.quote_price)
    <3>1. state.q.side \in Sides /\ state.q.quote_price \in Nat \ {0} /\ MinGtc \in Nat
      BY <2>1, SharesAssumption DEF Quotes
    <3> QED
      BY <1>1, <2>1, <2>3, <3>1, FinalizeEntryStep DEF StreakInv, TypeOK
  <2>4. CASE state' = Watching
    <3>1. state' \in States /\ ~AwaitsVerdict'
      BY <2>4, SimpleStates DEF AwaitsVerdict
    <3> QED
      BY <1>1, <2>1, <3>1, QuietStep DEF StreakInv, TypeOK
  <2> QED
    BY <1>2, <2>2, <2>3, <2>4 DEF OnLimitBuyPlaced
<1>3. CASE state.tag # "EnteringMaker"
  BY <1>1, <1>3, QuietStep DEF OnLimitBuyPlaced, StreakInv, TypeOK, HasOpenPosition
<1> QED
  BY <1>2, <1>3

(* A resting quote that was hit.                                           *)
LEMMA QuoteFilledStep ==
    ASSUME StreakInv, NEW n \in ShareCounts, NEW cost \in EntryPrices,
           OnEntryQuoteFilled(n, cost)
    PROVE  StreakInv'
<1>1. UNCHANGED <<suppressed, halt, fired, pending, moved, binTs, cycle, losing>>
  BY DEF OnEntryQuoteFilled
<1>2. CASE state.tag = "EnteringMaker"
  <2>1. HasOpenPosition /\ state.q.side \in Sides
    BY <1>2, StateParts DEF HasOpenPosition, StreakInv, TypeOK, Quotes
  <2> QED
    BY <1>1, <1>2, <2>1, FinalizeEntryStep, SharesAssumption, PricesAssumption
    DEF OnEntryQuoteFilled, StreakInv, TypeOK
<1>3. CASE state.tag # "EnteringMaker"
  BY <1>1, <1>3, QuietStep DEF OnEntryQuoteFilled, StreakInv, TypeOK, HasOpenPosition
<1> QED
  BY <1>2, <1>3

-----------------------------------------------------------------------------
(* Answers to an exit order.                                               *)

(* Taking a position back, whatever has been booked on it meanwhile.       *)
LEMMA HoldAgainStep ==
    ASSUME StreakInv, HasPosition, NEW h \in Positions, state' = Holding(h),
           UNCHANGED <<suppressed, halt, fired, pending, moved, binTs, cycle, losing>>
    PROVE  StreakInv'
<1>1. /\ state' \in States
      /\ ~AwaitsVerdict'
      /\ HasOpenPosition
  BY PositionState DEF PositionTags, Holding, AwaitsVerdict, HasOpenPosition, HasPosition
<1> QED
  BY <1>1, QuietStep DEF StreakInv, TypeOK

(* An answer that finds no position to apply to.                           *)
LEMMA IgnoreStep ==
    ASSUME StreakInv,
           UNCHANGED <<state, suppressed, halt, fired, pending, moved, binTs, cycle, losing>>
    PROVE  StreakInv'
BY QuietStep DEF StreakInv, TypeOK, HasOpenPosition

(* A position of the current window: there is one, it has been opened.     *)
LEMMA HeldInWindow ==
    ASSUME StreakInv, HasPosition
    PROVE  state.h \in Positions /\ cycle \in Nat
BY StateParts DEF StreakInv, TypeOK, OneTradePerWindow, HasOpenPosition, HasPosition

(* A final exit is counted like any other.                                 *)
LEMMA FinalExitStep ==
    ASSUME StreakInv, HasPosition, NEW h \in Positions, NEW pnl \in Int,
           NEW outcome \in {"Unwind", "StopLoss", "Timeout"},
           CloseOut(Record(h, outcome, pnl), EnrichOnly(Record(h, outcome, pnl))),
           UNCHANGED <<suppressed, fired, pending, moved, binTs, cycle>>
    PROVE  StreakInv'
<1> DEFINE rec == Record(h, outcome, pnl)
<1>1. /\ rec \in TradeRecords /\ rec.cycle = cycle
      /\ rec.outcome \notin {"Win", "Loss"}
  BY HeldInWindow, RecordType DEF Outcomes
<1>2. CloseOut(rec, EnrichOnly(rec))
  OBVIOUS
<1> HIDE DEF rec
<1>3. EnrichOnly(rec) \in States
  BY <1>1, VerdictState
<1> QED
  BY <1>1, <1>2, <1>3, CloseOutStep

(* Part of a position is sold: the rest is held, or written off.           *)
LEMMA ResidualStep ==
    ASSUME StreakInv, HasPosition, NEW sold \in Nat, NEW price \in Int,
           NEW outcome \in {"Unwind", "StopLoss", "Timeout"},
           FinalizeOrHoldResidual(state.h, sold, price, outcome), sold <= state.h.shares,
           UNCHANGED <<suppressed, fired, pending, moved, binTs, cycle>>
    PROVE  StreakInv'
<1> DEFINE rest == [state.h EXCEPT
                      !.shares = @ - sold,
                      !.realized_pnl = @ + sold * (price - state.h.token_price),
                      !.fees = @ + TakerFee(sold, price)]
<1>1. state.h \in Positions /\ cycle \in Nat
  BY HeldInWindow
<1>2. /\ rest.shares \in Nat
      /\ rest.realized_pnl \in Int /\ rest.fees \in Int
      /\ rest.shares >= MinSellable => rest \in Positions
  <2>1. TakerFee(sold, price) \in Int
    BY FeeType
  <2>2. sold * (price - state.h.token_price) \in Int
    BY <1>1 DEF Positions
  <2> DEFINE earned == sold * (price - state.h.token_price)
             charged == TakerFee(sold, price)
  <2>3. earned \in Int /\ charged \in Int
    BY <2>1, <2>2
  <2> HIDE DEF earned, charged
  <2>4. rest = [state.h EXCEPT !.shares = @ - sold, !.realized_pnl = @ + earned,
                               !.fees = @ + charged]
    BY DEF earned, charged
  <2> HIDE DEF rest
  <2>5. /\ rest.shares = state.h.shares - sold
        /\ rest.realized_pnl = state.h.realized_pnl + earned
        /\ rest.fees = state.h.fees + charged
    BY <1>1, <2>4 DEF Positions
  <2>6. rest.shares \in Nat /\ rest.realized_pnl \in Int /\ rest.fees \in Int
    BY <1>1, <2>3, <2>5 DEF Positions
  <2>7. ASSUME rest.shares >= MinSellable
        PROVE  rest \in Positions
    <3>1. rest.shares \in Nat \ {0}
      BY <2>6, <2>7, SharesAssumption
    <3> QED
      BY <1>1, <2>4, <2>5, <2>6, <3>1 DEF Positions
  <2> QED
    BY <2>6, <2>7
<1>3. CASE rest.shares >= MinSellable
  <2>1. HoldAgain(rest)
    BY <1>3 DEF FinalizeOrHoldResidual, Sellable
  <2> HIDE DEF rest
  <2> QED
    BY <1>2, <1>3, <2>1, HoldAgainStep DEF HoldAgain
<1>4. CASE ~(rest.shares >= MinSellable)
  <2> DEFINE pnl == rest.realized_pnl - rest.fees
  <2>1. CloseOut(Record(state.h, outcome, pnl), EnrichOnly(Record(state.h, outcome, pnl)))
    BY <1>4 DEF FinalizeOrHoldResidual, Sellable
  <2>2. pnl \in Int
    BY <1>2
  <2> HIDE DEF pnl
  <2> QED
    BY <1>1, <2>1, <2>2, FinalExitStep
<1> QED
  BY <1>3, <1>4

(* The answer to the resting take-profit.                                  *)
LEMMA LimitSellStep ==
    ASSUME StreakInv, NEW status, NEW id \in OrderIds \cup {NoOrder},
           OnLimitSellPlaced(status, id)
    PROVE  StreakInv'
<1>1. UNCHANGED <<suppressed, fired, pending, moved, binTs, cycle>>
  BY DEF OnLimitSellPlaced
<1>2. CASE state.tag = "Holding"
  <2> DEFINE h == state.h
             tp == TpPriceFor(h.token_price)
             closed == [h EXCEPT !.fees = @ + TakerFee(h.shares, tp)]
             rec == Record(closed, "Unwind", SettlePnl(closed, tp))
  <2>1. HasPosition /\ h \in Positions
    BY <1>2, HeldInWindow DEF HasPosition, PositionTags
  <2>2. tp \in Int
    BY <2>1, TpType DEF Positions
  <2>3. \/ HoldAgain(IF id = NoOrder THEN h ELSE [h EXCEPT !.exit_arm = Gtc(id)])
        \/ CloseOut(rec, EnrichOnly(rec))
        \/ HoldAgain([h EXCEPT !.exit_arm = PriceMonitor(tp)])
    BY <1>2 DEF OnLimitSellPlaced
  <2>4. CASE HoldAgain(IF id = NoOrder THEN h ELSE [h EXCEPT !.exit_arm = Gtc(id)])
    <3> DEFINE kept == IF id = NoOrder THEN h ELSE [h EXCEPT !.exit_arm = Gtc(id)]
    <3>1. id # NoOrder => Gtc(id) \in ExitArms
      BY DEF Gtc, ExitArms
    <3>2. kept \in Positions
      BY <2>1, <3>1 DEF Positions
    <3>3. HoldAgain(kept)
      BY <2>4
    <3> HIDE DEF kept
    <3> QED
      BY <1>1, <2>1, <3>2, <3>3, HoldAgainStep DEF HoldAgain
  <2>5. CASE HoldAgain([h EXCEPT !.exit_arm = PriceMonitor(tp)])
    <3> DEFINE kept == [h EXCEPT !.exit_arm = PriceMonitor(tp)]
    <3>1. PriceMonitor(tp) \in ExitArms
      BY <2>2 DEF PriceMonitor, ExitArms
    <3>2. kept \in Positions
      BY <2>1, <3>1 DEF Positions
    <3>3. HoldAgain(kept)
      BY <2>5
    <3> HIDE DEF kept
    <3> QED
      BY <1>1, <2>1, <3>2, <3>3, HoldAgainStep DEF HoldAgain
  <2>6. CASE CloseOut(rec, EnrichOnly(rec))
    <3>1. closed \in Positions
      <4>1. h.shares \in Int
        BY <2>1 DEF Positions
      <4> HIDE DEF h, tp
      <4>2. TakerFee(h.shares, tp) \in Int
        BY <2>2, <4>1, FeeType
      <4> QED
        BY <2>1, <4>2 DEF Positions
    <3>2. SettlePnl(closed, tp) \in Int
      BY <2>2, <3>1, SettleType
    <3> HIDE DEF closed
    <3> QED
      BY <1>1, <2>1, <2>6, <3>1, <3>2, FinalExitStep
  <2> QED
    BY <2>3, <2>4, <2>5, <2>6
<1>3. CASE state.tag # "Holding"
  BY <1>1, <1>3, IgnoreStep DEF OnLimitSellPlaced, Ignore
<1> QED
  BY <1>2, <1>3

(* What a sell order filled.                                               *)
LEMMA SellFilledStep ==
    ASSUME StreakInv, HasPosition, NEW sold \in ShareCounts, NEW price \in Prices,
           sold <= state.h.shares,
           \/ OnUnwindFilled(sold, price)
           \/ OnStopSellFilled(sold, price)
           \/ OnTimeoutSellFilled(sold, price)
    PROVE  StreakInv'
<1>1. UNCHANGED <<suppressed, fired, pending, moved, binTs, cycle>>
  BY DEF OnUnwindFilled, OnStopSellFilled, OnTimeoutSellFilled
<1>2. \/ \E outcome \in {"Unwind", "StopLoss", "Timeout"} :
            FinalizeOrHoldResidual(state.h, sold, price, outcome)
      \/ Ignore
  BY DEF OnUnwindFilled, OnStopSellFilled, OnTimeoutSellFilled
<1>3. sold \in Nat /\ price \in Int
  BY SharesAssumption, PricesAssumption
<1>4. CASE Ignore
  BY <1>1, <1>4, IgnoreStep DEF Ignore
<1> QED
  BY <1>1, <1>2, <1>3, <1>4, ResidualStep

(* A sell order that sold nothing.                                         *)
LEMMA SellFailedStep ==
    ASSUME StreakInv, OnUnwindFailed \/ OnStopSellFailed \/ OnTimeoutSellFailed
    PROVE  StreakInv'
<1>1. UNCHANGED <<suppressed, halt, fired, pending, moved, binTs, cycle, losing>>
  BY DEF OnUnwindFailed, OnStopSellFailed, OnTimeoutSellFailed
<1> DEFINE monitored == [state.h EXCEPT
                           !.exit_arm = PriceMonitor(TpPriceFor(state.h.token_price))]
<1>2. \/ HasPosition /\ (state' = Holding(state.h) \/ state' = Holding(monitored))
      \/ UNCHANGED state
  BY DEF OnUnwindFailed, OnStopSellFailed, OnTimeoutSellFailed, HasPosition, PositionTags, ExitTags
<1>3. HasPosition => state.h \in Positions /\ monitored \in Positions
  <2> SUFFICES ASSUME HasPosition PROVE state.h \in Positions /\ monitored \in Positions
    OBVIOUS
  <2>1. state.h \in Positions
    BY HeldInWindow
  <2>2. TpPriceFor(state.h.token_price) \in Int
    BY <2>1, TpType DEF Positions
  <2>3. PriceMonitor(TpPriceFor(state.h.token_price)) \in ExitArms
    BY <2>2 DEF PriceMonitor, ExitArms
  <2> QED
    BY <2>1, <2>3 DEF Positions
<1> HIDE DEF monitored
<1> QED
  BY <1>1, <1>2, <1>3, HoldAgainStep, IgnoreStep

-----------------------------------------------------------------------------
(* Verdicts.                                                               *)

(* A provisional result counts exactly when it is a loss, and so does the  *)
(* one that replaces it.                                                   *)
LEMMA ResolutionCounts ==
    ASSUME NEW rec \in TradeRecords, rec.outcome \in {"Win", "Loss"}, NEW won \in BOOLEAN
    PROVE  /\ Counts(rec) <=> rec.outcome = "Loss"
           /\ Counts(Corrected(rec, won)) <=> ~won
<1>1. Corrected(rec, won).outcome = IF won THEN "Win" ELSE "Loss"
  BY DEF Corrected, TradeRecords
<1> QED
  BY <1>1 DEF Counts, IsLossForHalt

(* An overruled trade joins or leaves the losses that stand, and the       *)
(* counter follows.                                                        *)
LEMMA OverruleStep ==
    ASSUME StreakInv, state.tag = "Confirming", NEW won \in BOOLEAN,
           won # (state.rec.outcome = "Win"), state' = Watching,
           Overrule(state.rec, Corrected(state.rec, won)),
           UNCHANGED <<suppressed, fired, pending, moved, binTs, cycle>>
    PROVE  StreakInv'
<1> DEFINE rec == state.rec
           is  == Corrected(rec, won)
<1>1. /\ AwaitsVerdict
      /\ rec \in TradeRecords
      /\ rec.cycle \in Nat
      /\ rec.outcome \in {"Win", "Loss"}
  BY StateParts DEF AwaitsVerdict, StreakInv, TypeOK, TradeRecords
<1>2. /\ Counts(rec) <=> rec.outcome = "Loss"
      /\ Counts(is) <=> ~won
  BY <1>1, ResolutionCounts
<1>3. /\ halt' = CorrectTrade(halt, Counts(rec), Counts(is))
      /\ losing' = IF Counts(is) THEN losing \cup {rec.cycle} ELSE losing \ {rec.cycle}
  BY DEF Overrule
<1>4. /\ rec.cycle < cycle \/ (rec.cycle = cycle /\ fired)
      /\ ~Counts(rec) => rec.cycle \notin losing
  BY <1>1 DEF StreakInv, OneTradePerWindow
<1> DEFINE was == Counts(rec)
           now == Counts(is)
<1>5. was \in BOOLEAN /\ now \in BOOLEAN /\ (was <=> ~now)
  BY <1>1, <1>2, CountsType
<1>6. /\ halt' = CorrectTrade(halt, was, now)
      /\ losing' = IF now THEN losing \cup {rec.cycle} ELSE losing \ {rec.cycle}
      /\ ~was => rec.cycle \notin losing
  BY <1>3, <1>4
<1> HIDE DEF rec, is, was, now
<1>7. /\ halt' \in Trackers
      /\ halt'.losses = IF now THEN halt.losses + 1 ELSE halt.losses - 1
  BY <1>5, <1>6, CorrectTradeType DEF StreakInv, TypeOK
<1>8. TypeOK'
  BY <1>1, <1>6, <1>7, SimpleStates DEF StreakInv, TypeOK
<1>9. NoPhantomLoss'
  <2>1. IsFiniteSet(losing) /\ halt.losses <= Cardinality(losing) /\ halt.losses \in Int
    BY DEF StreakInv, NoPhantomLoss, TypeOK, Trackers
  <2>2. Cardinality(losing) \in Nat
    BY <2>1, FS_CardinalityType
  <2>3. CASE now
    <3>1. losing' = losing \cup {rec.cycle} /\ rec.cycle \notin losing
      BY <1>5, <1>6, <2>3
    <3>2. IsFiniteSet(losing') /\ Cardinality(losing') = Cardinality(losing) + 1
      BY <2>1, <3>1, FS_AddElement
    <3> QED
      BY <1>7, <2>1, <2>2, <2>3, <3>2 DEF NoPhantomLoss
  <2>4. CASE ~now
    <3>1. losing' = losing \ {rec.cycle}
      BY <1>6, <2>4
    <3>2. /\ IsFiniteSet(losing')
          /\ Cardinality(losing') \in {Cardinality(losing), Cardinality(losing) - 1}
      BY <2>1, <3>1, FS_RemoveElement
    <3> QED
      BY <1>7, <2>1, <2>2, <2>4, <3>2 DEF NoPhantomLoss
  <2> QED
    BY <2>3, <2>4
<1>10. OneTradePerWindow'
  <2>1. /\ ~HasOpenPosition'
        /\ ~AwaitsVerdict'
        /\ state'.tag # "Confirming"
    BY DEF HasOpenPosition, AwaitsVerdict, PositionTags, ExitTags
  <2>2. /\ losing' \subseteq losing \cup {rec.cycle}
        /\ cycle' = cycle /\ fired' = fired
    BY <1>6
  <2>3. /\ rec.cycle <= cycle
        /\ ~fired => rec.cycle # cycle
    BY <1>1, <1>4 DEF StreakInv, TypeOK, rec
  <2>4. /\ \A c \in losing' : c <= cycle'
        /\ ~fired' => cycle' \notin losing'
    BY <2>2, <2>3 DEF StreakInv, OneTradePerWindow
  <2> QED
    BY <2>1, <2>4 DEF OneTradePerWindow
<1> QED
  BY <1>8, <1>9, <1>10 DEF StreakInv

(* An answer that leaves a worker watching and its streak alone.           *)
LEMMA WatchAgainStep ==
    ASSUME StreakInv, state' = Watching, suppressed' \in BOOLEAN,
           UNCHANGED <<halt, fired, pending, moved, binTs, cycle, losing>>
    PROVE  StreakInv'
<1>1. state' \in States /\ ~HasOpenPosition' /\ ~AwaitsVerdict'
  BY SimpleStates DEF HasOpenPosition, PositionTags, ExitTags, AwaitsVerdict
<1> QED
  BY <1>1, QuietStep DEF StreakInv, TypeOK

(* Gamma's verdict.                                                        *)
LEMMA ApiResultStep ==
    ASSUME StreakInv, NEW won \in BOOLEAN, OnApiResult(won)
    PROVE  StreakInv'
<1>1. UNCHANGED <<suppressed, fired, pending, moved, binTs, cycle>>
  BY DEF OnApiResult
<1>2. CASE AwaitsVerdict /\ state.tag = "Confirming" /\ won # (state.rec.outcome = "Win")
  BY <1>1, <1>2, OverruleStep DEF OnApiResult
<1>3. CASE AwaitsVerdict /\ ~(state.tag = "Confirming" /\ won # (state.rec.outcome = "Win"))
  BY <1>1, <1>3, WatchAgainStep DEF OnApiResult, StreakInv, TypeOK
<1>4. CASE ~AwaitsVerdict
  BY <1>1, <1>4, IgnoreStep DEF OnApiResult, Ignore
<1> QED
  BY <1>2, <1>3, <1>4

(* No verdict in time.                                                     *)
LEMMA ApiTimeoutStep ==
    ASSUME StreakInv, NEW increased \in BOOLEAN, OnApiResultTimeout(increased)
    PROVE  StreakInv'
<1>1. UNCHANGED <<halt, fired, pending, moved, binTs, cycle, losing>>
  BY DEF OnApiResultTimeout
<1>2. CASE AwaitsVerdict
  <2>1. state' = Watching /\ suppressed' \in BOOLEAN
    BY <1>2 DEF OnApiResultTimeout, StreakInv, TypeOK
  <2> QED
    BY <1>1, <2>1, WatchAgainStep
<1>3. CASE ~AwaitsVerdict
  BY <1>1, <1>3, IgnoreStep DEF OnApiResultTimeout
<1> QED
  BY <1>2, <1>3

-----------------------------------------------------------------------------
(* Commands.                                                               *)

(* A command that resets the streak forgets the losses with the counter.   *)
LEMMA ControlStep ==
    ASSUME StreakInv, NEW event \in ControlEvents, OnControl(event)
    PROVE  StreakInv'
<1>1. /\ UNCHANGED <<state, fired, pending, moved, binTs, cycle>>
      /\ suppressed' \in BOOLEAN
  BY DEF OnControl, ControlEffect, StreakInv, TypeOK
<1>2. CASE event = "ResetLosses"
  <2>1. losing' = {} /\ halt' = ResetLosses(halt)
    BY <1>2 DEF OnControl, ControlEffect
  <2>2. halt' \in Trackers /\ halt'.losses = 0
    BY <2>1 DEF ResetLosses, StreakInv, TypeOK, Trackers
  <2>3. TypeOK'
    BY <1>1, <2>1, <2>2 DEF StreakInv, TypeOK
  <2>4. NoPhantomLoss'
    BY <2>1, <2>2, FS_EmptySet DEF NoPhantomLoss
  <2>5. OneTradePerWindow'
    BY <1>1, <2>1 DEF StreakInv, OneTradePerWindow, HasOpenPosition, AwaitsVerdict, Counts
  <2> QED
    BY <2>3, <2>4, <2>5 DEF StreakInv
<1>3. CASE event # "ResetLosses"
  <2>1. UNCHANGED <<halt, losing>>
    BY <1>3 DEF OnControl, ControlEffect
  <2> QED
    BY <1>1, <2>1, QuietStep DEF StreakInv, TypeOK, HasOpenPosition
<1> QED
  BY <1>2, <1>3

(* The balance halt.                                                       *)
LEMMA BalanceStep ==
    ASSUME StreakInv, OnBalance
    PROVE  StreakInv'
BY QuietStep DEF OnBalance, BalanceEffect, StreakInv, TypeOK, HasOpenPosition

-----------------------------------------------------------------------------
(* The invariant.                                                          *)

(* A fresh worker has lost nothing.                                        *)
LEMMA InitStreak == Init => StreakInv
<1> SUFFICES ASSUME Init PROVE StreakInv
  OBVIOUS
<1>1. TypeOK
  <2>1. halt \in Trackers
    BY DEF Init, Trackers, NewTracker
  <2>2. state \in States /\ losing \subseteq Nat /\ pending \in Sides \cup {None}
    BY SimpleStates DEF Init
  <2>3. suppressed \in BOOLEAN /\ fired \in BOOLEAN /\ moved \in BOOLEAN
    BY Zenon DEF Init
  <2>4. binTs = 0 /\ cycle = NoCycle
    BY DEF Init
  <2> QED
    BY <2>1, <2>2, <2>3, <2>4 DEF TypeOK
<1>2. OneTradePerWindow
  BY DEF Init, OneTradePerWindow, HasOpenPosition, PositionTags, ExitTags, AwaitsVerdict
<1>3. NoPhantomLoss
  BY FS_EmptySet DEF Init, NoPhantomLoss, NewTracker
<1> QED
  BY <1>1, <1>2, <1>3 DEF StreakInv

(* Every step of a worker keeps the streak sound.                          *)
LEMMA NextStreak == StreakInv /\ [Next]_vars => StreakInv'
<1> SUFFICES ASSUME StreakInv, [Next]_vars PROVE StreakInv'
  OBVIOUS
<1>1. CASE Take \/ UNCHANGED vars
  BY <1>1, IgnoreStep DEF Take, vars
<1>2. CASE Boundary
  BY <1>2, CycleOpenStep, CycleCloseStep DEF Boundary
<1>3. CASE Tick
  BY <1>3, BinanceStep, OnPolyStep DEF Tick
<1>4. CASE EntryAnswer
  BY <1>4, OrderFilledStep, OrderRejectedStep, LimitBuyStep, QuoteFilledStep DEF EntryAnswer
<1>5. CASE ExitAnswer
  <2>1. CASE \E status \in Statuses, id \in OrderIds \cup {NoOrder} :
               OnLimitSellPlaced(status, id)
    BY <2>1, LimitSellStep
  <2>2. CASE HasPosition /\ \E sold \in ShareCounts, price \in Prices :
               /\ sold <= state.h.shares
               /\ \/ OnUnwindFilled(sold, price)
                  \/ OnStopSellFilled(sold, price)
                  \/ OnTimeoutSellFilled(sold, price)
    BY <2>2, SellFilledStep
  <2>3. CASE OnUnwindFailed \/ OnStopSellFailed \/ OnTimeoutSellFailed
    BY <2>3, SellFailedStep
  <2> QED
    BY <1>5, <2>1, <2>2, <2>3 DEF ExitAnswer
<1>6. CASE Verdict
  BY <1>6, ApiResultStep, ApiTimeoutStep DEF Verdict
<1>7. CASE Command
  BY <1>7, ControlStep, BalanceStep DEF Command
<1> QED
  BY <1>1, <1>2, <1>3, <1>4, <1>5, <1>6, <1>7 DEF Next, Event

(* The inductive invariant of a worker, under any sequence of events.      *)
THEOREM StreakInvariant == Spec => []StreakInv
BY InitStreak, NextStreak, PTL DEF Spec

(* Every variable of a worker always has its type.                         *)
THEOREM TypeCorrect == Spec => []TypeOK
<1>1. StreakInv => TypeOK
  BY DEF StreakInv
<1> QED
  BY <1>1, StreakInvariant, PTL

(* The halt's counter is never ahead of the losses that stand: no trade    *)
(* is counted twice and an overruled one is taken back.                    *)
THEOREM StreakSound == Spec => []NoPhantomLoss
<1>1. StreakInv => NoPhantomLoss
  BY DEF StreakInv
<1> QED
  BY <1>1, StreakInvariant, PTL

(* A window is traded at most once, and counted at most once.              *)
THEOREM TradedOnce == Spec => []OneTradePerWindow
<1>1. StreakInv => OneTradePerWindow
  BY DEF StreakInv
<1> QED
  BY <1>1, StreakInvariant, PTL
-----------------------------------------------------------------------------
(* Lists of actions.                                                       *)

(* What is on a list; that it is a list says nothing of what is on it.     *)
Listed(s) == {s[i] : i \in DOMAIN s}
IsList(s) == s \in Seq(Listed(s))

(* A sequence of anything is a list.                                       *)
LEMMA SeqIsList ==
    ASSUME NEW S, NEW s \in Seq(S)
    PROVE  IsList(s)
<1>1. Len(s) \in Nat /\ DOMAIN s = 1 .. Len(s) /\ s \in [1 .. Len(s) -> S]
  BY LenProperties
<1>2. s \in [1 .. Len(s) -> Listed(s)]
  BY <1>1 DEF Listed
<1>. QED BY <1>1, <1>2 DEF IsList

(* A list begins with its head.                                            *)
LEMMA ListHead ==
    ASSUME NEW s, IsList(s), s # <<>>
    PROVE  /\ IsList(Tail(s))
           /\ Listed(s) = {Head(s)} \cup Listed(Tail(s))
<1> DEFINE t == Tail(s)
<1>1. /\ s \in Seq(Listed(s)) /\ Len(s) \in Nat /\ Len(s) # 0
      /\ DOMAIN s = 1 .. Len(s) /\ Head(s) = s[1]
  BY LenProperties, EmptySeq DEF IsList
<1>2. /\ t \in Seq(Listed(s)) /\ Len(t) = Len(s) - 1
      /\ \A i \in 1 .. Len(t) : t[i] = s[i + 1]
  BY <1>1, HeadTailProperties
<1>3. DOMAIN t = 1 .. Len(t) /\ Len(t) \in Nat
  BY <1>2, LenProperties
<1> HIDE DEF t
<1>4. IsList(t)
  BY <1>2, SeqIsList
<1>5. Listed(s) = {Head(s)} \cup Listed(t)
  <2>1. ASSUME NEW i \in 2 .. Len(s)
        PROVE  s[i] \in Listed(t)
    <3>1. i - 1 \in 1 .. Len(t) /\ (i - 1) + 1 = i
      BY <1>1, <1>2
    <3>. QED BY <1>2, <1>3, <3>1 DEF Listed
  <2>2. ASSUME NEW i \in 1 .. Len(t)
        PROVE  t[i] \in Listed(s)
    <3>1. i + 1 \in 1 .. Len(s)
      BY <1>1, <1>2
    <3>. QED BY <1>1, <1>2, <3>1 DEF Listed
  <2>3. Listed(s) \subseteq {Head(s)} \cup Listed(t)
    <3>1. \A i \in 1 .. Len(s) : i = 1 \/ i \in 2 .. Len(s)
      BY <1>1
    <3>. QED BY <1>1, <2>1, <3>1 DEF Listed
  <2>4. Head(s) \in Listed(s)
    BY <1>1 DEF Listed
  <2>. QED BY <1>3, <2>2, <2>3, <2>4 DEF Listed
<1>. QED BY <1>4, <1>5 DEF t

(* One list in front of another.                                           *)
LEMMA ListConcat ==
    ASSUME NEW s, NEW t, IsList(s), IsList(t)
    PROVE  /\ IsList(s \o t)
           /\ Listed(s \o t) = Listed(s) \cup Listed(t)
<1> DEFINE S == Listed(s) \cup Listed(t)
           u == s \o t
<1>1. s \in Seq(S) /\ t \in Seq(S)
  BY SeqMonotonic DEF IsList
<1>2. /\ u \in Seq(S) /\ Len(u) = Len(s) + Len(t)
      /\ \A i \in 1 .. Len(s) + Len(t) : u[i] = IF i <= Len(s) THEN s[i] ELSE t[i - Len(s)]
  BY <1>1, ConcatProperties
<1>3. /\ DOMAIN s = 1 .. Len(s) /\ DOMAIN t = 1 .. Len(t) /\ DOMAIN u = 1 .. Len(u)
      /\ Len(s) \in Nat /\ Len(t) \in Nat
  BY <1>1, <1>2, LenProperties
<1> HIDE DEF u, S
<1>4. Listed(u) \subseteq S
  BY <1>2, <1>3, LenProperties DEF Listed
<1>5. ASSUME NEW i \in 1 .. Len(s)
      PROVE  s[i] \in Listed(u)
  <2>1. i \in 1 .. Len(u) /\ i <= Len(s)
    BY <1>2, <1>3
  <2>. QED BY <1>2, <1>3, <2>1 DEF Listed
<1>6. ASSUME NEW i \in 1 .. Len(t)
      PROVE  t[i] \in Listed(u)
  <2>1. /\ i + Len(s) \in 1 .. Len(u) /\ ~(i + Len(s) <= Len(s))
        /\ (i + Len(s)) - Len(s) = i
    BY <1>2, <1>3
  <2>2. u[i + Len(s)] = t[i]
    BY <1>2, <2>1
  <2>. QED BY <1>3, <2>1, <2>2 DEF Listed
<1>7. Listed(u) = S
  BY <1>3, <1>4, <1>5, <1>6 DEF Listed, S
<1>. QED BY <1>2, <1>7 DEF IsList, u, S

(* The lists that handlers are written with.                               *)
LEMMA ShortLists ==
    /\ IsList(<<>>) /\ Listed(<<>>) = {}
    /\ \A a : IsList(<<a>>) /\ Listed(<<a>>) = {a}
    /\ \A a, b : IsList(<<a, b>>) /\ Listed(<<a, b>>) = {a, b}
<1>1. IsList(<<>>) /\ Listed(<<>>) = {}
  BY DEF IsList, Listed
<1>2. ASSUME NEW a PROVE IsList(<<a>>) /\ Listed(<<a>>) = {a}
  BY DEF IsList, Listed
<1>3. ASSUME NEW a, NEW b PROVE IsList(<<a, b>>) /\ Listed(<<a, b>>) = {a, b}
  <2>1. DOMAIN <<a, b>> = {1, 2}
    OBVIOUS
  <2>. QED BY <2>1 DEF IsList, Listed
<1>. QED BY <1>1, <1>2, <1>3

(* Short lists put together.                                               *)
LEMMA ShortConcats ==
    /\ \A a, b : <<a>> \o <<b>> = <<a, b>> /\ <<>> \o <<a, b>> = <<a, b>>
    /\ \A a, b, c : <<a>> \o <<b, c>> = <<a, b, c>>
<1>1. ASSUME NEW a, NEW b PROVE <<a>> \o <<b>> = <<a, b>>
  <2> DEFINE u == <<a>> \o <<b>>
             v == <<a, b>>
  <2>1. <<a>> \in Seq({a, b}) /\ <<b>> \in Seq({a, b}) /\ v \in Seq({a, b}) /\ Len(v) = 2
    OBVIOUS
  <2>2. /\ u \in Seq({a, b}) /\ Len(u) = 2
        /\ \A i \in 1 .. 2 : u[i] = IF i <= Len(<<a>>) THEN <<a>>[i] ELSE <<b>>[i - Len(<<a>>)]
    BY <2>1, ConcatProperties
  <2>3. \A i \in 1 .. 2 : u[i] = v[i]
    BY <2>2
  <2> HIDE DEF u, v
  <2>4. u = v
    BY <2>1, <2>2, <2>3, SeqEqual
  <2>. QED BY <2>4 DEF u, v
<1>2. ASSUME NEW a, NEW b PROVE <<>> \o <<a, b>> = <<a, b>>
  OBVIOUS
<1>3. ASSUME NEW a, NEW b, NEW c PROVE <<a>> \o <<b, c>> = <<a, b, c>>
  <2> DEFINE u == <<a>> \o <<b, c>>
             v == <<a, b, c>>
  <2>1. <<a>> \in Seq({a, b, c}) /\ <<b, c>> \in Seq({a, b, c}) /\ v \in Seq({a, b, c}) /\ Len(v) = 3
    OBVIOUS
  <2>2. /\ u \in Seq({a, b, c}) /\ Len(u) = 3
        /\ \A i \in 1 .. 3 : u[i] = IF i <= Len(<<a>>) THEN <<a>>[i] ELSE <<b, c>>[i - Len(<<a>>)]
    BY <2>1, ConcatProperties
  <2>3. \A i \in 1 .. 3 : u[i] = v[i]
    BY <2>2
  <2> HIDE DEF u, v
  <2>4. u = v
    BY <2>1, <2>2, <2>3, SeqEqual
  <2>. QED BY <2>4 DEF u, v
<1>. QED BY <1>1, <1>2, <1>3

(* An action under a condition.                                            *)
LEMMA IfList ==
    ASSUME NEW c \in BOOLEAN, NEW a
    PROVE  /\ IsList(If(c, a))
           /\ Listed(If(c, a)) = IF c THEN {a} ELSE {}
BY ShortLists DEF If

(* What is left of the list when its head is executed.                     *)
LEMMA RestList ==
    ASSUME IsList(acts)
    PROVE  /\ IsList(Rest)
           /\ acts = <<>> => Listed(acts) = {} /\ Listed(Rest) = {}
           /\ acts # <<>> => Listed(acts) = {Head(acts)} \cup Listed(Rest)
BY ListHead, ShortLists DEF Rest

(* A handler puts its actions in front of it.                              *)
LEMMA EmitList ==
    ASSUME IsList(acts), NEW as, IsList(as), Emit(as)
    PROVE  /\ IsList(acts')
           /\ Listed(acts') = Listed(as) \cup Listed(Rest)
BY RestList, ListConcat DEF Emit

(* The actions that a handler puts on the list.                            *)
LEMMA NewActions ==
    /\ Persist.type = "Persist"
    /\ \A n, p : PlaceLimitSell(n, p).type = "PlaceLimitSell"
    /\ \A i : CancelLimitSell(i).type = "CancelLimitSell" /\ CancelEntryQuote(i).type = "CancelEntryQuote"
    /\ \A n, r, l : ClosePosition(n, r, l).type = "ClosePosition"
    /\ \A r : LogTrade(r).type = "LogTrade"
    /\ \A r, q : LogTradeCorrection(r, q).type = "LogTradeCorrection"
    /\ \A n : Notice(n).type = n
BY DEF Persist, PlaceLimitSell, CancelLimitSell, CancelEntryQuote, ClosePosition, LogTrade,
       LogTradeCorrection, Notice

-----------------------------------------------------------------------------
(* The halt is never engaged or lifted in silence.                         *)

(* What a step owes, when nothing is left to execute.                      *)
Told ==
    /\ Announces("HaltEngaged") <=> ~IsHalted(halt) /\ IsHaltedNext
    /\ IsHalted(halt) /\ ~IsHaltedNext =>
          IF cycle' # cycle THEN Announces("HaltReset")
          ELSE \/ Announces("HaltClearedByCorrection")
               \/ halt'.losses = 0 /\ UNCHANGED <<state, fired, moved>>

(* Nothing is announced by a list without a notice of the halt.            *)
Quiet(as) == IsList(as) /\ \A a \in Listed(as) : a.type # "HaltEngaged"

(* What a handler announces is on the list that it returns.                *)
LEMMA AnnouncedIs ==
    ASSUME acts = <<>>, NEW as, IsList(as), Emit(as), NEW name
    PROVE  Announces(name) <=> \E a \in Listed(as) : a.type = name
<1>1. as \in Seq(Listed(as)) /\ acts' = as \o <<>>
  BY DEF IsList, Emit, Rest
<1>2. acts' = as
  BY <1>1, ConcatEmptySeq
<1>3. as = <<>> => Listed(as) = {}
  BY ShortLists
<1>. QED BY <1>2, <1>3 DEF Announces, Listed

(* The lists that the handlers return apart from the halt's notices.       *)
LEMMA QuietOnes ==
    /\ Quiet(<<>>) /\ Quiet(<<Persist>>)
    /\ \A a, b : a.type # "HaltEngaged" /\ b.type # "HaltEngaged" => Quiet(<<a>>) /\ Quiet(<<a, b>>)
    /\ \A c \in BOOLEAN : \A a : a.type # "HaltEngaged" => Quiet(If(c, a))
    /\ \A s, t : Quiet(s) /\ Quiet(t) => Quiet(s \o t)
<1>1. /\ Quiet(<<>>) /\ Quiet(<<Persist>>)
      /\ \A a, b : a.type # "HaltEngaged" /\ b.type # "HaltEngaged"
            => Quiet(<<a>>) /\ Quiet(<<a, b>>)
  BY ShortLists, NewActions DEF Quiet
<1>2. \A c \in BOOLEAN : \A a : a.type # "HaltEngaged" => Quiet(If(c, a))
  BY IfList DEF Quiet
<1>3. \A s, t : Quiet(s) /\ Quiet(t) => Quiet(s \o t)
  BY ListConcat DEF Quiet
<1>. QED BY <1>1, <1>2, <1>3

(* A handler that leaves the halt alone does not speak of it.              *)
LEMMA NothingToTell ==
    ASSUME acts = <<>>, UNCHANGED halt, NEW as, Quiet(as), Emit(as)
    PROVE  Told
BY AnnouncedIs DEF Told, Quiet, IsHalted, IsHaltedNext

(* A trade that is counted engages the halt or does not lift it.           *)
LEMMA CloseOutTells ==
    ASSUME TypeOK, acts = <<>>, NEW rec, NEW next, CloseOut(rec, next)
    PROVE  Told
<1> DEFINE engages == RecordEngages(halt, Counts(rec))
           as == <<LogTrade(rec), Persist>> \o If(engages, Notice("HaltEngaged"))
<1>1. Emit(as) /\ halt' = RecordTrade(halt, Counts(rec))
  BY DEF CloseOut
<1>2. /\ IsList(as)
      /\ Listed(as) = {LogTrade(rec), Persist} \cup (IF engages THEN {Notice("HaltEngaged")} ELSE {})
  <2>1. engages \in BOOLEAN
    BY DEF RecordEngages
  <2>. QED BY <2>1, ShortLists, IfList, ListConcat
<1>3. Announces("HaltEngaged") <=> engages
  BY <1>1, <1>2, AnnouncedIs, NewActions
<1>4. halt \in Trackers /\ halt' \in Trackers /\ halt'.losses \in {halt.losses, halt.losses + 1}
  BY <1>1, CountsType, RecordTradeType DEF TypeOK
<1>5. /\ IsHaltedNext <=> IsHalted(halt')
      /\ IsHalted(halt) => IsHalted(halt')
  BY <1>4, HaltMaxAssumption DEF IsHalted, IsHaltedNext, Trackers
<1>6. engages <=> ~IsHalted(halt) /\ IsHalted(halt')
  BY <1>1 DEF RecordEngages
<1>. QED BY <1>3, <1>5, <1>6 DEF Told

(* A new day lifts the halt and says so.                                   *)
LEMMA CycleOpenTells ==
    ASSUME TypeOK, acts = <<>>, NEW c \in Cycles, c > cycle, OnCycleOpen(c)
    PROVE  Told
<1> DEFINE clears == ResetClears(halt, SessionOf(c))
           as == <<Persist>> \o If(clears, Notice("HaltReset"))
<1>1. /\ Emit(as) /\ cycle' = c
      /\ halt' = ResetIfNewSession(halt, SessionOf(c))
  BY DEF OnCycleOpen
<1>2. /\ IsList(as)
      /\ Listed(as) = {Persist} \cup (IF clears THEN {Notice("HaltReset")} ELSE {})
  <2>1. clears \in BOOLEAN
    BY DEF ResetClears
  <2>. QED BY <2>1, ShortLists, IfList, ListConcat
<1>3. ~Announces("HaltEngaged") /\ (Announces("HaltReset") <=> clears)
  BY <1>1, <1>2, AnnouncedIs, NewActions
<1>4. cycle' # cycle
  BY <1>1, TimeAssumption DEF TypeOK
<1>5. \/ halt' = halt
      \/ ~IsHaltedNext /\ (IsHalted(halt) => clears)
  BY <1>1, HaltMaxAssumption DEF ResetIfNewSession, ResetClears, IsHalted, IsHaltedNext
<1>. QED BY <1>3, <1>4, <1>5 DEF Told, IsHalted, IsHaltedNext

(* A correction that crosses the limit, in either direction, says which.   *)
LEMMA OverruleTells ==
    ASSUME TypeOK, acts = <<>>, NEW rec, NEW is, Overrule(rec, is), UNCHANGED cycle
    PROVE  Told
<1> DEFINE correction == Correction(halt, Counts(rec), Counts(is))
           said == <<LogTradeCorrection(rec, is), Persist>>
           engaged == If(correction = "Engaged", Notice("HaltEngaged"))
           cleared == If(correction = "Cleared", Notice("HaltClearedByCorrection"))
           as == said \o engaged \o cleared
<1>1. Emit(as) /\ halt' = CorrectTrade(halt, Counts(rec), Counts(is))
  BY DEF Overrule
<1>2. /\ IsList(as)
      /\ Listed(as) = {LogTradeCorrection(rec, is), Persist}
            \cup (IF correction = "Engaged" THEN {Notice("HaltEngaged")} ELSE {})
            \cup (IF correction = "Cleared" THEN {Notice("HaltClearedByCorrection")} ELSE {})
  <2>1. IsList(said) /\ Listed(said) = {LogTradeCorrection(rec, is), Persist}
    BY ShortLists
  <2>2. /\ IsList(engaged)
        /\ Listed(engaged) = IF correction = "Engaged" THEN {Notice("HaltEngaged")} ELSE {}
    BY IfList
  <2>3. /\ IsList(cleared)
        /\ Listed(cleared) = IF correction = "Cleared" THEN {Notice("HaltClearedByCorrection")} ELSE {}
    BY IfList
  <2> HIDE DEF said, engaged, cleared
  <2>. QED BY <2>1, <2>2, <2>3, ListConcat
<1>3. /\ Announces("HaltEngaged") <=> correction = "Engaged"
      /\ Announces("HaltClearedByCorrection") <=> correction = "Cleared"
  <2> HIDE DEF as, correction
  <2>1. \A name : Announces(name) <=> \E a \in Listed(as) : a.type = name
    BY <1>1, <1>2, AnnouncedIs
  <2>2. /\ LogTradeCorrection(rec, is).type = "LogTradeCorrection" /\ Persist.type = "Persist"
        /\ \A name : Notice(name).type = name
    BY NewActions
  <2>. QED BY <1>2, <2>1, <2>2
<1>4. /\ correction = "Engaged" <=> ~IsHalted(halt) /\ IsHalted(halt')
      /\ correction = "Cleared" <=> IsHalted(halt) /\ ~IsHalted(halt')
  BY <1>1 DEF Correction
<1>5. IsHaltedNext <=> IsHalted(halt')
  BY DEF IsHalted, IsHaltedNext
<1> HIDE DEF correction
<1>. QED BY <1>3, <1>4, <1>5 DEF Told

(* Boundaries.                                                             *)
LEMMA BoundaryTells == TypeOK /\ acts = <<>> /\ Boundary => Told
<1> SUFFICES ASSUME TypeOK, acts = <<>>, Boundary PROVE Told
  OBVIOUS
<1>1. CASE OnCycleClose
  <2>1. (\E rec, next : CloseOut(rec, next)) \/ (Emit(<<>>) /\ UNCHANGED halt)
    BY <1>1 DEF OnCycleClose
  <2>. QED BY <2>1, CloseOutTells, NothingToTell, QuietOnes
<1>. QED BY <1>1, CycleOpenTells DEF Boundary

(* Ticks.                                                                  *)
LEMMA TickTells == acts = <<>> /\ Tick => Told
<1> SUFFICES ASSUME acts = <<>>, NEW t \in Times,
                    \/ \E up \in BOOLEAN : OnBinance(t, up)
                    \/ \E price \in [Sides -> Prices] : OnPoly(t, price)
             PROVE  Told
  BY DEF Tick
<1>1. UNCHANGED halt
  BY DEF OnBinance, OnPoly
<1>2. ASSUME TryEnter(t) PROVE \E as : Quiet(as) /\ Emit(as)
  <2>1. CASE Pass
    BY <2>1, QuietOnes DEF Pass
  <2>2. ASSUME NEW side, NEW at, Enter(side, at) PROVE \E as : Quiet(as) /\ Emit(as)
    <3>1. Emit(<<PlaceLimitBuy(side, at), Persist>>) \/ Emit(<<PlaceBuy(side, at), Persist>>)
      BY <2>2 DEF Enter
    <3>2. /\ PlaceLimitBuy(side, at).type # "HaltEngaged" /\ PlaceBuy(side, at).type # "HaltEngaged"
          /\ Persist.type # "HaltEngaged"
      BY DEF PlaceLimitBuy, PlaceBuy, Persist
    <3>. QED BY <3>1, <3>2, QuietOnes
  <2>. QED BY <1>2, <2>1, <2>2 DEF TryEnter
<1>3. ASSUME CheckMakerQuoteCancel(t) PROVE \E as : Quiet(as) /\ Emit(as)
  <2>1. Emit(<<CancelEntryQuote(state.q.order_id), Persist>>) \/ Emit(<<>>)
    BY <1>3 DEF CheckMakerQuoteCancel, CancelMakerQuote, Pass
  <2>. QED BY <2>1, QuietOnes, NewActions
<1>4. ASSUME NEW at, MonitorPosition(t, at) PROVE \E as : Quiet(as) /\ Emit(as)
  <2> DEFINE cancels == CancelResting(state.h)
  <2>1. Quiet(cancels)
    BY QuietOnes, NewActions DEF CancelResting
  <2>2. ASSUME NEW tag, NEW reason, NEW limit, NEW before, Quiet(before),
               Close(tag, reason, limit, before)
        PROVE  \E as : Quiet(as) /\ Emit(as)
    <3>1. Quiet(<<ClosePosition(state.h.shares, reason, limit), Persist>>)
      BY QuietOnes, NewActions
    <3>. QED BY <2>2, <3>1, QuietOnes DEF Close
  <2>3. \/ Close("StopExiting", "StopLoss", NoLimit, cancels)
        \/ Close("Unwinding", "TakeProfit", state.h.exit_arm.tp_price, <<>>)
        \/ Close("TimingOut", "Timeout", NoLimit, cancels)
        \/ Emit(<<>>)
    BY <1>4 DEF MonitorPosition
  <2> HIDE DEF cancels
  <2>. QED BY <2>1, <2>2, <2>3, QuietOnes
<1>5. \E as : Quiet(as) /\ Emit(as)
  BY <1>2, <1>3, <1>4 DEF OnBinance, OnPoly
<1>. QED BY <1>1, <1>5, NothingToTell

(* The answer to an order to buy.                                          *)
LEMMA EntryAnswerTells == acts = <<>> /\ EntryAnswer => Told
<1> SUFFICES ASSUME acts = <<>>, EntryAnswer PROVE Told
  OBVIOUS
<1>1. UNCHANGED halt
  BY DEF EntryAnswer, OnOrderFilled, OnEntryQuoteFilled, OnOrderRejected, OnLimitBuyPlaced
<1>2. ASSUME NEW side, NEW n, NEW cost, FinalizeEntryFill(side, n, cost)
      PROVE  \E as : Quiet(as) /\ Emit(as)
  <2>1. \/ Emit(<<Persist>>)
        \/ Emit(If(n >= MinGtc, PlaceLimitSell(n, TpPriceFor(cost))) \o <<Persist>>)
    BY <1>2 DEF FinalizeEntryFill, HoldBought
  <2>2. Quiet(If(n >= MinGtc, PlaceLimitSell(n, TpPriceFor(cost))))
    <3>1. (n >= MinGtc) \in BOOLEAN
      OBVIOUS
    <3>. QED BY <3>1, QuietOnes, NewActions
  <2>. QED BY <2>1, <2>2, QuietOnes
<1>3. \E as : Quiet(as) /\ Emit(as)
  BY <1>2, QuietOnes DEF EntryAnswer, OnOrderFilled, OnEntryQuoteFilled, OnOrderRejected,
                         OnLimitBuyPlaced
<1>. QED BY <1>1, <1>3, NothingToTell

(* The answer to an order to sell.                                         *)
LEMMA ExitAnswerTells == TypeOK /\ acts = <<>> /\ ExitAnswer => Told
<1> SUFFICES ASSUME TypeOK, acts = <<>>, ExitAnswer PROVE Told
  OBVIOUS
<1>1. ASSUME NEW h, NEW sold, NEW at, NEW outcome, FinalizeOrHoldResidual(h, sold, at, outcome)
      PROVE  (\E h2 : HoldAgain(h2)) \/ \E rec, next : CloseOut(rec, next)
  BY <1>1 DEF FinalizeOrHoldResidual
<1>2. \/ \E h2 : HoldAgain(h2)
      \/ \E rec, next : CloseOut(rec, next)
      \/ Ignore
      \/ Emit(<<Persist>>) /\ UNCHANGED halt
  BY <1>1 DEF ExitAnswer, OnLimitSellPlaced, OnUnwindFilled, OnStopSellFilled, OnTimeoutSellFilled,
              OnUnwindFailed, OnStopSellFailed, OnTimeoutSellFailed
<1>. QED BY <1>2, CloseOutTells, NothingToTell, QuietOnes DEF HoldAgain, Ignore

(* The verdict, or its absence.                                            *)
LEMMA VerdictTells == TypeOK /\ acts = <<>> /\ Verdict => Told
<1> SUFFICES ASSUME TypeOK, acts = <<>>, Verdict PROVE Told
  OBVIOUS
<1>1. ASSUME NEW won, OnApiResult(won) PROVE Told
  <2>1. UNCHANGED cycle
    BY <1>1 DEF OnApiResult
  <2>2. \/ \E rec, is : Overrule(rec, is)
        \/ /\ UNCHANGED halt
           /\ \/ Emit(If(state.rec.outcome = "StopLoss", Notice("StopLossVerdict")) \o <<Persist>>)
              \/ Emit(<<>>)
    BY <1>1 DEF OnApiResult, Ignore
  <2>3. Quiet(If(state.rec.outcome = "StopLoss", Notice("StopLossVerdict")))
    BY QuietOnes, NewActions
  <2>. QED BY <2>1, <2>2, <2>3, OverruleTells, NothingToTell, QuietOnes
<1>2. ASSUME NEW increased, OnApiResultTimeout(increased) PROVE Told
  <2>1. /\ UNCHANGED halt
        /\ \/ Emit(<<Notice("GammaUnresolvedContinued"), Persist>>)
           \/ Emit(<<Notice("GammaHaltEngaged"), Persist>>)
           \/ Emit(<<Persist>>)
           \/ Emit(<<>>)
    BY <1>2 DEF OnApiResultTimeout
  <2>2. /\ Notice("GammaUnresolvedContinued").type # "HaltEngaged"
        /\ Notice("GammaHaltEngaged").type # "HaltEngaged" /\ Persist.type # "HaltEngaged"
    BY NewActions
  <2>. QED BY <2>1, <2>2, NothingToTell, QuietOnes
<1>. QED BY <1>1, <1>2 DEF Verdict

(* Commands: one of them lifts a halt without a word, and does no more.    *)
LEMMA CommandTells == TypeOK /\ acts = <<>> /\ Command => Told
<1> SUFFICES ASSUME TypeOK, acts = <<>>, Command PROVE Told
  OBVIOUS
<1>1. Emit(<<Persist>>) /\ UNCHANGED <<state, fired, moved, cycle>>
  BY DEF Command, OnControl, ControlEffect, OnBalance, BalanceEffect
<1>2. ~Announces("HaltEngaged")
  BY <1>1, AnnouncedIs, QuietOnes DEF Quiet
<1>3. UNCHANGED halt \/ halt'.losses = 0
  BY DEF Command, OnControl, ControlEffect, OnBalance, BalanceEffect, ResetLosses, TypeOK, Trackers
<1>4. UNCHANGED halt \/ ~IsHaltedNext
  BY <1>3, HaltMaxAssumption DEF IsHaltedNext
<1>. QED BY <1>1, <1>2, <1>3, <1>4 DEF Told, IsHalted, IsHaltedNext

(* worker.rs: whatever engages the halt of a loss streak says so, and says *)
(* it only then; a new day and a correction say that they lift it, and     *)
(* nothing else but /reset_losses does.                                    *)
THEOREM HaltChangesAreTold == Spec => HaltChangeAnnounced
<1>1. TypeOK /\ [Next]_vars => [acts = <<>> => Told]_vars
  <2> SUFFICES ASSUME TypeOK, Next, acts = <<>> PROVE Told
    OBVIOUS
  <2>1. Event
    BY DEF Next, Take
  <2>. QED BY <2>1, BoundaryTells, TickTells, EntryAnswerTells, ExitAnswerTells, VerdictTells,
              CommandTells DEF Event
<1>2. Spec => [][acts = <<>> => Told]_vars
  BY <1>1, TypeCorrect, PTL DEF Spec
<1>. QED BY <1>2 DEF HaltChangeAnnounced, Told
=============================================================================
