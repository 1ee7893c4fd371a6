---------------------------- MODULE DriverProofs ----------------------------
(***************************************************************************)
(* Proofs about Driver, for any prices, fills, orders and times.           *)
(***************************************************************************)
EXTENDS Driver, WorkerProofs

USE DEF None, NoOrder, NoLimit, NoCycle, NoSession, Watching, Entering

-----------------------------------------------------------------------------
(* What the handlers of the worker do, as far as the driver is concerned.  *)

Buys(s)  == {a \in Listed(s) : a.type \in {"PlaceBuy", "PlaceLimitBuy"}}
Sales(s) == {a \in Listed(s) : a.type \in {"PlaceLimitSell", "ClosePosition"}}
Logs(s)  == {a \in Listed(s) : a.type = "LogTrade"}

(* The side a slot is exposed to, once it has ordered.                     *)
Exposure == IF state.tag = "Entering" THEN pending
            ELSE IF state.tag = "EnteringMaker" THEN state.q.side
            ELSE IF HasPosition THEN state.h.side
            ELSE None

(* What a state carries has its fields.                                    *)
PositionFields ==
    {"side", "token_price", "entry_ts", "shares", "exit_arm", "realized_pnl", "fees"}
IsPosition(h) == /\ h = [field \in PositionFields |-> h[field]]
                 /\ h.shares \in Int /\ h.token_price \in Int
                 /\ h.realized_pnl \in Int /\ h.fees \in Int
IsQuote(q) == /\ q = [side |-> q.side, quote_price |-> q.quote_price, order_id |-> q.order_id]
              /\ q.quote_price \in Int
Shaped ==
    /\ HasPosition => IsPosition(state.h)
    /\ state.tag = "EnteringMaker" => state = EnteringMaker(state.q) /\ IsQuote(state.q)
    /\ state.tag = "Entering" => state = Entering

(* Orders come with numbers, and those to close with a reason.             *)
Reasons == {"TakeProfit", "StopLoss", "Timeout"}
Formed(s) == \A a \in Listed(s) :
    /\ a.type \in {"PlaceLimitBuy", "PlaceLimitSell"} => a.shares \in Int /\ a.price \in Int
    /\ a.type = "ClosePosition" => a.shares \in Int /\ a.reason \in Reasons

(* What every handler relies on.                                           *)
Ready == IsList(acts) /\ Formed(acts) /\ halt \in Trackers /\ Shaped

(* A change of the halts leaves its traces among the actions.              *)
Tells == /\ Listed(Rest) \subseteq Listed(acts')
         /\ UNCHANGED <<suppressed, halt>> \/ Persist \in Listed(acts')
         /\ UNCHANGED Halted \/ \E a \in Listed(acts') : a.type \in LoggedNotices

(* Nothing is bought, and the exposure is kept or given up.                *)
Steady == /\ UNCHANGED <<cycle, fired>>
          /\ Buys(acts') = Buys(Rest)
          /\ HasOpenPosition' => HasOpenPosition /\ UNCHANGED Exposure
          /\ state'.tag = "Entering" => UNCHANGED <<state, pending>>

(* A position is kept, or closed and handed over to its verdict.           *)
Keeps  == /\ AwaitsVerdict \/ AwaitsVerdict' => UNCHANGED state
          /\ HasPosition => HasPosition'
Closes == /\ HasPosition /\ AwaitsVerdict' /\ state'.rec.cycle = cycle
          /\ Logs(acts') = {LogTrade(state'.rec)} \cup Logs(Rest)
Settles == (Logs(acts') = Logs(Rest) /\ Keeps) \/ Closes

(* What is sold is what is held: the exit that was decided on, or the      *)
(* take-profit of an entry that has just been filled.                      *)
ExitTag(reason) == CASE reason = "TakeProfit" -> "Unwinding"
                     [] reason = "StopLoss"   -> "StopExiting"
                     [] reason = "Timeout"    -> "TimingOut"
Decides == \E c, x :
    /\ c.type = "ClosePosition" /\ c.reason \in Reasons /\ c.shares = state.h.shares
    /\ state.tag = "Holding" /\ state' = Exiting(ExitTag(c.reason), state.h)
    /\ \/ acts' = <<c, Persist>> \o Rest
       \/ x.type = "CancelLimitSell" /\ acts' = <<x, c, Persist>> \o Rest
Offers == \E a :
    /\ a.type = "PlaceLimitSell" /\ ~HasPosition /\ state'.tag = "Holding"
    /\ a.shares = state'.h.shares /\ a.price = TpPriceFor(state'.h.token_price)
    /\ acts' = <<a, Persist>> \o Rest
Sells == Sales(acts') = Sales(Rest) \/ Decides \/ Offers

WorkerStep == Ready' /\ Tells /\ Steady /\ Settles /\ Sells

(* Actions with which nothing is ordered or logged.                        *)
QuietList(as) ==
    /\ IsList(as)
    /\ \A a \in Listed(as) :
          a.type \notin {"PlaceBuy", "PlaceLimitBuy", "PlaceLimitSell", "ClosePosition", "LogTrade"}

(* The lists without a purchase or a trade.                                *)
LEMMA QuietLists ==
    /\ QuietList(<<>>) /\ QuietList(<<Persist>>)
    /\ \A s, t : QuietList(s) /\ QuietList(t) => QuietList(s \o t)
    /\ \A a : \A c \in BOOLEAN :
          a.type \notin {"PlaceBuy", "PlaceLimitBuy", "PlaceLimitSell", "ClosePosition", "LogTrade"}
            => QuietList(If(c, a))
<1>1. QuietList(<<>>) /\ QuietList(<<Persist>>)
  BY ShortLists, NewActions DEF QuietList
<1>2. \A s, t : QuietList(s) /\ QuietList(t) => QuietList(s \o t)
  BY ListConcat DEF QuietList
<1>3. \A a : \A c \in BOOLEAN :
          a.type \notin {"PlaceBuy", "PlaceLimitBuy", "PlaceLimitSell", "ClosePosition", "LogTrade"}
            => QuietList(If(c, a))
  BY IfList DEF QuietList
<1>. QED BY <1>1, <1>2, <1>3

(* A handler that returns a list.                                          *)
LEMMA HandlerActions ==
    ASSUME Ready, NEW as, IsList(as), Formed(as), Emit(as)
    PROVE  /\ IsList(acts') /\ Formed(acts') /\ Listed(acts') = Listed(as) \cup Listed(Rest)
           /\ Buys(acts') = Buys(as) \cup Buys(Rest)
           /\ Sales(acts') = Sales(as) \cup Sales(Rest)
           /\ Logs(acts') = Logs(as) \cup Logs(Rest)
<1>1. IsList(acts') /\ Listed(acts') = Listed(as) \cup Listed(Rest)
  BY EmitList DEF Ready
<1>2. Formed(acts')
  BY <1>1, RestList DEF Formed, Ready
<1>. QED BY <1>1, <1>2 DEF Buys, Sales, Logs

(* A handler that buys, sells and logs nothing leaves those actions alone. *)
LEMMA QuietActions ==
    ASSUME Ready, NEW as, QuietList(as), Emit(as)
    PROVE  /\ IsList(acts') /\ Formed(acts') /\ Listed(acts') = Listed(as) \cup Listed(Rest)
           /\ Buys(acts') = Buys(Rest) /\ Sales(acts') = Sales(Rest) /\ Logs(acts') = Logs(Rest)
<1>1. IsList(as) /\ Formed(as) /\ Buys(as) = {} /\ Sales(as) = {} /\ Logs(as) = {}
  BY DEF QuietList, Formed, Buys, Sales, Logs
<1>. QED BY <1>1, HandlerActions

(* The tags of the states are different.                                   *)
LEMMA Tags ==
    /\ HasPosition <=> state.tag \in {"Holding", "Unwinding", "StopExiting", "TimingOut"}
    /\ HasOpenPosition <=> HasPosition \/ state.tag \in {"Entering", "EnteringMaker"}
    /\ AwaitsVerdict <=> state.tag \in {"Confirming", "EnrichOnly"}
BY DEF HasPosition, HasOpenPosition, AwaitsVerdict, PositionTags, ExitTags

(* Nothing else moves the state of a worker: it stays,                     *)
Moves == /\ HasOpenPosition' => HasOpenPosition /\ UNCHANGED Exposure
         /\ state'.tag = "Entering" => UNCHANGED <<state, pending>>
         /\ Keeps
         /\ Shaped'

(* A worker that stays as it is moves nowhere.                             *)
LEMMA StateStays ==
    ASSUME Shaped, UNCHANGED state, state.tag = "Entering" => UNCHANGED pending
    PROVE  Moves
BY DEF Moves, Keeps, Shaped, Exposure, HasOpenPosition, HasPosition, AwaitsVerdict

(* an entry is given up,                                                   *)
LEMMA EntryGivenUp ==
    ASSUME ~HasPosition, ~AwaitsVerdict, state' = Watching
    PROVE  Moves
<1>1. ~HasOpenPosition' /\ ~HasPosition' /\ ~AwaitsVerdict'
  BY DEF HasOpenPosition, HasPosition, AwaitsVerdict, PositionTags, ExitTags
<1>2. Shaped'
  BY <1>1 DEF Shaped
<1>. QED BY <1>1, <1>2 DEF Moves, Keeps

(* or the position is held, or on its way out.                             *)
LEMMA PositionHeld ==
    ASSUME HasOpenPosition, NEW h, IsPosition(h), h.side = Exposure,
           NEW tag \in PositionTags, state' = [tag |-> tag, h |-> h]
    PROVE  Moves
<1>1. /\ state'.tag \in PositionTags /\ state'.h = h
      /\ ~AwaitsVerdict /\ ~AwaitsVerdict'
  BY DEF HasOpenPosition, AwaitsVerdict, PositionTags, ExitTags
<1>2. HasPosition' /\ Exposure' = h.side
  BY <1>1 DEF HasPosition, Exposure, PositionTags, ExitTags
<1>. QED BY <1>1, <1>2 DEF Moves, Keeps, Shaped, PositionTags, ExitTags

(* A handler that leaves the halts alone and neither buys nor logs.        *)
LEMMA SellingHandler ==
    ASSUME Ready, NEW as, IsList(as), Formed(as), Buys(as) = {}, Logs(as) = {}, Emit(as),
           Moves, Sells, UNCHANGED <<suppressed, halt, cycle, fired>>
    PROVE  WorkerStep
<1>1. /\ IsList(acts') /\ Formed(acts') /\ Listed(acts') = Listed(as) \cup Listed(Rest)
      /\ Buys(acts') = Buys(Rest) /\ Logs(acts') = Logs(Rest)
  BY HandlerActions
<1>2. Ready' /\ Tells
  BY <1>1 DEF Ready, Moves, Tells, Halted
<1>. QED BY <1>1, <1>2 DEF WorkerStep, Steady, Settles, Moves

(* One that does not sell either.                                          *)
LEMMA QuietHandler ==
    ASSUME Ready, NEW as, QuietList(as), Emit(as), Moves,
           UNCHANGED <<suppressed, halt, cycle, fired>>
    PROVE  WorkerStep
<1>1. IsList(as) /\ Formed(as) /\ Buys(as) = {} /\ Logs(as) = {}
  BY DEF QuietList, Formed, Buys, Logs
<1>2. Sells
  BY QuietActions DEF Sells
<1>. QED BY <1>1, <1>2, SellingHandler

(* Nothing happens to the worker, unless an action is taken off the list.  *)
LEMMA NothingDone ==
    ASSUME Ready, UNCHANGED <<state, suppressed, halt, fired, pending, cycle>>, acts' = Rest
    PROVE  WorkerStep
<1>1. Emit(<<>>)
  BY RestList, ShortLists DEF Emit, Ready, IsList
<1>2. Moves
  BY StateStays DEF Ready
<1>. QED BY <1>1, <1>2, QuietHandler, QuietLists

(* A trade is closed.                                                      *)
LEMMA CloseOutDoes ==
    ASSUME Ready, HasPosition, NEW rec, rec.cycle = cycle, NEW next,
           next \in {Confirming(rec), EnrichOnly(rec)},
           CloseOut(rec, next), UNCHANGED <<suppressed, fired, pending, cycle>>
    PROVE  WorkerStep
<1> DEFINE engages == RecordEngages(halt, Counts(rec))
           as == <<LogTrade(rec), Persist>> \o If(engages, Notice("HaltEngaged"))
<1>1. Emit(as) /\ state' = next /\ halt' = RecordTrade(halt, Counts(rec))
  BY DEF CloseOut
<1>2. engages \in BOOLEAN
  BY DEF RecordEngages
<1>3. /\ IsList(as)
      /\ Listed(as) = {LogTrade(rec), Persist} \cup (IF engages THEN {Notice("HaltEngaged")} ELSE {})
  BY <1>2, ShortLists, IfList, ListConcat
<1>4. /\ IsList(acts') /\ Listed(acts') = Listed(as) \cup Listed(Rest)
      /\ Formed(acts') /\ Sales(acts') = Sales(Rest)
  <2>1. Formed(as) /\ Sales(as) = {}
    BY <1>3, NewActions DEF Formed, Sales
  <2>. QED BY <1>1, <1>3, <2>1, HandlerActions
<1>5. state'.tag \in {"Confirming", "EnrichOnly"} /\ state'.rec = rec
  BY <1>1 DEF Confirming, EnrichOnly
<1>6. /\ halt' \in Trackers
      /\ halt'.losses = IF Counts(rec) THEN halt.losses + 1 ELSE halt.losses
  BY <1>1, CountsType, RecordTradeType DEF Ready
<1>7. Ready'
  BY <1>4, <1>5, <1>6 DEF Ready, Shaped, HasPosition, PositionTags, ExitTags
<1>8. Tells
  <2>1. CASE engages
    BY <1>3, <1>4, <2>1, NewActions DEF Tells, LoggedNotices
  <2>2. CASE ~engages
    <3>1. IsHalted(halt) <=> IsHalted(halt')
      BY <1>1, <1>6, <2>2, HaltMaxAssumption, CountsType
      DEF IsHalted, RecordEngages, RecordTrade, Ready, Trackers
    <3>. QED BY <1>3, <1>4, <3>1 DEF Tells, Halted
  <2>. QED BY <2>1, <2>2
<1>9. Steady
  BY <1>3, <1>4, <1>5, NewActions DEF Steady, Buys, HasOpenPosition, PositionTags, ExitTags
<1>10. Closes
  BY <1>3, <1>4, <1>5, NewActions DEF Closes, Logs, AwaitsVerdict
<1>. QED BY <1>4, <1>7, <1>8, <1>9, <1>10 DEF WorkerStep, Settles, Sells

-----------------------------------------------------------------------------
(* The handlers, one by one.                                               *)

(* The window is over.                                                     *)
LEMMA CycleCloseDoes ==
    ASSUME Ready, OnCycleClose
    PROVE  WorkerStep /\ ~HasOpenPosition'
<1>1. /\ UNCHANGED <<suppressed, fired, pending, cycle>>
      /\ ~HasOpenPosition'
  BY DEF OnCycleClose, CloseOut, Confirming, AwaitsVerdict, HasOpenPosition, PositionTags, ExitTags
<1>2. CASE HasPosition
  <2> DEFINE rec == IF Won(state.h) THEN Record(state.h, "Win", SettlePnl(state.h, One))
                                    ELSE Record(state.h, "Loss", SettlePnl(state.h, 0))
  <2>1. rec.cycle = cycle
    BY DEF Record
  <2>2. CloseOut(rec, Confirming(rec))
    BY <1>2 DEF OnCycleClose
  <2> HIDE DEF rec
  <2>. QED BY <1>1, <1>2, <2>1, <2>2, CloseOutDoes
<1>3. CASE ~HasPosition
  <2>1. Emit(<<>>) /\ UNCHANGED halt /\ state' = IF AwaitsVerdict THEN state ELSE Watching
    BY <1>3 DEF OnCycleClose
  <2>2. Moves
    BY <1>1, <1>3, <2>1, StateStays, EntryGivenUp DEF Ready
  <2>. QED BY <1>1, <2>1, <2>2, QuietHandler, QuietLists
<1>. QED BY <1>2, <1>3

(* The entry is answered: with nothing, or with shares to hold.            *)
LEMMA EntryFillDoes ==
    ASSUME Ready, HasOpenPosition, ~HasPosition, NEW side, side = Exposure,
           NEW n \in Int, NEW cost \in Int, FinalizeEntryFill(side, n, cost),
           UNCHANGED <<suppressed, halt, cycle, fired>>
    PROVE  WorkerStep
<1>1. CASE n <= 0
  <2>1. state' = Watching /\ Emit(<<Persist>>)
    BY <1>1 DEF FinalizeEntryFill
  <2>2. Moves
    BY <2>1, EntryGivenUp DEF HasOpenPosition, HasPosition, AwaitsVerdict, PositionTags, ExitTags
  <2>. QED BY <2>1, <2>2, QuietHandler, QuietLists
<1>2. CASE ~(n <= 0)
  <2> DEFINE a == PlaceLimitSell(n, TpPriceFor(cost))
             h == Bought(side, n, cost)
  <2>1. state' = Holding(h) /\ Emit(If(n >= MinGtc, a) \o <<Persist>>)
    BY <1>2 DEF FinalizeEntryFill, HoldBought
  <2>2. /\ IsPosition(h) /\ h.side = Exposure
        /\ h.shares = n /\ h.token_price = cost
    BY FeeType DEF IsPosition, PositionFields, Bought
  <2>3. a.type = "PlaceLimitSell" /\ a.shares = n /\ a.price = TpPriceFor(cost) /\ a.price \in Int
    BY TpType DEF PlaceLimitSell
  <2>4. state' = [tag |-> "Holding", h |-> h]
    BY <2>1 DEF Holding
  <2> HIDE DEF a, h
  <2>5. Moves
    BY <2>2, <2>4, PositionHeld DEF PositionTags
  <2>6. CASE n >= MinGtc
    <3>1. Emit(<<a, Persist>>)
      BY <2>1, <2>6, ShortConcats DEF If
    <3>2. /\ IsList(<<a, Persist>>) /\ Formed(<<a, Persist>>)
          /\ Buys(<<a, Persist>>) = {} /\ Logs(<<a, Persist>>) = {}
      BY <2>3, ShortLists, NewActions DEF Formed, Buys, Logs
    <3>3. Offers
      BY <2>2, <2>3, <2>4, <3>1 DEF Offers, Emit
    <3>. QED BY <2>5, <3>1, <3>2, <3>3, SellingHandler DEF Sells
  <2>7. CASE ~(n >= MinGtc)
    <3>1. Emit(<<Persist>>)
      <4>1. If(n >= MinGtc, a) = <<>> /\ <<>> \o <<Persist>> = <<Persist>>
        BY <2>7 DEF If
      <4>. QED BY <2>1, <4>1
    <3>. QED BY <2>5, <3>1, QuietLists, QuietHandler
  <2>. QED BY <2>6, <2>7
<1>. QED BY <1>1, <1>2

(* A market order's answer.                                                *)
LEMMA OrderFilledDoes ==
    ASSUME Ready, NEW n \in Int, NEW cost \in Int, OnOrderFilled(n, cost)
    PROVE  WorkerStep
<1>1. UNCHANGED <<suppressed, halt, fired, cycle>>
  BY DEF OnOrderFilled
<1>2. CASE state = Entering /\ pending # None
  <2>1. HasOpenPosition /\ ~HasPosition /\ Exposure = pending
    BY <1>2 DEF HasOpenPosition, HasPosition, PositionTags, ExitTags, Exposure
  <2>2. FinalizeEntryFill(pending, n, cost)
    BY <1>2 DEF OnOrderFilled
  <2>. QED BY <1>1, <2>1, <2>2, EntryFillDoes
<1>3. CASE ~(state = Entering /\ pending # None)
  <2>1. Emit(<<>>) /\ UNCHANGED <<state, pending>>
    BY <1>3 DEF OnOrderFilled
  <2>. QED BY <1>1, <2>1, StateStays, QuietHandler, QuietLists DEF Ready
<1>. QED BY <1>2, <1>3

(* An order that is rejected gives the entry up (on_order_rejected).       *)
LEMMA OrderRejectedDoes ==
    ASSUME Ready, OnOrderRejected
    PROVE  WorkerStep
<1>1. /\ UNCHANGED <<suppressed, halt, fired, cycle>> /\ Emit(<<Persist>>)
      /\ state' = IF state = Entering THEN Watching ELSE state
  BY DEF OnOrderRejected
<1>2. Moves
  <2>1. CASE state = Entering
    BY <1>1, <2>1, EntryGivenUp DEF HasPosition, AwaitsVerdict, PositionTags, ExitTags
  <2>2. CASE state # Entering
    BY <1>1, <2>2, StateStays DEF Ready, Shaped
  <2>. QED BY <2>1, <2>2
<1>. QED BY <1>1, <1>2, QuietHandler, QuietLists

(* The answer to a quote to buy.                                           *)
LEMMA LimitBuyPlacedDoes ==
    ASSUME Ready, NEW status, NEW id, OnLimitBuyPlaced(status, id)
    PROVE  WorkerStep
<1>1. UNCHANGED <<suppressed, halt, fired, pending, cycle>>
  BY DEF OnLimitBuyPlaced
<1>2. CASE state.tag = "EnteringMaker"
  <2> DEFINE q == state.q
  <2>1. /\ state = EnteringMaker(q) /\ IsQuote(q)
        /\ HasOpenPosition /\ ~HasPosition /\ ~AwaitsVerdict /\ Exposure = q.side
    BY <1>2 DEF Ready, Shaped, HasOpenPosition, HasPosition, AwaitsVerdict, PositionTags, ExitTags,
                Exposure
  <2>2. CASE state' = [state EXCEPT !.q.order_id = id] /\ Emit(<<Persist>>)
    <3> DEFINE r == [side |-> q.side, quote_price |-> q.quote_price, order_id |-> id]
    <3>1. state' = [tag |-> "EnteringMaker", q |-> r]
      BY <2>1, <2>2 DEF EnteringMaker, IsQuote
    <3>2. /\ state'.tag = "EnteringMaker" /\ state'.q = r /\ state' = EnteringMaker(r)
          /\ IsQuote(r) /\ r.side = q.side
      BY <2>1, <3>1 DEF IsQuote, EnteringMaker
    <3> HIDE DEF r
    <3>3. Moves
      BY <2>1, <3>2 DEF Moves, Keeps, Shaped, Exposure, HasOpenPosition, HasPosition, AwaitsVerdict,
                        PositionTags, ExitTags
    <3>. QED BY <1>1, <2>2, <3>3, QuietHandler, QuietLists
  <2>3. CASE FinalizeEntryFill(q.side, MinGtc, q.quote_price)
    BY <1>1, <2>1, <2>3, EntryFillDoes, SharesAssumption DEF IsQuote
  <2>4. CASE state' = Watching /\ Emit(<<Persist>>)
    BY <1>1, <2>1, <2>4, EntryGivenUp, QuietHandler, QuietLists
  <2>. QED BY <1>2, <2>2, <2>3, <2>4 DEF OnLimitBuyPlaced
<1>3. CASE state.tag # "EnteringMaker"
  <2>1. Emit(<<>>) /\ UNCHANGED state
    BY <1>3 DEF OnLimitBuyPlaced
  <2>. QED BY <1>1, <2>1, StateStays, QuietHandler, QuietLists DEF Ready
<1>. QED BY <1>2, <1>3

(* The quote is filled.                                                    *)
LEMMA QuoteFilledDoes ==
    ASSUME Ready, NEW n \in Int, NEW cost \in Int, OnEntryQuoteFilled(n, cost)
    PROVE  WorkerStep
<1>1. UNCHANGED <<suppressed, halt, fired, pending, cycle>>
  BY DEF OnEntryQuoteFilled
<1>2. CASE state.tag = "EnteringMaker"
  <2>1. HasOpenPosition /\ ~HasPosition /\ Exposure = state.q.side
    BY <1>2 DEF HasOpenPosition, HasPosition, PositionTags, ExitTags, Exposure
  <2>2. FinalizeEntryFill(state.q.side, n, cost)
    BY <1>2 DEF OnEntryQuoteFilled
  <2>. QED BY <1>1, <2>1, <2>2, EntryFillDoes
<1>3. CASE state.tag # "EnteringMaker"
  <2>1. Emit(<<>>) /\ UNCHANGED state
    BY <1>3 DEF OnEntryQuoteFilled
  <2>. QED BY <1>1, <2>1, StateStays, QuietHandler, QuietLists DEF Ready
<1>. QED BY <1>2, <1>3

(* A decision to sell.                                                     *)
LEMMA CloseDoes ==
    ASSUME Ready, state.tag = "Holding", NEW reason \in Reasons, NEW limit, NEW cancels,
           \/ cancels = <<>>
           \/ \E x : x.type = "CancelLimitSell" /\ cancels = <<x>>,
           Close(ExitTag(reason), reason, limit, cancels),
           UNCHANGED <<suppressed, halt, fired, pending, cycle>>
    PROVE  WorkerStep
<1> DEFINE c == ClosePosition(state.h.shares, reason, limit)
           as == <<c, Persist>>
<1>1. Emit(cancels \o as) /\ state' = Exiting(ExitTag(reason), state.h)
  BY DEF Close
<1>2. HasOpenPosition /\ IsPosition(state.h) /\ state.h.side = Exposure
  BY DEF HasOpenPosition, HasPosition, PositionTags, ExitTags, Ready, Shaped, Exposure
<1>3. c.type = "ClosePosition" /\ c.reason = reason /\ c.shares = state.h.shares /\ c.shares \in Int
  BY <1>2 DEF ClosePosition, IsPosition
<1> HIDE DEF c
<1>4. Moves
  BY <1>1, <1>2, PositionHeld DEF PositionTags, ExitTags, ExitTag, Reasons, Exiting
<1>5. IsList(as) /\ Formed(as) /\ Buys(as) = {} /\ Logs(as) = {}
  BY <1>3, ShortLists, NewActions DEF Formed, Buys, Logs
<1>6. CASE cancels = <<>>
  <2>1. Emit(as)
    BY <1>1, <1>6, ShortConcats
  <2>2. Decides
    BY <1>1, <1>3, <2>1 DEF Decides, Emit
  <2>. QED BY <1>4, <1>5, <2>1, <2>2, SellingHandler DEF Sells
<1>7. ASSUME NEW x, x.type = "CancelLimitSell", cancels = <<x>>
      PROVE  WorkerStep
  <2> DEFINE bs == <<x>> \o as
  <2>1. Emit(bs) /\ bs = <<x, c, Persist>>
    BY <1>1, <1>7, ShortConcats
  <2>2. Decides
    BY <1>1, <1>3, <1>7, <2>1 DEF Decides, Emit
  <2>3. IsList(bs) /\ Formed(bs) /\ Buys(bs) = {} /\ Logs(bs) = {}
    BY <1>5, <1>7, ShortLists, ListConcat DEF Formed, Buys, Logs
  <2> HIDE DEF bs
  <2>. QED BY <1>4, <2>1, <2>2, <2>3, SellingHandler DEF Sells
<1>. QED BY <1>6, <1>7

(* Looking at a position keeps it or decides on its exit                   *)
(* (monitor_position).                                                     *)
LEMMA MonitorDoes ==
    ASSUME Ready, state.tag = "Holding", NEW t, NEW at, MonitorPosition(t, at),
           UNCHANGED <<suppressed, halt, fired, pending, cycle>>
    PROVE  WorkerStep
<1> DEFINE cancels == CancelResting(state.h)
<1>1. \/ cancels = <<>>
      \/ \E x : x.type = "CancelLimitSell" /\ cancels = <<x>>
  BY NewActions DEF CancelResting, If
<1>2. \/ Close("StopExiting", "StopLoss", NoLimit, cancels)
      \/ Close("Unwinding", "TakeProfit", state.h.exit_arm.tp_price, <<>>)
      \/ Close("TimingOut", "Timeout", NoLimit, cancels)
      \/ Emit(<<>>) /\ UNCHANGED state
  BY DEF MonitorPosition
<1>3. CASE Emit(<<>>) /\ UNCHANGED state
  BY <1>3, StateStays, QuietHandler, QuietLists DEF Ready
<1>4. /\ ExitTag("StopLoss") = "StopExiting" /\ ExitTag("TakeProfit") = "Unwinding"
      /\ ExitTag("Timeout") = "TimingOut"
  BY DEF ExitTag
<1> HIDE DEF cancels
<1>. QED BY <1>1, <1>2, <1>3, <1>4, CloseDoes DEF Reasons

(* A tick enters, or is a step like the others.                            *)
Enters(t) ==
    /\ CanEnter(t)
    /\ \E side \in Sides, at \in EntryPrices : Enter(side, at)
    /\ UNCHANGED <<suppressed, halt, cycle>>

(* A tick that may enter does, or changes nothing.                         *)
LEMMA TryEnterDoes ==
    ASSUME Ready, NEW t, TryEnter(t), UNCHANGED <<suppressed, halt, cycle>>
    PROVE  WorkerStep \/ Enters(t)
<1>1. CASE Pass
  BY <1>1, StateStays, QuietHandler, QuietLists DEF Pass, Ready
<1>. QED BY <1>1 DEF TryEnter, Enters

(* A tick of the reference exchange (on_binance).                          *)
LEMMA BinanceDoes ==
    ASSUME Ready, NEW t, NEW up, OnBinance(t, up)
    PROVE  WorkerStep \/ Enters(t)
BY TryEnterDoes DEF OnBinance

(* A quote of the market: a position is looked at, a resting quote may be  *)
(* withdrawn (on_poly).                                                    *)
LEMMA PolyDoes ==
    ASSUME Ready, NEW t, NEW at, OnPoly(t, at)
    PROVE  WorkerStep \/ Enters(t)
<1>1. UNCHANGED <<suppressed, halt, cycle>>
  BY DEF OnPoly
<1>2. CASE state.tag = "EnteringMaker"
  <2>1. CheckMakerQuoteCancel(t)
    BY <1>2 DEF OnPoly
  <2>2. CASE Pass
    BY <1>1, <2>2, StateStays, QuietHandler, QuietLists DEF Pass, Ready
  <2>3. CASE CancelMakerQuote
    <3>1. /\ state' = Watching /\ UNCHANGED <<fired, pending>>
          /\ Emit(<<CancelEntryQuote(state.q.order_id), Persist>>)
      BY <2>3 DEF CancelMakerQuote
    <3>2. QuietList(<<CancelEntryQuote(state.q.order_id), Persist>>)
      BY ShortLists, NewActions DEF QuietList
    <3>3. Moves
      BY <1>2, <3>1, EntryGivenUp DEF HasPosition, AwaitsVerdict, PositionTags, ExitTags
    <3>. QED BY <1>1, <3>1, <3>2, <3>3, QuietHandler
  <2>. QED BY <2>1, <2>2, <2>3 DEF CheckMakerQuoteCancel
<1>3. CASE state.tag = "Holding"
  <2>1. MonitorPosition(t, at[state.h.side]) /\ UNCHANGED <<fired, pending>>
    BY <1>3 DEF OnPoly
  <2>. QED BY <1>1, <1>3, <2>1, MonitorDoes
<1>4. CASE state.tag \notin {"EnteringMaker", "Holding"}
  BY <1>1, <1>4, TryEnterDoes DEF OnPoly
<1>. QED BY <1>2, <1>3, <1>4

(* The position is still there.                                            *)
LEMMA HoldAgainDoes ==
    ASSUME Ready, HasPosition, NEW h, IsPosition(h), h.side = state.h.side,
           state' = Holding(h), Emit(<<Persist>>),
           UNCHANGED <<suppressed, halt, fired, pending, cycle>>
    PROVE  WorkerStep
<1>1. HasOpenPosition /\ h.side = Exposure /\ state' = [tag |-> "Holding", h |-> h]
  BY DEF HasOpenPosition, HasPosition, PositionTags, ExitTags, Exposure, Holding
<1>2. Moves
  BY <1>1, PositionHeld DEF PositionTags
<1>. QED BY <1>2, QuietHandler, QuietLists

(* The answer to the resting take-profit.                                  *)
LEMMA LimitSellPlacedDoes ==
    ASSUME Ready, NEW status, NEW id, OnLimitSellPlaced(status, id)
    PROVE  WorkerStep
<1>1. UNCHANGED <<suppressed, fired, pending, cycle>>
  BY DEF OnLimitSellPlaced
<1>2. CASE state.tag = "Holding"
  <2> DEFINE h == state.h
             tp == TpPriceFor(h.token_price)
             closed == [h EXCEPT !.fees = @ + TakerFee(h.shares, tp)]
             rec == Record(closed, "Unwind", SettlePnl(closed, tp))
             resting == IF id = NoOrder THEN h ELSE [h EXCEPT !.exit_arm = Gtc(id)]
             watched == [h EXCEPT !.exit_arm = PriceMonitor(tp)]
  <2>1. HasPosition /\ IsPosition(h)
    BY <1>2 DEF Ready, Shaped, HasPosition, PositionTags
  <2>2. HoldAgain(resting) \/ CloseOut(rec, EnrichOnly(rec)) \/ HoldAgain(watched)
    BY <1>2 DEF OnLimitSellPlaced
  <2>3. IsPosition(resting) /\ resting.side = h.side /\ IsPosition(watched) /\ watched.side = h.side
    BY <2>1 DEF IsPosition, PositionFields
  <2>4. rec.cycle = cycle
    BY DEF Record
  <2> HIDE DEF rec, resting, watched
  <2>. QED BY <1>1, <2>1, <2>2, <2>3, <2>4, HoldAgainDoes, CloseOutDoes DEF HoldAgain
<1>3. CASE state.tag # "Holding"
  BY <1>1, <1>3, StateStays, QuietHandler, QuietLists DEF OnLimitSellPlaced, Ignore, Ready
<1>. QED BY <1>2, <1>3

(* Something was sold.                                                     *)
LEMMA ResidualDoes ==
    ASSUME Ready, HasPosition, NEW sold \in Int, NEW at \in Int, NEW outcome,
           FinalizeOrHoldResidual(state.h, sold, at, outcome),
           UNCHANGED <<suppressed, fired, pending, cycle>>
    PROVE  WorkerStep
<1> DEFINE h == state.h
           n == h.shares - sold
           pnl == h.realized_pnl + sold * (at - h.token_price)
           fees == h.fees + TakerFee(sold, at)
           rest == [h EXCEPT !.shares = n, !.realized_pnl = pnl, !.fees = fees]
           rec == Record(h, outcome, rest.realized_pnl - rest.fees)
<1>1. HoldAgain(rest) \/ CloseOut(rec, EnrichOnly(rec))
  BY DEF FinalizeOrHoldResidual
<1>2. IsPosition(rest) /\ rest.side = h.side
  <2>1. IsPosition(h)
    BY DEF Ready, Shaped
  <2> HIDE DEF h
  <2>2. n \in Int /\ pnl \in Int /\ fees \in Int
    BY <2>1, FeeType DEF IsPosition
  <2> HIDE DEF n, pnl, fees
  <2>. QED BY <2>1, <2>2 DEF IsPosition, PositionFields
<1>3. rec.cycle = cycle
  BY DEF Record
<1> HIDE DEF rec, rest
<1>. QED BY <1>1, <1>2, <1>3, HoldAgainDoes, CloseOutDoes DEF HoldAgain

(* A fill of a sale, whatever ordered it.                                  *)
LEMMA SellFilledDoes ==
    ASSUME Ready, NEW sold \in Int, NEW at \in Int,
           \/ OnUnwindFilled(sold, at)
           \/ OnStopSellFilled(sold, at)
           \/ OnTimeoutSellFilled(sold, at)
    PROVE  WorkerStep
<1>1. UNCHANGED <<suppressed, fired, pending, cycle>>
  BY DEF OnUnwindFilled, OnStopSellFilled, OnTimeoutSellFilled
<1>2. \/ HasPosition /\ \E outcome : FinalizeOrHoldResidual(state.h, sold, at, outcome)
      \/ Ignore
  BY DEF OnUnwindFilled, OnStopSellFilled, OnTimeoutSellFilled, HasPosition, PositionTags, ExitTags
<1>3. CASE Ignore
  BY <1>1, <1>3, StateStays, QuietHandler, QuietLists DEF Ignore, Ready
<1>. QED BY <1>1, <1>2, <1>3, ResidualDoes

(* Nothing was sold.                                                       *)
LEMMA SellFailedDoes ==
    ASSUME Ready, OnUnwindFailed \/ OnStopSellFailed \/ OnTimeoutSellFailed
    PROVE  WorkerStep
<1> DEFINE monitored == [state.h EXCEPT
                           !.exit_arm = PriceMonitor(TpPriceFor(state.h.token_price))]
<1>1. UNCHANGED <<suppressed, halt, fired, pending, cycle>> /\ Emit(<<Persist>>)
  BY DEF OnUnwindFailed, OnStopSellFailed, OnTimeoutSellFailed
<1>2. \/ HasPosition /\ (state' = Holding(state.h) \/ state' = Holding(monitored))
      \/ UNCHANGED state
  BY DEF OnUnwindFailed, OnStopSellFailed, OnTimeoutSellFailed, HasPosition, PositionTags, ExitTags
<1>3. HasPosition =>
          IsPosition(state.h) /\ IsPosition(monitored) /\ monitored.side = state.h.side
  BY DEF Ready, Shaped, IsPosition, PositionFields
<1>4. CASE UNCHANGED state
  BY <1>1, <1>4, StateStays, QuietHandler, QuietLists DEF Ready
<1> HIDE DEF monitored
<1>. QED BY <1>1, <1>2, <1>3, <1>4, HoldAgainDoes

(* A tick that enters orders at once, and nothing else.                    *)
Orders(a) ==
    /\ a.type \in {"PlaceBuy", "PlaceLimitBuy"}
    /\ a.side = Exposure' /\ a.side \in Sides
    /\ \/ a.type = "PlaceBuy" /\ state' = Entering
       \/ /\ a.type = "PlaceLimitBuy" /\ a.shares = MinGtc
          /\ state'.tag = "EnteringMaker" /\ a.price = state'.q.quote_price
    /\ acts' = <<a, Persist>> \o Rest
    /\ Listed(acts') = {a, Persist} \cup Listed(Rest)
OrderingStep(t) ==
    /\ Ready' /\ CanEnter(t) /\ fired' = TRUE
    /\ UNCHANGED <<suppressed, halt, cycle>>
    /\ \/ state' = Entering
       \/ state'.tag = "EnteringMaker" /\ UNCHANGED pending
    /\ \E a : Orders(a)

(* An entry puts one order on the list, for the side the worker is exposed *)
(* to from then on.                                                        *)
LEMMA EntersDoes ==
    ASSUME Ready, NEW t, Enters(t)
    PROVE  OrderingStep(t)
<1>1. PICK side \in Sides, at \in EntryPrices : Enter(side, at)
  BY DEF Enters
<1>2. CASE MakerEntry
  <2> DEFINE a == PlaceLimitBuy(side, at)
             q == [side |-> side, quote_price |-> at, order_id |-> NoOrder]
  <2>1. state' = EnteringMaker(q) /\ Emit(<<a, Persist>>) /\ fired' = TRUE /\ UNCHANGED pending
    BY <1>1, <1>2 DEF Enter
  <2>2. IsList(acts') /\ Listed(acts') = {a, Persist} \cup Listed(Rest)
    BY <2>1, EmitList, ShortLists DEF Ready
  <2>3. /\ state'.tag = "EnteringMaker" /\ state'.q = q /\ IsQuote(q)
        /\ ~HasPosition' /\ Exposure' = side
    BY <2>1, PricesAssumption DEF EnteringMaker, IsQuote, HasPosition, PositionTags, ExitTags, Exposure
  <2>4. a.type = "PlaceLimitBuy" /\ a.side = side /\ a.shares = MinGtc /\ a.price = at
    BY DEF PlaceLimitBuy
  <2>5. Formed(acts')
    BY <2>2, <2>4, RestList, NewActions, SharesAssumption, PricesAssumption DEF Ready, Formed
  <2>6. Ready'
    BY <2>1, <2>2, <2>3, <2>5 DEF Enters, Ready, Shaped
  <2> HIDE DEF a
  <2>7. Orders(a)
    BY <2>1, <2>2, <2>3, <2>4 DEF Emit, Orders
  <2>8. CanEnter(t) /\ UNCHANGED <<suppressed, halt, cycle>>
    BY DEF Enters
  <2>. QED BY <2>1, <2>3, <2>6, <2>7, <2>8 DEF OrderingStep
<1>3. CASE ~MakerEntry
  <2> DEFINE a == PlaceBuy(side, at)
  <2>1. state' = Entering /\ Emit(<<a, Persist>>) /\ fired' = TRUE /\ pending' = side
    BY <1>1, <1>3 DEF Enter
  <2>2. IsList(acts') /\ Listed(acts') = {a, Persist} \cup Listed(Rest)
    BY <2>1, EmitList, ShortLists DEF Ready
  <2>3. ~HasPosition' /\ Exposure' = side
    BY <2>1 DEF HasPosition, PositionTags, ExitTags, Exposure
  <2>4. a.type = "PlaceBuy" /\ a.side = side
    BY DEF PlaceBuy
  <2>5. Formed(acts')
    BY <2>2, <2>4, RestList, NewActions, SharesAssumption, PricesAssumption DEF Ready, Formed
  <2>6. Ready'
    BY <2>1, <2>2, <2>3, <2>5 DEF Enters, Ready, Shaped
  <2> HIDE DEF a
  <2>7. Orders(a)
    BY <2>1, <2>2, <2>3, <2>4 DEF Emit, Orders
  <2>8. CanEnter(t) /\ UNCHANGED <<suppressed, halt, cycle>>
    BY DEF Enters
  <2>. QED BY <2>1, <2>3, <2>6, <2>7, <2>8 DEF OrderingStep
<1>. QED BY <1>2, <1>3

(* A new window: whatever does not wait for a verdict starts watching.     *)
OpenStep(c) ==
    /\ Ready' /\ Tells
    /\ cycle' = c /\ fired' = FALSE /\ UNCHANGED pending
    /\ state' = IF AwaitsVerdict THEN state ELSE Watching
    /\ Buys(acts') = Buys(Rest) /\ Sales(acts') = Sales(Rest) /\ Logs(acts') = Logs(Rest)

(* A new window (on_cycle_open).                                           *)
LEMMA CycleOpenDoes ==
    ASSUME Ready, NEW c \in Int, OnCycleOpen(c)
    PROVE  OpenStep(c)
<1> DEFINE clears == ResetClears(halt, SessionOf(c))
           as == <<Persist>> \o If(clears, Notice("HaltReset"))
<1>1. /\ cycle' = c /\ fired' = FALSE /\ UNCHANGED <<suppressed, pending>>
      /\ state' = IF AwaitsVerdict THEN state ELSE Watching
      /\ halt' = ResetIfNewSession(halt, SessionOf(c))
      /\ Emit(as)
  BY DEF OnCycleOpen
<1>2. clears \in BOOLEAN
  BY DEF ResetClears
<1>3. /\ QuietList(as)
      /\ Listed(as) = {Persist} \cup (IF clears THEN {Notice("HaltReset")} ELSE {})
  <2>1. Notice("HaltReset").type = "HaltReset"
    BY NewActions
  <2>. QED BY <1>2, <2>1, QuietLists, ShortLists, IfList, ListConcat
<1> HIDE DEF as
<1>4. /\ IsList(acts') /\ Formed(acts') /\ Listed(acts') = Listed(as) \cup Listed(Rest)
      /\ Buys(acts') = Buys(Rest) /\ Sales(acts') = Sales(Rest) /\ Logs(acts') = Logs(Rest)
  BY <1>1, <1>3, QuietActions DEF Ready
<1>5. SessionOf(c) \in Int
  BY SessionAssumption DEF SessionOf
<1>6. halt' \in Trackers
  BY <1>1, <1>5 DEF ResetIfNewSession, Ready, Trackers
<1>7. Shaped'
  BY <1>1 DEF Ready, Shaped, AwaitsVerdict, HasPosition, PositionTags, ExitTags
<1>8. Tells
  <2>1. CASE clears
    BY <1>3, <1>4, <2>1, NewActions DEF Tells, LoggedNotices
  <2>2. CASE ~clears
    <3>1. IsHalted(halt) <=> IsHalted(halt')
      BY <1>1, <1>5, <2>2, HaltMaxAssumption
      DEF ResetClears, ResetIfNewSession, IsHalted, Ready, Trackers
    <3>. QED BY <1>1, <1>3, <1>4, <3>1 DEF Tells, Halted
  <2>. QED BY <2>1, <2>2
<1>. QED BY <1>1, <1>4, <1>6, <1>7, <1>8 DEF OpenStep, Ready

(* A verdict, or the lack of one: whoever waits for it starts watching.    *)
VerdictStep ==
    /\ Ready' /\ Tells
    /\ UNCHANGED <<cycle, fired, pending>>
    /\ state' = IF AwaitsVerdict THEN Watching ELSE state
    /\ Buys(acts') = Buys(Rest) /\ Sales(acts') = Sales(Rest) /\ Logs(acts') = Logs(Rest)

(* A verdict leaves the worker able to go on.                              *)
LEMMA VerdictReady ==
    ASSUME Ready, NEW as, QuietList(as), Emit(as), halt' \in Trackers,
           state' = IF AwaitsVerdict THEN Watching ELSE state
    PROVE  /\ Ready' /\ Listed(acts') = Listed(as) \cup Listed(Rest)
           /\ Buys(acts') = Buys(Rest) /\ Sales(acts') = Sales(Rest) /\ Logs(acts') = Logs(Rest)
<1>1. Shaped'
  BY DEF Ready, Shaped, AwaitsVerdict, HasPosition, PositionTags, ExitTags
<1>. QED BY <1>1, QuietActions DEF Ready

(* A correction tells of what it does to the halt.                         *)
LEMMA OverruleDoes ==
    ASSUME Ready, NEW rec, NEW is, Overrule(rec, is), AwaitsVerdict, state' = Watching,
           UNCHANGED <<suppressed, fired, pending, cycle>>
    PROVE  VerdictStep
<1> DEFINE correction == Correction(halt, Counts(rec), Counts(is))
           engaged == If(correction = "Engaged", Notice("HaltEngaged"))
           cleared == If(correction = "Cleared", Notice("HaltClearedByCorrection"))
           begin == <<LogTradeCorrection(rec, is), Persist>>
           as == begin \o engaged \o cleared
<1>1. Emit(as) /\ halt' = CorrectTrade(halt, Counts(rec), Counts(is))
  BY DEF Overrule
<1>2. (correction = "Engaged") \in BOOLEAN /\ (correction = "Cleared") \in BOOLEAN
  OBVIOUS
<1>3. /\ IsList(begin) /\ IsList(engaged) /\ IsList(cleared) /\ IsList(begin \o engaged)
      /\ Listed(begin) = {LogTradeCorrection(rec, is), Persist}
      /\ Listed(engaged) = IF correction = "Engaged" THEN {Notice("HaltEngaged")} ELSE {}
      /\ Listed(cleared) = IF correction = "Cleared" THEN {Notice("HaltClearedByCorrection")} ELSE {}
  BY <1>2, ShortLists, IfList, ListConcat
<1>4. /\ IsList(as)
      /\ Listed(as) = Listed(begin) \cup Listed(engaged) \cup Listed(cleared)
  BY <1>3, ListConcat
<1>5. QuietList(as)
  BY <1>3, <1>4, NewActions DEF QuietList
<1>6. halt' \in Trackers
  BY <1>1, CorrectTradeType, CountsType DEF Ready
<1> HIDE DEF as
<1>7. /\ Ready' /\ Listed(acts') = Listed(as) \cup Listed(Rest)
      /\ Buys(acts') = Buys(Rest) /\ Sales(acts') = Sales(Rest) /\ Logs(acts') = Logs(Rest)
  BY <1>1, <1>5, <1>6, VerdictReady
<1>8. Tells
  <2>1. CASE correction = "Engaged"
    BY <1>3, <1>4, <1>7, <2>1, NewActions DEF Tells, LoggedNotices
  <2>2. CASE correction = "Cleared"
    BY <1>3, <1>4, <1>7, <2>2, NewActions DEF Tells, LoggedNotices
  <2>3. CASE correction \notin {"Engaged", "Cleared"}
    <3>1. IsHalted(halt) <=> IsHalted(halt')
      BY <1>1, <2>3 DEF Correction
    <3>. QED BY <1>3, <1>4, <1>7, <3>1 DEF Tells, Halted
  <2>. QED BY <2>1, <2>2, <2>3
<1>. QED BY <1>7, <1>8 DEF VerdictStep

(* A verdict (on_api_result).                                              *)
LEMMA ApiResultDoes ==
    ASSUME Ready, NEW won \in BOOLEAN, OnApiResult(won)
    PROVE  VerdictStep
<1>1. UNCHANGED <<suppressed, fired, pending, cycle>>
  BY DEF OnApiResult
<1>2. CASE AwaitsVerdict /\ state.tag = "Confirming" /\ won # (state.rec.outcome = "Win")
  <2>1. state' = Watching /\ Overrule(state.rec, Corrected(state.rec, won))
    BY <1>2 DEF OnApiResult
  <2>. QED BY <1>1, <1>2, <2>1, OverruleDoes
<1>3. CASE AwaitsVerdict /\ ~(state.tag = "Confirming" /\ won # (state.rec.outcome = "Win"))
  <2> DEFINE as == If(state.rec.outcome = "StopLoss", Notice("StopLossVerdict")) \o <<Persist>>
  <2>1. state' = Watching /\ Emit(as) /\ UNCHANGED halt
    BY <1>3 DEF OnApiResult
  <2>2. QuietList(as)
    <3>1. (state.rec.outcome = "StopLoss") \in BOOLEAN
      OBVIOUS
    <3>. QED BY <3>1, QuietLists, NewActions
  <2> HIDE DEF as
  <2>3. /\ Ready' /\ Listed(acts') = Listed(as) \cup Listed(Rest)
        /\ Buys(acts') = Buys(Rest) /\ Sales(acts') = Sales(Rest) /\ Logs(acts') = Logs(Rest)
    BY <1>3, <2>1, <2>2, VerdictReady DEF Ready
  <2>. QED BY <1>1, <1>3, <2>1, <2>3 DEF VerdictStep, Tells, Halted
<1>4. CASE ~AwaitsVerdict
  <2>1. Emit(<<>>) /\ UNCHANGED <<state, halt>>
    BY <1>4 DEF OnApiResult, Ignore
  <2>2. /\ Ready' /\ Listed(acts') = Listed(<<>>) \cup Listed(Rest)
        /\ Buys(acts') = Buys(Rest) /\ Sales(acts') = Sales(Rest) /\ Logs(acts') = Logs(Rest)
    BY <1>4, <2>1, QuietLists, VerdictReady DEF Ready
  <2>. QED BY <1>1, <1>4, <2>1, <2>2 DEF VerdictStep, Tells, Halted
<1>. QED BY <1>2, <1>3, <1>4

(* No verdict (on_api_result_timeout).                                     *)
LEMMA ApiTimeoutDoes ==
    ASSUME Ready, NEW increased \in BOOLEAN, OnApiResultTimeout(increased)
    PROVE  VerdictStep
<1>1. UNCHANGED <<halt, fired, pending, cycle>>
  BY DEF OnApiResultTimeout
<1>2. /\ state' = IF AwaitsVerdict THEN Watching ELSE state
      /\ \/ Emit(<<Notice("GammaHaltEngaged"), Persist>>)
         \/ /\ UNCHANGED suppressed
            /\ \/ Emit(<<Notice("GammaUnresolvedContinued"), Persist>>)
               \/ Emit(<<Persist>>)
               \/ Emit(<<>>)
  BY DEF OnApiResultTimeout
<1>3. CASE Emit(<<Notice("GammaHaltEngaged"), Persist>>)
  <2> DEFINE as == <<Notice("GammaHaltEngaged"), Persist>>
  <2>1. QuietList(as) /\ Listed(as) = {Notice("GammaHaltEngaged"), Persist}
    BY ShortLists, NewActions DEF QuietList
  <2>2. /\ Ready' /\ Listed(acts') = Listed(as) \cup Listed(Rest)
        /\ Buys(acts') = Buys(Rest) /\ Sales(acts') = Sales(Rest) /\ Logs(acts') = Logs(Rest)
    BY <1>1, <1>2, <1>3, <2>1, VerdictReady DEF Ready
  <2>3. Tells
    BY <2>1, <2>2, NewActions DEF Tells, LoggedNotices
  <2>. QED BY <1>1, <1>2, <2>2, <2>3 DEF VerdictStep
<1>4. ASSUME NEW as, QuietList(as), Emit(as), UNCHANGED suppressed
      PROVE  VerdictStep
  <2>1. /\ Ready' /\ Listed(acts') = Listed(as) \cup Listed(Rest)
        /\ Buys(acts') = Buys(Rest) /\ Sales(acts') = Sales(Rest) /\ Logs(acts') = Logs(Rest)
    BY <1>1, <1>2, <1>4, VerdictReady DEF Ready
  <2>. QED BY <1>1, <1>2, <1>4, <2>1 DEF VerdictStep, Tells, Halted
<1>5. QuietList(<<Notice("GammaUnresolvedContinued"), Persist>>)
  BY ShortLists, NewActions DEF QuietList
<1>. QED BY <1>2, <1>3, <1>4, <1>5, QuietLists

(* A command, or the balance halt, leaves the trade at hand alone.         *)
CommandStep ==
    Ready' /\ UNCHANGED <<state, fired, pending, cycle, acts>>

(* A command, or a drawdown, touches the halts only.                       *)
LEMMA CommandDoes ==
    ASSUME Ready, UNCHANGED acts,
           (\E event \in ControlEvents : ControlEffect(event)) \/ BalanceEffect
    PROVE  CommandStep
<1>1. UNCHANGED <<state, fired, pending, cycle>>
  BY DEF ControlEffect, BalanceEffect
<1>2. halt' \in Trackers
  <2>1. halt' \in {halt, ResetLosses(halt)}
    BY DEF ControlEffect, BalanceEffect
  <2>. QED BY <2>1 DEF ResetLosses, Ready, Trackers
<1>3. Moves
  BY <1>1, StateStays DEF Ready
<1>. QED BY <1>1, <1>2, <1>3 DEF CommandStep, Ready, Moves

-----------------------------------------------------------------------------
(* The steps of the driver.                                                *)

(* A tick reaches a slot whose market is open.                             *)
LEMMA TickDoes ==
    ASSUME Ready, BinanceArm \/ PolyStep \/ TickerReevaluate
    PROVE  /\ acts = <<>>
           /\ WorkerStep \/ (open /\ OrderingStep(now))
<1>1. acts = <<>> /\ Rest = <<>>
  BY DEF BinanceArm, PolyStep, TickerReevaluate, InLoop, Rest
<1>2. CASE UNCHANGED vars
  BY <1>1, <1>2, NothingDone DEF vars
<1>3. CASE BinanceArm /\ ~UNCHANGED vars
  <2>1. open /\ \E up \in BOOLEAN : OnBinance(now, up)
    BY <1>3 DEF BinanceArm
  <2>. QED BY <1>1, <2>1, BinanceDoes, EntersDoes
<1>4. CASE PolyStep /\ ~UNCHANGED vars
  <2>1. open /\ OnPoly(now, price)
    BY <1>4 DEF PolyStep
  <2>. QED BY <1>1, <2>1, PolyDoes, EntersDoes
<1>5. CASE TickerReevaluate /\ ~UNCHANGED vars
  <2>1. state.tag = "Holding" /\ OnPoly(now, price)
    BY <1>5 DEF TickerReevaluate, ShouldReevaluate
  <2>2. ~OrderingStep(now)
    BY <2>1 DEF OrderingStep, CanEnter
  <2>. QED BY <1>1, <2>1, <2>2, PolyDoes, EntersDoes
<1>. QED BY <1>2, <1>3, <1>4, <1>5

(* An order is answered at once, or later.                                 *)
LEMMA EntryOrderDoes ==
    ASSUME Ready, NEW acc, NEW n \in Int, NEW cost \in Int, FinishEntryOrder(acc, n, cost)
    PROVE  WorkerStep
BY OrderFilledDoes, OrderRejectedDoes DEF FinishEntryOrder

(* The answer to a close, of whichever reason.                             *)
LEMMA CloseOrderDoes ==
    ASSUME Ready, NEW c, NEW sold \in Int, NEW at \in Int, FinishCloseOrder(c, sold, at),
           c.reason \in Reasons
    PROVE  WorkerStep
<1>1. CloseFilled(c.reason, sold, at) =>
          OnUnwindFilled(sold, at) \/ OnStopSellFilled(sold, at) \/ OnTimeoutSellFilled(sold, at)
  BY DEF CloseFilled, Reasons
<1>2. CloseFailed(c.reason) => OnUnwindFailed \/ OnStopSellFailed \/ OnTimeoutSellFailed
  BY DEF CloseFailed, Reasons
<1>. QED BY <1>1, <1>2, SellFilledDoes, SellFailedDoes DEF FinishCloseOrder

(* Taking an action off the list does nothing else to the worker.          *)
LEMMA TakeDoes ==
    ASSUME Ready, Take
    PROVE  WorkerStep /\ UNCHANGED <<state, suppressed, halt, fired, pending, cycle>>
<1>1. acts' = Rest /\ UNCHANGED <<state, suppressed, halt, fired, pending, cycle>>
  BY DEF Take, Rest
<1>. QED BY <1>1, NothingDone

(* The exchange is asked, and answers at once or later.                    *)
OrderActions == {"PlaceBuy", "PlaceLimitBuy", "PlaceLimitSell", "ClosePosition",
                 "CancelLimitSell", "CancelEntryQuote"}

(* Executing an order is a step of the worker.                             *)
LEMMA OrderDoes ==
    ASSUME Ready,
           DoPlaceBuy \/ DoPlaceLimitBuy \/ DoPlaceLimitSell \/ DoClosePosition \/ DoCancel
    PROVE  WorkerStep /\ acts # <<>> /\ Head(acts).type \in OrderActions
<1>1. CASE DoPlaceBuy
  BY <1>1, TakeDoes, EntryOrderDoes, SharesAssumption, PricesAssumption DEF DoPlaceBuy, Executes, OrderActions
<1>2. CASE DoPlaceLimitBuy
  BY <1>2, LimitBuyPlacedDoes DEF DoPlaceLimitBuy, Executes, OrderActions
<1>3. CASE DoPlaceLimitSell
  BY <1>3, TakeDoes, LimitSellPlacedDoes DEF DoPlaceLimitSell, Executes, OrderActions
<1>4. CASE DoClosePosition
  <2>1. acts # <<>> /\ Head(acts).type = "ClosePosition"
    BY <1>4 DEF DoClosePosition, Executes
  <2>2. Head(acts).reason \in Reasons
    BY <2>1, RestList DEF Ready, Formed
  <2>. QED BY <1>4, <2>1, <2>2, TakeDoes, CloseOrderDoes, SharesAssumption, PricesAssumption
           DEF DoClosePosition, OrderActions
<1>5. CASE DoCancel
  BY <1>5, TakeDoes DEF DoCancel, OrderActions
<1>. QED BY <1>1, <1>2, <1>3, <1>4, <1>5

(* What the driver keeps besides.                                          *)
Driven ==
    /\ Ready
    /\ \A f \in inflight : f.kind # "Entry" => f.shares \in Int /\ f.reason \in Reasons
    /\ mode = "Real" => inflight = {}
    /\ \A o \in book : o.shares \in Int /\ o.price \in Int
    /\ disk = [suppressed |-> disk.suppressed, halt |-> disk.halt] /\ disk.halt \in Trackers
    /\ restarts \in Nat
    /\ now \in Nat /\ slotVal \in Nat \cup {NoCycle}

(* Answers that come later.                                                *)
LEMMA PaperFillDoes ==
    ASSUME Driven, PaperFillArm
    PROVE  WorkerStep
<1>1. PICK f \in inflight :
         IF f.kind = "Entry"
         THEN \E cost \in EntryPrices : FinishEntryOrder(account, TradeSize \div cost, cost)
         ELSE \/ \E at \in Prices : at >= f.limit /\ FinishCloseOrder(f, f.shares, at)
              \/ FinishCloseOrder(f, 0, 0)
  BY DEF PaperFillArm
<1>2. ASSUME NEW cost \in EntryPrices
      PROVE  cost \in Int /\ TradeSize \div cost \in Int
  <2>1. cost \in Nat \ {0} /\ TradeSize \in Nat
    BY PricesAssumption
  <2>. QED BY <2>1
<1>3. CASE f.kind = "Entry"
  BY <1>1, <1>2, <1>3, EntryOrderDoes DEF Driven
<1>4. CASE f.kind # "Entry"
  <2>1. Ready /\ f.reason \in Reasons /\ f.shares \in Int /\ Prices \subseteq Int
    BY <1>4, PricesAssumption DEF Driven
  <2>2. PICK sold \in {f.shares, 0}, at \in Prices \cup {0} : FinishCloseOrder(f, sold, at)
    BY <1>1, <1>4
  <2>. QED BY <2>1, <2>2, CloseOrderDoes
<1>. QED BY <1>3, <1>4

(* A resting paper order fills.                                            *)
LEMMA RestingFillDoes ==
    ASSUME Driven, PaperRestingFill
    PROVE  WorkerStep
<1>1. CASE UNCHANGED vars
  <2>1. acts = <<>> /\ Rest = <<>>
    BY DEF PaperRestingFill, Rest
  <2>. QED BY <1>1, <2>1, NothingDone DEF vars, Driven
<1>2. CASE ~UNCHANGED vars
  BY <1>2, QuoteFilledDoes, SellFilledDoes DEF PaperRestingFill, Driven
<1>. QED BY <1>1, <1>2

(* A new window is noticed.                                                *)
LEMMA BoundaryDoes ==
    ASSUME Ready, TickerBoundary
    PROVE  WorkerStep
<1>1. CASE UNCHANGED vars
  <2>1. acts = <<>> /\ Rest = <<>>
    BY DEF TickerBoundary, Rest
  <2>. QED BY <1>1, <2>1, NothingDone DEF vars
<1>2. CASE ~UNCHANGED vars
  BY <1>2, CycleCloseDoes DEF TickerBoundary
<1>. QED BY <1>1, <1>2

(* The steps of the driver, by what they do to the worker and its files.   *)
FilesKept == UNCHANGED <<disk, clog, watchers, restarts>>

IdleKind    == UNCHANGED vars /\ FilesKept
WorkerKind  == /\ WorkerStep /\ FilesKept
               /\ acts # <<>> => Head(acts).type \in OrderActions
EntryKind   == /\ acts = <<>> /\ open /\ arm # "opening" /\ OrderingStep(now) /\ FilesKept
               /\ arm' # "opening"
               /\ UNCHANGED <<now, slotVal, open, ids, token, inflight, book, account, mode>>
OpenKind    == TickerOpen /\ acts = <<>> /\ arm = "opening" /\ OpenStep(slotVal) /\ FilesKept
VerdictKind == ApiResultArm /\ VerdictStep
CommandKind == acts = <<>> /\ CommandStep /\ SaveAndLog /\ UNCHANGED <<watchers, restarts>>
FileKind    == WorkerStep /\ (DoPersist \/ DoLogTrade \/ DoNotify)

(* Every step of the driver is of one of these kinds.                      *)
LEMMA StepKinds ==
    ASSUME Driven, [DriverNext]_allVars
    PROVE  \/ IdleKind \/ WorkerKind \/ EntryKind \/ OpenKind \/ VerdictKind \/ CommandKind
           \/ FileKind \/ Restart
<1>1. CASE Advance \/ PolyArm \/ ExchangeFill \/ UNCHANGED allVars
  BY <1>1 DEF Advance, PolyArm, ExchangeFill, allVars, driverVars, IdleKind, FilesKept
<1>2. CASE BinanceArm \/ PolyStep \/ TickerReevaluate
  <2>1. /\ FilesKept /\ arm # "opening" /\ arm' # "opening"
        /\ UNCHANGED <<now, slotVal, open, ids, token, inflight, book, account, mode>>
    BY <1>2 DEF BinanceArm, PolyStep, TickerReevaluate, FilesKept, InLoop
  <2>. QED BY <1>2, <2>1, TickDoes DEF Driven, WorkerKind, EntryKind
<1>3. CASE PaperRestingFill \/ TickerBoundary \/ PaperFillArm
  <2>1. FilesKept /\ acts = <<>>
    BY <1>3 DEF PaperRestingFill, TickerBoundary, PaperFillArm, FilesKept, InLoop
  <2>. QED BY <1>3, <2>1, RestingFillDoes, BoundaryDoes, PaperFillDoes DEF Driven, WorkerKind
<1>4. CASE TickerOpen
  <2>1. FilesKept /\ acts = <<>> /\ arm = "opening" /\ (UNCHANGED vars \/ OnCycleOpen(slotVal))
    BY <1>4 DEF TickerOpen, FilesKept
  <2>2. slotVal \in Int
    BY DEF Driven
  <2>. QED BY <1>4, <2>1, <2>2, CycleOpenDoes DEF Driven, IdleKind, OpenKind
<1>5. CASE Execute
  <2>1. CASE DoPersist \/ DoLogTrade \/ DoNotify
    <3>1. Take
      BY <2>1 DEF DoPersist, DoLogTrade, DoNotify
    <3>. QED BY <2>1, <3>1, TakeDoes DEF Driven, FileKind
  <2>2. CASE DoPlaceBuy \/ DoPlaceLimitBuy \/ DoPlaceLimitSell \/ DoClosePosition \/ DoCancel
    <3>1. FilesKept
      BY <2>2 DEF DoPlaceBuy, DoPlaceLimitBuy, DoPlaceLimitSell, DoClosePosition, DoCancel, FilesKept
    <3>. QED BY <2>2, <3>1, OrderDoes DEF Driven, WorkerKind
  <2>. QED BY <1>5, <2>1, <2>2 DEF Execute
<1>6. CASE ApiResultArm
  BY <1>6, ApiResultDoes, ApiTimeoutDoes DEF ApiResultArm, Driven, VerdictKind
<1>7. CASE ApplyControl \/ ApplyBalanceHalt
  <2>1. /\ acts = <<>> /\ UNCHANGED <<acts, watchers, restarts>> /\ SaveAndLog
        /\ (\E event \in ControlEvents : ControlEffect(event)) \/ BalanceEffect
    BY <1>7 DEF ApplyControl, ApplyBalanceHalt, InLoop
  <2>. QED BY <2>1, CommandDoes DEF Driven, CommandKind
<1>. QED BY <1>1, <1>2, <1>3, <1>4, <1>5, <1>6, <1>7 DEF DriverNext

-----------------------------------------------------------------------------
(* What every step of the driver leaves in order.                          *)

LEMMA InitDriven == DriverInit => Driven
<1> SUFFICES ASSUME DriverInit PROVE Driven
  OBVIOUS
<1>1. acts = <<>> /\ state = Watching /\ halt = NewTracker /\ disk = EmptyDisk
  BY DEF DriverInit, Init
<1>2. IsList(acts) /\ Formed(acts)
  BY <1>1, ShortLists DEF Formed
<1>3. Shaped
  BY <1>1 DEF Shaped, HasPosition, PositionTags, ExitTags
<1>4. NewTracker \in Trackers /\ EmptyDisk = [suppressed |-> FALSE, halt |-> NewTracker]
  BY DEF NewTracker, Trackers, EmptyDisk
<1>5. now \in Nat /\ slotVal = NoCycle /\ inflight = {} /\ book = {} /\ restarts = 0
  BY TimeAssumption DEF DriverInit
<1>. QED BY <1>1, <1>2, <1>3, <1>4, <1>5 DEF Driven, Ready

(* What a restart leaves of a worker.                                      *)
LEMMA RestartDoes ==
    ASSUME Driven, Restart
    PROVE  /\ Driven' /\ restarts' > restarts
           /\ state' = Watching /\ acts' = <<>> /\ watchers' = {} /\ inflight' = {}
           /\ disk' = Snapshot' /\ clog' = Halted'
<1>1. PICK file \in {disk} \cup (IF Executes("Persist") THEN {EmptyDisk} ELSE {}) :
          /\ disk' = file
          /\ suppressed' = file.suppressed /\ halt' = file.halt
          /\ clog' = (file.suppressed \/ IsHalted(file.halt))
  BY DEF Restart
<1>2. file = [suppressed |-> file.suppressed, halt |-> file.halt] /\ file.halt \in Trackers
  BY DEF Driven, EmptyDisk, NewTracker, Trackers
<1>3. /\ state' = Watching /\ acts' = <<>> /\ watchers' = {} /\ inflight' = {} /\ slotVal' = NoCycle
      /\ restarts' = restarts + 1 /\ now' = now + RestartTime /\ book' \in {{}, book}
  BY DEF Restart
<1>4. Shaped' /\ IsList(acts') /\ Formed(acts')
  BY <1>3, ShortLists DEF Shaped, HasPosition, PositionTags, ExitTags, Formed
<1>5. Driven'
  BY <1>1, <1>2, <1>3, <1>4, LoopAssumption DEF Driven, Ready
<1>6. disk' = Snapshot'
  BY <1>1, <1>2 DEF Snapshot
<1>7. clog' = Halted'
  BY <1>1, Zenon DEF Halted
<1>. QED BY <1>3, <1>5, <1>6, <1>7 DEF Driven

(* The window a time is in begins before it and ends after it.             *)
LEMMA WindowBounds ==
    ASSUME NEW t \in Nat
    PROVE  Window(t) \in Nat /\ Window(t) * CycleLen <= t /\ t < (Window(t) + 1) * CycleLen
BY TimeAssumption DEF Window

(* What the handlers rely on is kept by every step.                        *)
LEMMA NextDriven ==
    ASSUME Driven, [DriverNext]_allVars
    PROVE  Driven'
<1>1. Ready'
  <2>1. CASE IdleKind
    <3>1. UNCHANGED <<state, pending, halt, acts>>
      BY <2>1 DEF IdleKind, vars
    <3>2. Moves
      BY <3>1, StateStays DEF Driven, Ready
    <3>. QED BY <3>1, <3>2 DEF Driven, Ready, Moves
  <2>2. CASE ~IdleKind
    BY <2>2, StepKinds, RestartDoes
    DEF WorkerKind, EntryKind, OpenKind, VerdictKind, CommandKind, FileKind,
        WorkerStep, OrderingStep, OpenStep, VerdictStep, CommandStep, Driven
  <2>. QED BY <2>1, <2>2
<1>2. CASE Restart
  BY <1>2, RestartDoes
<1>3. CASE ~Restart
  <2>1. /\ \A f \in inflight' : f.kind # "Entry" => f.shares \in Int /\ f.reason \in Reasons
        /\ mode = "Real" => inflight' = {}
    <3>1. CASE DoPlaceBuy
      <4>1. /\ inflight' \subseteq inflight \cup {[kind |-> "Entry", token |-> token']}
            /\ mode = "Real" => UNCHANGED inflight
        BY <3>1 DEF DoPlaceBuy
      <4>. QED BY <4>1 DEF Driven
    <3>2. CASE DoClosePosition
      <4>1. Head(acts).reason \in Reasons /\ Head(acts).shares \in Int
        BY <3>2, RestList DEF DoClosePosition, Executes, Driven, Ready, Formed
      <4>2. /\ \A f \in inflight' \ inflight :
                  f.reason = Head(acts).reason /\ f.shares = Head(acts).shares
            /\ mode = "Real" => UNCHANGED inflight
        BY <3>2 DEF DoClosePosition
      <4>. QED BY <4>1, <4>2 DEF Driven
    <3>3. CASE ~DoPlaceBuy /\ ~DoClosePosition
      <4>1. inflight' \subseteq inflight
        BY <1>3, <3>3
        DEF DriverNext, Advance, BinanceArm, PolyArm, PaperRestingFill, PolyStep, TickerReevaluate,
            TickerBoundary, TickerOpen, Execute, DoPersist, DoLogTrade, DoNotify, DoPlaceLimitBuy,
            DoPlaceLimitSell, DoCancel, PaperFillArm, ApiResultArm, ApplyControl, ApplyBalanceHalt,
            ExchangeFill, allVars, driverVars
      <4>. QED BY <4>1 DEF Driven
    <3>. QED BY <3>1, <3>2, <3>3
  <2>2. /\ disk' = [suppressed |-> disk'.suppressed, halt |-> disk'.halt]
        /\ disk'.halt \in Trackers
    <3>1. CASE DoPersist \/ CommandKind
      <4>1. disk' \in {Snapshot, [suppressed |-> suppressed', halt |-> halt']}
        BY <3>1 DEF DoPersist, CommandKind, SaveAndLog
      <4>. QED BY <1>1, <4>1 DEF Snapshot, Driven, Ready
    <3>2. CASE ~DoPersist /\ ~CommandKind
      <4>1. UNCHANGED disk
        BY <1>3, <3>2, StepKinds
        DEF IdleKind, WorkerKind, EntryKind, OpenKind, VerdictKind, FileKind, FilesKept,
            ApiResultArm, DoLogTrade, DoNotify
      <4>. QED BY <4>1 DEF Driven
    <3>. QED BY <3>1, <3>2
  <2>3. /\ UNCHANGED <<restarts, mode>>
        /\ now' \in {now, now + 1} /\ slotVal' \in {slotVal, Window(now)}
    BY <1>3
    DEF DriverNext, Advance, BinanceArm, PolyArm, PaperRestingFill, PolyStep, TickerReevaluate,
        TickerBoundary, TickerOpen, Execute, DoPersist, DoLogTrade, DoNotify, DoPlaceBuy,
        DoPlaceLimitBuy, DoPlaceLimitSell, DoClosePosition, DoCancel, PaperFillArm, ApiResultArm,
        ApplyControl, ApplyBalanceHalt, ExchangeFill, allVars, driverVars
  <2>4. \A o \in book' : o.shares \in Int /\ o.price \in Int
    <3>1. CASE DoPlaceLimitBuy \/ DoPlaceLimitSell
      <4>1. Head(acts).shares \in Int /\ Head(acts).price \in Int
        BY <3>1, RestList DEF DoPlaceLimitBuy, DoPlaceLimitSell, Executes, Driven, Ready, Formed
      <4>2. \A o \in book' \ book :
              o.shares = Head(acts).shares /\ o.price = Head(acts).price
        BY <3>1 DEF DoPlaceLimitBuy, DoPlaceLimitSell, Order
      <4>. QED BY <4>1, <4>2 DEF Driven
    <3>2. CASE ~DoPlaceLimitBuy /\ ~DoPlaceLimitSell
      <4>1. book' \subseteq book
        BY <1>3, <3>2
        DEF DriverNext, Advance, BinanceArm, PolyArm, PaperRestingFill, PolyStep, TickerReevaluate,
            TickerBoundary, TickerOpen, Execute, DoPersist, DoLogTrade, DoNotify, DoPlaceBuy,
            DoClosePosition, DoCancel, PaperFillArm, ApiResultArm, ApplyControl, ApplyBalanceHalt,
            ExchangeFill, Fills, allVars, driverVars
      <4>. QED BY <4>1 DEF Driven
    <3>. QED BY <3>1, <3>2
  <2>. QED BY <1>1, <2>1, <2>2, <2>3, <2>4, WindowBounds DEF Driven
<1>. QED BY <1>2, <1>3

(* What the handlers rely on always holds: lists are lists, a state        *)
(* carries the fields of its tag, deferred orders and resting ones have    *)
(* numbers, and the file holds a tracker.                                  *)
THEOREM DrivenInvariant == DriverSpec => []Driven
BY InitDriven, NextDriven, PTL DEF DriverSpec

-----------------------------------------------------------------------------
(* The state file.                                                         *)

(* It holds what the worker has, or the order to write it is on the list.  *)
FileFollows == disk = Snapshot \/ Persist \in Listed(acts)

(* A step that tells of its changes keeps the file current, or a Persist   *)
(* listed.                                                                 *)
LEMMA FileAfter ==
    ASSUME Driven, FileFollows, Tells, UNCHANGED disk,
           acts # <<>> => Head(acts).type # "Persist"
    PROVE  FileFollows'
<1>1. Persist \in Listed(acts) => Persist \in Listed(Rest)
  BY RestList, NewActions DEF Driven, Ready
<1>2. CASE Persist \in Listed(acts)
  BY <1>1, <1>2 DEF Tells, FileFollows
<1>3. CASE disk = Snapshot
  BY <1>3 DEF Tells, FileFollows, Snapshot
<1>. QED BY <1>2, <1>3 DEF FileFollows

(* Every step does.                                                        *)
LEMMA NextFile ==
    ASSUME Driven, FileFollows, [DriverNext]_allVars
    PROVE  FileFollows'
<1>1. CASE IdleKind
  BY <1>1 DEF IdleKind, FilesKept, vars, FileFollows, Snapshot
<1>2. CASE WorkerKind
  BY <1>2, FileAfter DEF WorkerKind, WorkerStep, FilesKept, OrderActions
<1>3. CASE EntryKind
  <2>1. UNCHANGED <<suppressed, halt, disk>> /\ Listed(acts) = {}
    BY <1>3, ShortLists DEF EntryKind, OrderingStep, FilesKept
  <2>. QED BY <2>1 DEF FileFollows, Snapshot
<1>4. CASE OpenKind
  BY <1>4, FileAfter DEF OpenKind, OpenStep, FilesKept
<1>5. CASE VerdictKind
  BY <1>5, FileAfter DEF VerdictKind, VerdictStep, ApiResultArm, InLoop
<1>6. CASE CommandKind
  BY <1>6 DEF CommandKind, SaveAndLog, FileFollows, Snapshot
<1>7. CASE DoPersist
  <2>1. disk' = Snapshot /\ UNCHANGED <<suppressed, halt>>
    BY <1>7 DEF DoPersist, Take
  <2>. QED BY <2>1 DEF FileFollows, Snapshot
<1>8. CASE FileKind /\ ~DoPersist
  BY <1>8, FileAfter DEF FileKind, WorkerStep, DoLogTrade, DoNotify, Executes, Notices
<1>9. CASE Restart
  BY <1>9, RestartDoes DEF FileFollows
<1>. QED BY <1>1, <1>2, <1>3, <1>4, <1>5, <1>6, <1>7, <1>8, <1>9, StepKinds DEF FileKind

(* Whenever the loop waits for its next event, a restart would bring back  *)
(* what the worker has: a halt, and the losses counted towards the next,   *)
(* are never lost with the process.                                        *)
THEOREM FileKept == DriverSpec => []FileIsCurrent
<1>1. DriverInit => FileFollows
  BY DEF DriverInit, Init, EmptyDisk, FileFollows, Snapshot
<1>2. FileFollows => FileIsCurrent
  BY ShortLists DEF FileFollows, FileIsCurrent, InLoop
<1>. QED BY <1>1, <1>2, NextFile, DrivenInvariant, PTL DEF DriverSpec

-----------------------------------------------------------------------------
(* The control log.                                                        *)

(* Its last line says whether entries are halted, or a line is due.        *)
LogFollows == clog = Halted \/ \E a \in Listed(acts) : a.type \in LoggedNotices

(* A step that tells of its changes keeps the log current, or a notice     *)
(* listed.                                                                 *)
LEMMA LogAfter ==
    ASSUME Driven, LogFollows, Tells, UNCHANGED clog,
           acts # <<>> => Head(acts).type \notin LoggedNotices
    PROVE  LogFollows'
<1>1. CASE \E a \in Listed(acts) : a.type \in LoggedNotices
  <2>1. \E a \in Listed(Rest) : a.type \in LoggedNotices
    BY <1>1, RestList DEF Driven, Ready
  <2>. QED BY <2>1 DEF Tells, LogFollows
<1>2. CASE clog = Halted
  BY <1>2 DEF Tells, LogFollows
<1>. QED BY <1>1, <1>2 DEF LogFollows

(* Every step does.                                                        *)
LEMMA NextLog ==
    ASSUME Driven, LogFollows, [DriverNext]_allVars
    PROVE  LogFollows'
<1>1. CASE IdleKind
  BY <1>1 DEF IdleKind, FilesKept, vars, LogFollows, Halted
<1>2. CASE WorkerKind
  BY <1>2, LogAfter DEF WorkerKind, WorkerStep, FilesKept, OrderActions, LoggedNotices
<1>3. CASE EntryKind
  <2>1. UNCHANGED <<suppressed, halt, clog>> /\ Listed(acts) = {}
    BY <1>3, ShortLists DEF EntryKind, OrderingStep, FilesKept
  <2>. QED BY <2>1 DEF LogFollows, Halted
<1>4. CASE OpenKind
  BY <1>4, LogAfter DEF OpenKind, OpenStep, FilesKept
<1>5. CASE VerdictKind
  BY <1>5, LogAfter DEF VerdictKind, VerdictStep, ApiResultArm, InLoop
<1>6. CASE CommandKind
  BY <1>6, Zenon DEF CommandKind, SaveAndLog, LogFollows, Halted, IsHalted, IsHaltedNext
<1>7. CASE DoNotify /\ Head(acts).type \in LoggedNotices
  <2>1. clog' = Halted /\ UNCHANGED <<suppressed, halt>>
    BY <1>7 DEF DoNotify, Take
  <2>. QED BY <2>1 DEF LogFollows, Halted
<1>8. CASE FileKind /\ ~(DoNotify /\ Head(acts).type \in LoggedNotices)
  BY <1>8, LogAfter DEF FileKind, WorkerStep, DoPersist, DoLogTrade, DoNotify, Executes,
                        LoggedNotices
<1>9. CASE Restart
  BY <1>9, RestartDoes DEF LogFollows
<1>. QED BY <1>1, <1>2, <1>3, <1>4, <1>5, <1>6, <1>7, <1>8, <1>9, StepKinds DEF FileKind

(* The control log's last line tells whether entries are halted, whenever  *)
(* the loop waits for its next event: no way in or out of a halt (losses,  *)
(* a verdict, a new day, a command, the balance, a restart) goes unlogged. *)
THEOREM HaltsLogged == DriverSpec => []ControlLogIsCurrent
<1>1. DriverInit => LogFollows
  <2> SUFFICES ASSUME DriverInit PROVE LogFollows
    OBVIOUS
  <2>1. clog = FALSE /\ suppressed = FALSE /\ halt.losses = 0
    BY DEF DriverInit, Init, NewTracker
  <2>2. Halted = FALSE
    BY <2>1, HaltMaxAssumption DEF Halted, IsHalted
  <2>. QED BY <2>1, <2>2, Zenon DEF LogFollows
<1>2. LogFollows => ControlLogIsCurrent
  BY ShortLists DEF LogFollows, ControlLogIsCurrent, InLoop
<1>. QED BY <1>1, <1>2, NextLog, DrivenInvariant, PTL DEF DriverSpec

-----------------------------------------------------------------------------
(* Verdicts.                                                               *)

(* The markets whose watcher is out or about to be spawned.                *)
Awaited == watchers \cup {a.rec.cycle : a \in Logs(acts)}
OneWatcher == Awaited = IF AwaitsVerdict THEN {state.rec.cycle} ELSE {}

(* A handler that closes a trade lists it for a watcher.                   *)
LEMMA AwaitedAfter ==
    ASSUME Driven, OneWatcher, Settles, UNCHANGED watchers, Logs(Rest) = Logs(acts)
    PROVE  OneWatcher'
<1>1. CASE Logs(acts') = Logs(Rest) /\ Keeps
  BY <1>1 DEF OneWatcher, Awaited, Keeps, AwaitsVerdict
<1>2. CASE Closes
  <2>1. watchers = {} /\ Logs(acts) = {}
    BY <1>2 DEF OneWatcher, Awaited, Closes, HasPosition, AwaitsVerdict, PositionTags, ExitTags
  <2>2. Logs(acts') = {LogTrade(state'.rec)} /\ LogTrade(state'.rec).rec = state'.rec
    BY <1>2, <2>1 DEF Closes, LogTrade
  <2>. QED BY <1>2, <2>1, <2>2 DEF OneWatcher, Awaited, Closes
<1>. QED BY <1>1, <1>2 DEF Settles

(* Only a trade on the list is one to watch.                               *)
LEMMA LogsOfRest ==
    ASSUME Ready, acts # <<>> => Head(acts).type # "LogTrade"
    PROVE  Logs(Rest) = Logs(acts)
BY RestList DEF Ready, Logs

(* Every step keeps one watcher for the trade that waits, and none         *)
(* otherwise.                                                              *)
LEMMA NextWatcher ==
    ASSUME Driven, OneWatcher, [DriverNext]_allVars
    PROVE  OneWatcher'
<1>1. CASE IdleKind
  BY <1>1 DEF IdleKind, FilesKept, vars, OneWatcher, Awaited, AwaitsVerdict
<1>2. CASE WorkerKind
  BY <1>2, LogsOfRest, AwaitedAfter DEF WorkerKind, WorkerStep, FilesKept, OrderActions, Driven
<1>3. CASE EntryKind
  <2>1. /\ UNCHANGED watchers /\ Logs(acts) = {} /\ ~AwaitsVerdict /\ ~AwaitsVerdict'
        /\ Logs(Rest) = {}
    BY <1>3, ShortLists DEF EntryKind, OrderingStep, FilesKept, CanEnter, AwaitsVerdict, Logs, Rest
  <2>2. PICK a : Orders(a)
    BY <1>3 DEF EntryKind, OrderingStep
  <2>3. Logs(acts') = {}
    BY <2>1, <2>2, NewActions DEF Orders, Logs
  <2>. QED BY <2>1, <2>3 DEF OneWatcher, Awaited
<1>4. CASE OpenKind
  <2>1. /\ Logs(acts') = Logs(acts) /\ UNCHANGED watchers
        /\ state' = IF AwaitsVerdict THEN state ELSE Watching
    BY <1>4, LogsOfRest DEF OpenKind, OpenStep, FilesKept, Driven
  <2>2. AwaitsVerdict' = AwaitsVerdict /\ (AwaitsVerdict => state' = state)
    BY <2>1 DEF AwaitsVerdict
  <2>. QED BY <2>1, <2>2 DEF OneWatcher, Awaited
<1>5. CASE VerdictKind
  <2>1. /\ Logs(acts') = Logs(acts) /\ Logs(acts) = {}
        /\ state' = IF AwaitsVerdict THEN Watching ELSE state
    BY <1>5, LogsOfRest, ShortLists DEF VerdictKind, VerdictStep, ApiResultArm, InLoop, Driven, Logs
  <2>2. PICK market \in watchers : watchers' = watchers \ {market}
    BY <1>5 DEF VerdictKind, ApiResultArm
  <2>3. AwaitsVerdict /\ watchers = {market}
    BY <2>1, <2>2 DEF OneWatcher, Awaited
  <2>4. ~AwaitsVerdict'
    BY <2>1, <2>3 DEF AwaitsVerdict
  <2>. QED BY <2>1, <2>2, <2>3, <2>4 DEF OneWatcher, Awaited
<1>6. CASE CommandKind
  BY <1>6 DEF CommandKind, CommandStep, OneWatcher, Awaited, AwaitsVerdict
<1>7. CASE FileKind /\ DoLogTrade
  <2>1. UNCHANGED state /\ acts' = Rest /\ watchers' = watchers \cup {Head(acts).rec.cycle}
        /\ acts # <<>> /\ Head(acts).type = "LogTrade"
    BY <1>7 DEF DoLogTrade, Take, Rest, Executes, WatchersWith
  <2>2. Logs(acts) = {Head(acts)} \cup Logs(acts')
    BY <2>1, RestList DEF Logs, Driven, Ready
  <2>3. Awaited' = Awaited
    BY <2>1, <2>2 DEF Awaited
  <2>. QED BY <2>1, <2>3 DEF OneWatcher, AwaitsVerdict
<1>8. CASE FileKind /\ ~DoLogTrade
  <2>1. UNCHANGED watchers /\ acts # <<>> /\ Head(acts).type # "LogTrade"
    BY <1>8 DEF FileKind, DoPersist, DoNotify, Executes, Notices
  <2>. QED BY <1>8, <2>1, LogsOfRest, AwaitedAfter DEF FileKind, WorkerStep, Driven
<1>9. CASE Restart
  BY <1>9, RestartDoes, ShortLists DEF OneWatcher, Awaited, Logs, AwaitsVerdict
<1>. QED BY <1>1, <1>2, <1>3, <1>4, <1>5, <1>6, <1>7, <1>8, <1>9, StepKinds DEF FileKind

(* A trade has a watcher for as long as it waits for its verdict.          *)
LEMMA WatcherInvariant == DriverSpec => []OneWatcher
<1>1. DriverInit => OneWatcher
  BY ShortLists DEF DriverInit, Init, OneWatcher, Awaited, Logs, AwaitsVerdict
<1>. QED BY <1>1, NextWatcher, DrivenInvariant, PTL DEF DriverSpec

(* A trade that waits for its verdict has exactly one watcher, of its own  *)
(* market, out or about to be: no reply is ever taken for another trade's. *)
THEOREM RepliesMatch == DriverSpec => []WatcherPerVerdict
<1>1. OneWatcher => WatcherPerVerdict
  <2>1. {acts[i].rec.cycle : i \in {j \in DOMAIN acts : acts[j].type = "LogTrade"}}
          = {a.rec.cycle : a \in Logs(acts)}
    BY DEF Logs, Listed
  <2>. QED BY <2>1 DEF OneWatcher, Awaited, WatcherPerVerdict
<1>. QED BY <1>1, WatcherInvariant, PTL

-----------------------------------------------------------------------------
(* Positions.                                                              *)

(* There is a position only while its market is open, and none is left     *)
(* when the next one is.                                                   *)
InOpenMarket == HasOpenPosition => open /\ arm # "opening"

(* Every step keeps positions within their market.                         *)
LEMMA NextInMarket ==
    ASSUME Driven, InOpenMarket, [DriverNext]_allVars
    PROVE  InOpenMarket'
<1>1. CASE TickerBoundary
  <2>1. UNCHANGED open
    BY <1>1 DEF TickerBoundary
  <2>2. CASE OnCycleClose
    BY <2>2, CycleCloseDoes DEF Driven, InOpenMarket
  <2>3. CASE ~OnCycleClose
    <3>1. UNCHANGED vars /\ (~open \/ arm' = "loop")
      BY <1>1, <2>3 DEF TickerBoundary
    <3>. QED BY <2>1, <3>1 DEF InOpenMarket, HasOpenPosition, vars
  <2>. QED BY <2>2, <2>3
<1>2. CASE TickerOpen
  <2>1. CASE UNCHANGED vars
    BY <1>2, <2>1 DEF TickerOpen, InOpenMarket, HasOpenPosition, vars
  <2>2. CASE OnCycleOpen(slotVal)
    BY <2>2 DEF OnCycleOpen, InOpenMarket, HasOpenPosition, AwaitsVerdict, PositionTags, ExitTags
  <2>. QED BY <1>2, <2>1, <2>2 DEF TickerOpen
<1>3. CASE Restart
  BY <1>3, RestartDoes DEF InOpenMarket, HasOpenPosition, PositionTags, ExitTags
<1>4. CASE ~TickerBoundary /\ ~TickerOpen /\ ~Restart
  <2>1. UNCHANGED open /\ (arm' = "opening" => arm = "opening")
    BY <1>4
    DEF DriverNext, Advance, BinanceArm, PolyArm, PaperRestingFill, PolyStep, TickerReevaluate,
        Execute, DoPersist, DoLogTrade, DoNotify, DoPlaceBuy,
        DoPlaceLimitBuy, DoPlaceLimitSell, DoClosePosition, DoCancel, PaperFillArm, ApiResultArm,
        ApplyControl, ApplyBalanceHalt, ExchangeFill, allVars, driverVars
  <2>2. CASE EntryKind
    BY <2>1, <2>2 DEF EntryKind, InOpenMarket
  <2>3. CASE ~EntryKind
    <3>1. state' \in {state, Watching} \/ Steady
      BY <1>4, <2>3, StepKinds
      DEF IdleKind, WorkerKind, OpenKind, VerdictKind, CommandKind, FileKind, WorkerStep,
          OpenStep, VerdictStep, CommandStep, vars
    <3>2. HasOpenPosition' => HasOpenPosition
      BY <3>1 DEF Steady, HasOpenPosition, PositionTags, ExitTags
    <3>. QED BY <2>1, <3>2 DEF InOpenMarket
  <2>. QED BY <2>2, <2>3
<1>. QED BY <1>1, <1>2, <1>3, <1>4

(* The list that announces is the list that holds.                         *)
LEMMA AnnouncedIfListed ==
    ASSUME NEW a \in Listed(acts'), IsList(acts')
    PROVE  Announces(a.type)
<1>1. acts' # <<>>
  BY ShortLists
<1>. QED BY <1>1 DEF Announces, Listed

(* A position that goes away is logged by the step that takes it, or lost  *)
(* in a restart.                                                           *)
LEMMA PositionStep ==
    ASSUME Driven, InOpenMarket, [DriverNext]_allVars, HasPosition, ~HasPosition'
    PROVE  Announces("LogTrade") \/ restarts' > restarts
<1>1. state.tag \in PositionTags /\ HasOpenPosition /\ ~AwaitsVerdict /\ state # Watching
  BY DEF HasPosition, HasOpenPosition, PositionTags, ExitTags, AwaitsVerdict
<1>2. CASE WorkerStep
  <2>1. LogTrade(state'.rec) \in Listed(acts') /\ IsList(acts')
    BY <1>2 DEF WorkerStep, Settles, Keeps, Closes, Logs, Ready
  <2>. QED BY <2>1, AnnouncedIfListed, NewActions
<1>3. CASE Restart
  BY <1>3, RestartDoes
<1>4. ~EntryKind /\ ~OpenKind
  BY <1>1 DEF EntryKind, OrderingStep, CanEnter, OpenKind, InOpenMarket
<1>5. ~IdleKind /\ ~VerdictKind /\ ~CommandKind
  BY <1>1 DEF IdleKind, VerdictKind, VerdictStep, CommandKind, CommandStep, vars, HasPosition
<1>. QED BY <1>2, <1>3, <1>4, <1>5, StepKinds DEF WorkerKind, FileKind

(* A position leaves the worker only with a trade to log, whatever order   *)
(* of fills, failures, ticks and boundaries takes it there; only a restart *)
(* forgets one.                                                            *)
THEOREM PositionsAccounted == DriverSpec => PositionEndsInTrade
<1>1. DriverInit => InOpenMarket
  BY DEF DriverInit, Init, InOpenMarket, HasOpenPosition, PositionTags, ExitTags
<1>2. DriverSpec => []InOpenMarket
  BY <1>1, NextInMarket, DrivenInvariant, PTL DEF DriverSpec
<1>3. Driven /\ InOpenMarket /\ [DriverNext]_allVars =>
        [HasPosition /\ ~HasPosition' => Announces("LogTrade") \/ restarts' > restarts]_allVars
  BY PositionStep
<1>. QED BY <1>2, <1>3, DrivenInvariant, PTL DEF DriverSpec, PositionEndsInTrade

-----------------------------------------------------------------------------
(* Orders to buy.                                                          *)

(* They come first on the list: their answer is stepped before anything    *)
(* else is executed, and until then the worker waits for it.               *)
Ordered(a) == /\ a.side = Exposure
              /\ state.tag = IF a.type = "PlaceBuy" THEN "Entering" ELSE "EnteringMaker"
BuysFirst == Buys(Rest) = {} /\ \A a \in Buys(acts) : Ordered(a)

(* What is left of a list is on it.                                        *)
LEMMA RestAfter ==
    ASSUME IsList(acts')
    PROVE  Listed(Rest') \subseteq Listed(acts')
BY ListHead, ShortLists DEF Rest

(* The list after an entry.                                                *)
LEMMA EntryList ==
    ASSUME acts = <<>>, NEW t, OrderingStep(t)
    PROVE  \E a : Orders(a) /\ acts' = <<a, Persist>> /\ Buys(acts') = {a}
                 /\ Buys(Rest') = {} /\ Sales(acts') = {}
<1>1. PICK a : Orders(a)
  BY DEF OrderingStep
<1>2. Rest = <<>> /\ <<a, Persist>> \in Seq({a, Persist})
  BY DEF Rest
<1>3. acts' = <<a, Persist>>
  BY <1>1, <1>2, ConcatEmptySeq DEF Orders
<1>4. acts' # <<>> /\ Tail(acts') = <<Persist>>
  BY <1>3
<1>5. Rest' = <<Persist>>
  BY <1>4 DEF Rest
<1>6. Listed(acts') = {a, Persist} /\ Listed(Rest') = {Persist}
  BY <1>3, <1>5, ShortLists
<1>. QED BY <1>1, <1>3, <1>6, NewActions DEF Orders, Buys, Sales

(* An order to buy is executed before anything else happens.               *)
LEMMA NextBuysFirst ==
    ASSUME Driven, BuysFirst, [DriverNext]_allVars
    PROVE  /\ BuysFirst'
           /\ EntryKind \/ UNCHANGED <<state, pending, acts>> \/ Buys(acts') = {}
<1>1. Buys(Rest') \subseteq Buys(acts')
  BY NextDriven, RestAfter DEF Driven, Ready, Buys
<1>2. CASE EntryKind
  <2>1. PICK a : Orders(a) /\ Buys(acts') = {a} /\ Buys(Rest') = {}
    BY <1>2, EntryList DEF EntryKind
  <2>2. Ordered(a)'
    BY <2>1 DEF Orders, Ordered
  <2>. QED BY <1>2, <2>1, <2>2 DEF BuysFirst
<1>3. CASE Restart
  BY <1>1, <1>3, RestartDoes, ShortLists DEF Buys, BuysFirst
<1>4. CASE UNCHANGED <<state, pending, acts>>
  <2>1. \A a : Ordered(a) => Ordered(a)'
    BY <1>4 DEF Ordered, Exposure, HasPosition
  <2>. QED BY <1>4, <2>1 DEF BuysFirst, Rest
<1>5. CASE ~EntryKind /\ ~Restart /\ ~UNCHANGED <<state, pending, acts>>
  <2>1. Buys(acts') = Buys(Rest)
    BY <1>5, StepKinds
    DEF IdleKind, WorkerKind, OpenKind, VerdictKind, CommandKind, FileKind, WorkerStep, Steady,
        OpenStep, VerdictStep, CommandStep, vars
  <2>. QED BY <1>1, <2>1 DEF BuysFirst
<1>. QED BY <1>2, <1>3, <1>4, <1>5

-----------------------------------------------------------------------------
(* Windows.                                                                *)

(* A window ends before the next one begins.                               *)
LEMMA WindowOrder ==
    ASSUME NEW m \in Int, NEW n \in Int, m < n
    PROVE  (m + 1) * CycleLen <= n * CycleLen
BY TimeAssumption, SMT

(* A time before the end of a window is in no later one.                   *)
LEMMA WindowBefore ==
    ASSUME NEW m \in Int, NEW t \in Nat, t < (m + 1) * CycleLen
    PROVE  Window(t) <= m
<1> SUFFICES ASSUME m < Window(t) PROVE FALSE
  BY WindowBounds
<1> DEFINE end == (m + 1) * CycleLen
           begin == Window(t) * CycleLen
<1>1. end <= begin /\ begin <= t /\ t < end
  BY WindowBounds, WindowOrder
<1>2. end \in Int /\ begin \in Int
  BY TimeAssumption, WindowBounds
<1> HIDE DEF end, begin
<1>. QED BY <1>1, <1>2

(* Later times are in later windows.                                       *)
LEMMA WindowGrows ==
    ASSUME NEW t \in Nat, NEW u \in Nat, t <= u
    PROVE  Window(t) <= Window(u)
<1> DEFINE end == (Window(u) + 1) * CycleLen
<1>1. u < end /\ Window(u) \in Nat
  BY WindowBounds
<1>2. end \in Int
  BY TimeAssumption, <1>1
<1> HIDE DEF end
<1>3. t < end
  BY <1>1, <1>2
<1>. QED BY <1>1, <1>3, WindowBefore DEF end

(* The worker's window is one the ticker has seen, and its market is the   *)
(* one the driver trades.                                                  *)
Slots ==
    /\ cycle \in Nat \cup {NoCycle} /\ cycle <= slotVal /\ ids = cycle
    /\ slotVal <= Window(now)
    /\ open => cycle # NoCycle
    /\ arm = "opening" => slotVal # NoCycle

(* The steps that leave the windows, the market and the latch alone.       *)
LEMMA SlotKept ==
    ASSUME Driven, [DriverNext]_allVars, ~TickerBoundary, ~TickerOpen, ~Restart
    PROVE  /\ UNCHANGED <<slotVal, open, ids, cycle, mode>>
           /\ Advance \/ UNCHANGED now
           /\ arm' = "opening" => arm = "opening"
           /\ EntryKind \/ UNCHANGED fired
<1>1. /\ UNCHANGED <<slotVal, open, ids, mode>>
      /\ Advance \/ UNCHANGED now
      /\ arm' = "opening" => arm = "opening"
  BY DEF DriverNext, Advance, BinanceArm, PolyArm, PaperRestingFill, PolyStep, TickerReevaluate,
         Execute, DoPersist, DoLogTrade, DoNotify, DoPlaceBuy, DoPlaceLimitBuy, DoPlaceLimitSell,
         DoClosePosition, DoCancel, PaperFillArm, ApiResultArm, ApplyControl, ApplyBalanceHalt,
         ExchangeFill, allVars, driverVars
<1>2. ~OpenKind
  BY DEF OpenKind
<1>3. UNCHANGED cycle
  BY <1>2, StepKinds
  DEF IdleKind, WorkerKind, EntryKind, VerdictKind, CommandKind, FileKind, WorkerStep, Steady,
      OrderingStep, VerdictStep, CommandStep, vars
<1>4. EntryKind \/ UNCHANGED fired
  BY <1>2, StepKinds
  DEF IdleKind, WorkerKind, VerdictKind, CommandKind, FileKind, WorkerStep, Steady,
      VerdictStep, CommandStep, vars
<1>. QED BY <1>1, <1>3, <1>4

(* Every step keeps the windows in step.                                   *)
LEMMA NextSlots ==
    ASSUME Driven, Slots, [DriverNext]_allVars
    PROVE  Slots'
<1>1. CASE TickerBoundary
  <2>1. slotVal' = Window(now) /\ UNCHANGED <<cycle, now, ids, open>>
    BY <1>1 DEF TickerBoundary, OnCycleClose, vars
  <2>2. Window(now) \in Nat
    BY WindowBounds DEF Driven
  <2>. QED BY <2>1, <2>2 DEF Slots, Driven
<1>2. CASE TickerOpen
  <2>1. /\ UNCHANGED <<slotVal, now>> /\ arm' = "loop"
        /\ \/ UNCHANGED <<cycle, ids>> /\ (open' => open)
           \/ cycle' = slotVal /\ ids' = slotVal /\ arm = "opening"
    BY <1>2 DEF TickerOpen, OnCycleOpen, vars
  <2>. QED BY <2>1 DEF Slots, Driven
<1>3. CASE Restart
  <2>1. /\ cycle' = NoCycle /\ slotVal' = NoCycle /\ ids' = NoCycle /\ open' = FALSE /\ now' \in Nat
        /\ arm' = "loop"
    BY <1>3, RestartDoes DEF Restart, Driven
  <2>. QED BY <2>1, WindowBounds DEF Slots
<1>4. CASE ~TickerBoundary /\ ~TickerOpen /\ ~Restart
  <2>1. /\ UNCHANGED <<slotVal, open, ids, cycle>> /\ now' \in {now, now + 1}
        /\ arm' = "opening" => arm = "opening"
    BY <1>4, SlotKept DEF Advance
  <2>2. Window(now) <= Window(now') /\ Window(now) \in Nat /\ Window(now') \in Nat
    BY <2>1, WindowGrows, WindowBounds DEF Driven
  <2>. QED BY <2>1, <2>2 DEF Slots, Driven
<1>. QED BY <1>1, <1>2, <1>3, <1>4

-----------------------------------------------------------------------------
(* One order to buy per market.                                            *)

(* The market traded last is not a later one than the ticker's, and after  *)
(* a restart it is over or long begun.  While the latch is open nothing    *)
(* has been bought on the worker's market; an order to buy is the first on *)
(* the list.                                                               *)
AccountFields == {"market", "shares", "cash", "buys"}
OneOrder ==
    /\ account = [field \in AccountFields |-> account[field]]
    /\ account.market \in Nat \cup {NoCycle} /\ account.buys \in {0, 1}
    /\ account.market <= Window(now)
    /\ slotVal # NoCycle => account.market <= slotVal
    /\ slotVal = NoCycle =>
          account.market = NoCycle \/ account.market * CycleLen + RestartTime <= now
    /\ arm = "opening" => account.market < slotVal
    /\ ~fired /\ cycle # NoCycle => account.market # cycle
    /\ Buys(acts) # {} => fired /\ open /\ arm # "opening" /\ account.market # cycle

(* A buy opens the account of the market it is placed on.                  *)
LEMMA AccountBought ==
    ASSUME Driven, OneOrder, Slots, DoPlaceBuy \/ DoPlaceLimitBuy
    PROVE  /\ Buys(acts) # {} /\ UNCHANGED arm
           /\ account' = [field \in AccountFields |-> account'[field]]
           /\ account'.market = cycle /\ account'.buys = 1
<1>1. acts # <<>> /\ Head(acts).type \in {"PlaceBuy", "PlaceLimitBuy"} /\ UNCHANGED arm
  BY DEF DoPlaceBuy, DoPlaceLimitBuy, Executes
<1>2. Buys(acts) # {}
  BY <1>1, RestList DEF Buys, Driven, Ready
<1>3. AccountWithBuy = [market |-> cycle, shares |-> 0, cash |-> 0, buys |-> 1]
  BY <1>2 DEF AccountWithBuy, OneOrder, Slots
<1>4. \E n, m : account' = [market |-> cycle, shares |-> n, cash |-> m, buys |-> 1]
  <2>1. CASE account' = AccountWithBuy
    BY <1>3, <2>1
  <2>2. ASSUME NEW n, NEW m, account' = [AccountWithBuy EXCEPT !.shares = n, !.cash = m]
        PROVE  account' = [market |-> cycle, shares |-> n, cash |-> m, buys |-> 1]
    BY <1>3, <2>2
  <2>3. CASE DoPlaceBuy
    <3>1. \A n, cost : FinishEntryOrder(AccountWithBuy, n, cost) =>
             \/ account' = AccountWithBuy
             \/ \E k, m : account' = [AccountWithBuy EXCEPT !.shares = k, !.cash = m]
      BY DEF FinishEntryOrder
    <3>. QED BY <2>1, <2>2, <2>3, <3>1 DEF DoPlaceBuy
  <2>4. CASE DoPlaceLimitBuy
    <3>1. \/ account' = AccountWithBuy
          \/ \E k, m : account' = [AccountWithBuy EXCEPT !.shares = k, !.cash = m]
      BY <2>4 DEF DoPlaceLimitBuy
    <3>. QED BY <2>1, <2>2, <3>1
  <2>. QED BY <2>3, <2>4
<1>. QED BY <1>1, <1>2, <1>4 DEF AccountFields

(* No other step opens an account, nor counts an order.                    *)
LEMMA AccountKept ==
    ASSUME OneOrder, [DriverNext]_allVars, ~DoPlaceBuy, ~DoPlaceLimitBuy
    PROVE  /\ account' = [field \in AccountFields |-> account'[field]]
           /\ account'.market = account.market /\ account'.buys = account.buys
<1>1. CASE UNCHANGED account
  BY <1>1 DEF OneOrder
<1>2. ASSUME NEW n, NEW m, account' = [account EXCEPT !.shares = n, !.cash = m]
      PROVE  /\ account' = [field \in AccountFields |-> account'[field]]
             /\ account'.market = account.market /\ account'.buys = account.buys
  BY <1>2 DEF OneOrder, AccountFields
<1>3. \A n, at, fee : BuyFills(n, at, fee) \/ SellFills(n, at, fee) =>
         \E k, m : account' = [account EXCEPT !.shares = k, !.cash = m]
  BY DEF BuyFills, SellFills
<1>4. CASE PaperRestingFill \/ ExchangeFill
  BY <1>2, <1>3, <1>4 DEF PaperRestingFill, ExchangeFill, Fills
<1>5. CASE DoPlaceLimitSell
  BY <1>1, <1>2, <1>3, <1>5 DEF DoPlaceLimitSell
<1>6. \A c, sold, at : FinishCloseOrder(c, sold, at) =>
         UNCHANGED account \/ \E k, m : account' = [account EXCEPT !.shares = k, !.cash = m]
  BY <1>3 DEF FinishCloseOrder
<1>7. CASE DoClosePosition
  BY <1>1, <1>2, <1>6, <1>7 DEF DoClosePosition
<1>8. \A n, cost : FinishEntryOrder(account, n, cost) =>
         UNCHANGED account \/ \E k, m : account' = [account EXCEPT !.shares = k, !.cash = m]
  BY DEF FinishEntryOrder
<1>9. CASE PaperFillArm
  BY <1>1, <1>2, <1>6, <1>8, <1>9 DEF PaperFillArm
<1>10. CASE ~PaperRestingFill /\ ~ExchangeFill /\ ~DoPlaceLimitSell /\ ~DoClosePosition /\ ~PaperFillArm
  <2>1. UNCHANGED account
    BY <1>10
    DEF DriverNext, Advance, BinanceArm, PolyArm, PolyStep, TickerReevaluate, TickerBoundary,
        TickerOpen, Execute, DoPersist, DoLogTrade, DoNotify, DoCancel, ApiResultArm, ApplyControl,
        ApplyBalanceHalt, Restart, allVars, driverVars
  <2>. QED BY <1>1, <2>1
<1>. QED BY <1>4, <1>5, <1>7, <1>9, <1>10

(* Every step keeps to one order per market; a restart waits for the next  *)
(* window.                                                                 *)
LEMMA NextOneOrder ==
    ASSUME RestartTime > StartupGuard, Driven, BuysFirst, Slots, OneOrder, [DriverNext]_allVars
    PROVE  OneOrder'
<1>1. Driven' /\ Window(now) \in Nat /\ Window(now') \in Nat
  BY NextDriven, WindowBounds DEF Driven
<1>2. EntryKind \/ UNCHANGED acts \/ Buys(acts') = {}
  BY NextBuysFirst
<1>3. CASE DoPlaceBuy \/ DoPlaceLimitBuy
  <2>1. /\ Buys(acts) # {} /\ UNCHANGED arm
        /\ account' = [field \in AccountFields |-> account'[field]]
        /\ account'.market = cycle /\ account'.buys = 1
    BY <1>3, AccountBought
  <2>2. UNCHANGED <<cycle, fired>> /\ Buys(acts') = {}
    BY <1>3, OrderDoes DEF Driven, BuysFirst, WorkerStep, Steady
  <2>3. UNCHANGED <<now, slotVal>>
    BY <1>3 DEF DoPlaceBuy, DoPlaceLimitBuy
  <2>4. cycle # NoCycle /\ fired
    BY <2>1 DEF Slots, OneOrder
  <2>. QED BY <1>1, <2>1, <2>2, <2>3, <2>4 DEF Slots, OneOrder, Driven
<1>4. CASE ~DoPlaceBuy /\ ~DoPlaceLimitBuy
  <2>1. /\ account' = [field \in AccountFields |-> account'[field]]
        /\ account'.market = account.market /\ account'.buys = account.buys
    BY <1>4, AccountKept
  <2>2. CASE TickerBoundary
    <3>1. /\ slotVal' = Window(now) /\ UNCHANGED <<now, fired, cycle>> /\ acts = <<>>
          /\ \/ arm' = "loop"
             \/ arm' = "opening" /\ slotVal # Window(now) /\ ~SuppressStartup
      BY <2>2 DEF TickerBoundary, OnCycleClose, vars
    <3>2. Buys(acts') = {}
      BY <2>2, BoundaryDoes DEF Driven, WorkerStep, Steady, BuysFirst
    <3>3. arm' = "opening" => account.market < Window(now)
      <4>1. CASE slotVal = NoCycle /\ account.market # NoCycle
        <5> SUFFICES ASSUME arm' = "opening", account.market = Window(now) PROVE FALSE
          BY <1>1, <3>1 DEF OneOrder
        <5> DEFINE begin == Window(now) * CycleLen
        <5>1. ~(now - begin > StartupGuard)
          BY <3>1, <4>1 DEF SuppressStartup
        <5>2. begin + RestartTime <= now
          BY <4>1 DEF OneOrder
        <5>3. begin \in Int /\ now \in Int
          BY <1>1, TimeAssumption DEF Driven
        <5> HIDE DEF begin
        <5>. QED BY <5>1, <5>2, <5>3, LoopAssumption
      <4>2. CASE slotVal # NoCycle \/ account.market = NoCycle
        BY <1>1, <3>1, <4>2 DEF OneOrder, Slots, Driven
      <4>. QED BY <4>1, <4>2
    <3>. QED BY <1>1, <2>1, <3>1, <3>2, <3>3 DEF OneOrder, Driven
  <2>3. CASE TickerOpen
    <3>1. /\ UNCHANGED <<now, slotVal>> /\ arm = "opening" /\ arm' = "loop" /\ acts = <<>>
          /\ UNCHANGED <<cycle, fired, acts>> \/ (OnCycleOpen(slotVal) /\ cycle' = slotVal)
      BY <2>3 DEF TickerOpen, OnCycleOpen, vars
    <3>2. Buys(acts') = {}
      <4>1. ~EntryKind /\ Buys(acts) = {}
        BY <3>1 DEF OneOrder, EntryKind
      <4>. QED BY <1>2, <4>1
    <3>. QED BY <2>1, <3>1, <3>2 DEF OneOrder, Slots, Driven
  <2>4. CASE Restart
    <3>1. /\ fired' = FALSE /\ cycle' = NoCycle /\ slotVal' = NoCycle /\ arm' = "loop"
          /\ now' = now + RestartTime /\ acts' = <<>>
      BY <2>4 DEF Restart
    <3>2. Buys(acts') = {}
      BY <3>1, ShortLists DEF Buys
    <3>3. Window(now) <= Window(now')
      BY <1>1, <3>1, WindowGrows, LoopAssumption DEF Driven
    <3>4. account.market # NoCycle => account.market * CycleLen <= now
      <4> SUFFICES ASSUME account.market \in Nat, account.market <= Window(now)
                   PROVE  account.market * CycleLen <= now
        BY DEF OneOrder
      <4> DEFINE begin == account.market * CycleLen
                 last == Window(now) * CycleLen
      <4>1. last <= now /\ (begin = last \/ begin <= last)
        BY <1>1, WindowBounds, TimeAssumption DEF Driven
      <4>2. begin \in Int /\ last \in Int /\ now \in Int
        BY <1>1, TimeAssumption DEF Driven
      <4> HIDE DEF begin, last
      <4>3. begin <= now
        BY <4>1, <4>2
      <4>. QED BY <4>3 DEF begin
    <3>5. account.market # NoCycle => account.market * CycleLen + RestartTime <= now'
      <4> SUFFICES ASSUME account.market \in Nat
                   PROVE  account.market * CycleLen + RestartTime <= now'
        BY DEF OneOrder
      <4> DEFINE begin == account.market * CycleLen
      <4>1. begin <= now
        BY <3>4
      <4>2. begin \in Int
        BY TimeAssumption
      <4> HIDE DEF begin
      <4>3. begin + RestartTime <= now'
        BY <3>1, <4>1, <4>2, LoopAssumption DEF Driven
      <4>. QED BY <4>3 DEF begin
    <3>. QED BY <1>1, <2>1, <3>1, <3>2, <3>3, <3>5 DEF OneOrder
  <2>5. CASE EntryKind
    <3>1. fired' = TRUE /\ ~fired /\ UNCHANGED <<cycle, now, slotVal, open>> /\ arm' # "opening"
          /\ open
      BY <2>5 DEF EntryKind, OrderingStep, CanEnter
    <3>. QED BY <2>1, <3>1 DEF OneOrder, Slots
  <2>6. CASE ~TickerBoundary /\ ~TickerOpen /\ ~Restart /\ ~EntryKind
    <3>1. /\ UNCHANGED <<slotVal, open, cycle, fired>> /\ now' \in {now, now + 1}
          /\ arm' = "opening" => arm = "opening"
      BY <2>6, SlotKept DEF Advance
    <3>2. Window(now) <= Window(now')
      BY <3>1, WindowGrows DEF Driven
    <3>3. slotVal = NoCycle => UNCHANGED now
      BY <2>6, SlotKept DEF Advance
    <3>4. Buys(acts') # {} => Buys(acts) # {}
      BY <1>2, <2>6
    <3>. QED BY <1>1, <2>1, <3>1, <3>2, <3>3, <3>4 DEF OneOrder, Driven
  <2>. QED BY <2>2, <2>3, <2>4, <2>5, <2>6
<1>. QED BY <1>3, <1>4

(* These hold whatever the times are.                                      *)
LEMMA BuysInvariant == DriverSpec => [](BuysFirst /\ Slots /\ InOpenMarket)
<1>1. DriverInit => BuysFirst /\ Slots /\ InOpenMarket
  <2> SUFFICES ASSUME DriverInit PROVE BuysFirst /\ Slots /\ InOpenMarket
    OBVIOUS
  <2>1. /\ cycle = NoCycle /\ slotVal = NoCycle /\ ids = NoCycle /\ open = FALSE /\ arm = "loop"
        /\ acts = <<>> /\ state = Watching /\ now \in Nat
    BY TimeAssumption DEF DriverInit, Init
  <2>2. Rest = <<>> /\ Buys(Rest) = {} /\ Window(now) \in Nat /\ ~HasOpenPosition
    BY <2>1, ShortLists, WindowBounds DEF Rest, Buys, HasOpenPosition, PositionTags, ExitTags
  <2>. QED BY <2>1, <2>2 DEF Slots, BuysFirst, InOpenMarket
<1>2. Driven /\ BuysFirst /\ Slots /\ InOpenMarket /\ [DriverNext]_allVars
        => BuysFirst' /\ Slots' /\ InOpenMarket'
  BY NextBuysFirst, NextSlots, NextInMarket
<1>. QED BY <1>1, <1>2, DrivenInvariant, PTL DEF DriverSpec

(* A window has seen one order at most.                                    *)
LEMMA OrderInvariant == RestartTime > StartupGuard => (DriverSpec => []OneOrder)
<1> SUFFICES ASSUME RestartTime > StartupGuard PROVE DriverSpec => []OneOrder
  OBVIOUS
<1>1. DriverInit => OneOrder
  <2> SUFFICES ASSUME DriverInit PROVE OneOrder
    OBVIOUS
  <2>1. /\ cycle = NoCycle /\ slotVal = NoCycle /\ arm = "loop" /\ account = NoAccount
        /\ acts = <<>> /\ now \in Nat
    BY TimeAssumption DEF DriverInit, Init
  <2>2. Buys(acts) = {} /\ Window(now) \in Nat
    BY <2>1, ShortLists, WindowBounds DEF Buys
  <2>. QED BY <2>1, <2>2 DEF OneOrder, NoAccount, AccountFields
<1>2. Driven /\ BuysFirst /\ Slots /\ OneOrder /\ [DriverNext]_allVars => OneOrder'
  BY NextOneOrder
<1>. QED BY <1>1, <1>2, BuysInvariant, DrivenInvariant, PTL DEF DriverSpec

(* A process that is down for longer than the guard lets a window run      *)
(* orders once per market at most, whenever it stops and comes back: either*)
(* the latch or the wait for the next window is in the way of a second     *)
(* order.                                                                  *)
THEOREM OrdersOnce == RestartTime > StartupGuard => (DriverSpec => []OneBuyPerMarket)
<1> SUFFICES ASSUME RestartTime > StartupGuard PROVE DriverSpec => []OneBuyPerMarket
  OBVIOUS
<1>1. OneOrder => OneBuyPerMarket
  BY DEF OneOrder, OneBuyPerMarket
<1>. QED BY <1>1, OrderInvariant, PTL

-----------------------------------------------------------------------------
(* Deferred entries.                                                       *)

(* The answer to a close that no longer concerns the worker is ignored.    *)
LEMMA CloseIgnored ==
    ASSUME ~HasPosition, NEW c, c.reason \in Reasons, NEW sold, NEW at, FinishCloseOrder(c, sold, at)
    PROVE  UNCHANGED <<state, pending>>
<1>1. state.tag \notin {"Holding", "Unwinding", "StopExiting", "TimingOut"}
  BY DEF HasPosition, PositionTags, ExitTags
<1>2. \/ OnUnwindFilled(sold, at) \/ OnStopSellFilled(sold, at) \/ OnTimeoutSellFilled(sold, at)
      \/ OnUnwindFailed \/ OnStopSellFailed \/ OnTimeoutSellFailed
  BY DEF FinishCloseOrder, CloseFilled, CloseFailed, Reasons
<1>. QED BY <1>1, <1>2 DEF OnUnwindFilled, OnStopSellFilled, OnTimeoutSellFilled, OnUnwindFailed,
                           OnStopSellFailed, OnTimeoutSellFailed, Ignore

(* A worker that ordered waits for the answer: nothing but the answer, the *)
(* next window or a restart takes it out of that state.                    *)
LEMMA EnteringStays ==
    ASSUME Driven, state = Entering, Window(now) = slotVal, arm # "opening", [DriverNext]_allVars,
           ~DoPlaceBuy, ~PaperFillArm, ~Restart
    PROVE  UNCHANGED <<state, pending>>
<1>1. /\ state # Watching /\ state.tag \notin {"EnteringMaker", "Holding", "Confirming", "EnrichOnly"}
      /\ state.tag \notin {"Unwinding", "StopExiting", "TimingOut"} /\ ~AwaitsVerdict
  BY DEF AwaitsVerdict
<1>2. CASE Advance \/ PolyArm \/ ExchangeFill \/ UNCHANGED allVars
  BY <1>2 DEF Advance, PolyArm, ExchangeFill, allVars, vars
<1>3. CASE BinanceArm \/ PolyStep
  <2>1. \A t : TryEnter(t) => UNCHANGED <<state, pending>>
    BY <1>1 DEF TryEnter, CanEnter, Pass
  <2>2. UNCHANGED vars \/ TryEnter(now)
    BY <1>1, <1>3 DEF BinanceArm, PolyStep, OnBinance, OnPoly
  <2>. QED BY <2>1, <2>2 DEF vars
<1>4. CASE PaperRestingFill
  <2>1. \A n, at : OnEntryQuoteFilled(n, at) \/ OnUnwindFilled(n, at) => UNCHANGED <<state, pending>>
    BY <1>1 DEF OnEntryQuoteFilled, OnUnwindFilled, Ignore
  <2>. QED BY <1>4, <2>1 DEF PaperRestingFill, vars
<1>5. CASE TickerReevaluate \/ TickerBoundary \/ TickerOpen
  BY <1>1, <1>5 DEF TickerReevaluate, ShouldReevaluate, TickerBoundary, TickerOpen, vars
<1>6. CASE DoPersist \/ DoLogTrade \/ DoNotify \/ DoCancel
  BY <1>6 DEF DoPersist, DoLogTrade, DoNotify, DoCancel, Take
<1>7. CASE DoPlaceLimitBuy \/ DoPlaceLimitSell
  BY <1>1, <1>7 DEF DoPlaceLimitBuy, DoPlaceLimitSell, OnLimitBuyPlaced, OnLimitSellPlaced, Ignore, Take
<1>8. CASE DoClosePosition
  <2>1. Head(acts).reason \in Reasons /\ ~HasPosition
    BY <1>1, <1>8, RestList
    DEF DoClosePosition, Executes, Driven, Ready, Formed, HasPosition, PositionTags, ExitTags
  <2>. QED BY <1>8, <2>1, CloseIgnored DEF DoClosePosition, Take
<1>9. CASE ApiResultArm
  BY <1>1, <1>9 DEF ApiResultArm, OnApiResult, OnApiResultTimeout, Ignore
<1>10. CASE ApplyControl \/ ApplyBalanceHalt
  BY <1>10 DEF ApplyControl, ApplyBalanceHalt, ControlEffect, BalanceEffect
<1>. QED BY <1>2, <1>3, <1>4, <1>5, <1>6, <1>7, <1>8, <1>9, <1>10 DEF DriverNext, Execute

(* An answer not yet given belongs to the one order of the window the      *)
(* driver is in.                                                           *)
Awaiting ==
    /\ Buys(acts) # {} /\ mode = "Paper" => Window(now) = cycle
    /\ \A f \in inflight : f.kind = "Entry" =>
          /\ f = [kind |-> "Entry", token |-> [market |-> cycle, side |-> pending]]
          /\ state = Entering /\ Window(now) = cycle /\ Buys(acts) = {}

(* Every step keeps a deferred entry its worker's.                         *)
LEMMA NextAwaiting ==
    ASSUME NoEnter >= 1, Driven, BuysFirst, Slots, InOpenMarket, Awaiting, [DriverNext]_allVars
    PROVE  Awaiting'
<1>1. CASE DoPlaceBuy
  <2>1. /\ acts # <<>> /\ Head(acts) \in Buys(acts) /\ Head(acts).type = "PlaceBuy"
        /\ UNCHANGED <<now, mode, ids>>
    BY <1>1, RestList DEF DoPlaceBuy, Executes, Buys, Driven, Ready
  <2>2. Buys(acts') = {} /\ UNCHANGED cycle
    BY <1>1, OrderDoes DEF Driven, BuysFirst, WorkerStep, Steady
  <2>3. \A f \in inflight : f.kind # "Entry"
    BY <2>1 DEF Awaiting
  <2>4. CASE mode = "Paper"
    <3>1. /\ inflight' = inflight \cup {[kind |-> "Entry", token |-> NewToken(Head(acts).side)]}
          /\ UNCHANGED <<state, pending>>
      BY <1>1, <2>4 DEF DoPlaceBuy, Take
    <3>2. /\ state = Entering /\ Window(now) = cycle
          /\ NewToken(Head(acts).side) = [market |-> cycle, side |-> pending]
      <4>1. state.tag = "Entering" /\ Head(acts).side = pending
        BY <2>1 DEF BuysFirst, Ordered, Exposure
      <4>. QED BY <2>1, <2>4, <4>1 DEF Awaiting, NewToken, Slots, Driven, Ready, Shaped
    <3>. QED BY <2>1, <2>2, <2>3, <2>4, <3>1, <3>2 DEF Awaiting
  <2>5. CASE mode # "Paper"
    <3>1. UNCHANGED inflight
      BY <1>1, <2>5 DEF DoPlaceBuy
    <3>. QED BY <2>1, <2>2, <2>3, <3>1 DEF Awaiting
  <2>. QED BY <2>4, <2>5
<1>2. CASE EntryKind
  <2>1. /\ state = Watching /\ TimeLeft(now) >= NoEnter /\ open
        /\ UNCHANGED <<cycle, inflight, mode, now>>
    BY <1>2 DEF EntryKind, OrderingStep, CanEnter
  <2>2. \A f \in inflight' : f.kind # "Entry"
    BY <2>1 DEF Awaiting
  <2>3. Window(now) = cycle
    <3>1. /\ cycle \in Nat /\ now \in Nat /\ slotVal \in Int /\ Window(now) \in Nat
          /\ cycle <= slotVal /\ slotVal <= Window(now)
      BY <2>1, WindowBounds DEF Slots, Driven
    <3>2. now < (cycle + 1) * CycleLen
      <4> DEFINE end == (cycle + 1) * CycleLen
      <4>1. end \in Int /\ end - now >= NoEnter
        BY <2>1, <3>1, TimeAssumption DEF TimeLeft, CycleEnd
      <4> HIDE DEF end
      <4>2. now < end
        BY <3>1, <4>1, TimeAssumption
      <4>. QED BY <4>2 DEF end
    <3>. QED BY <3>1, <3>2, WindowBefore
  <2>. QED BY <2>1, <2>2, <2>3 DEF Awaiting
<1>3. CASE Restart
  BY <1>3, RestartDoes, ShortLists DEF Awaiting, Buys
<1>4. CASE PaperFillArm
  <2>1. PICK f \in inflight :
          /\ inflight' = inflight \ {f}
          /\ IF f.kind = "Entry" THEN TRUE
             ELSE \E sold, at : FinishCloseOrder(f, sold, at)
    BY <1>4 DEF PaperFillArm
  <2>2. /\ Buys(acts') = {} /\ UNCHANGED <<cycle, now, mode>>
    BY <1>4, PaperFillDoes DEF WorkerStep, Steady, BuysFirst, PaperFillArm
  <2>3. ASSUME NEW e \in inflight', e.kind = "Entry"
        PROVE  UNCHANGED <<state, pending>>
    <3>1. f.kind # "Entry" /\ state = Entering
      BY <2>1, <2>3 DEF Awaiting
    <3>2. ~HasPosition /\ f.reason \in Reasons
      BY <3>1 DEF HasPosition, PositionTags, ExitTags, Driven
    <3>. QED BY <2>1, <3>1, <3>2, CloseIgnored
  <2>. QED BY <2>1, <2>2, <2>3 DEF Awaiting
<1>5. CASE TickerBoundary \/ TickerOpen
  <2>1. acts = <<>> /\ Buys(acts) = {} /\ UNCHANGED <<inflight, now, mode>>
    BY <1>5, ShortLists DEF TickerBoundary, TickerOpen, Buys
  <2>2. Buys(acts') = {}
    <3>1. ~EntryKind
      BY <1>5 DEF EntryKind, OrderingStep, CanEnter, TickerBoundary, TickerOpen, OnCycleClose, vars
    <3>. QED BY <2>1, <3>1, NextBuysFirst
  <2>3. ASSUME NEW f \in inflight, f.kind = "Entry"
        PROVE  UNCHANGED <<state, pending, cycle>>
    <3>1. state = Entering /\ Window(now) = cycle
      BY <2>3 DEF Awaiting
    <3>2. HasOpenPosition /\ arm # "opening" /\ slotVal = Window(now)
      BY <3>1, WindowBounds DEF HasOpenPosition, InOpenMarket, Slots, Driven
    <3>. QED BY <1>5, <3>2 DEF TickerBoundary, TickerOpen, vars
  <2>. QED BY <2>1, <2>2, <2>3 DEF Awaiting
<1>6. CASE ~DoPlaceBuy /\ ~EntryKind /\ ~Restart /\ ~PaperFillArm /\ ~TickerBoundary /\ ~TickerOpen
  <2>1. /\ UNCHANGED <<slotVal, cycle, mode>> /\ (Advance \/ UNCHANGED now)
        /\ Buys(acts') = {} \/ UNCHANGED <<state, pending, acts>>
    BY <1>6, SlotKept, NextBuysFirst
  <2>2. \A f \in inflight' : f \in inflight \/ (f.kind # "Entry" /\ mode = "Paper")
    <3>1. CASE DoClosePosition
      BY <3>1 DEF DoClosePosition
    <3>2. CASE ~DoClosePosition
      BY <1>6, <3>2
      DEF DriverNext, Advance, BinanceArm, PolyArm, PaperRestingFill, PolyStep, TickerReevaluate,
          Execute, DoPersist, DoLogTrade, DoNotify, DoPlaceLimitBuy, DoPlaceLimitSell, DoCancel,
          ApiResultArm, ApplyControl, ApplyBalanceHalt, ExchangeFill, allVars, driverVars
    <3>. QED BY <3>1, <3>2
  <2>3. ASSUME NEW f \in inflight, f.kind = "Entry"
        PROVE  /\ UNCHANGED <<state, pending, now>>
               /\ Buys(acts') = {}
    <3>1. state = Entering /\ Window(now) = cycle /\ Buys(acts) = {}
      BY <2>3 DEF Awaiting
    <3>2. HasOpenPosition /\ arm # "opening" /\ slotVal = Window(now)
      BY <3>1, WindowBounds DEF HasOpenPosition, InOpenMarket, Slots, Driven
    <3>3. ~Advance
      BY <2>3 DEF Advance
    <3>. QED BY <1>6, <2>1, <3>1, <3>2, <3>3, EnteringStays
  <2>4. Buys(acts') # {} /\ mode = "Paper" => Buys(acts) # {} /\ UNCHANGED now
    <3> SUFFICES ASSUME Buys(acts') # {}, mode = "Paper" PROVE Buys(acts) # {} /\ UNCHANGED now
      OBVIOUS
    <3>1. Buys(acts) # {}
      BY <2>1
    <3>2. acts # <<>>
      BY <3>1, ShortLists DEF Buys
    <3>. QED BY <2>1, <3>1, <3>2 DEF Advance
  <2>. QED BY <2>1, <2>2, <2>3, <2>4 DEF Awaiting
<1>. QED BY <1>1, <1>2, <1>3, <1>4, <1>5, <1>6

(* A paper entry is answered while the worker waits for it, and in the     *)
(* window it was ordered in: a worker that may not enter in the last       *)
(* moment of a window cannot be overtaken by the boundary, and no answer   *)
(* to another order, tick or fill takes it out of the waiting state.       *)
THEOREM AnswersAwaited == NoEnter >= 1 => (DriverSpec => []EntryAnswerAwaited)
<1> SUFFICES ASSUME NoEnter >= 1 PROVE DriverSpec => []EntryAnswerAwaited
  OBVIOUS
<1>1. DriverInit => Awaiting
  BY ShortLists DEF DriverInit, Init, Awaiting, Buys
<1>2. Driven /\ BuysFirst /\ Slots /\ InOpenMarket /\ Awaiting /\ [DriverNext]_allVars => Awaiting'
  BY NextAwaiting
<1>3. Awaiting => EntryAnswerAwaited
  BY DEF Awaiting, EntryAnswerAwaited
<1>. QED BY <1>1, <1>2, <1>3, BuysInvariant, DrivenInvariant, PTL DEF DriverSpec

-----------------------------------------------------------------------------
(* Orders to sell.                                                         *)

(* One at most is on the list, first or behind the cancel of a resting one,*)
(* and sells what is held.                                                 *)
InExit(c)  == state.tag = ExitTag(c.reason) /\ c.shares = state.h.shares
Offered(a) == /\ state.tag = "Holding" /\ a.shares = state.h.shares
              /\ a.price = TpPriceFor(state.h.token_price)
OneSale == \/ Sales(Rest) = {}
           \/ /\ acts # <<>> /\ Head(acts).type = "CancelLimitSell"
              /\ Sales(Tail(Rest)) = {} /\ Rest # <<>>
SaleFits == /\ OneSale
            /\ \A a \in Sales(acts) : IF a.type = "ClosePosition" THEN InExit(a) ELSE Offered(a)

(* An action in front of a list.                                           *)
LEMMA Cons ==
    ASSUME NEW a, NEW s, IsList(s)
    PROVE  /\ <<a>> \o s # <<>> /\ Head(<<a>> \o s) = a /\ Tail(<<a>> \o s) = s
<1> DEFINE S == {a} \cup Listed(s)
           u == <<a>> \o s
<1>1. <<a>> \in Seq(S) /\ s \in Seq(S) /\ Len(<<a>>) = 1
  BY SeqMonotonic DEF IsList
<1>2. /\ u \in Seq(S) /\ Len(u) = 1 + Len(s) /\ Len(s) \in Nat
      /\ \A i \in 1 .. 1 + Len(s) : u[i] = IF i <= 1 THEN <<a>>[i] ELSE s[i - 1]
  BY <1>1, ConcatProperties, LenProperties
<1> HIDE DEF u, S
<1>3. u # <<>> /\ Head(u) = a
  BY <1>2, EmptySeq, HeadTailProperties
<1>4. /\ Tail(u) \in Seq(S) /\ Len(Tail(u)) = Len(s)
      /\ \A i \in 1 .. Len(s) : Tail(u)[i] = u[i + 1]
  BY <1>2, <1>3, HeadTailProperties
<1>5. \A i \in 1 .. Len(s) : Tail(u)[i] = s[i]
  <2> SUFFICES ASSUME NEW i \in 1 .. Len(s) PROVE Tail(u)[i] = s[i]
    OBVIOUS
  <2>1. i + 1 \in 1 .. 1 + Len(s) /\ ~(i + 1 <= 1) /\ (i + 1) - 1 = i
    BY <1>2
  <2>. QED BY <1>2, <1>4, <2>1
<1>6. Tail(u) = s
  BY <1>1, <1>4, <1>5, SeqEqual
<1>. QED BY <1>3, <1>6 DEF u

(* Two actions in front of a list.                                         *)
LEMMA ConsTwo ==
    ASSUME NEW a, NEW b, NEW s, IsList(s)
    PROVE  <<a, b>> \o s = <<a>> \o (<<b>> \o s)
<1> DEFINE S == {a, b} \cup Listed(s)
<1>1. <<a>> \in Seq(S) /\ <<b>> \in Seq(S) /\ s \in Seq(S)
  BY SeqMonotonic DEF IsList
<1> HIDE DEF S
<1>2. (<<a>> \o <<b>>) \o s = <<a>> \o (<<b>> \o s)
  BY <1>1, ConcatAssociative
<1>3. <<a>> \o <<b>> = <<a, b>>
  BY ShortConcats
<1>. QED BY <1>2, <1>3

(* Three.                                                                  *)
LEMMA ConsThree ==
    ASSUME NEW a, NEW b, NEW c, NEW s, IsList(s)
    PROVE  <<a, b, c>> \o s = <<a>> \o (<<b, c>> \o s)
<1> DEFINE S == {a, b, c} \cup Listed(s)
<1>1. <<a>> \in Seq(S) /\ <<b, c>> \in Seq(S) /\ s \in Seq(S)
  BY SeqMonotonic DEF IsList
<1> HIDE DEF S
<1>. QED BY <1>1, ConcatAssociative, ShortConcats

(* While a list is executed nothing else happens to the worker.            *)
LEMMA BusyStep ==
    ASSUME acts # <<>>, [DriverNext]_allVars
    PROVE  UNCHANGED vars \/ Execute \/ Restart
BY DEF DriverNext, Advance, BinanceArm, PolyArm, PaperRestingFill, PolyStep, TickerReevaluate,
       TickerBoundary, TickerOpen, PaperFillArm, ApiResultArm, ApplyControl, ApplyBalanceHalt,
       ExchangeFill, InLoop, allVars

(* What a step does to the orders to sell.                                 *)
LEMMA SaleSteps ==
    ASSUME Driven, OneSale, [DriverNext]_allVars
    PROVE  \/ UNCHANGED <<state, acts>>
           \/ DoCancel /\ UNCHANGED state /\ acts' = Rest /\ acts # <<>>
           \/ Sales(acts') = {}
           \/ Sales(Rest) = {} /\ (Decides \/ Offers)
<1>1. CASE Sales(Rest) # {}
  <2>1. acts # <<>> /\ Head(acts).type = "CancelLimitSell"
    BY <1>1 DEF OneSale
  <2>2. CASE Execute
    <3>1. DoCancel
      BY <2>1, <2>2 DEF Execute, DoPersist, DoLogTrade, DoNotify, Notices, DoPlaceBuy, DoPlaceLimitBuy,
                        DoPlaceLimitSell, DoClosePosition, Executes
    <3>. QED BY <2>1, <3>1 DEF DoCancel, Take, Rest
  <2>3. CASE Restart
    BY <2>3, RestartDoes, ShortLists DEF Sales
  <2>. QED BY <2>1, <2>2, <2>3, BusyStep DEF vars
<1>2. CASE Sales(Rest) = {}
  <2>1. CASE EntryKind
    BY <1>2, <2>1, EntryList DEF EntryKind
  <2>2. CASE Restart
    BY <1>2, <2>2, RestartDoes, ShortLists DEF Sales
  <2>3. CASE ~EntryKind /\ ~Restart
    BY <1>2, <2>3, StepKinds
    DEF IdleKind, WorkerKind, OpenKind, VerdictKind, CommandKind, FileKind, WorkerStep, Sells,
        OpenStep, VerdictStep, CommandStep, vars
  <2>. QED BY <2>1, <2>2, <2>3
<1>. QED BY <1>1, <1>2

(* Every step keeps orders to sell the worker's own.                       *)
LEMMA NextSaleFits ==
    ASSUME Driven, SaleFits, [DriverNext]_allVars
    PROVE  SaleFits'
<1>1. /\ IsList(Rest) /\ IsList(acts') /\ IsList(<<Persist>> \o Rest)
      /\ Listed(<<Persist>> \o Rest) = {Persist} \cup Listed(Rest)
  BY NextDriven, RestList, ShortLists, ListConcat DEF Driven, Ready
<1>2. Sales(Rest') \subseteq Sales(acts')
  BY <1>1, RestAfter DEF Sales
<1>3. CASE UNCHANGED <<state, acts>>
  BY <1>3 DEF SaleFits, OneSale, Rest, InExit, Offered
<1>4. CASE DoCancel /\ UNCHANGED state /\ acts' = Rest /\ acts # <<>>
  <2>1. Sales(acts') \subseteq Sales(acts)
    BY <1>4, RestList DEF Driven, Ready, Sales
  <2>2. Sales(Rest') = {}
    <3>1. CASE Sales(Rest) = {}
      BY <1>2, <1>4, <3>1
    <3>2. CASE Sales(Tail(Rest)) = {} /\ Rest # <<>>
      BY <1>4, <3>2 DEF Rest
    <3>. QED BY <3>1, <3>2 DEF SaleFits, OneSale
  <2>. QED BY <1>4, <2>1, <2>2 DEF SaleFits, OneSale, InExit, Offered
<1>5. CASE Sales(acts') = {}
  BY <1>2, <1>5 DEF SaleFits, OneSale
<1>6. CASE Sales(Rest) = {} /\ Decides
  <2>1. PICK c, x :
          /\ c.type = "ClosePosition" /\ c.reason \in Reasons /\ c.shares = state.h.shares
          /\ state' = Exiting(ExitTag(c.reason), state.h)
          /\ \/ acts' = <<c, Persist>> \o Rest
             \/ x.type = "CancelLimitSell" /\ acts' = <<x, c, Persist>> \o Rest
    BY <1>6 DEF Decides
  <2>2. InExit(c)'
    BY <2>1 DEF InExit, Exiting
  <2>3. /\ Sales(<<Persist>> \o Rest) = {}
        /\ <<c, Persist>> \o Rest = <<c>> \o (<<Persist>> \o Rest)
        /\ IsList(<<c, Persist>> \o Rest)
        /\ Listed(<<c, Persist>> \o Rest) = {c, Persist} \cup Listed(Rest)
    BY <1>1, <1>6, NewActions, ShortLists, ListConcat, ConsTwo DEF Sales
  <2>4. CASE acts' = <<c, Persist>> \o Rest
    <3>1. acts' # <<>> /\ Tail(acts') = <<Persist>> \o Rest
      <4> DEFINE tail == <<Persist>> \o Rest
      <4>1. acts' = <<c>> \o tail /\ IsList(tail)
        BY <1>1, <2>3, <2>4
      <4> HIDE DEF tail
      <4>2. acts' # <<>> /\ Tail(acts') = tail
        BY <4>1, Cons
      <4>. QED BY <4>2 DEF tail
    <3>2. Sales(Rest') = {}
      BY <2>3, <3>1 DEF Rest
    <3>3. Sales(acts') \subseteq {c}
      BY <1>6, <2>3, <2>4, NewActions DEF Sales
    <3>. QED BY <2>1, <2>2, <3>2, <3>3 DEF SaleFits, OneSale
  <2>5. CASE x.type = "CancelLimitSell" /\ acts' = <<x, c, Persist>> \o Rest
    <3> DEFINE tail == <<c, Persist>> \o Rest
    <3>1. acts' = <<x>> \o tail
      <4>1. IsList(Rest)
        BY <1>1
      <4>2. <<x, c, Persist>> \o Rest = <<x>> \o (<<c, Persist>> \o Rest)
        BY <4>1, ConsThree
      <4>. QED BY <2>5, <4>2
    <3>2. acts' # <<>> /\ Head(acts') = x /\ Tail(acts') = tail
      BY <2>3, <3>1, Cons
    <3>3. tail # <<>> /\ Tail(tail) = <<Persist>> \o Rest
      BY <1>1, <2>3, Cons
    <3>4. Listed(acts') = {x} \cup Listed(tail)
      BY <2>3, <3>1, ShortLists, ListConcat
    <3> HIDE DEF tail
    <3>5. Rest' = tail
      BY <3>2 DEF Rest
    <3>6. OneSale'
      BY <2>3, <2>5, <3>2, <3>3, <3>5 DEF OneSale
    <3>7. Sales(acts') \subseteq {c}
      BY <1>6, <2>3, <2>5, <3>4, NewActions DEF Sales, tail
    <3>. QED BY <2>1, <2>2, <3>6, <3>7 DEF SaleFits
  <2>. QED BY <2>1, <2>4, <2>5
<1>7. CASE Sales(Rest) = {} /\ Offers
  <2>1. PICK a :
          /\ a.type = "PlaceLimitSell" /\ state'.tag = "Holding"
          /\ a.shares = state'.h.shares /\ a.price = TpPriceFor(state'.h.token_price)
          /\ acts' = <<a, Persist>> \o Rest
    BY <1>7 DEF Offers
  <2>2. Offered(a)'
    BY <2>1 DEF Offered
  <2>3. /\ Sales(<<Persist>> \o Rest) = {}
        /\ acts' = <<a>> \o (<<Persist>> \o Rest)
        /\ Listed(acts') = {a, Persist} \cup Listed(Rest)
    <3>1. Sales(<<Persist>> \o Rest) = {}
      BY <1>1, <1>7, NewActions DEF Sales
    <3>2. <<a, Persist>> \o Rest = <<a>> \o (<<Persist>> \o Rest)
      BY <1>1, ConsTwo
    <3>3. Listed(<<a, Persist>> \o Rest) = {a, Persist} \cup Listed(Rest)
      BY <1>1, ShortLists, ListConcat
    <3>. QED BY <2>1, <3>1, <3>2, <3>3
  <2>4. acts' # <<>> /\ Tail(acts') = <<Persist>> \o Rest
    BY <1>1, <2>3, Cons
  <2>5. Sales(Rest') = {}
    BY <2>3, <2>4 DEF Rest
  <2>6. Sales(acts') \subseteq {a}
    BY <1>7, <2>3, NewActions DEF Sales
  <2>. QED BY <2>1, <2>2, <2>5, <2>6 DEF SaleFits, OneSale
<1>. QED BY <1>3, <1>4, <1>5, <1>6, <1>7, SaleSteps DEF SaleFits

-----------------------------------------------------------------------------
(* The token the driver sells.                                             *)

(* It is the one the slot is exposed to, and a close still to be answered  *)
(* is the worker's last one, for all it holds, unless the boundary has     *)
(* settled the position.                                                   *)
Deferred == {f \in inflight : f.kind # "Entry"}
TokenHeld == /\ HasOpenPosition /\ Buys(acts) = {} => token = [market |-> cycle, side |-> Exposure]
             /\ token = NoToken \/ token.market \in Nat
Numbered == \A o \in book : o.id # NoOrder
DeferredFits ==
    /\ \A f \in Deferred : AwaitsVerdict \/ InExit(f)
    /\ \A f, g \in Deferred : f = g
    /\ Deferred # {} => \A a \in Sales(acts) : a.type # "ClosePosition"
TokenFits == TokenHeld /\ Numbered /\ DeferredFits

(* A worker on its way out stays there until the answer, or the boundary.  *)
LEMMA ExitStays ==
    ASSUME Driven, InOpenMarket, TokenFits, Deferred # {}, [DriverNext]_allVars,
           ~PaperFillArm, ~Restart
    PROVE  UNCHANGED state \/ AwaitsVerdict'
<1>1. /\ state.tag \in ExitTags \cup {"Confirming", "EnrichOnly"}
      /\ inflight # {} /\ mode # "Real"
  <2>1. PICK f \in Deferred : AwaitsVerdict \/ InExit(f)
    BY DEF TokenFits, DeferredFits
  <2>2. f \in inflight /\ f.reason \in Reasons
    BY <2>1 DEF Deferred, Driven
  <2>. QED BY <2>1, <2>2 DEF AwaitsVerdict, InExit, ExitTag, Reasons, ExitTags, Driven
<1>2. /\ state # Watching /\ state.tag \notin {"Watching", "Entering", "EnteringMaker", "Holding"}
      /\ HasPosition \/ AwaitsVerdict
  BY <1>1 DEF HasPosition, PositionTags, ExitTags, AwaitsVerdict
<1>3. CASE Advance \/ PolyArm \/ ExchangeFill \/ UNCHANGED allVars
  BY <1>3 DEF Advance, PolyArm, ExchangeFill, allVars, vars
<1>4. CASE BinanceArm \/ PolyStep
  <2>1. \A t : TryEnter(t) => UNCHANGED state
    BY <1>2 DEF TryEnter, CanEnter, Pass
  <2>2. UNCHANGED vars \/ TryEnter(now)
    BY <1>2, <1>4 DEF BinanceArm, PolyStep, OnBinance, OnPoly
  <2>. QED BY <2>1, <2>2 DEF vars
<1>5. CASE PaperRestingFill
  <2>1. EntryRestingId = NoOrder /\ ExitRestingId = NoOrder
    BY <1>2 DEF EntryRestingId, ExitRestingId
  <2>. QED BY <1>5, <2>1 DEF PaperRestingFill, TokenFits, Numbered, vars
<1>6. CASE TickerReevaluate
  BY <1>2, <1>6 DEF TickerReevaluate, ShouldReevaluate, vars
<1>7. CASE TickerBoundary
  <2>1. CASE OnCycleClose
    BY <1>2, <2>1 DEF OnCycleClose, CloseOut, AwaitsVerdict, Confirming
  <2>. QED BY <1>7, <2>1 DEF TickerBoundary, vars
<1>8. CASE TickerOpen
  <2>1. AwaitsVerdict
    BY <1>2, <1>8 DEF TickerOpen, InOpenMarket, HasPosition, HasOpenPosition
  <2>. QED BY <1>8, <2>1 DEF TickerOpen, OnCycleOpen, vars
<1>9. CASE DoPersist \/ DoLogTrade \/ DoNotify \/ DoCancel
  BY <1>9 DEF DoPersist, DoLogTrade, DoNotify, DoCancel, Take
<1>10. CASE DoPlaceBuy
  <2>1. state # Entering
    BY <1>2 DEF Entering
  <2>2. Take \/ \E acc, n, cost : FinishEntryOrder(acc, n, cost)
    BY <1>10 DEF DoPlaceBuy
  <2>. QED BY <2>1, <2>2 DEF FinishEntryOrder, OnOrderFilled, OnOrderRejected, Take
<1>11. CASE DoPlaceLimitBuy \/ DoPlaceLimitSell
  BY <1>2, <1>11 DEF DoPlaceLimitBuy, DoPlaceLimitSell, OnLimitBuyPlaced, OnLimitSellPlaced, Ignore, Take
<1>12. CASE DoClosePosition
  BY <1>1, <1>12 DEF DoClosePosition, Take
<1>13. CASE ApiResultArm
  BY <1>1, <1>13 DEF ApiResultArm
<1>14. CASE ApplyControl \/ ApplyBalanceHalt
  BY <1>14 DEF ApplyControl, ApplyBalanceHalt, ControlEffect, BalanceEffect
<1>. QED BY <1>3, <1>4, <1>5, <1>6, <1>7, <1>8, <1>9, <1>10, <1>11, <1>12, <1>13, <1>14
         DEF DriverNext, Execute

(* A close of all that is held ends the position.                          *)
LEMMA FullCloseEnds ==
    ASSUME Driven, NEW c, AwaitsVerdict \/ InExit(c), c.reason \in Reasons, c.shares \in Int,
           NEW sold \in Int, NEW at \in Int, sold > 0, sold >= c.shares,
           FinishCloseOrder(c, sold, at)
    PROVE  ~HasOpenPosition'
<1>1. CASE AwaitsVerdict
  <2>1. ~HasPosition
    BY <1>1 DEF AwaitsVerdict, HasPosition, PositionTags, ExitTags
  <2>2. UNCHANGED state
    BY <2>1, CloseIgnored
  <2>. QED BY <1>1, <2>2 DEF AwaitsVerdict, HasOpenPosition, PositionTags, ExitTags
<1>2. CASE InExit(c)
  <2>1. \E outcome : FinalizeOrHoldResidual(state.h, sold, at, outcome)
    BY <1>2 DEF FinishCloseOrder, CloseFilled, OnUnwindFilled, OnStopSellFilled, OnTimeoutSellFilled,
                InExit, ExitTag, Reasons
  <2>2. IsPosition(state.h) /\ state.h.shares = c.shares
    BY <1>2 DEF InExit, ExitTag, Reasons, HasPosition, PositionTags, ExitTags, Driven, Ready, Shaped
  <2>3. \A p, f : ~Sellable([state.h EXCEPT !.shares = @ - sold, !.realized_pnl = p, !.fees = f].shares)
    BY <2>2, SharesAssumption DEF IsPosition, PositionFields, Sellable
  <2>4. \E rec : state' = EnrichOnly(rec)
    BY <2>1, <2>3 DEF FinalizeOrHoldResidual, CloseOut
  <2>. QED BY <2>4 DEF EnrichOnly, HasOpenPosition, PositionTags, ExitTags
<1>. QED BY <1>1, <1>2

(* A step that places no buy finds none on the list, or leaves it alone.   *)
LEMMA NoBuyWaits ==
    ASSUME Driven, BuysFirst, [DriverNext]_allVars, ~DoPlaceBuy, ~DoPlaceLimitBuy, ~Restart
    PROVE  Buys(acts) = {} \/ UNCHANGED vars
<1> SUFFICES ASSUME Buys(acts) # {}, ~UNCHANGED vars PROVE FALSE
  OBVIOUS
<1>1. acts # <<>> /\ Head(acts).type \in {"PlaceBuy", "PlaceLimitBuy"}
  BY RestList DEF BuysFirst, Buys, Driven, Ready
<1>2. Execute
  BY <1>1, BusyStep
<1>3. DoPersist \/ DoLogTrade \/ DoNotify \/ DoPlaceLimitSell \/ DoClosePosition \/ DoCancel
  BY <1>2 DEF Execute
<1>. QED BY <1>1, <1>3 DEF DoPersist, DoLogTrade, DoNotify, DoPlaceLimitSell, DoClosePosition, DoCancel,
                           Executes, Notices

(* The steps that leave the token and the deferred orders alone.           *)
LEMMA TokenSteps ==
    ASSUME [DriverNext]_allVars, ~DoPlaceBuy, ~DoPlaceLimitBuy, ~DoClosePosition,
           ~PaperFillArm, ~Restart
    PROVE  UNCHANGED <<token, inflight>>
BY DEF DriverNext, Advance, BinanceArm, PolyArm, PaperRestingFill, PolyStep, TickerReevaluate,
       TickerBoundary, TickerOpen, Execute, DoPersist, DoLogTrade, DoNotify, DoPlaceLimitSell, DoCancel,
       ApiResultArm, ApplyControl, ApplyBalanceHalt, ExchangeFill, allVars, driverVars

(* A close at the head of the list is of all that the worker holds.        *)
LEMMA CloseAtHead ==
    ASSUME Driven, SaleFits, DoClosePosition
    PROVE  /\ acts # <<>> /\ Head(acts) \in Sales(acts) /\ Head(acts).type = "ClosePosition"
           /\ InExit(Head(acts)) /\ Head(acts).shares \in Int /\ Head(acts).reason \in Reasons
           /\ Sales(Rest) = {}
<1>1. acts # <<>> /\ Head(acts).type = "ClosePosition" /\ Head(acts) \in Listed(acts)
  BY RestList DEF DoClosePosition, Executes, Driven, Ready
<1>. QED BY <1>1 DEF SaleFits, OneSale, Sales, Driven, Ready, Formed

(* A position that is not added to keeps its token.                        *)
LEMMA TokenStays ==
    ASSUME TokenHeld, Buys(acts) = {},
           UNCHANGED cycle, UNCHANGED token \/ (token' = NoToken /\ ~HasOpenPosition'),
           HasOpenPosition' => HasOpenPosition /\ UNCHANGED Exposure
    PROVE  TokenHeld'
BY DEF TokenHeld

(* Every step keeps the token of what is held.                             *)
LEMMA NextTokenHeld ==
    ASSUME Driven, BuysFirst, Slots, InOpenMarket, SaleFits, TokenFits, [DriverNext]_allVars
    PROVE  TokenHeld'
<1>0. TokenHeld
  BY DEF TokenFits
<1>1. CASE DoPlaceBuy \/ DoPlaceLimitBuy
  <2>1. /\ Head(acts) \in Buys(acts) /\ token' = [market |-> ids, side |-> Head(acts).side]
    BY <1>1, RestList DEF DoPlaceBuy, DoPlaceLimitBuy, Executes, Buys, Driven, Ready, NewToken
  <2>2. Ordered(Head(acts))
    BY <2>1 DEF BuysFirst
  <2>3. HasOpenPosition
    BY <2>2 DEF Ordered, HasOpenPosition
  <2>4. ids = cycle /\ cycle \in Nat
    BY <2>3 DEF InOpenMarket, Slots
  <2>5. UNCHANGED cycle /\ (HasOpenPosition' => UNCHANGED Exposure)
    BY <1>1, OrderDoes DEF Driven, WorkerStep, Steady
  <2>. QED BY <2>1, <2>2, <2>4, <2>5 DEF Ordered, TokenHeld
<1>2. CASE UNCHANGED vars /\ UNCHANGED token
  <2>1. UNCHANGED <<state, pending, acts, cycle>>
    BY <1>2 DEF vars
  <2>2. UNCHANGED <<HasOpenPosition, Exposure, Buys(acts)>>
    BY <2>1 DEF HasOpenPosition, Exposure, HasPosition, Buys, Listed
  <2>. QED BY <1>0, <1>2, <2>1, <2>2 DEF TokenHeld
<1>3. CASE DoClosePosition
  <2>1. Buys(acts) = {}
    BY <1>3, CloseAtHead, RestList DEF BuysFirst, Buys, Driven, Ready
  <2>2. UNCHANGED cycle /\ (HasOpenPosition' => HasOpenPosition /\ UNCHANGED Exposure)
    BY <1>3, OrderDoes DEF Driven, WorkerStep, Steady
  <2>3. UNCHANGED token \/ \E sold \in ShareCounts, at \in Prices : FinishCloseOrder(Head(acts), sold, at)
    BY <1>3 DEF DoClosePosition
  <2>4. UNCHANGED token \/ (token' = NoToken /\ ~HasOpenPosition')
    <3>1. CASE \E sold \in ShareCounts, at \in Prices : FinishCloseOrder(Head(acts), sold, at)
      <4>1. PICK sold \in ShareCounts, at \in Prices : FinishCloseOrder(Head(acts), sold, at)
        BY <3>1
      <4>2. sold \in Int /\ at \in Int
        BY SharesAssumption, PricesAssumption
      <4>3. UNCHANGED token \/ (token' = NoToken /\ sold > 0 /\ sold >= Head(acts).shares)
        BY <4>1 DEF FinishCloseOrder, TokenAfterClose
      <4>4. InExit(Head(acts)) /\ Head(acts).shares \in Int /\ Head(acts).reason \in Reasons
        BY <1>3, CloseAtHead
      <4>. QED BY <4>1, <4>2, <4>3, <4>4, FullCloseEnds
    <3>. QED BY <2>3, <3>1
  <2>. QED BY <2>1, <2>2, <2>4, TokenStays, <1>0
<1>4. CASE PaperFillArm
  <2>1. Buys(acts) = {}
    BY <1>4, ShortLists DEF PaperFillArm, InLoop, Buys
  <2>2. UNCHANGED cycle /\ (HasOpenPosition' => HasOpenPosition /\ UNCHANGED Exposure)
    BY <1>4, PaperFillDoes DEF WorkerStep, Steady
  <2>3. UNCHANGED token \/ (token' = NoToken /\ ~HasOpenPosition')
    <3>1. PICK f \in inflight :
             \/ UNCHANGED token
             \/ f.kind # "Entry" /\ \E at \in Prices : FinishCloseOrder(f, f.shares, at)
      BY <1>4, SMT DEF PaperFillArm, FinishCloseOrder
    <3>2. ASSUME f.kind # "Entry", NEW at \in Prices, FinishCloseOrder(f, f.shares, at)
          PROVE  UNCHANGED token \/ (token' = NoToken /\ ~HasOpenPosition')
      <4>1. /\ AwaitsVerdict \/ InExit(f)
            /\ f.shares \in Int /\ f.reason \in Reasons /\ at \in Int
        BY <3>2, PricesAssumption DEF TokenFits, DeferredFits, Deferred, Driven
      <4>2. UNCHANGED token \/ (token' = NoToken /\ f.shares > 0)
        BY <3>2 DEF FinishCloseOrder, TokenAfterClose
      <4>. QED BY <3>2, <4>1, <4>2, FullCloseEnds
    <3>. QED BY <3>1, <3>2
  <2>. QED BY <2>1, <2>2, <2>3, TokenStays, <1>0
<1>5. CASE Restart
  <2>1. ~HasOpenPosition' /\ token' = NoToken
    BY <1>5 DEF Restart, HasOpenPosition, Watching, PositionTags, ExitTags
  <2>. QED BY <2>1 DEF TokenHeld
<1>6. CASE /\ UNCHANGED token /\ ~DoPlaceBuy /\ ~DoPlaceLimitBuy /\ ~Restart /\ ~UNCHANGED vars
  <2>1. Buys(acts) = {}
    BY <1>6, NoBuyWaits
  <2>2. CASE EntryKind
    <3>1. Buys(acts') # {}
      BY <2>2, EntryList DEF EntryKind
    <3>. QED BY <1>0, <1>6, <3>1 DEF TokenHeld
  <2>3. CASE OpenKind
    <3>1. ~HasOpenPosition
      BY <2>3 DEF OpenKind, InOpenMarket
    <3>2. ~HasOpenPosition'
      BY <2>3, <3>1 DEF OpenKind, OpenStep, HasOpenPosition, Watching, PositionTags, ExitTags
    <3>. QED BY <1>0, <1>6, <3>2 DEF TokenHeld
  <2>4. CASE WorkerStep \/ VerdictKind \/ CommandKind
    <3>1. UNCHANGED cycle
      BY <2>4 DEF WorkerStep, Steady, VerdictKind, VerdictStep, CommandKind, CommandStep
    <3>2. HasOpenPosition' => HasOpenPosition /\ UNCHANGED Exposure
      <4>1. CASE WorkerStep
        BY <4>1 DEF WorkerStep, Steady
      <4>2. CASE UNCHANGED <<state, pending>>
        BY <4>2 DEF HasOpenPosition, Exposure, HasPosition
      <4>3. CASE state' = Watching
        BY <4>3 DEF HasOpenPosition, Watching, PositionTags, ExitTags
      <4>. QED BY <2>4, <4>1, <4>2, <4>3 DEF VerdictKind, VerdictStep, CommandKind, CommandStep
    <3>. QED BY <1>6, <2>1, <3>1, <3>2, TokenStays, <1>0
  <2>. QED BY <1>6, <2>2, <2>3, <2>4, StepKinds DEF IdleKind, WorkerKind, FileKind
<1>. QED BY <1>1, <1>2, <1>3, <1>4, <1>5, <1>6, TokenSteps

(* Resting orders have a number.                                           *)
LEMMA NextNumbered ==
    ASSUME Slots, TokenFits, InOpenMarket, BuysFirst, Driven, [DriverNext]_allVars
    PROVE  Numbered'
<1>1. CASE book' \subseteq book
  BY <1>1 DEF Numbered, TokenFits
<1>2. CASE DoPlaceLimitBuy
  <2>1. Head(acts) \in Buys(acts)
    BY <1>2, RestList DEF DoPlaceLimitBuy, Executes, Buys, Driven, Ready
  <2>2. HasOpenPosition
    BY <2>1 DEF BuysFirst, Ordered, HasOpenPosition
  <2>3. ids \in Nat
    BY <2>2 DEF InOpenMarket, Slots
  <2>4. QuoteId(ids) # NoOrder
    BY <2>3 DEF QuoteId, NoOrder
  <2>5. UNCHANGED book \/ \E k, t, n, p : book' = book \cup {Order(QuoteId(ids), k, t, n, p)}
    BY <1>2 DEF DoPlaceLimitBuy
  <2>. QED BY <2>4, <2>5 DEF Numbered, TokenFits, Order
<1>3. CASE DoPlaceLimitSell
  <2>1. \/ UNCHANGED book
        \/ token # NoToken
           /\ \E k, t, n, p : book' = book \cup {Order(ExitId(token.market), k, t, n, p)}
    BY <1>3 DEF DoPlaceLimitSell, SellFills
  <2>2. token # NoToken => ExitId(token.market) # NoOrder
    BY DEF ExitId, NoOrder, TokenFits, TokenHeld
  <2>. QED BY <2>1, <2>2 DEF Numbered, TokenFits, Order
<1>4. DoPlaceLimitBuy \/ DoPlaceLimitSell \/ book' \subseteq book
  BY DEF DriverNext, Advance, BinanceArm, PolyArm, PaperRestingFill, PolyStep, TickerReevaluate,
         TickerBoundary, TickerOpen, Execute, DoPersist, DoLogTrade, DoNotify, DoPlaceBuy,
         DoClosePosition, DoCancel, PaperFillArm, ApiResultArm, ApplyControl, ApplyBalanceHalt,
         ExchangeFill, Restart, Fills, allVars, driverVars
<1>. QED BY <1>1, <1>2, <1>3, <1>4

(* The close that is deferred stays the worker's.                          *)
LEMMA NextDeferred ==
    ASSUME Driven, InOpenMarket, SaleFits, TokenFits, [DriverNext]_allVars
    PROVE  DeferredFits'
<1>1. CASE Deferred' = {}
  BY <1>1 DEF DeferredFits
<1>2. CASE Deferred # {} /\ Deferred' = Deferred /\ (UNCHANGED state \/ AwaitsVerdict')
  <2>1. ~HasPosition \/ state.tag # "Holding"
    <3>1. PICK f \in Deferred : AwaitsVerdict \/ InExit(f)
      BY <1>2 DEF TokenFits, DeferredFits
    <3>2. f.reason \in Reasons
      BY <3>1 DEF Deferred, Driven
    <3>. QED BY <3>1, <3>2 DEF InExit, ExitTag, Reasons, AwaitsVerdict
  <2>2. state.tag # "Holding"
    BY <2>1 DEF HasPosition, PositionTags
  <2>3. ~Decides /\ ~Offers
    BY <1>2, <2>2 DEF Decides, Offers, AwaitsVerdict
  <2>4. UNCHANGED acts \/ (acts # <<>> /\ acts' = Rest) \/ Sales(acts') = {}
    BY <2>3, SaleSteps DEF SaleFits
  <2>5. Sales(acts') \subseteq Sales(acts)
    <3>1. acts # <<>> => Sales(Rest) \subseteq Sales(acts)
      BY RestList DEF Driven, Ready, Sales
    <3>2. UNCHANGED acts => Sales(acts') = Sales(acts)
      BY DEF Sales, Listed
    <3>3. acts' = Rest => Sales(acts') = Sales(Rest)
      BY DEF Sales, Listed
    <3>. QED BY <2>4, <3>1, <3>2, <3>3
  <2>6. \A f \in Deferred : (AwaitsVerdict \/ InExit(f)) => AwaitsVerdict' \/ InExit(f)'
    BY <1>2 DEF AwaitsVerdict, InExit
  <2>. QED BY <1>2, <2>5, <2>6 DEF TokenFits, DeferredFits
<1>3. CASE PaperFillArm
  <2>1. PICK f \in inflight :
           /\ inflight' = inflight \ {f}
           /\ f.kind = "Entry" => \E n, cost : FinishEntryOrder(account, n, cost)
    BY <1>3 DEF PaperFillArm
  <2>2. CASE f.kind = "Entry"
    <3>1. Deferred' = Deferred
      BY <2>1, <2>2 DEF Deferred
    <3>2. Deferred # {} => state # Entering
      BY DEF TokenFits, DeferredFits, AwaitsVerdict, InExit, ExitTag, Reasons, Deferred, Driven, Entering
    <3>3. Deferred # {} => UNCHANGED state
      BY <2>1, <2>2, <3>2 DEF FinishEntryOrder, OnOrderFilled, OnOrderRejected
    <3>. QED BY <1>1, <1>2, <3>1, <3>3
  <2>3. CASE f.kind # "Entry"
    <3>1. Deferred' = Deferred \ {f} /\ f \in Deferred
      BY <2>1, <2>3 DEF Deferred
    <3>. QED BY <1>1, <3>1 DEF TokenFits, DeferredFits
  <2>. QED BY <2>2, <2>3
<1>4. CASE DoClosePosition
  <2>1. CASE UNCHANGED inflight
    <3>1. Deferred = {}
      BY <1>4, CloseAtHead DEF TokenFits, DeferredFits
    <3>. QED BY <1>1, <2>1, <3>1 DEF Deferred
  <2>2. CASE ~UNCHANGED inflight
    <3> DEFINE c == Head(acts)
    <3>1. PICK f : /\ inflight' = inflight \cup {f}
                   /\ f.shares = c.shares /\ f.reason = c.reason /\ Take
      BY <1>4, <2>2 DEF DoClosePosition
    <3>2. Deferred = {} /\ InExit(c) /\ Sales(Rest) = {}
      BY <1>4, CloseAtHead DEF TokenFits, DeferredFits
    <3>3. Deferred' \subseteq {f}
      BY <3>1, <3>2 DEF Deferred
    <3>4. UNCHANGED state /\ acts' = Rest
      BY <3>1 DEF Take, Rest
    <3>5. InExit(f)'
      BY <3>1, <3>2, <3>4 DEF InExit
    <3>6. Sales(acts') = {}
      BY <3>2, <3>4 DEF Sales, Listed
    <3>. QED BY <3>3, <3>5, <3>6 DEF DeferredFits
  <2>. QED BY <2>1, <2>2
<1>5. CASE Restart
  BY <1>1, <1>5 DEF Restart, Deferred
<1>6. CASE ~PaperFillArm /\ ~DoClosePosition /\ ~Restart
  <2>1. Deferred' = Deferred
    <3>1. CASE DoPlaceBuy \/ DoPlaceLimitBuy
      <4>1. UNCHANGED inflight \/ \E t : inflight' = inflight \cup {[kind |-> "Entry", token |-> t]}
        BY <3>1 DEF DoPlaceBuy, DoPlaceLimitBuy
      <4>. QED BY <4>1 DEF Deferred
    <3>. QED BY <1>6, <3>1, TokenSteps DEF Deferred
  <2>. QED BY <1>1, <1>2, <1>6, <2>1, ExitStays
<1>. QED BY <1>3, <1>4, <1>5, <1>6

(* The driver sells the token the held position is in.                     *)
THEOREM SellsWhatIsHeld == DriverSpec => []TokenMatchesPosition
<1>1. DriverInit => SaleFits /\ TokenFits
  <2> SUFFICES ASSUME DriverInit PROVE SaleFits /\ TokenFits
    OBVIOUS
  <2>1. /\ acts = <<>> /\ state = Watching /\ inflight = {} /\ book = {} /\ token = NoToken
    BY DEF DriverInit, Init
  <2>2. Sales(acts) = {} /\ Sales(Rest) = {}
    BY <2>1, ShortLists DEF Sales, Rest
  <2>3. ~HasOpenPosition /\ Deferred = {}
    BY <2>1 DEF HasOpenPosition, PositionTags, ExitTags, Deferred, Watching
  <2>. QED BY <2>1, <2>2, <2>3 DEF SaleFits, OneSale, TokenFits, TokenHeld, Numbered, DeferredFits
<1>2. Driven /\ BuysFirst /\ Slots /\ InOpenMarket /\ SaleFits /\ TokenFits /\ [DriverNext]_allVars
        => SaleFits' /\ TokenFits'
  BY NextSaleFits, NextTokenHeld, NextNumbered, NextDeferred DEF TokenFits
<1>3. BuysFirst /\ TokenFits => TokenMatchesPosition
  <2> SUFFICES ASSUME BuysFirst, TokenFits, HasPosition
               PROVE  token = [market |-> cycle, side |-> state.h.side]
    BY DEF TokenMatchesPosition
  <2>1. state.tag \notin {"Entering", "EnteringMaker"} /\ HasOpenPosition
    BY DEF HasPosition, HasOpenPosition, PositionTags, ExitTags
  <2>2. Buys(acts) = {} /\ Exposure = state.h.side
    BY <2>1 DEF BuysFirst, Ordered, Exposure
  <2>. QED BY <2>1, <2>2 DEF TokenFits, TokenHeld
<1>. QED BY <1>1, <1>2, <1>3, BuysInvariant, DrivenInvariant, PTL DEF DriverSpec

-----------------------------------------------------------------------------
(* The results of the trades.                                              *)

(* A position's account so far, what it is worth being left aside.         *)
Money(h) == h.realized_pnl - h.fees - h.shares * h.token_price
Traded == HasPosition => account.shares = state.h.shares /\ account.cash = Money(state.h)
Booked == \A a \in Logs(acts) : a.rec.pnl = AccountResult(a.rec)
QuoteListed == \A a \in Buys(acts) : a.type = "PlaceLimitBuy" =>
                  a.shares = MinGtc /\ a.price = state.q.quote_price
Accounted == Traded /\ Booked /\ QuoteListed

InRealMode == mode = "Real"

(* What a handler sees to: the account is the position's, and the result   *)
(* of one that it closes is the account's.                                 *)
Accounts == /\ Traded'
            /\ HasPosition /\ AwaitsVerdict' => state'.rec.pnl = AccountResult(state.rec)'

(* A result leaves the cash and what the shares that are left pay.         *)
LEMMA SettledPnl ==
    ASSUME NEW h, IsPosition(h), NEW x \in Int
    PROVE  SettlePnl(h, x) = Money(h) + h.shares * x
<1> DEFINE n == h.shares
           t == h.token_price
<1>1. n \in Int /\ t \in Int /\ h.realized_pnl \in Int /\ h.fees \in Int
  BY DEF IsPosition
<1>2. n * (x - t) = n * x - n * t /\ n * x \in Int /\ n * t \in Int
  BY <1>1
<1>. QED BY <1>1, <1>2 DEF SettlePnl, Money

(* A sale moves the account and the books alike.                           *)
LEMMA SaleOnBooks ==
    ASSUME NEW n \in Int, NEW t \in Int, NEW p \in Int, NEW f \in Int,
           NEW sold \in Int, NEW at \in Int, NEW fee \in Int
    PROVE  (p - f - n * t) + sold * at - fee
             = (p + sold * (at - t)) - (f + fee) - (n - sold) * t
<1>1. sold * (at - t) = sold * at - sold * t /\ (n - sold) * t = n * t - sold * t
  OBVIOUS
<1>2. sold * at \in Int /\ sold * t \in Int /\ n * t \in Int
  OBVIOUS
<1>. QED BY <1>1, <1>2

(* Nothing is traded.                                                      *)
LEMMA MoneyStays ==
    ASSUME Traded, UNCHANGED account, ~HasPosition \/ ~AwaitsVerdict',
           HasPosition' => /\ HasPosition /\ state'.h.shares = state.h.shares
                           /\ Money(state'.h) = Money(state.h)
    PROVE  Accounts
BY DEF Accounts, Traded

(* The position is carried on.                                             *)
LEMMA HeldOn ==
    ASSUME Traded, UNCHANGED account, HasPosition, NEW h, NEW tag, tag \in PositionTags,
           state' = [tag |-> tag, h |-> h],
           h = state.h \/ \E a : h = [state.h EXCEPT !.exit_arm = a],
           IsPosition(state.h)
    PROVE  Accounts
<1>1. /\ h.shares = state.h.shares /\ h.realized_pnl = state.h.realized_pnl
      /\ h.fees = state.h.fees /\ h.token_price = state.h.token_price
  BY DEF IsPosition, PositionFields
<1>2. state'.h = h /\ ~AwaitsVerdict'
  BY DEF AwaitsVerdict, PositionTags, ExitTags
<1>. QED BY <1>1, <1>2, MoneyStays DEF Money

(* The boundary settles at the feed's result.                              *)
LEMMA CycleCloseAccounts ==
    ASSUME Ready, Traded, OnCycleClose, UNCHANGED account
    PROVE  Accounts
<1>1. CASE HasPosition
  <2>1. PICK rec :
           /\ \/ rec = Record(state.h, "Win", SettlePnl(state.h, One))
              \/ rec = Record(state.h, "Loss", SettlePnl(state.h, 0))
           /\ state' = Confirming(rec)
    BY <1>1 DEF OnCycleClose, CloseOut
  <2>2. IsPosition(state.h)
    BY <1>1 DEF Ready, Shaped
  <2>3. /\ SettlePnl(state.h, One) = Money(state.h) + state.h.shares * One
        /\ SettlePnl(state.h, 0) = Money(state.h) + state.h.shares * 0
    BY <2>2, SettledPnl, PricesAssumption
  <2>4. rec.pnl = AccountResult(rec)'
    BY <1>1, <2>1, <2>3 DEF AccountResult, Record, Traded
  <2>5. ~HasPosition' /\ state'.rec = rec
    BY <2>1 DEF Confirming, HasPosition, PositionTags, ExitTags
  <2>. QED BY <2>4, <2>5 DEF Accounts, Traded, AccountResult
<1>2. CASE ~HasPosition
  <2>1. ~HasPosition'
    BY <1>2 DEF OnCycleClose, HasPosition, Watching, PositionTags, ExitTags
  <2>. QED BY <1>2, <2>1, MoneyStays
<1>. QED BY <1>1, <1>2

(* An entry's fill is all that the account has of its market.              *)
LEMMA EntryAccounts ==
    ASSUME ~HasPosition, NEW side, NEW n \in Int, NEW cost \in Int,
           FinalizeEntryFill(side, n, cost),
           n > 0 => account'.shares = n /\ account'.cash = 0 - n * cost - TakerFee(n, cost)
    PROVE  Accounts
<1>1. CASE n <= 0
  <2>1. ~HasPosition'
    BY <1>1 DEF FinalizeEntryFill, HasPosition, Watching, PositionTags, ExitTags
  <2>. QED BY <2>1 DEF Accounts, Traded
<1>2. CASE n > 0
  <2>1. state' = Holding(Bought(side, n, cost))
    BY <1>2 DEF FinalizeEntryFill, HoldBought
  <2>2. n * cost \in Int /\ TakerFee(n, cost) \in Int
    BY FeeType
  <2>3. /\ state'.h.shares = n /\ state'.h.realized_pnl = 0
        /\ state'.h.fees = TakerFee(n, cost) /\ state'.h.token_price = cost
    BY <2>1 DEF Holding, Bought
  <2>4. account'.cash = Money(state'.h)
    BY <1>2, <2>2, <2>3 DEF Money
  <2>. QED BY <1>2, <2>3, <2>4 DEF Accounts, Traded
<1>. QED BY <1>1, <1>2

(* So is what is sold, in whole or in part, and what is written off.       *)
LEMMA ResidualAccounts ==
    ASSUME Ready, HasPosition, Traded, NEW sold \in Int, NEW at \in Int, NEW outcome,
           outcome \notin {"Win", "Loss"}, FinalizeOrHoldResidual(state.h, sold, at, outcome),
           account'.shares = account.shares - sold,
           account'.cash = account.cash + sold * at - TakerFee(sold, at)
    PROVE  Accounts
<1> DEFINE h == state.h
           n == h.shares - sold
           pnl == h.realized_pnl + sold * (at - h.token_price)
           fees == h.fees + TakerFee(sold, at)
           rest == [h EXCEPT !.shares = n, !.realized_pnl = pnl, !.fees = fees]
           rec == Record(h, outcome, rest.realized_pnl - rest.fees)
<1>1. state' = Holding(rest) \/ state' = EnrichOnly(rec)
  BY DEF FinalizeOrHoldResidual, HoldAgain, CloseOut
<1>2. IsPosition(h)
  BY DEF Ready, Shaped
<1> HIDE DEF h
<1>3. /\ rest.shares = n /\ rest.realized_pnl = pnl /\ rest.fees = fees
      /\ rest.token_price = h.token_price
  BY <1>2 DEF IsPosition, PositionFields
<1>4. /\ h.shares \in Int /\ h.token_price \in Int /\ h.realized_pnl \in Int /\ h.fees \in Int
      /\ TakerFee(sold, at) \in Int
  BY <1>2, FeeType DEF IsPosition
<1>5. account.shares = h.shares /\ account.cash = Money(h)
  BY DEF Traded, h
<1>6. account'.shares = n /\ account'.cash = pnl - fees - n * h.token_price
  BY <1>4, <1>5, SaleOnBooks DEF Money
<1>7. CASE state' = Holding(rest)
  <2>1. state'.h = rest /\ ~AwaitsVerdict'
    BY <1>7 DEF Holding, AwaitsVerdict
  <2>. QED BY <1>3, <1>6, <2>1 DEF Accounts, Traded, Money
<1>8. CASE state' = EnrichOnly(rec)
  <2>1. state'.rec = rec /\ ~HasPosition'
    BY <1>8 DEF EnrichOnly, HasPosition, PositionTags, ExitTags
  <2>2. /\ rec.pnl = pnl - fees /\ rec.token_price = h.token_price
        /\ rec.outcome \notin {"Win", "Loss"}
    BY <1>3 DEF Record
  <2>3. AccountResult(state.rec)' = account'.cash + account'.shares * h.token_price
    BY <2>1, <2>2 DEF AccountResult
  <2> HIDE DEF rec, rest
  <2>4. n \in Int /\ pnl \in Int /\ fees \in Int /\ n * h.token_price \in Int
    BY <1>4
  <2> HIDE DEF n, pnl, fees
  <2>5. rec.pnl = AccountResult(state.rec)'
    BY <1>6, <2>2, <2>3, <2>4
  <2>. QED BY <2>1, <2>5 DEF Accounts, Traded
<1>. QED BY <1>1, <1>7, <1>8

(* Nothing happens, or the worker has no position afterwards.              *)
LEMMA StateAccounts ==
    ASSUME Traded,
           UNCHANGED <<state, account>> \/ (~HasPosition' /\ (~HasPosition \/ ~AwaitsVerdict'))
    PROVE  Accounts
BY DEF Accounts, Traded, HasPosition, AwaitsVerdict, PositionTags, ExitTags

(* A tick that may enter holds nothing more afterwards.                    *)
LEMMA EntryAttempt ==
    ASSUME NEW t, TryEnter(t)
    PROVE  UNCHANGED state \/ state' = Entering \/ state'.tag = "EnteringMaker"
<1>1. ASSUME NEW side, NEW at, Enter(side, at)
      PROVE  state' = Entering \/ state'.tag = "EnteringMaker"
  <2>1. CASE MakerEntry
    BY <1>1, <2>1 DEF Enter, EnteringMaker
  <2>2. CASE ~MakerEntry
    BY <1>1, <2>2 DEF Enter
  <2>. QED BY <2>1, <2>2
<1>. QED BY <1>1 DEF TryEnter, Pass

(* A tick looks at a position, and may decide to sell it.                  *)
LEMMA PolyAccounts ==
    ASSUME Ready, Traded, NEW t, NEW at, OnPoly(t, at), UNCHANGED account
    PROVE  Accounts
<1>1. CASE state.tag = "Holding"
  <2>1. HasPosition /\ IsPosition(state.h)
    BY <1>1 DEF Ready, Shaped, HasPosition, PositionTags
  <2>2. \/ UNCHANGED state
        \/ \E tag \in PositionTags : state' = [tag |-> tag, h |-> state.h]
    <3>1. MonitorPosition(t, at[state.h.side])
      BY <1>1 DEF OnPoly
    <3>. QED BY <3>1 DEF MonitorPosition, Close, Exiting, PositionTags, ExitTags
  <2>. QED BY <2>1, <2>2, StateAccounts, HeldOn
<1>2. CASE state.tag # "Holding"
  <2>1. TryEnter(t) \/ CheckMakerQuoteCancel(t)
    BY <1>2 DEF OnPoly
  <2>2. \/ UNCHANGED state \/ state' = Watching \/ state' = Entering
        \/ state'.tag = "EnteringMaker"
    BY <2>1, EntryAttempt DEF Pass, CheckMakerQuoteCancel, CancelMakerQuote
  <2>. QED BY <2>2, StateAccounts DEF HasPosition, AwaitsVerdict, PositionTags, ExitTags
<1>. QED BY <1>1, <1>2

(* Ticks trade nothing.                                                    *)
LEMMA TickAccounts ==
    ASSUME Ready, Traded, BinanceArm \/ PolyStep \/ TickerReevaluate
    PROVE  Accounts
<1>1. UNCHANGED account
  BY DEF BinanceArm, PolyStep, TickerReevaluate
<1>2. CASE UNCHANGED vars
  BY <1>1, <1>2, StateAccounts DEF vars
<1>3. CASE \E up : OnBinance(now, up)
  <2>1. \/ UNCHANGED state \/ state' = Entering \/ state'.tag = "EnteringMaker"
    BY <1>3, EntryAttempt DEF OnBinance
  <2>. QED BY <1>1, <2>1, StateAccounts DEF HasPosition, AwaitsVerdict, PositionTags, ExitTags
<1>4. CASE OnPoly(now, price)
  BY <1>1, <1>4, PolyAccounts
<1>. QED BY <1>2, <1>3, <1>4 DEF BinanceArm, PolyStep, TickerReevaluate

(* A buy is answered on an account of its own.                             *)
LEMMA BuyAccounts ==
    ASSUME Driven, BuysFirst, Slots, OneOrder, Traded, QuoteListed, mode = "Real",
           DoPlaceBuy \/ DoPlaceLimitBuy
    PROVE  Accounts
<1> DEFINE a == Head(acts)
<1>1. a \in Buys(acts) /\ (a.type = "PlaceBuy" <=> DoPlaceBuy)
  BY RestList DEF DoPlaceBuy, DoPlaceLimitBuy, Executes, Buys, Driven, Ready
<1>2. AccountWithBuy = [market |-> cycle, shares |-> 0, cash |-> 0, buys |-> 1]
  BY <1>1 DEF AccountWithBuy, OneOrder, Slots
<1>3. state.tag = (IF DoPlaceBuy THEN "Entering" ELSE "EnteringMaker")
  BY <1>1 DEF BuysFirst, Ordered
<1>4. ~HasPosition /\ ~AwaitsVerdict
  BY <1>3 DEF HasPosition, AwaitsVerdict, PositionTags, ExitTags
<1>5. CASE DoPlaceBuy
  <2>1. PICK n \in ShareCounts, cost \in EntryPrices : FinishEntryOrder(AccountWithBuy, n, cost)
    BY <1>5 DEF DoPlaceBuy
  <2>2. n \in Int /\ cost \in Int /\ n * cost \in Int /\ TakerFee(n, cost) \in Int
    BY SharesAssumption, PricesAssumption, FeeType
  <2>3. CASE n > 0 /\ FinalizeEntryFill(pending, n, cost)
    <3>1. account' = [AccountWithBuy EXCEPT !.shares = @ + n, !.cash = @ - n * cost - TakerFee(n, cost)]
      BY <2>1, <2>3 DEF FinishEntryOrder
    <3>2. account'.shares = n /\ account'.cash = 0 - n * cost - TakerFee(n, cost)
      BY <1>2, <2>2, <3>1
    <3>. QED BY <1>4, <2>2, <2>3, <3>2, EntryAccounts
  <2>4. CASE ~(n > 0 /\ FinalizeEntryFill(pending, n, cost))
    <3>1. UNCHANGED state \/ state' = Watching
      BY <2>1, <2>4 DEF FinishEntryOrder, OnOrderFilled, OnOrderRejected
    <3>. QED BY <1>4, <3>1, StateAccounts DEF HasPosition, AwaitsVerdict, PositionTags, ExitTags
  <2>. QED BY <2>3, <2>4
<1>6. CASE DoPlaceLimitBuy
  <2>1. a.type = "PlaceLimitBuy" /\ a.shares = MinGtc /\ a.price = state.q.quote_price
    BY <1>1, <1>6 DEF DoPlaceLimitBuy, Executes, QuoteListed
  <2>2. state.tag = "EnteringMaker" /\ IsQuote(state.q)
    <3>1. state.tag = "EnteringMaker"
      BY <1>1, <2>1 DEF BuysFirst, Ordered
    <3>. QED BY <3>1 DEF Driven, Ready, Shaped
  <2>3. CASE /\ OnLimitBuyPlaced("Matched", NoOrder)
             /\ account' = [AccountWithBuy EXCEPT !.shares = @ + a.shares,
                              !.cash = @ - a.shares * a.price - TakerFee(a.shares, a.price)]
    <3> DEFINE n == MinGtc
               cost == state.q.quote_price
    <3>1. n \in Int /\ cost \in Int /\ n * cost \in Int /\ TakerFee(n, cost) \in Int
      BY <2>2, SharesAssumption, FeeType DEF IsQuote
    <3>2. FinalizeEntryFill(state.q.side, n, cost)
      BY <2>2, <2>3 DEF OnLimitBuyPlaced
    <3>3. account'.shares = n /\ account'.cash = 0 - n * cost - TakerFee(n, cost)
      BY <1>2, <2>1, <2>3, <3>1
    <3>. QED BY <1>4, <3>1, <3>2, <3>3, EntryAccounts
  <2>4. CASE OnLimitBuyPlaced("Live", QuoteId(ids)) \/ OnLimitBuyPlaced("Failed", NoOrder)
    <3>1. state'.tag = "EnteringMaker" \/ state' = Watching
      <4>1. CASE OnLimitBuyPlaced("Failed", NoOrder)
        BY <2>2, <4>1 DEF OnLimitBuyPlaced
      <4>2. CASE OnLimitBuyPlaced("Live", QuoteId(ids))
        <5>1. state' = [state EXCEPT !.q.order_id = QuoteId(ids)] /\ state = EnteringMaker(state.q)
          BY <2>2, <4>2 DEF OnLimitBuyPlaced, Driven, Ready, Shaped
        <5>. QED BY <5>1 DEF EnteringMaker
      <4>. QED BY <2>4, <4>1, <4>2
    <3>. QED BY <1>4, <3>1, StateAccounts DEF HasPosition, AwaitsVerdict, PositionTags, ExitTags
  <2>. QED BY <1>6, <2>3, <2>4 DEF DoPlaceLimitBuy
<1>. QED BY <1>5, <1>6

(* The take-profit offered is for what is held, at the price it is booked. *)
LEMMA OfferAccounts ==
    ASSUME Driven, SaleFits, OneOrder, Traded, DoPlaceLimitSell
    PROVE  Accounts
<1> DEFINE a == Head(acts)
           h == state.h
           tp == TpPriceFor(h.token_price)
<1>1. a \in Sales(acts) /\ a.type = "PlaceLimitSell"
  BY RestList DEF DoPlaceLimitSell, Executes, Sales, Driven, Ready
<1>2. state.tag = "Holding" /\ a.shares = h.shares /\ a.price = tp
  BY <1>1 DEF SaleFits, Offered
<1>3. HasPosition /\ IsPosition(h)
  BY <1>2 DEF HasPosition, PositionTags, Driven, Ready, Shaped
<1>4. CASE UNCHANGED account /\ UNCHANGED state
  BY <1>4, StateAccounts
<1>5. CASE /\ UNCHANGED account
           /\ \/ \E id : OnLimitSellPlaced("Live", id)
              \/ OnLimitSellPlaced("Failed", NoOrder)
  <2>1. \E k : state' = Holding(k) /\ (k = h \/ \E x : k = [h EXCEPT !.exit_arm = x])
    BY <1>2, <1>5 DEF OnLimitSellPlaced, HoldAgain
  <2>. QED BY <1>3, <1>5, <2>1, HeldOn DEF Holding, PositionTags
<1>6. CASE /\ OnLimitSellPlaced("Matched", NoOrder)
           /\ SellFills(a.shares, a.price, TakerFee(a.shares, a.price))
  <2> DEFINE fee == TakerFee(h.shares, tp)
             closed == [h EXCEPT !.fees = @ + fee]
             rec == Record(closed, "Unwind", SettlePnl(closed, tp))
  <2>1. state' = EnrichOnly(rec)
    BY <1>2, <1>6 DEF OnLimitSellPlaced, CloseOut
  <2>2. /\ h.shares \in Int /\ h.token_price \in Int /\ h.realized_pnl \in Int /\ h.fees \in Int
        /\ tp \in Int /\ fee \in Int
    BY <1>3, FeeType, TpType DEF IsPosition
  <2>3. account.shares = h.shares /\ account.cash = Money(h)
    BY <1>3 DEF Traded
  <2>4. /\ account'.shares = account.shares - h.shares
        /\ account'.cash = account.cash + h.shares * tp - fee
    BY <1>2, <1>6 DEF SellFills, OneOrder, AccountFields
  <2> HIDE DEF h, tp, fee
  <2>5. /\ IsPosition(closed) /\ closed.shares = h.shares /\ closed.fees = h.fees + fee
        /\ closed.realized_pnl = h.realized_pnl /\ closed.token_price = h.token_price
    BY <1>3, <2>2 DEF IsPosition, PositionFields
  <2>6. SettlePnl(closed, tp) = Money(closed) + closed.shares * tp
    BY <2>2, <2>5, SettledPnl
  <2>7. /\ rec.pnl = Money(closed) + h.shares * tp /\ rec.token_price = h.token_price
        /\ rec.outcome = "Unwind"
    BY <2>5, <2>6 DEF Record
  <2> HIDE DEF closed, rec
  <2>8. account'.shares = 0 /\ account'.cash = Money(closed) + h.shares * tp
    <3>1. h.shares * tp \in Int /\ h.shares * h.token_price \in Int
      BY <2>2
    <3>. QED BY <2>2, <2>3, <2>4, <2>5, <3>1 DEF Money
  <2>9. state'.rec = rec /\ ~HasPosition'
    BY <2>1 DEF EnrichOnly, HasPosition, PositionTags, ExitTags
  <2>10. AccountResult(state.rec)' = account'.cash
    BY <2>2, <2>3, <2>5, <2>7, <2>8, <2>9 DEF AccountResult, Money
  <2>. QED BY <2>7, <2>8, <2>9, <2>10 DEF Accounts, Traded
<1>. QED BY <1>4, <1>5, <1>6 DEF DoPlaceLimitSell, Take

(* A close sells of the position it was ordered for.                       *)
LEMMA CloseAccounts ==
    ASSUME Driven, SaleFits, OneOrder, Traded, mode = "Real", DoClosePosition
    PROVE  Accounts
<1> DEFINE c == Head(acts)
           h == state.h
<1>1. InExit(c) /\ c.reason \in Reasons
  BY CloseAtHead
<1>2. HasPosition /\ IsPosition(h) /\ state.tag = ExitTag(c.reason)
  BY <1>1 DEF InExit, ExitTag, Reasons, HasPosition, PositionTags, ExitTags, Driven, Ready, Shaped
<1>3. CASE Take /\ UNCHANGED account
  BY <1>3, StateAccounts DEF Take
<1>4. ASSUME NEW sold \in ShareCounts, NEW at \in Prices, FinishCloseOrder(c, sold, at)
      PROVE  Accounts
  <2>1. sold \in Int /\ at \in Int
    BY SharesAssumption, PricesAssumption
  <2>2. CASE sold > 0
    <3>1. /\ account'.shares = account.shares - sold
          /\ account'.cash = account.cash + sold * at - TakerFee(sold, at)
      BY <1>4, <2>2 DEF FinishCloseOrder, SellFills, OneOrder, AccountFields
    <3>2. CloseFilled(c.reason, sold, at)
      BY <1>4, <2>2 DEF FinishCloseOrder
    <3>3. \E outcome \in {"Unwind", "StopLoss", "Timeout"} :
             FinalizeOrHoldResidual(h, sold, at, outcome)
      <4>1. CASE c.reason = "TakeProfit"
        BY <1>2, <3>2, <4>1 DEF CloseFilled, OnUnwindFilled, ExitTag
      <4>2. CASE c.reason = "StopLoss"
        BY <1>2, <3>2, <4>2 DEF CloseFilled, OnStopSellFilled, ExitTag
      <4>3. CASE c.reason = "Timeout"
        BY <1>2, <3>2, <4>3 DEF CloseFilled, OnTimeoutSellFilled, ExitTag
      <4>. QED BY <1>1, <4>1, <4>2, <4>3 DEF Reasons
    <3>. QED BY <1>2, <2>1, <3>1, <3>3, ResidualAccounts DEF Driven
  <2>3. CASE ~(sold > 0)
    <3>1. CloseFailed(c.reason) /\ UNCHANGED account
      BY <1>4, <2>3 DEF FinishCloseOrder
    <3>2. OnUnwindFailed \/ OnStopSellFailed \/ OnTimeoutSellFailed
      BY <1>1, <3>1 DEF CloseFailed, Reasons
    <3>3. \/ UNCHANGED state
          \/ \E k : state' = Holding(k) /\ (k = h \/ \E x : k = [h EXCEPT !.exit_arm = x])
      BY <3>2 DEF OnUnwindFailed, OnStopSellFailed, OnTimeoutSellFailed
    <3>. QED BY <1>2, <3>1, <3>3, StateAccounts, HeldOn DEF Holding, PositionTags
  <2>. QED BY <2>2, <2>3
<1>. QED BY <1>3, <1>4 DEF DoClosePosition

(* Every step keeps the books of what it trades.                           *)
LEMMA NextAccounts ==
    ASSUME ~RestingFills, mode = "Real", Driven, BuysFirst, Slots, SaleFits, OneOrder,
           Traded, QuoteListed, [DriverNext]_allVars
    PROVE  Accounts
<1>1. CASE Advance \/ PolyArm \/ UNCHANGED allVars
  BY <1>1, StateAccounts DEF Advance, PolyArm, allVars, driverVars, vars
<1>2. CASE BinanceArm \/ PolyStep \/ TickerReevaluate
  BY <1>2, TickAccounts DEF Driven
<1>3. CASE TickerBoundary
  BY <1>3, CycleCloseAccounts, StateAccounts DEF TickerBoundary, Driven, vars
<1>4. CASE TickerOpen
  <2>1. UNCHANGED account /\ (UNCHANGED state \/ state' = IF AwaitsVerdict THEN state ELSE Watching)
    BY <1>4 DEF TickerOpen, OnCycleOpen, vars
  <2>. QED BY <2>1, StateAccounts DEF HasPosition, AwaitsVerdict, PositionTags, ExitTags
<1>5. CASE DoPersist \/ DoLogTrade \/ DoNotify \/ DoCancel
  BY <1>5, StateAccounts DEF DoPersist, DoLogTrade, DoNotify, DoCancel, Take
<1>6. CASE DoPlaceBuy \/ DoPlaceLimitBuy \/ DoPlaceLimitSell \/ DoClosePosition
  BY <1>6, BuyAccounts, OfferAccounts, CloseAccounts
<1>7. CASE ApiResultArm
  <2>1. UNCHANGED account /\ (UNCHANGED state \/ state' = Watching)
    BY <1>7 DEF ApiResultArm, OnApiResult, OnApiResultTimeout, Ignore
  <2>. QED BY <2>1, StateAccounts DEF HasPosition, AwaitsVerdict, PositionTags, ExitTags
<1>8. CASE ApplyControl \/ ApplyBalanceHalt
  BY <1>8, StateAccounts DEF ApplyControl, ApplyBalanceHalt, ControlEffect, BalanceEffect
<1>9. CASE Restart
  BY <1>9, StateAccounts DEF Restart, HasPosition, AwaitsVerdict, PositionTags, ExitTags
<1>10. ~PaperRestingFill /\ ~PaperFillArm /\ ~ExchangeFill
  BY DEF PaperRestingFill, TradedThrough, PaperFillArm, ExchangeFill, Driven
<1>. QED BY <1>1, <1>2, <1>3, <1>4, <1>5, <1>6, <1>7, <1>8, <1>9, <1>10 DEF DriverNext, Execute

(* The account moves only while no result is waiting to be logged.         *)
LEMMA AccountMoves ==
    ASSUME mode = "Real", ~RestingFills, Driven, BuysFirst, SaleFits, [DriverNext]_allVars,
           ~UNCHANGED account
    PROVE  ~AwaitsVerdict /\ WorkerStep /\ (acts # <<>> => Head(acts).type \in OrderActions)
<1>1. DoPlaceBuy \/ DoPlaceLimitBuy \/ DoPlaceLimitSell \/ DoClosePosition
  BY DEF DriverNext, Advance, BinanceArm, PolyArm, PaperRestingFill, TradedThrough, PolyStep,
         TickerReevaluate, TickerBoundary, TickerOpen, Execute, DoPersist, DoLogTrade, DoNotify, DoCancel,
         PaperFillArm, ApiResultArm, ApplyControl, ApplyBalanceHalt, ExchangeFill, Restart,
         allVars, driverVars, Driven
<1>2. acts # <<>> /\ Head(acts) \in Listed(acts)
  BY <1>1, RestList DEF DoPlaceBuy, DoPlaceLimitBuy, DoPlaceLimitSell, DoClosePosition, Executes,
                        Driven, Ready
<1>3. Head(acts) \in Buys(acts) \/ Head(acts) \in Sales(acts)
  BY <1>1, <1>2 DEF DoPlaceBuy, DoPlaceLimitBuy, DoPlaceLimitSell, DoClosePosition, Executes, Buys, Sales
<1>4. ~AwaitsVerdict
  <2>1. CASE Head(acts) \in Buys(acts)
    BY <2>1 DEF BuysFirst, Ordered, AwaitsVerdict
  <2>2. CASE Head(acts) \in Sales(acts)
    <3>1. Head(acts).type = "ClosePosition" => Head(acts).reason \in Reasons
      BY <1>2 DEF Driven, Ready, Formed
    <3>. QED BY <2>2, <3>1 DEF SaleFits, InExit, Offered, ExitTag, Reasons, AwaitsVerdict
  <2>. QED BY <1>3, <2>1, <2>2
<1>. QED BY <1>1, <1>4, OrderDoes DEF Driven

(* Every step keeps them, until the result is logged.                      *)
LEMMA NextAccounted ==
    ASSUME ~RestingFills, mode = "Real", Driven, BuysFirst, Slots, SaleFits, OneOrder, OneWatcher,
           Accounted, [DriverNext]_allVars
    PROVE  Accounted' /\ mode' = "Real"
<1>1. Accounts
  BY NextAccounts DEF Accounted
<1>2. QuoteListed'
  <2>1. CASE EntryKind
    <3>1. PICK a : Orders(a) /\ Buys(acts') = {a}
      BY <2>1, EntryList DEF EntryKind
    <3>. QED BY <3>1 DEF Orders, QuoteListed
  <2>2. CASE UNCHANGED <<state, acts>>
    BY <2>2 DEF Accounted, QuoteListed, Buys, Listed
  <2>3. CASE Buys(acts') = {}
    BY <2>3 DEF QuoteListed
  <2>. QED BY <2>1, <2>2, <2>3, NextBuysFirst
<1>3. Logs(Rest) \subseteq Logs(acts)
  BY RestList DEF Logs, Driven, Ready
<1>4. ~AwaitsVerdict => Logs(acts) = {}
  BY DEF OneWatcher, Awaited
<1>5. Booked'
  <2>1. CASE UNCHANGED account /\ Logs(acts') \subseteq Logs(acts)
    BY <2>1 DEF Accounted, Booked, AccountResult
  <2>2. CASE WorkerStep
    <3>1. CASE Closes
      <4>1. Logs(acts') = {LogTrade(state'.rec)}
        BY <1>3, <1>4, <3>1 DEF Closes, HasPosition, AwaitsVerdict, PositionTags, ExitTags
      <4>2. LogTrade(state'.rec).rec = state'.rec
        BY DEF LogTrade
      <4>3. state'.rec.pnl = AccountResult(state.rec)'
        BY <1>1, <3>1 DEF Accounts, Closes
      <4>. QED BY <4>1, <4>2, <4>3 DEF Booked, AccountResult
    <3>2. CASE Logs(acts') = Logs(Rest)
      <4>1. CASE UNCHANGED account
        BY <1>3, <2>1, <3>2, <4>1
      <4>2. CASE ~UNCHANGED account
        <5>1. Logs(acts') = {}
          BY <1>3, <1>4, <3>2, <4>2, AccountMoves
        <5>. QED BY <5>1 DEF Booked
      <4>. QED BY <4>1, <4>2
    <3>. QED BY <2>2, <3>1, <3>2 DEF WorkerStep, Settles
  <2>3. CASE ~WorkerStep
    <3>1. UNCHANGED account
      BY <2>3, AccountMoves
    <3>2. Logs(acts') \subseteq Logs(acts)
      <4>1. CASE IdleKind \/ CommandKind
        BY <4>1 DEF IdleKind, CommandKind, CommandStep, vars, Logs, Listed
      <4>2. CASE OpenKind \/ VerdictKind
        BY <1>3, <4>2 DEF OpenKind, OpenStep, VerdictKind, VerdictStep
      <4>3. CASE EntryKind
        <5>1. PICK a : Orders(a)
          BY <4>3 DEF EntryKind, OrderingStep
        <5>2. Listed(Rest) = {}
          BY <4>3, RestList DEF EntryKind, Driven, Ready
        <5>3. Listed(acts') = {a, Persist} /\ a.type # "LogTrade"
          BY <5>1, <5>2 DEF Orders
        <5>. QED BY <5>3, NewActions DEF Logs
      <4>4. CASE Restart
        BY <4>4, RestartDoes, ShortLists DEF Logs
      <4>. QED BY <2>3, <4>1, <4>2, <4>3, <4>4, StepKinds DEF WorkerKind, FileKind
    <3>. QED BY <2>1, <3>1, <3>2
  <2>. QED BY <2>2, <2>3
<1>6. UNCHANGED mode
  BY DEF DriverNext, Advance, BinanceArm, PolyArm, PaperRestingFill, PolyStep, TickerReevaluate,
         TickerBoundary, TickerOpen, Execute, DoPersist, DoLogTrade, DoNotify, DoPlaceBuy,
         DoPlaceLimitBuy, DoPlaceLimitSell, DoClosePosition, DoCancel, PaperFillArm, ApiResultArm,
         ApplyControl, ApplyBalanceHalt, ExchangeFill, Restart, allVars, driverVars
<1>. QED BY <1>1, <1>2, <1>5, <1>6 DEF Accounts, Accounted

(* An order to sell is always the worker's own.                            *)
LEMMA SaleInvariant == DriverSpec => []SaleFits
<1>1. DriverInit => SaleFits
  <2> SUFFICES ASSUME DriverInit PROVE SaleFits
    OBVIOUS
  <2>1. acts = <<>>
    BY DEF DriverInit, Init
  <2>2. Sales(acts) = {} /\ Sales(Rest) = {}
    BY <2>1, ShortLists DEF Sales, Rest
  <2>. QED BY <2>2 DEF SaleFits, OneSale
<1>. QED BY <1>1, NextSaleFits, DrivenInvariant, PTL DEF DriverSpec

(* With real orders whose resting ones do not fill unseen, a logged result *)
(* is what the account made of the trade: at the boundary, at a matched    *)
(* take-profit, and after any number of partial closes (settle_pnl,        *)
(* finalize_or_hold_residual).                                             *)
THEOREM ResultsAreCash ==
    Modes = {"Real"} /\ ~RestingFills /\ RestartTime > StartupGuard
        => (DriverSpec => []PnlIsCash)
<1> SUFFICES ASSUME Modes = {"Real"}, ~RestingFills, RestartTime > StartupGuard
             PROVE  DriverSpec => []PnlIsCash
  OBVIOUS
<1>1. DriverInit => Accounted /\ InRealMode
  <2> SUFFICES ASSUME DriverInit PROVE Accounted /\ InRealMode
    OBVIOUS
  <2>1. acts = <<>> /\ state = Watching /\ mode = "Real"
    BY DEF DriverInit, Init
  <2>2. Listed(acts) = {} /\ ~HasPosition
    BY <2>1, ShortLists DEF HasPosition, PositionTags, ExitTags
  <2>. QED BY <2>1, <2>2 DEF Accounted, Traded, Booked, QuoteListed, Logs, Buys, InRealMode
<1>2. InRealMode /\ Driven /\ BuysFirst /\ Slots /\ SaleFits /\ OneOrder /\ OneWatcher
        /\ Accounted /\ [DriverNext]_allVars => Accounted' /\ InRealMode'
  BY NextAccounted DEF InRealMode
<1>3. Accounted => PnlIsCash
  BY DEF Accounted, Booked, PnlIsCash, Logs, Listed
<1>4. DriverSpec => []OneOrder
  BY OrderInvariant
<1>. QED BY <1>1, <1>2, <1>3, <1>4, SaleInvariant, WatcherInvariant, BuysInvariant, DrivenInvariant, PTL
         DEF DriverSpec
=============================================================================
