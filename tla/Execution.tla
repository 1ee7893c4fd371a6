------------------------------ MODULE Execution ------------------------------
(***************************************************************************)
(* The trade API of the trader (trader/src/execution.rs): LiveExecution-   *)
(* Engine in front of the exchange, with its retries, and in its place     *)
(* PaperExecutor or, in a dry run, SimExecutionEngine, as one slot of the  *)
(* driver uses them for one token.                                         *)
(*                                                                         *)
(* A call of the live engine is a loop of attempts.  Each posts an order   *)
(* and waits for the answer, and between the two the exchange does what it *)
(* likes: fill in part, refuse, or execute and have its answer lost.       *)
(*                                                                         *)
(* Units: shares are counted in fractions of the smallest size that can be *)
(* ordered (Unit of them, see floor2), prices in ticks, cash in tick times *)
(* share.                                                                  *)
(***************************************************************************)
EXTENDS Integers, FiniteSetsExt

CONSTANTS
    Unit,           \* shares of the smallest order, 0.01 in the code
    MinGtc,         \* MIN_GTC_SHARES
    Prices,         \* ticks the market may be at
    SizeUsdc,       \* size_usdc of an entry
    MaxBuy,         \* max_buy_price, which an entry's price may not exceed
    OrderRetries,   \* LiveConfig::order_max_retries
    SettleRetries,  \* LiveConfig::settle_retries
    CloseRetries,   \* LiveConfig::close_max_retries
    TpRetries,      \* LiveConfig::tp_settle_retries
    Engines,        \* of "Real", "Paper", "Sim"
    MaxCalls,       \* bound
    MaxLost         \* bound

ASSUME UnitAssumption == Unit \in Nat \ {0} /\ MinGtc \in Nat \ {0}
ASSUME PriceAssumption == Prices \subseteq Nat \ {0} /\ MaxBuy \in Nat \ {0} /\ SizeUsdc \in Nat
ASSUME RetryAssumption ==
    /\ OrderRetries \in Nat /\ SettleRetries \in Nat
    /\ CloseRetries \in Nat \ {0} /\ TpRetries \in Nat
ASSUME EngineAssumption == Engines \subseteq {"Real", "Paper", "Sim"}
ASSUME ExecBoundAssumption == MaxCalls \in Nat /\ MaxLost \in Nat

VARIABLES
    engine,         \* which of them the driver was built with
    price,          \* the market
    observed,       \* PaperBook::prices of the token, an Option
    acct,           \* the account at the exchange
    book,           \* its resting orders, or PaperBook::resting
    call,           \* the call of the engine that is running, an Option
    wire,           \* the order posted or the answer to it, an Option
    told,           \* what the worker has been told: shares, cash, resting order
    unheard,        \* history: what the account did that the worker was not told
    lost,           \* history: answers lost
    calls           \* history: calls made

execVars == <<engine, price, observed, acct, book, call, wire, told, unheard, lost, calls>>

Nothing == {}               \* an Option is the set of what it holds

Ops == {"place", "limit_buy", "limit_sell", "close", "close_at_price", "cancel"}
Trade(shares, cash) == [shares |-> shares, cash |-> cash]
NoTrade == Trade(0, 0)
Plus(a, d) == Trade(a.shares + d.shares, a.cash + d.cash)
Minus(a, d) == Trade(a.shares - d.shares, a.cash - d.cash)

Order(id, side, shares, at) == [id |-> id, side |-> side, shares |-> shares, price |-> at]

(* Simulated sizes are rounded, those sent to the exchange never up: a     *)
(* size above the balance would be refused for ever.                       *)
round2(x) == ((x + Unit \div 2) \div Unit) * Unit
floor2(x) == (x \div Unit) * Unit

(* Half way to max_buy_price first, max_buy_price after that.              *)
aggressive_entry_price(p, attempt) ==
    IF attempt = 0 /\ p < MaxBuy THEN p + (MaxBuy - p) \div 2 ELSE MaxBuy

Locked == MapThenSumSet(LAMBDA o : o.shares, {o \in book : o.side = "Sell"})
Available == acct.shares - acct.unsettled - Locked

ExecInit ==
    /\ engine \in Engines
    /\ price \in Prices /\ observed = Nothing
    /\ acct = [shares |-> 0, unsettled |-> 0, cash |-> 0]
    /\ book = {} /\ call = Nothing /\ wire = Nothing
    /\ told = [shares |-> 0, cash |-> 0, resting |-> Nothing]
    /\ unheard = NoTrade /\ lost = 0 /\ calls = 0

-----------------------------------------------------------------------------
(* The calls the driver makes: an entry when the worker holds nothing, a   *)
(* resting exit when it is large enough, a cancel before a close.          *)

Call(op, shares, at, attempt) ==
    [op |-> op, shares |-> shares, price |-> at, attempt |-> attempt]

(* The order an attempt posts.                                             *)
Request(c) ==
    [op    |-> c.op,
     side  |-> IF c.op \in {"place", "limit_buy"} THEN "Buy" ELSE "Sell",
     size  |-> IF c.op = "place" THEN SizeUsdc ELSE floor2(c.shares),
     limit |-> IF c.op = "place" THEN aggressive_entry_price(c.price, c.attempt)
               ELSE c.price]

FirstAttempt(op) == IF op \in {"close", "close_at_price"} THEN 1 ELSE 0

Begin(op, shares, at) ==
    LET c == Call(op, shares, at, FirstAttempt(op))
    IN  /\ call = Nothing /\ calls < MaxCalls
        /\ call' = {c} /\ calls' = calls + 1
        /\ wire' = IF engine = "Real" THEN {Request(c)} ELSE Nothing
        /\ UNCHANGED <<engine, price, observed, acct, book, told, unheard, lost>>

Flat == told.shares = 0 /\ told.resting = Nothing

PlaceEntry == Flat /\ \E p \in Prices : Begin("place", 0, p) \/ Begin("limit_buy", MinGtc, p)

(* choose_exit_order_kind: a resting order only from MIN_GTC_SHARES on.    *)
RestExit ==
    /\ told.resting = Nothing /\ told.shares >= MinGtc
    /\ \E p \in Prices : Begin("limit_sell", told.shares, p)

CloseNow ==
    /\ told.resting = Nothing /\ told.shares >= Unit
    /\ \/ Begin("close", told.shares, 0)
       \/ \E p \in Prices : Begin("close_at_price", told.shares, p)

Cancel == \E o \in told.resting : Begin("cancel", 0, o.id)

-----------------------------------------------------------------------------
(* The exchange.                                                           *)

Fill(t) == [err |-> "", shares |-> t.shares, cash |-> t.cash, rests |-> Nothing]
Error(e) == [err |-> e, shares |-> 0, cash |-> 0, rests |-> Nothing]
Taken(o) == [err |-> "", shares |-> 0, cash |-> 0, rests |-> {o}]

Posted == {r \in wire : "size" \in DOMAIN r}
Answers == {a \in wire : "err" \in DOMAIN a}

(* The answer arrives, or the connection breaks after the order was done.  *)
Answer(a, done) ==
    \/ wire' = {a} /\ UNCHANGED <<unheard, lost>>
    \/ /\ lost < MaxLost
       /\ lost' = lost + 1
       /\ wire' = {Error("other")}
       /\ unheard' = Plus(unheard, done)

Moved(t) == [acct EXCEPT !.shares = @ + t.shares, !.cash = @ + t.cash,
                         !.unsettled = @ + IF t.shares > 0 THEN t.shares ELSE 0]

Resting(r) == r.op \in {"limit_buy", "limit_sell"}
Crosses(r) == IF r.side = "Buy" THEN price <= r.limit ELSE price >= r.limit
Covered(r) == r.side = "Sell" => r.size <= Available
Accepted(r) == r.op # "cancel" /\ Covered(r) /\ (Resting(r) => r.size >= MinGtc)

(* What one fill can be: in part, at the market, within the limit.         *)
Fills(r) ==
    LET most == IF r.op = "place" THEN r.size \div price ELSE r.size
    IN  IF r.side = "Buy" THEN {Trade(q, -q * price) : q \in 1 .. most}
        ELSE {Trade(-q, q * price) : q \in {Unit * k : k \in 1 .. (r.size \div Unit)}}

(* A resting order that is filled only in part stays for the rest.         *)
Rest(r, t) == r.size - (IF t.shares > 0 THEN t.shares ELSE -t.shares)
ExchangeFills ==
    \E r \in Posted :
        /\ Accepted(r) /\ Crosses(r)
        /\ \E t \in Fills(r) :
             /\ acct' = Moved(t)
             /\ book' = IF Resting(r) /\ Rest(r, t) > 0
                        THEN book \cup {Order(calls, r.side, Rest(r, t), r.limit)} ELSE book
             /\ Answer(Fill(t), t)
        /\ UNCHANGED <<engine, price, observed, call, told, calls>>

ExchangeRests ==
    \E r \in Posted :
        /\ Accepted(r) /\ Resting(r) /\ ~Crosses(r)
        /\ LET o == Order(calls, r.side, r.size, r.limit)
           IN  /\ book' = book \cup {o}
               /\ Answer(Taken(o), NoTrade)
        /\ UNCHANGED <<engine, price, observed, acct, call, told, calls>>

ExchangeRefuses ==
    \E r \in Posted :
        /\ r.op # "cancel"
        /\ \/ /\ ~Covered(r)
              /\ wire' = {Error(IF Available <= 0 THEN "balance: 0" ELSE "not enough balance")}
           \/ Accepted(r) /\ ~Resting(r) /\ ~Crosses(r) /\ wire' = {Error("no match")}
           \/ Covered(r) /\ ~Accepted(r) /\ wire' = {Error("invalid")}
           \/ wire' = {Error("other")}
        /\ UNCHANGED <<engine, price, observed, acct, book, call, told, unheard, lost, calls>>

ExchangeCancels ==
    \E r \in Posted :
        /\ r.op = "cancel"
        /\ book' = {o \in book : o.id # r.limit}
        /\ Answer(Error(IF book' = book THEN "filled" ELSE ""), NoTrade)
        /\ UNCHANGED <<engine, price, observed, acct, call, told, calls>>

Settle ==
    /\ acct.unsettled > 0
    /\ acct' = [acct EXCEPT !.unsettled = 0]
    /\ UNCHANGED <<engine, price, observed, book, call, wire, told, unheard, lost, calls>>

PriceMoves ==
    /\ engine = "Real" /\ calls < MaxCalls
    /\ price' \in Prices \ {price}
    /\ UNCHANGED <<engine, observed, acct, book, call, wire, told, unheard, lost, calls>>

(* A resting order trades; nothing on the live path tells the worker.      *)
RestingFill ==
    /\ engine = "Real"
    /\ \E o \in book :
         /\ IF o.side = "Buy" THEN price <= o.price ELSE price >= o.price
         /\ LET t == IF o.side = "Buy" THEN Trade(o.shares, -o.shares * o.price)
                     ELSE Trade(-o.shares, o.shares * o.price)
            IN  /\ acct' = Moved(t)
                /\ unheard' = Plus(unheard, t)
         /\ book' = book \ {o}
    /\ UNCHANGED <<engine, price, observed, call, wire, told, lost, calls>>

-----------------------------------------------------------------------------
(* LiveExecutionEngine: what it makes of an answer.                        *)

Unsettled == {"balance: 0", "not enough balance"}   \* both contain the latter

tp_close_retry_decision(e, attempt) == e \in Unsettled /\ attempt < 1 + TpRetries

(* classify_entry_failure and retry_entry_failure for an entry; the other  *)
(* loops each name the refusals they wait out.                             *)
Retries(c, e) ==
    CASE c.op = "place"          -> e # "invalid" /\ c.attempt < OrderRetries
      [] c.op = "limit_sell"     -> e = "balance: 0" /\ c.attempt < SettleRetries
      [] c.op = "close"          -> e \in Unsettled \cup {"no match"} /\ c.attempt < CloseRetries
      [] c.op = "close_at_price" -> tp_close_retry_decision(e, c.attempt)
      [] OTHER                   -> FALSE

(* What the worker books: the amounts of the answer, but for a limit order *)
(* that matched at once, whose answer carries a status only, its own.      *)
AmountsAsked(c, a) ==       \* mutant: the order's own amounts
    IF c.op = "place" THEN Trade(SizeUsdc \div MaxBuy, -MaxBuy * (SizeUsdc \div MaxBuy))
    ELSE Trade(a.shares, a.cash)
Reported(c, a) ==
    IF a.shares = 0 THEN NoTrade
    ELSE CASE c.op = "limit_buy"  -> Trade(MinGtc, -MinGtc * c.price)
           [] c.op = "limit_sell" -> Trade(-c.shares, c.shares * c.price)
           [] OTHER               -> Trade(a.shares, a.cash)

(* What a status leaves out.                                               *)
Unsaid(c, a) ==
    IF c.op \in {"limit_buy", "limit_sell"} /\ a.shares # 0
    THEN Minus(Trade(a.shares, a.cash), Reported(c, a)) ELSE NoTrade

Tell(t, resting) ==
    told' = [shares |-> told.shares + t.shares, cash |-> told.cash + t.cash,
             resting |-> resting]

(* A status alone is Matched: the id of what still rests is not kept.      *)
Returns ==
    \E c \in call, a \in Answers :
        /\ a.err = ""
        /\ Tell(Reported(c, a), a.rests)
        /\ unheard' = Plus(unheard, Unsaid(c, a))
        /\ call' = Nothing /\ wire' = Nothing
        /\ UNCHANGED <<engine, price, observed, acct, book, lost, calls>>

(* The driver prints the result of a cancel and drops the order anyway.    *)
GivesUp ==
    \E c \in call, a \in Answers :
        /\ a.err # "" /\ ~Retries(c, a.err)
        /\ Tell(NoTrade, Nothing)
        /\ call' = Nothing /\ wire' = Nothing
        /\ UNCHANGED <<engine, price, observed, acct, book, unheard, lost, calls>>

SameAttempt(c) == c.attempt     \* mutant: attempts not counted
NextAttempt(c) == c.attempt + 1

TriesAgain ==
    \E c \in call, a \in Answers :
        /\ a.err # "" /\ Retries(c, a.err)
        /\ LET again == [c EXCEPT !.attempt = NextAttempt(c)]
           IN  call' = {again} /\ wire' = {Request(again)}
        /\ UNCHANGED <<engine, price, observed, acct, book, told, unheard, lost, calls>>

-----------------------------------------------------------------------------
(* The engines without an exchange answer every call at once.              *)

AnswerAtOnce(t, resting) ==
    /\ Tell(t, resting)
    /\ call' = Nothing
    /\ UNCHANGED <<engine, price, observed, acct, wire, unheard, lost, calls>>

RoundedShares(at) == Unit * ((2 * SizeUsdc + Unit * at) \div (2 * Unit * at))
Capped(p) == IF p < MaxBuy THEN p ELSE MaxBuy

(* PaperExecutor: from the prices seen.                                    *)
PaperPlace ==
    \E c \in call :
        /\ engine = "Paper" /\ c.op = "place"
        /\ LET seen   == IF observed = Nothing THEN {c.price} ELSE observed
               at     == CHOOSE p \in {Capped(s) : s \in seen} : TRUE
           IN  AnswerAtOnce(Trade(RoundedShares(at), -RoundedShares(at) * at), Nothing)
        /\ UNCHANGED book

(* rest_order keeps to the exchange's floor.                               *)
PaperRest ==
    \E c \in call :
        /\ engine = "Paper" /\ c.op \in {"limit_buy", "limit_sell"}
        /\ LET side == IF c.op = "limit_buy" THEN "Buy" ELSE "Sell"
               new  == {o \in {Order(calls, side, floor2(c.shares), c.price)} :
                            c.shares >= MinGtc}
           IN  book' = book \cup new /\ AnswerAtOnce(NoTrade, new)

PaperClose ==
    \E c \in call :
        /\ engine = "Paper" /\ c.op \in {"close", "close_at_price"}
        /\ LET sold == {floor2(c.shares) : p \in {p \in observed : p >= c.price}}
           IN  IF sold = {} THEN AnswerAtOnce(NoTrade, Nothing)
               ELSE \E q \in sold, p \in observed : AnswerAtOnce(Trade(-q, q * p), Nothing)
        /\ UNCHANGED book

PaperCancel ==
    \E c \in call :
        /\ engine = "Paper" /\ c.op = "cancel"
        /\ book' = {o \in book : o.id # c.price}
        /\ AnswerAtOnce(NoTrade, Nothing)

(* on_price: a resting order fills at its own price when the market has    *)
(* traded through it by a tick, and the driver routes the fill by its id.  *)
TradedThrough(p) ==
    {o \in book : IF o.side = "Buy" THEN p <= o.price - 1 ELSE p >= o.price + 1}

PaperTick ==
    /\ engine = "Paper" /\ call = Nothing /\ calls < MaxCalls
    /\ \E p \in Prices :
         LET filled == TradedThrough(p)
         IN  /\ price' = p /\ observed' = {p}
             /\ book' = book \ filled
             /\ told' = [told EXCEPT
                    !.shares = @ + MapThenSumSet(LAMBDA o : IF o.side = "Buy" THEN o.shares
                                                            ELSE -o.shares, filled),
                    !.cash = @ + MapThenSumSet(LAMBDA o : IF o.side = "Buy" THEN -o.shares * o.price
                                                          ELSE o.shares * o.price, filled),
                    !.resting = @ \ filled]
    /\ UNCHANGED <<engine, acct, call, wire, unheard, lost, calls>>

(* SimExecutionEngine: at the caller's own price.  Resting orders are      *)
(* taken and never fill, and a close at the market says no proceeds.       *)
SimPlace ==
    \E c \in call :
        /\ engine = "Sim" /\ c.op = "place"
        /\ LET shares == RoundedShares(Capped(c.price))
           IN  AnswerAtOnce(Trade(shares, -shares * Capped(c.price)), Nothing)
        /\ UNCHANGED book

SimRest ==
    \E c \in call :
        /\ engine = "Sim" /\ c.op \in {"limit_buy", "limit_sell"}
        /\ LET side == IF c.op = "limit_buy" THEN "Buy" ELSE "Sell"
           IN  AnswerAtOnce(NoTrade, {Order(calls, side, c.shares, c.price)})
        /\ UNCHANGED book

SimClose ==
    \E c \in call :
        /\ engine = "Sim" /\ c.op \in {"close", "close_at_price"}
        /\ LET sold == round2(c.shares)
           IN  IF sold = 0 /\ c.op = "close_at_price" THEN AnswerAtOnce(NoTrade, Nothing)
               ELSE AnswerAtOnce(Trade(-sold, sold * c.price), Nothing)
        /\ UNCHANGED book

SimCancel ==
    /\ engine = "Sim" /\ \E c \in call : c.op = "cancel"
    /\ AnswerAtOnce(NoTrade, Nothing)
    /\ UNCHANGED book

-----------------------------------------------------------------------------
SlotCalls == PlaceEntry \/ RestExit \/ CloseNow \/ Cancel
Exchange == ExchangeFills \/ ExchangeRests \/ ExchangeRefuses \/ ExchangeCancels
Engine == Returns \/ GivesUp \/ TriesAgain
Paper == PaperPlace \/ PaperRest \/ PaperClose \/ PaperCancel
Sim == SimPlace \/ SimRest \/ SimClose \/ SimCancel

ExecNext == SlotCalls \/ Exchange \/ Engine \/ Paper \/ Sim \/ Settle \/ PriceMoves \/ RestingFill \/ PaperTick

(* The driver awaits its engine and the engine its exchange, which answers *)
(* or lets the request time out.                                           *)
ExecFairness == WF_execVars(Exchange \/ Engine \/ Paper \/ Sim)

ExecSpec == ExecInit /\ [][ExecNext]_execVars /\ ExecFairness

-----------------------------------------------------------------------------
(* Properties.                                                             *)

(* What the worker has booked is what the account did, through partial     *)
(* fills, refusals and retries, but for what it was not told: fills of     *)
(* resting orders, answers that got lost, and the amounts of a limit order *)
(* that matched at once (place, close_position, place_limit_sell).  What a *)
(* simulated engine sells, at once or from a resting order, it has bought. *)
BooksAgree ==
    /\ engine = "Real" =>
           LET known == Plus(told, unheard)
               here  == MapThenSumSet(LAMBDA a : a.shares, Answers)
               cash  == MapThenSumSet(LAMBDA a : a.cash, Answers)
           IN  Trade(acct.shares, acct.cash) = Plus(known, Trade(here, cash))
    /\ engine # "Real" => told.shares >= 0

(* A sell is refused for want of balance only while the entry is not yet   *)
(* settled, an order the worker does not know of holds the shares, or they *)
(* were sold unheard: never because its size was rounded above what is     *)
(* held (floor2; such a refusal would be retried on every tick, for ever). *)
RefusalMeansUnsettled ==
    [][\A a \in Answers' : a.err \in Unsettled /\ Posted # {} =>
          acct.unsettled > 0 \/ book # {} \/ unheard.shares < 0]_execVars

(* Every call comes back to the driver, which waits for it.                *)
CallReturns == call # Nothing ~> call = Nothing
=============================================================================
