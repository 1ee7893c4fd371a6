----------------------------- MODULE QuoteFeed -----------------------------
(***************************************************************************)
(* The way of a quote of one 5-minute market from the exchange to the      *)
(* trader: price_feed subscribes to the market of the cycle, keeps the     *)
(* newest quote and publishes it (price_feed/src/collect.rs), a            *)
(* reconciler compares it with the exchange's REST answer and asks for a   *)
(* restart when they differ (price_feed/src/reconcile.rs), and the live    *)
(* driver takes what is published, or has a subscription of its own        *)
(* (trader/src/marketdata.rs, trader/src/bin/live.rs).                     *)
(*                                                                         *)
(* A market is the number of its cycle.  Nothing that is published names   *)
(* the market: here a quote carries it for the properties only.            *)
(***************************************************************************)
EXTENDS Integers, Sequences, FiniteSets

CONSTANTS
    Prices,         \* middle prices the market may have
    OpenPrice,      \* of a new market
    Tolerance,      \* MISMATCH_TOLERANCE
    Required,       \* CONSECUTIVE_MISMATCHES_REQUIRED
    Sources,        \* where the driver takes its quotes: "nats", "direct"
    MaxCycle,       \* bound
    MaxQuotes       \* bound on the price changes

ASSUME PriceAssumption == Prices \subseteq Nat /\ OpenPrice \in Prices /\ Tolerance \in Nat
ASSUME SourceAssumption == Sources \subseteq {"nats", "direct"}
ASSUME ReconcileAssumption == Required \in Nat \ {0}
ASSUME FeedBoundAssumption == MaxCycle \in Nat /\ MaxQuotes \in Nat

VARIABLES
    source,
    clock,          \* cycle; late: in the last NEAR_CLOSE_SKIP_SECS
    truth,          \* price of every market on the exchange
    stamp,          \* server timestamp of the newest quote
    wire,           \* quotes under way on the two channels of the subscription
    feed,           \* price_feed: tokens, subscription, latest_bba
    recon,          \* consecutive_mismatches, and the REST request under way
    nats,           \* price.poly.<ASSET>, and the driver's poly_rx behind it
    raw,            \* direct: channel of each PolySub, by market
    trader,         \* the driver's slot: its market and the quote it last judged
    counted,        \* history: markets of the mismatches counted
    polled,         \* history: markets a poll was made of near their close
    missed          \* history: a quote reached no channel of a subscription

exchangeVars == <<truth, stamp>>
reconVars == <<recon, counted, polled>>
pathVars == <<wire, nats, raw>>
feedVars == <<source, clock, exchangeVars, pathVars, feed, reconVars, trader, missed>>

None == {}
Channels == {"best_bid_ask", "price_change"}
Cycles == 0..MaxCycle
Quote(m, price, n) == [market |-> m, price |-> price, stamp |-> n]
NoWire == [c \in Channels |-> <<>>]

NewFeed == [tokens |-> None, sub |-> None, bba |-> None, stopping |-> FALSE]
NewRecon == [mismatches |-> 0, asked |-> None]

FeedInit ==
    /\ source \in Sources
    /\ clock = [cycle |-> 0, late |-> FALSE]
    /\ truth = [m \in Cycles |-> OpenPrice] /\ stamp = 0
    /\ wire = NoWire /\ nats = <<>> /\ raw = [m \in Cycles |-> <<>>]
    /\ feed = NewFeed /\ recon = NewRecon
    /\ trader = [market |-> None, sub |-> None, newest |-> 0, last |-> None]
    /\ counted = {} /\ polled = {} /\ missed = FALSE
-----------------------------------------------------------------------------
(* The exchange                                                            *)

(* A change of price is told to the subscription on both channels, on one  *)
(* only, or, when the subscription is silently broken, on none.            *)
Subscribed == IF source = "nats" THEN feed.sub ELSE trader.sub
PriceMoves ==
    /\ stamp < MaxQuotes
    /\ \E m \in Subscribed \cup {clock.cycle}, p \in Prices, told \in SUBSET Channels :
         /\ p # truth[m] /\ m <= clock.cycle
         /\ truth' = [truth EXCEPT ![m] = p]
         /\ stamp' = stamp + 1
         /\ IF m \in Subscribed
            THEN /\ wire' = [c \in Channels |->
                                IF c \in told THEN Append(wire[c], Quote(m, p, stamp + 1))
                                ELSE wire[c]]
                 /\ missed' = (missed \/ told = {})
            ELSE told = {} /\ UNCHANGED <<wire, missed>>
    /\ UNCHANGED <<source, clock, nats, raw, feed, reconVars, trader>>

CycleEnds ==
    /\ clock.late => clock.cycle < MaxCycle
    /\ clock' = IF clock.late THEN [cycle |-> clock.cycle + 1, late |-> FALSE]
                ELSE [clock EXCEPT !.late = TRUE]
    /\ UNCHANGED <<source, exchangeVars, pathVars, feed, reconVars, trader, missed>>
-----------------------------------------------------------------------------
(* price_feed                                                              *)

(* spawn_meta_task(), every 10 s: the tokens of the cycle's market, when   *)
(* Gamma knows them.  It waits for nothing, least of all the reconciler.   *)
MetaPoll ==
    /\ source = "nats" /\ ~feed.stopping
    /\ feed.tokens # {clock.cycle}
    /\ feed' = [feed EXCEPT !.tokens = {clock.cycle}]
    /\ UNCHANGED <<source, clock, exchangeVars, pathVars, reconVars, trader, missed>>

(* spawn_bba_task(): the old subscription's task is aborted.  latest_bba   *)
(* stays what it was.                                                      *)
Resubscribe ==
    /\ source = "nats" /\ ~feed.stopping /\ feed.sub # feed.tokens
    /\ feed' = [feed EXCEPT !.sub = feed.tokens]
    /\ wire' = NoWire
    /\ UNCHANGED <<source, clock, exchangeVars, nats, raw, reconVars, trader, missed>>

(* should_accept_bba_update(), should_accept_poly_update().                *)
AcceptsAll(existing, new) == TRUE       \* mutant: no guard against reordering
Accepts(existing, new) == new <= 0 \/ existing <= 0 \/ new >= existing

(* A quote of either channel: kept and published, or thrown away.          *)
Receive(c) ==
    /\ source = "nats" /\ ~feed.stopping /\ wire[c] # <<>>
    /\ LET q == Head(wire[c])
           existing == IF feed.bba = None THEN 0 ELSE (CHOOSE b \in feed.bba : TRUE).stamp
       IN  IF Accepts(existing, q.stamp)
           THEN feed' = [feed EXCEPT !.bba = {q}] /\ nats' = Append(nats, q)
           ELSE UNCHANGED <<feed, nats>>
    /\ wire' = [wire EXCEPT ![c] = Tail(@)]
    /\ UNCHANGED <<source, clock, exchangeVars, raw, reconVars, trader, missed>>

(* spawn_reconcile_task(): near the close the count starts anew; otherwise *)
(* the cached price is read before the REST answer is awaited.  The calls  *)
(* have no timeout and missed ticks are skipped: no poll need fall near    *)
(* the close of a market.                                                  *)
SkipKeepsCount == [recon EXCEPT !.asked = None]     \* mutant: skip without reset
SkipNearClose == NewRecon
NearClose == \A m \in feed.tokens : m < clock.cycle \/ clock.late
Poll ==
    /\ source = "nats" /\ ~feed.stopping /\ recon.asked = None /\ feed.tokens # None
    /\ IF NearClose
       THEN /\ recon' = SkipNearClose
            /\ counted' = IF recon'.mismatches = 0 THEN {} ELSE counted
            /\ polled' = polled \cup feed.tokens
       ELSE /\ feed.bba # None
            /\ \E m \in feed.tokens, b \in feed.bba :
                 recon' = [recon EXCEPT !.asked = {[market |-> m, cached |-> b.price]}]
            /\ UNCHANGED <<counted, polled>>
    /\ UNCHANGED <<source, clock, exchangeVars, pathVars, feed, trader, missed>>

(* check(): confirmed by Required mismatches in a row.                     *)
Differs(a, b) == a - b > Tolerance \/ b - a > Tolerance
CheckWraps(n, cached, rest) ==          \* mutant: compared before it is counted
    [mismatches |-> IF Differs(cached, rest) THEN (n + 1) % Required ELSE 0,
     confirmed |-> n >= Required]
Check(n, cached, rest) ==
    LET count == IF Differs(cached, rest) THEN n + 1 ELSE 0
    IN  [mismatches |-> IF count >= Required THEN 0 ELSE count,
         confirmed |-> count >= Required]

PollAnswered ==
    /\ ~feed.stopping
    /\ \E a \in recon.asked :
         LET c == Check(recon.mismatches, a.cached, truth[a.market])
         IN  /\ recon' = [mismatches |-> c.mismatches, asked |-> None]
             /\ feed' = [feed EXCEPT !.stopping = c.confirmed]
             /\ counted' = IF Differs(a.cached, truth[a.market])
                           THEN counted \cup {a.market} ELSE {}
    /\ UNCHANGED <<source, clock, exchangeVars, pathVars, trader, polled, missed>>
PollFails ==
    /\ ~feed.stopping /\ recon.asked # None
    /\ recon' = [recon EXCEPT !.asked = None]
    /\ UNCHANGED <<source, clock, exchangeVars, pathVars, feed, counted, polled, trader, missed>>

(* The process ends, its writers sealed, and is started again.             *)
Restart ==
    /\ feed.stopping
    /\ feed' = NewFeed /\ recon' = NewRecon /\ counted' = {}
    /\ wire' = NoWire
    /\ UNCHANGED <<source, clock, exchangeVars, nats, raw, trader, polled, missed>>
-----------------------------------------------------------------------------
(* The driver                                                              *)

(* The ticker arm at a cycle's start: the old window is closed and the     *)
(* market of the cycle looked up.  With its own subscription (spawn_poly_  *)
(* task) the new one is started before the old is dropped; what the old    *)
(* had already handed on is still forwarded.                               *)
OpenCycle ==
    /\ trader.market # {clock.cycle}
    /\ trader' = [trader EXCEPT !.market = {clock.cycle},
                    !.sub = IF source = "direct" THEN {clock.cycle} ELSE None,
                    !.newest = 0]
    /\ wire' = IF source = "direct" THEN NoWire ELSE wire
    /\ UNCHANGED <<source, clock, exchangeVars, nats, raw, feed, reconVars, missed>>

ReceiveDirect(c) ==
    /\ source = "direct" /\ wire[c] # <<>>
    /\ LET q == Head(wire[c])
       IN  IF Accepts(trader.newest, q.stamp)
           THEN /\ trader' = [trader EXCEPT !.newest = q.stamp]
                /\ raw' = [raw EXCEPT ![q.market] = Append(@, q)]
           ELSE UNCHANGED <<trader, raw>>
    /\ wire' = [wire EXCEPT ![c] = Tail(@)]
    /\ UNCHANGED <<source, clock, exchangeVars, nats, feed, reconVars, missed>>
Forward(m) ==
    /\ raw[m] # <<>>
    /\ nats' = Append(nats, Head(raw[m]))
    /\ raw' = [raw EXCEPT ![m] = Tail(@)]
    /\ UNCHANGED <<source, clock, exchangeVars, wire, feed, reconVars, trader, missed>>

(* The poly arm: every quote is taken as one of the slot's own market.     *)
Judge ==
    /\ nats # <<>>
    /\ trader' = [trader EXCEPT !.last = {Head(nats)}]
    /\ nats' = Tail(nats)
    /\ UNCHANGED <<source, clock, exchangeVars, wire, raw, feed, reconVars, missed>>

FeedNext ==
    \/ PriceMoves \/ CycleEnds
    \/ MetaPoll \/ Resubscribe \/ Poll \/ PollAnswered \/ PollFails \/ Restart
    \/ OpenCycle \/ Judge
    \/ \E c \in Channels : Receive(c) \/ ReceiveDirect(c)
    \/ \E m \in Cycles : Forward(m)

(* The poll is a timer's; Gamma and the REST endpoint fail now and then.   *)
FeedSpec ==
    /\ FeedInit /\ [][FeedNext]_feedVars
    /\ WF_feedVars(Poll) /\ SF_feedVars(PollAnswered)
-----------------------------------------------------------------------------
(* The two channels of a subscription race, subscriptions change and the   *)
(* feed restarts: a quote never replaces a newer one in the driver's hands.*)
(* Over NATS this also means that the old market is over once the new one  *)
(* has been heard; a driver with subscriptions of its own may still hear   *)
(* the old one after the new.                                              *)
QuotesInOrder ==
    [][\A before \in trader.last, after \in trader'.last :
        before.stamp <= after.stamp \/ (source = "direct" /\ before.market # after.market)]_feedVars

(* A poll near the close of a market separates it from the next: the       *)
(* mismatches that confirm a stale feed are of two markets only when none  *)
(* was made near the close of the earlier one.  The comment at             *)
(* collect.rs:1401 promises more, that they are never of two; a slow REST  *)
(* call or a longer --midpoint-poll-secs leaves the poll out.              *)
PolledCloseSeparates ==
    feed.stopping => \A m, n \in counted : m < n => m \notin polled

(* A feed whose cached price stays wrong is restarted, unless a quote      *)
(* comes after all or the market is about to close.                        *)
CacheIsWrong ==
    /\ source = "nats" /\ ~feed.stopping /\ ~clock.late
    /\ \E m \in feed.tokens, b \in feed.bba :
         m = clock.cycle /\ Differs(b.price, truth[m])
StaleFeedRestarts == CacheIsWrong ~> ~CacheIsWrong
=============================================================================
