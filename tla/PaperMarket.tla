---------------------------- MODULE PaperMarket -----------------------------
(***************************************************************************)
(* siglab/src/market.rs: the task of one rotating crypto market.  A loop   *)
(* selects between the trades of the reference exchange, the quotes of the *)
(* prediction market and a ticker that rotates to the next market; while   *)
(* it awaits the ids of the next market both feeds queue up.  It drives    *)
(* one Machine per variant and one V-shape engine.  `sent' names the       *)
(* variants of which the last step handed a record to the trade channel.   *)
(***************************************************************************)
EXTENDS Machine, PaperEngine, Sequences

CONSTANTS
    Variants,       \* variant id -> strategy of its machine
    Ups, RefPrices, \* prices
    CycleLen,       \* rotation.period_secs
    MaxTime, MaxQueued      \* bounds: the clock; messages waiting during a fetch

Engine == "engine"

VARIABLES
    now,
    slot,           \* current_slot_val, -1 before the first market
    machines, engine,
    lastRef,        \* last_binance
    fetching,       \* {slot} while fetch_meta is awaited
    refs, quotes,   \* what waits in the two channels
    sent

marketVars == <<slot, machines, engine, lastRef, fetching, refs, quotes>>

MarketInit ==
    /\ slot = -1
    /\ machines = [v \in DOMAIN Variants |-> NewMachine(Variants[v])]
    /\ engine = NewEngine("v_shape")
    /\ lastRef = 0 /\ fetching = {} /\ refs = <<>> /\ quotes = <<>>

Subscribed == slot # -1
Selecting == fetching = {}

(* Rotation::current_slot_and_slug.                                        *)
CurrentSlotAt(t) == (t \div CycleLen) * CycleLen

-----------------------------------------------------------------------------
(* The branches of the select.                                             *)

(* The record on_binance returns is not looked at.                         *)
OnReference(t) ==
    /\ lastRef' = t.price
    /\ machines' = IF Subscribed THEN [v \in DOMAIN Variants |-> OnBinance(machines[v], t)]
                   ELSE machines
    /\ sent' = {}
    /\ UNCHANGED <<slot, engine, fetching>>

(* Mutant: what the engine returns is not looked at either.                *)
RecordsOfMachines(t) == {v \in DOMAIN Variants : PolyRecords(machines[v], t) # {}}
RecordsOfQuote(t) ==
    {v \in DOMAIN Variants : PolyRecords(machines[v], t) # {}}
    \cup {e \in {Engine} : EngineHolds(engine) /\ Leaves(engine, t.up, t.ts)}

OnQuote(t) ==
    /\ IF Subscribed
       THEN /\ machines' = [v \in DOMAIN Variants |-> OnPoly(machines[v], t)]
            /\ engine' = EngineTick(engine, t.up, t.ts)
            /\ sent' = RecordsOfQuote(t)
       ELSE sent' = {} /\ UNCHANGED <<machines, engine>>
    /\ UNCHANGED <<slot, lastRef, fetching>>

(* Mutant: positions are closed only once the next market is known.        *)
CloseAllLater == UNCHANGED <<machines, engine>> /\ sent' = {}

(* The end of a market, whether or not the next one can be found: done     *)
(* again by every tick of the second until it is.                          *)
CloseAll ==
    IF Subscribed
    THEN /\ machines' = [v \in DOMAIN Variants |-> CycleClose(machines[v])]
         /\ engine' = ForceClose(engine)
         /\ sent' = {v \in DOMAIN Variants : CloseRecords(machines[v]) # {}}
                    \cup {e \in {Engine} : EngineHolds(engine)}
    ELSE sent' = {} /\ UNCHANGED <<machines, engine>>

OnTicker ==
    /\ Selecting /\ CurrentSlotAt(now) # slot
    /\ CloseAll
    /\ fetching' = IF lastRef <= 0 THEN {} ELSE {CurrentSlotAt(now)}
    /\ UNCHANGED <<now, slot, lastRef, refs, quotes>>

(* The task of the old subscription is aborted, what it has queued stays.  *)
FetchOk ==
    \E next \in fetching :
        /\ slot' = next
        /\ machines' = [v \in DOMAIN Variants |->
               CycleOpen(machines[v], next + CycleLen, lastRef, FALSE)]
        /\ engine' = EngineCycleOpen(engine, next + CycleLen)
        /\ fetching' = {} /\ sent' = {}
        /\ UNCHANGED <<now, lastRef, refs, quotes>>

FetchFails ==
    /\ fetching # {} /\ fetching' = {} /\ sent' = {}
    /\ UNCHANGED <<now, slot, machines, engine, lastRef, refs, quotes>>

-----------------------------------------------------------------------------
(* The feeds: handled at once when the loop is free and nothing waits.     *)

Trade(price) ==
    LET t == [ts |-> now, price |-> price]
    IN  \/ Selecting /\ refs = <<>> /\ OnReference(t) /\ UNCHANGED <<now, refs, quotes>>
        \/ /\ fetching # {} /\ Len(refs) < MaxQueued
           /\ refs' = Append(refs, t) /\ sent' = {}
           /\ UNCHANGED <<now, slot, machines, engine, lastRef, fetching, quotes>>

Quote(up) ==
    LET t == [ts |-> now, up |-> up, dn |-> One - up]
    IN  /\ Subscribed
        /\ \/ Selecting /\ quotes = <<>> /\ OnQuote(t) /\ UNCHANGED <<now, refs, quotes>>
           \/ /\ fetching # {} /\ Len(quotes) < MaxQueued
              /\ quotes' = Append(quotes, t) /\ sent' = {}
              /\ UNCHANGED <<now, slot, machines, engine, lastRef, fetching, refs>>

QueuedTrade ==
    /\ Selecting /\ refs # <<>> /\ OnReference(Head(refs))
    /\ refs' = Tail(refs) /\ UNCHANGED <<now, quotes>>

QueuedQuote ==
    /\ Selecting /\ quotes # <<>> /\ OnQuote(Head(quotes))
    /\ quotes' = Tail(quotes) /\ UNCHANGED <<now, refs>>

MarketNext ==
    \/ OnTicker \/ FetchOk \/ FetchFails \/ QueuedTrade \/ QueuedQuote
    \/ \E p \in RefPrices : Trade(p)
    \/ \E up \in Ups : Quote(up)
=============================================================================
