---------------------------- MODULE PaperEngine -----------------------------
(***************************************************************************)
(* The two price-only engines of siglab: v_shape.rs (high, then low, then  *)
(* high again) and bucket_reversal.rs (low, then high).  An engine is a    *)
(* record; a tick may close its position, in which case it has a record to *)
(* log.  Prices are in units of which a share that wins pays Whole, and    *)
(* the Down side costs the complement of the Up side.                      *)
(***************************************************************************)
EXTENDS Integers

CONSTANTS
    Whole,
    High1, LowV, High2, SlV, TpV, HoldV,    \* a row of v_shape_grid
    UnwindBeforeEnd,    \* FORCE_UNWIND_BEFORE_CYCLE_END_SECS
    LowB, HighB, SlB, TpB, HoldB            \* a row of reversal_grid

UpDown == {"Up", "Down"}
MidOf(up, side) == IF side = "Up" THEN up ELSE Whole - up

(* `position' is a set of at most one; end = 0: never told of a cycle.     *)
NewEngine(kind) == [kind |-> kind, high |-> {}, low |-> {}, position |-> {}, end |-> 0]
FreshWatching(e) == [e EXCEPT !.high = {}, !.low = {}, !.position = {}]
EngineHolds(e) == e.position # {}

EngineCycleOpen(e, end) == [FreshWatching(e) EXCEPT !.end = end]

(* Latch::advance.                                                         *)
Advance(e, up) ==
    LET highs == e.high \cup {s \in UpDown : MidOf(up, s) >= High1}
        lows  == IF e.kind = "v_shape"
                 THEN {s \in highs : MidOf(up, s) <= LowV}
                 ELSE {s \in UpDown : MidOf(up, s) < LowB}
    IN  [e EXCEPT !.high = IF e.kind = "v_shape" THEN highs ELSE {},
                  !.low = @ \cup lows]

(* Latch::ready: Up is asked first.                                        *)
Ready(e, up, side) ==
    /\ side \in e.low
    /\ \/ e.kind = "v_shape" /\ MidOf(up, side) >= High2
       \/ e.kind = "bucket" /\ MidOf(up, side) > HighB

Enters(e, up, ts) ==
    LET a == Advance(e, up)
        sides == {s \in UpDown : Ready(a, up, s)}
        side == IF "Up" \in sides THEN "Up" ELSE "Down"
    IN  IF sides = {} THEN a
        ELSE [a EXCEPT !.high = {}, !.low = {},
                       !.position = {[side |-> side, price |-> MidOf(up, side), ts |-> ts]}]

StopDistance(e) == IF e.kind = "v_shape" THEN SlV ELSE SlB
Target(e) == IF e.kind = "v_shape" THEN TpV ELSE TpB
MaxHold(e) == IF e.kind = "v_shape" THEN HoldV ELSE HoldB

(* Mutant: a position is left on its price only.                           *)
LeavesOnPrice(e, up, ts) ==
    \E p \in e.position :
        \/ MidOf(up, p.side) <= p.price - StopDistance(e)
        \/ MidOf(up, p.side) >= p.price + Target(e)
(* Stop-loss, take-profit, end of the cycle, too long held.                *)
Leaves(e, up, ts) ==
    \E p \in e.position :
        \/ MidOf(up, p.side) <= p.price - StopDistance(e)
        \/ MidOf(up, p.side) >= p.price + Target(e)
        \/ e.kind = "v_shape" /\ e.end > 0 /\ e.end - ts <= UnwindBeforeEnd
        \/ ts - p.ts >= MaxHold(e)

EngineTick(e, up, ts) ==
    IF EngineHolds(e)
    THEN IF Leaves(e, up, ts) THEN FreshWatching(e) ELSE e
    ELSE Enters(e, up, ts)

ForceClose(e) == IF EngineHolds(e) THEN FreshWatching(e) ELSE e
=============================================================================
