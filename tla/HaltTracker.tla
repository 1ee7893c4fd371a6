----------------------------- MODULE HaltTracker -----------------------------
(***************************************************************************)
(* The loss-streak halt of one (asset, strategy): the HaltTracker struct   *)
(* of trader/src/backtest.rs, shared by the live worker and the backtest.  *)
(* A tracker is a record of its two mutable fields; `max' and `reset_hour' *)
(* are configuration and never change while a process runs.                *)
(***************************************************************************)
EXTENDS Integers

CONSTANTS
    HaltMax,            \* halt_rev / halt_prob / halt_v; not positive = disabled
    CyclesPerSession,   \* cycles between two daily resets
    ResetOffset         \* cycles between epoch midnight and halt_reset_hour

ASSUME HaltMaxAssumption == HaltMax \in Int
ASSUME SessionAssumption == CyclesPerSession \in Nat \ {0} /\ ResetOffset \in Nat

Outcomes == {"Win", "Loss", "StopLoss", "Unwind", "Timeout"}

NoSession == -1         \* last_session = None

Trackers == [losses : Int, session : Int]

NewTracker == [losses |-> 0, session |-> NoSession]

(* The trading day a cycle belongs to: the date, `reset_hour' late.        *)
SessionOf(cycle) == (cycle + ResetOffset) \div CyclesPerSession

IsHalted(h) == HaltMax > 0 /\ h.losses >= HaltMax

(* Loss and StopLoss always count, Timeout only when it lost money.        *)
IsLossForHalt(outcome, pnl) ==
    outcome \in {"Loss", "StopLoss"} \/ (outcome = "Timeout" /\ pnl < 0)

RecordTrade(h, isLoss) == IF isLoss THEN [h EXCEPT !.losses = @ + 1] ELSE h

(* Mutant: looks at the counter before the trade is counted.               *)
EngagesBeforeCounting(h, isLoss) == isLoss /\ IsHalted(h)

(* What record_trade returns: this very trade tripped the halt.            *)
RecordEngages(h, isLoss) == ~IsHalted(h) /\ IsHalted(RecordTrade(h, isLoss))

(* Mutant: counts the corrected outcome, does not take the old one back.   *)
CountsAgain(h, wasLoss, isLoss) == RecordTrade(h, isLoss)

(* saturating_sub saturates at i64::MIN, not at zero.                      *)
CorrectTrade(h, wasLoss, isLoss) ==
    CASE wasLoss = isLoss -> h
      [] isLoss /\ ~wasLoss -> [h EXCEPT !.losses = @ + 1]
      [] wasLoss /\ ~isLoss -> [h EXCEPT !.losses = @ - 1]

Correction(h, wasLoss, isLoss) ==
    LET before == IsHalted(h)
        after  == IsHalted(CorrectTrade(h, wasLoss, isLoss))
    IN  CASE ~before /\ after  -> "Engaged"
          [] before /\ ~after  -> "Cleared"
          [] before <=> after  -> "Unchanged"

ResetLosses(h) == [h EXCEPT !.losses = 0]

ResetIfNewSession(h, s) == IF s = h.session THEN h ELSE [losses |-> 0, session |-> s]


(* What reset_if_new_session returns: an active halt was just cleared.     *)
ResetClears(h, s) == s # h.session /\ IsHalted(h)
=============================================================================
