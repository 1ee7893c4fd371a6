--------------------------- MODULE TradeLifecycle ---------------------------
(***************************************************************************)
(* What a set of trading machines promises, whatever they trade on: each   *)
(* opens at most one position per market window, none in a window it is    *)
(* barred from, and carries none from one window into the next.  Machines  *)
(* that are fed by the same market may move in one step.                   *)
(***************************************************************************)
EXTENDS Integers

CONSTANT Traders

VARIABLES
    window,     \* trader -> end of the market window it trades
    barred,     \* trader -> no entry in this window
    entered,    \* trader -> a position was opened in this window
    holding     \* trader -> a position is open

vars == <<window, barred, entered, holding>>

Init == /\ window = [t \in Traders |-> 0]
        /\ barred = [t \in Traders |-> FALSE]
        /\ entered = [t \in Traders |-> FALSE]
        /\ holding = [t \in Traders |-> FALSE]

Open(t) == /\ ~holding[t] /\ ~holding'[t]
           /\ window'[t] > window[t]
           /\ ~entered'[t]

SameWindow(t) == window'[t] = window[t] /\ barred'[t] = barred[t]

Enter(t) == /\ ~barred[t] /\ ~entered[t] /\ ~holding[t]
            /\ entered'[t] /\ holding'[t]
            /\ SameWindow(t)

Leave(t) == /\ holding[t] /\ ~holding'[t]
            /\ entered'[t] = entered[t]
            /\ SameWindow(t)

Stay(t) == /\ holding'[t] = holding[t] /\ entered'[t] = entered[t]
           /\ SameWindow(t)

Next == \A t \in Traders : Open(t) \/ Enter(t) \/ Leave(t) \/ Stay(t)

Spec == Init /\ [][Next]_vars
=============================================================================
