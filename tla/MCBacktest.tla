----------------------------- MODULE MCBacktest -----------------------------
(* The replay of a few windows with three price levels of a share.         *)
EXTENDS Backtest

MCQuotes == {[up |-> u, dn |-> 10 - u] : u \in {2, 5, 8}}
MCMinDelta == [reversal |-> 1, high_prob |-> 2, v_shape |-> 0]
=============================================================================
