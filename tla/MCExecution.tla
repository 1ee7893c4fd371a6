---------------------------- MODULE MCExecution ----------------------------
(* Small instance of Execution for TLC: a Unit of two, so that a fill can  *)
(* leave half a unit, and a market that moves on both sides of a limit.    *)
EXTENDS Execution

MCPrices == {1, 3}
=============================================================================
