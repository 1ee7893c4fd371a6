------------------------------ MODULE MCWorker ------------------------------
(* Small instances of Worker for TLC.                                      *)
EXTENDS Worker

\* Windows of four seconds, two per trading day, a halt after two losses.
MCPrices == {2, 7, 9}
MCEntryPrices == {5}
MCTimes == {1, 2, 5, 6}
MCCycles == 0 .. 2
MCShareCounts == {0, 3, 5, 6}
=============================================================================
