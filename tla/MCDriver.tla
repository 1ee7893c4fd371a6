------------------------------ MODULE MCDriver ------------------------------
(* Small instances of Driver for TLC.                                      *)
EXTENDS Driver

\* Windows of three units; of 6 shares 5 or 3 may be sold, which leaves dust or a rest.
MCPrices == {2, 5, 8}
MCEntryPrices == {5}
MCShareCounts == {0, 3, 5, 6}
\* A filled quote is 4 shares: half of it is still sellable.
MCMakerShareCounts == {0, 2, 4}
MCTimes == 1 .. MaxTime
MCCycles == 0 .. MaxTime

=============================================================================
