--------------------------- MODULE MCGammaRecorder ---------------------------
(* Small instances of GammaRecorder for TLC.                               *)
EXTENDS GammaRecorder

\* A market whose slots are one unit long, and one of two units.
MCMarkets == {"short", "long"}
MCInterval == [m \in MCMarkets |-> IF m = "short" THEN 1 ELSE 2]
\* Slots decided Up with the status and the time, and by turns slots decided
\* Down with only a decisive price.
MCAnswer == [k \in Keys |->
    IF (k.slot \div Interval[k.market]) % 2 = 0
    THEN [uma |-> FALSE, up |-> 0,   down |-> 100, timed |-> FALSE]
    ELSE [uma |-> TRUE,  up |-> 100, down |-> 0,   timed |-> TRUE]]

=============================================================================
