----------------------------- MODULE MCWeather -----------------------------
(* Small instance of Weather for TLC: prices below the band, between an    *)
(* entry and its exits, and at the take-profit.                            *)
EXTENDS Weather

MCPrices == {2, 5, 8}
=============================================================================
