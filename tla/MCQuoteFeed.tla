----------------------------- MODULE MCQuoteFeed -----------------------------
(* Small instances of QuoteFeed for TLC.                                   *)
EXTENDS QuoteFeed
=============================================================================
