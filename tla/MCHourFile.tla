------------------------------ MODULE MCHourFile ------------------------------
(* Small instances of HourFile for TLC: the two files of an AssetWriters.  *)
EXTENDS HourFile

MCKinds == <<"poly", "book">>
MCKind == <<"binance">>
=============================================================================
