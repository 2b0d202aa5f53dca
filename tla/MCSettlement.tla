---------------------------- MODULE MCSettlement -----------------------------
(* Small instances of Settlement.                                          *)
EXTENDS Settlement
=============================================================================
