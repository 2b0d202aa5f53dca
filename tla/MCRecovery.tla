------------------------------ MODULE MCRecovery ------------------------------
(***************************************************************************)
(* Instances of Recovery; every parameter is a number given in the .cfg.   *)
(***************************************************************************)
EXTENDS Recovery
=============================================================================
