---------------------------- MODULE MCMibUpdater ----------------------------
(* MibUpdater with the reinit rate of the code, 60 // 5.                   *)
EXTENDS MibUpdater
=============================================================================
