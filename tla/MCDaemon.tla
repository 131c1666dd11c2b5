------------------------------- MODULE MCDaemon -------------------------------
(*****************************************************************************)
(* Daemon has no parameter but the bound on respawns, so TLC checks it whole.*)
(*****************************************************************************)
EXTENDS Daemon
===============================================================================
