-------------------------- MODULE MCDirectoryRecovery --------------------------
(*****************************************************************************)
(* The instances of MCSessionDirectory with the history of refused calls.    *)
(*****************************************************************************)
EXTENDS DirectoryRecovery, MCSessionDirectory
===============================================================================
