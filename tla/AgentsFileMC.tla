---------------------------- MODULE AgentsFileMC ----------------------------
(***************************************************************************)
(* Small instances of AgentsFile.                                          *)
(***************************************************************************)
EXTENDS AgentsFile

=============================================================================
