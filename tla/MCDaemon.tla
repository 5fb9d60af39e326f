------------------------------ MODULE MCDaemon ------------------------------
(***************************************************************************)
(* The daemon with the streak of the code and cooldowns that are shorter   *)
(* and longer than it, so that either can be the condition that holds a    *)
(* reaction back.                                                          *)
(***************************************************************************)
EXTENDS Daemon
=============================================================================
