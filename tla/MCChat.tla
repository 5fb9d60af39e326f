------------------------------- MODULE MCChat -------------------------------
(***************************************************************************)
(* Small instances of Chat: two handlers and a command.                    *)
(***************************************************************************)
EXTENDS Chat, TLC

CONSTANTS t1, t2, k1
=============================================================================
