----------------------------- MODULE MCSessions -----------------------------
(***************************************************************************)
(* Small instances of Sessions: two processes of the command line.         *)
(***************************************************************************)
EXTENDS Sessions, TLC
=============================================================================
