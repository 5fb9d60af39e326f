----------------------------- MODULE MCActions -----------------------------
(***************************************************************************)
(* Small instances of Actions: a daemon and one CLI user, who runs one     *)
(* command after the other; two plans of the whitelist and, where there is *)
(* a third, one that is not in it.                                         *)
(***************************************************************************)
EXTENDS Actions

CONSTANTS cli, daemon, balanced, saver, custom
=============================================================================
