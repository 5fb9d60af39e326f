----------------------------- MODULE MCCouncil -----------------------------
(***************************************************************************)
(* A small instance of Council: one id that may be in the bundle and one   *)
(* that may not, so that a proposal can cite nothing, known evidence,      *)
(* unknown evidence or a mixture; and two scopes.                          *)
(***************************************************************************)
EXTENDS Council

CONSTANTS e1, e2, claude, gpt
=============================================================================
