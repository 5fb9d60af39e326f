----------------------------- MODULE MCGateway -----------------------------
(***************************************************************************)
(* Small instances of Gateway: two cloud providers, or a cloud provider    *)
(* and a local one, and three calls.                                       *)
(***************************************************************************)
EXTENDS Gateway, TLC

CONSTANTS t1, t2, t3, t4, claude, gpt, ollama, m1, m2

Symmetry == Permutations(Task)
=============================================================================
