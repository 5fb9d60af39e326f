----------------------------- MODULE MCStorage -----------------------------
(***************************************************************************)
(* Small instances of Storage: a file, or two of the same name in          *)
(* different directories, and two contents.                                *)
(***************************************************************************)
EXTENDS Storage, TLC

CONSTANTS c1, c2, f1, f2, note, x, y

SameName == f1 :> note @@ f2 :> note
JustF1   == f1 :> note
=============================================================================
