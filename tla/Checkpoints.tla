---------------------------- MODULE Checkpoints ----------------------------
(***************************************************************************)
(* velox_checkpoints.txt as velox-core/src/checkpoint.rs writes and reads  *)
(* it: one line per checkpoint, four fields separated by bars.             *)
(*                                                                         *)
(* writeln! on an unbuffered file is one append per piece of the line, so  *)
(* the lines of two savers can mix and a line can stay unfinished.         *)
(* Restore looks at the last line that is not empty, and there at the      *)
(* second and the third field: of the finished lines only the plan that    *)
(* the last of them restores is kept, of the open one its first fields.    *)
(***************************************************************************)
EXTENDS Integers, Sequences

CONSTANTS
    Plan,       \* power plans, by GUID
    NoPlan,     \* no plan: powercfg failed, or nothing to restore
    Blank,      \* a field nothing has been written into
    Mixed       \* a field with several texts in it, or one that is not read

Words  == {"time", "power_plan", "label"}
Fields == Words \cup Plan \cup {Blank, Mixed}

ASSUME CheckpointsAssumption ==
    /\ NoPlan \notin Plan
    /\ Blank \notin Words \cup Plan /\ Mixed \notin Words \cup Plan /\ Mixed # Blank

Pieces    == 1..5
EmptyLine == <<Blank>>
Lines     == {line \in Seq(Fields) : Len(line) \in 1..4}
Files     == [last: Plan \cup {NoPlan}, open: Lines]
EmptyFile == [last |-> NoPlan, open |-> EmptyLine]

(* A text goes into the last field; the first and the fourth are not read. *)
AddText(line, text) ==
    [line EXCEPT ![Len(line)] = IF @ = Blank /\ Len(line) \in {2, 3} THEN text ELSE Mixed]
AddBar(line)        == IF Len(line) = 4 THEN line ELSE Append(line, Blank)

(* What restore_latest can activate from a line: it must have four fields, *)
(* the second must say power_plan, and powercfg accepts the third only if  *)
(* it is one GUID.                                                         *)
PlanOf(line) ==
    IF Len(line) = 4 /\ line[2] = "power_plan" /\ line[3] \in Plan
    THEN line[3] ELSE NoPlan

(* An empty line is no checkpoint.                                         *)
Restorable(file) == IF file.open = EmptyLine THEN file.last ELSE PlanOf(file.open)

(* The writes of "{}|power_plan|{}|{}" and the end of the line.  The last  *)
(* bar and the label are two, which nobody can tell apart: what stands in  *)
(* the fourth field does not matter, only that there is one.               *)
AddPiece(file, piece, plan) ==
    CASE piece = 1 -> [file EXCEPT !.open = AddText(@, "time")]
      [] piece = 2 -> [file EXCEPT !.open = AddBar(AddText(AddBar(@), "power_plan"))]
      [] piece = 3 -> [file EXCEPT !.open = AddText(@, plan)]
      [] piece = 4 -> [file EXCEPT !.open = AddText(AddBar(@), "label")]
      [] piece = 5 -> [last |-> Restorable(file), open |-> EmptyLine]
=============================================================================
