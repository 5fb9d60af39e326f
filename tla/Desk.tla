--------------------------------- MODULE Desk ---------------------------------
(***************************************************************************)
(* The parts of the program a user has on the desk, each with files of its *)
(* own: plans, usage and its prices, snapshots and reports, the system     *)
(* view, a project, the model panel and the streamed diagnosis.  They      *)
(* share no state but the PC that snapshots and diagnosis read, so every   *)
(* behaviour uses one of them, chosen at the start, and the others rest:   *)
(* one specification stands for seven.                                     *)
(***************************************************************************)
EXTENDS Plans, Usage, Project, Inventory, Panel, Diagnosis

VARIABLE focus

vars == <<focus, pvars, uvars, jvars, ivars, avars, svars, dvars>>

PartsOfDesk == {"plans", "usage", "project", "system", "panel", "snapshots", "diagnosis"}

(* Where a part that rests stands still.                                   *)
Some(S)         == {CHOOSE x \in S : TRUE}
Start(parts, S) == IF focus \in parts THEN S ELSE Some(S)

Init ==
    /\ focus \in PartsOfDesk
    /\ PlansFrom(Start({"plans"}, Days)) /\ UsageFrom(Start({"usage"}, UsageDays))
    /\ ProjectFrom(Start({"project"}, Folders), IF focus = "project" THEN Names \X Patterns ELSE {})
    /\ InventoryFrom(Start({"system"}, Systems)) /\ PanelFrom(Start({"panel"}, Keys))
    /\ SnapshotsFrom(Start({"snapshots", "diagnosis"}, Pcs)) /\ DiagnosisInit

PlansStep     == focus = "plans" /\ PlansNext
                 /\ UNCHANGED <<focus, uvars, jvars, ivars, avars, svars, dvars>>
UsageStep     == focus = "usage" /\ UsageNext
                 /\ UNCHANGED <<focus, pvars, jvars, ivars, avars, svars, dvars>>
ProjectStep   == focus = "project" /\ ProjectNext
                 /\ UNCHANGED <<focus, pvars, uvars, ivars, avars, svars, dvars>>
SystemStep    == focus = "system" /\ InventoryNext
                 /\ UNCHANGED <<focus, pvars, uvars, jvars, avars, svars, dvars>>
PanelStep     == focus = "panel" /\ PanelNext
                 /\ UNCHANGED <<focus, pvars, uvars, jvars, ivars, svars, dvars>>
SnapshotsStep == focus = "snapshots" /\ SnapshotsNext
                 /\ UNCHANGED <<focus, pvars, uvars, jvars, ivars, avars, dvars>>
DiagnosisStep == focus = "diagnosis" /\ (DiagnosisNext \/ PcMoves)
                 /\ UNCHANGED <<focus, pvars, uvars, jvars, ivars, avars>>

Next == PlansStep \/ UsageStep \/ ProjectStep \/ SystemStep \/ PanelStep
        \/ SnapshotsStep \/ DiagnosisStep

Spec == Init /\ [][Next]_vars

-----------------------------------------------------------------------------
TypeOK ==
    /\ focus \in PartsOfDesk
    /\ PlansTypeOK /\ UsageTypeOK /\ ProjectTypeOK /\ InventoryTypeOK
    /\ PanelTypeOK /\ SnapshotsTypeOK /\ DiagnosisTypeOK
=============================================================================
