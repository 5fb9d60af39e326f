------------------------------ MODULE Actions ------------------------------
(***************************************************************************)
(* Everything in the CLI that changes the machine: diagnose --fix, the     *)
(* reactions of the daemon, checkpoint save and restore (velox-cli/src/    *)
(* diagnose.rs; velox-core/src/checkpoint.rs, action.rs).                  *)
(*                                                                         *)
(* Agents are processes.  They share the active power plan of Windows and  *)
(* the checkpoint file, and lock neither.  Each reads the machine, waits   *)
(* for the AI pipeline (and, for diagnose, the user) and acts on what it   *)
(* read before.  The answers of the providers are any answers; their calls *)
(* through the policy gateway are the subject of Gateway, and when the     *)
(* daemon reacts is that of Daemon: here it may react at any time.         *)
(***************************************************************************)
EXTENDS Checkpoints, FiniteSets

CONSTANTS
    Cli,            \* CLI processes other than the daemon
    Daemon,         \* daemon processes
    Balanced,       \* the plan the rules fall back to
    Whitelist,      \* plans that plan_by_key knows
    NoAction,       \* Action::None
    MayFail,        \* may powercfg and opening the checkpoint file fail?
    MaxTears        \* bound: checkpoint lines left unfinished

Agent == Cli \cup Daemon

ASSUME ActionsAssumption ==
    /\ Cli \cap Daemon = {}
    /\ Balanced \in Whitelist /\ Whitelist \subseteq Plan
    /\ NoAction \notin Plan
    /\ MayFail \in BOOLEAN /\ MaxTears \in Nat

VARIABLES
    pc,           \* pc[a]: where agent a is
    job,          \* job[a]: what it was called for, read, decided and was told
    piece,        \* piece[a]: the piece of the checkpoint line it writes next
    plan,         \* the active power plan
    file,         \* velox_checkpoints.txt
    undisturbed,  \* the agent that has had plan and file to itself since it began to save
    tears         \* lines left unfinished so far

vars == <<pc, job, piece, plan, file, undisturbed, tears>>

(* A snapshot: cool, hot under load, or implausible (hot but idle, beyond  *)
(* 110 degrees, below 20), which may count as hot or not.                  *)
Readings == {"cool", "hot", "odd"}
Suspicious(reading) == reading = "odd"
MayBeHot(reading)   == reading \in {"hot", "odd"}
MayBeCool(reading)  == reading \in {"cool", "odd"}

(* react is the daemon's reaction without --auto, auto the one with it.    *)
Commands == {"fix", "dry", "save", "restore", "react", "auto"}
Busy     == {"query", "write", "apply", "verify", "restore", "restore_apply"}
Steps    == {"idle", "collect", "pipeline", "decide", "ask"}
            \cup Busy

Jobs == [command: Commands \cup {"none"}, reading: Readings, seen: Plan \cup {NoPlan}, target: Whitelist \cup {NoAction},
         by: {"nobody", "confirmer", "rules"}, yes: BOOLEAN,
         saving: Plan \cup {NoPlan}, before: Plan]

NewJob == [command |-> "none", reading |-> "cool", seen |-> NoPlan, target |-> NoAction,
           by |-> "nobody", yes |-> FALSE, saving |-> NoPlan, before |-> Balanced]

Goto(a, s) == pc' = [pc EXCEPT ![a] = s]
At(a, s)   == pc[a] = s
Set(a, j)  == job' = [job EXCEPT ![a] = j]

(* The plan powercfg reports, or NoPlan if it cannot be read.              *)
ReadablePlans == {plan} \cup (IF MayFail THEN {NoPlan} ELSE {})

(* Agent a starts to use the plan and the checkpoint file.                 *)
Enter(a) ==
    undisturbed' = IF \E b \in Agent \ {a} : pc[b] \in Busy THEN {} ELSE {a}

(* The command or the reaction is over.                                    *)
Return(a) == Set(a, NewJob) /\ Goto(a, "idle")

Init ==
    /\ pc = [a \in Agent |-> "idle"]
    /\ job = [a \in Agent |-> NewJob]
    /\ piece = [a \in Agent |-> 1]
    /\ plan \in Plan
    /\ file = EmptyFile
    /\ undisturbed = {}
    /\ tears = 0

-----------------------------------------------------------------------------
(* diagnose and react: read, propose, confirm, decide.                     *)

(* A command is typed, or the daemon calls react.  dry is diagnose without *)
(* --fix, or with --simulate-hot.                                          *)
Call(a, c) ==
    /\ c \in {"react", "auto"} <=> a \in Daemon
    /\ At(a, "idle")
    /\ Set(a, [NewJob EXCEPT !.command = c])
    /\ Goto(a, CASE c = "save" -> "query" [] c = "restore" -> "restore"
                 [] OTHER -> "collect")
    /\ IF c \in {"save", "restore"} THEN Enter(a) ELSE UNCHANGED undisturbed
    /\ UNCHANGED <<piece, plan, file, tears>>

Collect(a, reading) ==
    /\ At(a, "collect")
    /\ \E seen \in ReadablePlans :
         Set(a, [job[a] EXCEPT !.reading = reading, !.seen = seen])
    /\ Goto(a, "pipeline")
    /\ UNCHANGED <<piece, plan, file, undisturbed, tears>>

(* The engineer proposes a plan of the whitelist other than the one seen,  *)
(* and the confirmer approves it or not ...                                *)
PipelineAnswers(a) ==
    /\ At(a, "pipeline")
    /\ \E target \in (Whitelist \ {job[a].seen}) \cup {NoAction},
          by \in {"nobody", "confirmer"} :
         /\ target = NoAction => by = "nobody"
         /\ Set(a, [job[a] EXCEPT !.target = target, !.by = by])
    /\ Goto(a, "decide")
    /\ UNCHANGED <<piece, plan, file, undisturbed, tears>>

(* ... or the pipeline gives no proposal, and the rules decide: Balanced,  *)
(* if it is hot and that is not the plan already.  Nobody confirms it, but *)
(* it counts as confirmed.                                                 *)
PipelineUnavailable(a) ==
    /\ At(a, "pipeline")
    /\ \E target \in {Balanced, NoAction} :
         /\ target = Balanced => MayBeHot(job[a].reading) /\ job[a].seen # Balanced
         /\ target = NoAction => MayBeCool(job[a].reading) \/ job[a].seen = Balanced
         /\ Set(a, [job[a] EXCEPT !.target = target, !.by = "rules"])
    /\ Goto(a, "decide")
    /\ UNCHANGED <<piece, plan, file, undisturbed, tears>>

Actionable(j) == j.target # NoAction /\ j.by # "nobody"

(* Defect: the reality check is forgotten.                                 *)
DecideBlindly(a) ==
    /\ At(a, "decide")
    /\ \/ /\ Actionable(job[a])
          /\ \/ job[a].command = "fix" /\ Goto(a, "ask") /\ UNCHANGED undisturbed
             \/ job[a].command = "auto" /\ Goto(a, "query") /\ Enter(a)
          /\ UNCHANGED job
       \/ /\ ~Actionable(job[a]) \/ job[a].command \in {"dry", "react"}
          /\ Return(a)
          /\ UNCHANGED undisturbed
    /\ UNCHANGED <<piece, plan, file, tears>>

(* Confirmed and plausible: diagnose --fix asks the user, the daemon acts  *)
(* if it was started with --auto.                                          *)
Decide(a) ==
    /\ At(a, "decide")
    /\ LET go == Actionable(job[a]) /\ ~Suspicious(job[a].reading)
       IN \/ /\ go /\ job[a].command = "fix"
             /\ Goto(a, "ask")
             /\ UNCHANGED <<job, undisturbed>>
          \/ /\ go /\ job[a].command = "auto"
             /\ Goto(a, "query") /\ Enter(a)
             /\ UNCHANGED job
          \/ /\ ~go \/ job[a].command \in {"dry", "react"}
             /\ Return(a)
             /\ UNCHANGED undisturbed
    /\ UNCHANGED <<piece, plan, file, tears>>

UserAnswers(a) ==
    /\ At(a, "ask")
    /\ \/ /\ Set(a, [job[a] EXCEPT !.yes = TRUE])
          /\ Goto(a, "query") /\ Enter(a)
       \/ Return(a) /\ UNCHANGED undisturbed
    /\ UNCHANGED <<piece, plan, file, tears>>

-----------------------------------------------------------------------------
(* save_silent, apply_power_plan and the verification after it.            *)

(* Whoever acts goes on, with a checkpoint of plan p, or without one.      *)
AfterSave(a, p) == IF job[a].command = "save" THEN Return(a)
                   ELSE Set(a, [job[a] EXCEPT !.saving = p]) /\ Goto(a, "apply")

(* Defect: the checkpoint holds the plan that was seen before the waits.   *)
QueryOld(a) ==
    /\ At(a, "query")
    /\ Set(a, [job[a] EXCEPT !.saving = job[a].seen])
    /\ Goto(a, "write")
    /\ piece' = [piece EXCEPT ![a] = 1]
    /\ UNCHANGED <<plan, file, undisturbed, tears>>

(* The active plan is read and the file opened; if either fails there is   *)
(* no checkpoint, and whoever acts goes on all the same.                   *)
Query(a) ==
    /\ At(a, "query")
    /\ \/ /\ Set(a, [job[a] EXCEPT !.saving = plan])
          /\ Goto(a, "write")
          /\ piece' = [piece EXCEPT ![a] = 1]
       \/ MayFail /\ AfterSave(a, NoPlan) /\ UNCHANGED piece
    /\ UNCHANGED <<plan, file, undisturbed, tears>>

(* The next piece of the line.                                             *)
WritePiece(a) ==
    /\ At(a, "write")
    /\ file' = AddPiece(file, piece[a], job[a].saving)
    /\ piece' = [piece EXCEPT ![a] = IF @ = 5 THEN 1 ELSE @ + 1]
    /\ IF piece[a] = 5 THEN AfterSave(a, job[a].saving) ELSE UNCHANGED <<pc, job>>
    /\ UNCHANGED <<plan, undisturbed, tears>>

(* A write fails in the middle of the line; save_silent still returns true.*)
WriteFails(a) ==
    /\ At(a, "write")
    /\ tears < MaxTears
    /\ tears' = tears + 1
    /\ piece' = [piece EXCEPT ![a] = 1]
    /\ AfterSave(a, NoPlan)
    /\ UNCHANGED <<plan, file, undisturbed>>

Apply(a) ==
    /\ At(a, "apply")
    /\ \/ /\ plan' = job[a].target
          /\ Set(a, [job[a] EXCEPT !.before = plan])
          /\ Goto(a, "verify")
       \/ MayFail /\ Return(a) /\ UNCHANGED plan
    /\ UNCHANGED <<piece, file, undisturbed, tears>>

(* The result of the verification is shown and logged; nothing is undone.  *)
Verify(a) ==
    /\ At(a, "verify")
    /\ Return(a)
    /\ UNCHANGED <<piece, plan, file, undisturbed, tears>>

-----------------------------------------------------------------------------
(* checkpoint restore, the user's own hand, and killed processes.          *)

ReadCheckpoint(a) ==
    /\ At(a, "restore")
    /\ IF Restorable(file) = NoPlan
       THEN Return(a)
       ELSE /\ Set(a, [job[a] EXCEPT !.saving = Restorable(file)])
            /\ Goto(a, "restore_apply")
    /\ UNCHANGED <<piece, plan, file, undisturbed, tears>>

RestorePlan(a) ==
    /\ At(a, "restore_apply")
    /\ plan' = job[a].saving \/ (MayFail /\ UNCHANGED plan)
    /\ Return(a)
    /\ UNCHANGED <<piece, file, undisturbed, tears>>

UserSetsPlan ==
    /\ plan' \in Plan
    /\ undisturbed' = {}
    /\ UNCHANGED <<pc, job, piece, file, tears>>

(* A process ends: killed, Ctrl+C, blue screen.                            *)
Kill(a) ==
    /\ pc[a] # "idle"
    /\ At(a, "write") => tears < MaxTears
    /\ tears' = IF At(a, "write") THEN tears + 1 ELSE tears
    /\ piece' = [piece EXCEPT ![a] = 1]
    /\ Return(a)
    /\ UNCHANGED <<plan, file, undisturbed>>

Progress(a) ==
    \/ \E reading \in Readings : Collect(a, reading)
    \/ PipelineAnswers(a) \/ PipelineUnavailable(a) \/ Decide(a) \/ UserAnswers(a)
    \/ Query(a) \/ WritePiece(a) \/ WriteFails(a) \/ Apply(a) \/ Verify(a)
    \/ ReadCheckpoint(a) \/ RestorePlan(a)

Next ==
    \/ \E a \in Agent, c \in Commands : Call(a, c)
    \/ \E a \in Agent : Progress(a) \/ Kill(a)
    \/ UserSetsPlan

Spec == Init /\ [][Next]_vars

-----------------------------------------------------------------------------
(* Each variable keeps its type.                                           *)
TypeOK ==
    /\ pc \in [Agent -> Steps]
    /\ job \in [Agent -> Jobs]
    /\ piece \in [Agent -> Pieces]
    /\ plan \in Plan
    /\ file \in Files
    /\ undisturbed \subseteq Agent
    /\ tears \in 0..MaxTears

(* The safety rails, at the moment a plan has been set: it is one of the   *)
(* whitelist and not the one the agent saw, what the agent read was        *)
(* plausible, and the user said yes or had started the daemon with --auto. *)
ActsWithinRails ==
    \A a \in Agent : pc[a] \in Busy /\ job[a].command \notin {"save", "restore"} =>
      /\ job[a].target \in Whitelist \ {job[a].seen}
      /\ ~Suspicious(job[a].reading)
      /\ job[a].command = "fix" => job[a].yes
      /\ job[a].command \in {"fix", "auto"}

(* The checkpoint of an action that saved one brings back the plan that    *)
(* the action replaced, if nothing else touched plan or file meanwhile and *)
(* no earlier line was left unfinished.                                    *)
SavedMeansReversible ==
    \A a \in undisturbed : At(a, "verify") /\ job[a].saving # NoPlan /\ tears = 0 =>
      Restorable(file) = job[a].before

=============================================================================
