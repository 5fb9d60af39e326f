---------------------------- MODULE ProcessProofs ----------------------------
(***************************************************************************)
(* Theorems about the processes of a PC.  The agents that act on the       *)
(* machine, for any number of them, any plans and any whitelist: whatever  *)
(* the providers answer and whenever processes die, an action that reaches *)
(* the checkpoint or the power plan is within the rails, and one that      *)
(* reports itself saved can be undone.  The daemon's loop, for any streak  *)
(* and cooldown.  The shell and the runs of the command line, for any      *)
(* number of runs: no server is left behind, and while runs do not         *)
(* overlap, the metrics count each crash once.                             *)
(***************************************************************************)
EXTENDS Actions, Daemon, Sessions, SequenceTheorems, FiniteSetTheorems, TLAPS

USE CheckpointsAssumption, ActionsAssumption

(* Writing into a line of a checkpoint file gives a line again.            *)
LEMMA AddTextType ==
  ASSUME NEW line \in Lines, NEW text \in Words \cup Plan
  PROVE  AddText(line, text) \in Lines
  BY DEF AddText, Lines, Fields

LEMMA AddBarType ==
  ASSUME NEW line \in Lines PROVE AddBar(line) \in Lines
<1>1. CASE Len(line) = 4
  BY <1>1 DEF AddBar
<1>2. CASE Len(line) # 4
  <2>1. Append(line, Blank) \in Seq(Fields) /\ Len(Append(line, Blank)) = Len(line) + 1
    BY DEF Lines, Fields
  <2>2. Len(line) \in 1..4
    BY DEF Lines
  <2>3. Len(line) + 1 \in 1..4
    <3>1. \A n \in 1..4 : n # 4 => n + 1 \in 1..4
      OBVIOUS
    <3>2. QED
      BY <1>2, <2>2, <3>1
  <2>4. Append(line, Blank) \in Lines
    BY <2>1, <2>3 DEF Lines
  <2>5. QED
    BY <1>2, <2>4 DEF AddBar
<1>3. QED
  BY <1>1, <1>2

LEMMA RestorableType ==
  ASSUME NEW f \in Files PROVE Restorable(f) \in Plan \cup {NoPlan}
  BY DEF Restorable, PlanOf, Files

LEMMA EmptyLineType == EmptyLine \in Lines
  BY DEF EmptyLine, Lines, Fields

LEMMA AddPieceType ==
  ASSUME NEW f \in Files, NEW n \in Pieces, NEW p \in Plan
  PROVE  AddPiece(f, n, p) \in Files
<1> USE DEF Pieces
<1>1. f.open \in Lines /\ f.last \in Plan \cup {NoPlan}
  BY DEF Files
<1>2. CASE n = 1
  <2>1. AddText(f.open, "time") \in Lines
    BY <1>1, AddTextType DEF Words
  <2>2. QED
    BY <1>2, <2>1 DEF AddPiece, Files
<1>3. CASE n = 2
  <2>1. AddBar(AddText(AddBar(f.open), "power_plan")) \in Lines
    BY <1>1, AddTextType, AddBarType DEF Words
  <2>2. QED
    BY <1>3, <2>1 DEF AddPiece, Files
<1>4. CASE n = 3
  <2>1. AddText(f.open, p) \in Lines
    BY <1>1, AddTextType
  <2>2. QED
    BY <1>4, <2>1 DEF AddPiece, Files
<1>5. CASE n = 4
  <2>1. AddText(AddBar(f.open), "label") \in Lines
    BY <1>1, AddTextType, AddBarType DEF Words
  <2>2. QED
    BY <1>5, <2>1 DEF AddPiece, Files
<1>6. CASE n = 5
  BY <1>6, RestorableType, EmptyLineType DEF AddPiece, Files
<1>7. QED
  BY <1>2, <1>3, <1>4, <1>5, <1>6

-----------------------------------------------------------------------------
(* What an agent holds at each place: what it is about to set passed the   *)
(* whitelist when it was proposed and the other checks when it was decided.*)
Proposed(j) == j.target \in (Whitelist \ {j.seen}) \cup {NoAction}
Cleared(j)  == /\ j.target \in Whitelist \ {j.seen}
               /\ ~Suspicious(j.reading)

AgentInv(a) ==
    /\ pc[a] \in {"collect", "pipeline", "decide"} =>
         job[a].command \in {"fix", "dry", "react", "auto"}
    /\ At(a, "decide") => Proposed(job[a])
    /\ At(a, "ask") => job[a].command = "fix" /\ Cleared(job[a])
    /\ pc[a] \in {"query", "write"} =>
         \/ job[a].command = "save"
         \/ job[a].command \in {"fix", "auto"}
    /\ pc[a] \in {"apply", "verify"} => job[a].command \in {"fix", "auto"}
    /\ pc[a] \in {"restore", "restore_apply"} => job[a].command = "restore"
    /\ pc[a] \in Busy /\ job[a].command \notin {"save", "restore"} =>
         Cleared(job[a]) /\ (job[a].command = "fix" => job[a].yes)
    /\ At(a, "write") => job[a].saving \in Plan
    /\ At(a, "restore_apply") => job[a].saving \in Plan

RailsInv == TypeOK /\ \A a \in Agent : AgentInv(a)

LEMMA NewJobType == NewJob \in Jobs
  BY DEF NewJob, Jobs, Readings

LEMMA InitRails == Init => RailsInv
<1> SUFFICES ASSUME Init PROVE RailsInv
  OBVIOUS
<1>1. TypeOK
  BY NewJobType, EmptyLineType DEF Init, TypeOK, Steps, Pieces, Files, EmptyFile
<1>2. \A a \in Agent : AgentInv(a)
  BY DEF Init, AgentInv, At, Busy
<1>3. QED
  BY <1>1, <1>2 DEF RailsInv

(* A step of one agent leaves the others where they are.                   *)
LEMMA OneAgentSteps ==
  ASSUME RailsInv, NEW a \in Agent, NEW s \in Steps, NEW j \in Jobs,
         pc' = [pc EXCEPT ![a] = s], job' = [job EXCEPT ![a] = j],
         piece' \in [Agent -> Pieces], plan' \in Plan, file' \in Files,
         undisturbed' \subseteq Agent, tears' \in 0..MaxTears,
         AgentInv(a)'
  PROVE  RailsInv'
<1>1. TypeOK'
  BY DEF RailsInv, TypeOK
<1>2. ASSUME NEW b \in Agent, b # a PROVE AgentInv(b)'
  <2>1. pc'[b] = pc[b] /\ job'[b] = job[b]
    BY <1>2 DEF RailsInv, TypeOK
  <2>2. AgentInv(b)
    BY DEF RailsInv
  <2>3. QED
    BY <2>1, <2>2 DEF AgentInv, At
<1>3. QED
  BY <1>1, <1>2 DEF RailsInv

(* A command that is over leaves nothing behind.                           *)
LEMMA OneAgentReturns ==
  ASSUME RailsInv, NEW a \in Agent, Return(a),
         piece' \in [Agent -> Pieces], plan' \in Plan, file' \in Files,
         undisturbed' \subseteq Agent, tears' \in 0..MaxTears
  PROVE  RailsInv'
<1>1. pc' = [pc EXCEPT ![a] = "idle"] /\ job' = [job EXCEPT ![a] = NewJob]
  BY DEF Return, Set, Goto
<1>2. AgentInv(a)'
  BY <1>1 DEF AgentInv, At, Busy, RailsInv, TypeOK
<1>3. QED
  BY <1>1, <1>2, NewJobType, OneAgentSteps DEF Steps

LEMMA CollectedType ==
  ASSUME NEW g \in Jobs, NEW reading \in Readings, NEW seen \in Plan \cup {NoPlan}
  PROVE  LET j == [g EXCEPT !.reading = reading, !.seen = seen]
         IN  j \in Jobs /\ j.command = g.command
  BY DEF Jobs

LEMMA NextRails == RailsInv /\ [Next]_vars => RailsInv'
<1> SUFFICES ASSUME RailsInv, [Next]_vars PROVE RailsInv'
  OBVIOUS
<1> USE DEF Goto, At, Set
<1>a. /\ pc \in [Agent -> Steps] /\ job \in [Agent -> Jobs] /\ piece \in [Agent -> Pieces]
      /\ plan \in Plan /\ file \in Files /\ undisturbed \subseteq Agent /\ tears \in 0..MaxTears
      /\ \A b \in Agent : AgentInv(b)
  BY DEF RailsInv, TypeOK
<1>b. \A b \in Agent : Enter(b) => undisturbed' \subseteq Agent
  BY DEF Enter
<1>1. ASSUME NEW a \in Agent, NEW c \in Commands, Call(a, c) PROVE RailsInv'
  <2> DEFINE s == CASE c = "save" -> "query" [] c = "restore" -> "restore" [] OTHER -> "collect"
             j == [NewJob EXCEPT !.command = c]
  <2>1. s \in Steps /\ s \in {"query", "restore", "collect"}
    BY DEF Steps, Busy
  <2>2. j \in Jobs /\ j.command = c
    BY DEF Jobs, NewJob, Commands, Readings
  <2>3. pc' = [pc EXCEPT ![a] = s] /\ job' = [job EXCEPT ![a] = j]
    BY <1>1 DEF Call
  <2>4. undisturbed' \subseteq Agent
    BY <1>1, <1>a, <1>b DEF Call
  <2>5. pc'[a] = s /\ job'[a].command = c
    BY <1>a, <2>2, <2>3
  <2>6. AgentInv(a)'
    BY <2>1, <2>5 DEF AgentInv, Commands, Busy
  <2>7. QED
    BY <1>1, <1>a, <2>1, <2>2, <2>3, <2>4, <2>6, OneAgentSteps DEF Call
<1>2. ASSUME NEW a \in Agent, NEW reading \in Readings, Collect(a, reading) PROVE RailsInv'
  <2>1. PICK seen \in ReadablePlans : job' = [job EXCEPT ![a] = [job[a] EXCEPT !.reading = reading, !.seen = seen]]
    BY <1>2 DEF Collect
  <2> DEFINE j == [job[a] EXCEPT !.reading = reading, !.seen = seen]
  <2>2. j \in Jobs /\ j.command = job[a].command
    <3>1. job[a] \in Jobs /\ reading \in Readings
      BY <1>a
    <3>2. seen \in Plan \cup {NoPlan}
      BY <1>a DEF ReadablePlans
    <3>3. QED
      BY <3>1, <3>2, CollectedType
  <2>3. AgentInv(a)'
    BY <1>2, <1>a, <2>1, <2>2 DEF Collect, AgentInv, Busy
  <2>4. QED
    BY <1>2, <1>a, <2>1, <2>2, <2>3, OneAgentSteps DEF Collect, Steps
<1>3. ASSUME NEW a \in Agent, PipelineAnswers(a) PROVE RailsInv'
  <2>1. PICK target \in (Whitelist \ {job[a].seen}) \cup {NoAction}, by \in {"nobody", "confirmer", "rules"} :
          job' = [job EXCEPT ![a] = [job[a] EXCEPT !.target = target, !.by = by]]
    BY <1>3 DEF PipelineAnswers
  <2> DEFINE j == [job[a] EXCEPT !.target = target, !.by = by]
  <2>2. /\ j \in Jobs /\ j.command = job[a].command
        /\ j.target = target /\ j.seen = job[a].seen
    <3>1. job[a] \in Jobs /\ target \in Whitelist \cup {NoAction}
      BY <1>a
    <3>2. ASSUME NEW g \in Jobs
          PROVE  LET i == [g EXCEPT !.target = target, !.by = by]
                 IN  i \in Jobs /\ i.command = g.command /\ i.target = target /\ i.seen = g.seen
      BY <3>1 DEF Jobs
    <3>3. QED
      BY <3>1, <3>2
  <2>3. AgentInv(a)'
    BY <1>3, <1>a, <2>1, <2>2 DEF PipelineAnswers, AgentInv, Busy, Proposed
  <2>4. QED
    BY <1>3, <1>a, <2>1, <2>2, <2>3, OneAgentSteps DEF PipelineAnswers, Steps
<1>4. ASSUME NEW a \in Agent, PipelineUnavailable(a) PROVE RailsInv'
  <2>1. PICK target \in (Whitelist \ {job[a].seen}) \cup {NoAction}, by \in {"nobody", "confirmer", "rules"} :
          job' = [job EXCEPT ![a] = [job[a] EXCEPT !.target = target, !.by = by]]
    BY <1>4 DEF PipelineUnavailable
  <2> DEFINE j == [job[a] EXCEPT !.target = target, !.by = by]
  <2>2. /\ j \in Jobs /\ j.command = job[a].command
        /\ j.target = target /\ j.seen = job[a].seen
    <3>1. job[a] \in Jobs /\ target \in Whitelist \cup {NoAction}
      BY <1>a
    <3>2. ASSUME NEW g \in Jobs
          PROVE  LET i == [g EXCEPT !.target = target, !.by = by]
                 IN  i \in Jobs /\ i.command = g.command /\ i.target = target /\ i.seen = g.seen
      BY <3>1 DEF Jobs
    <3>3. QED
      BY <3>1, <3>2
  <2>3. AgentInv(a)'
    BY <1>4, <1>a, <2>1, <2>2 DEF PipelineUnavailable, AgentInv, Busy, Proposed
  <2>4. QED
    BY <1>4, <1>a, <2>1, <2>2, <2>3, OneAgentSteps DEF PipelineUnavailable, Steps
<1>5. ASSUME NEW a \in Agent, Decide(a) PROVE RailsInv'
  <2>1. CASE Return(a)
    BY <1>5, <1>a, <1>b, <2>1, OneAgentReturns DEF Decide
  <2>2. CASE ~Return(a)
    <3>1. PICK s \in {"ask", "query"} :
            /\ pc' = [pc EXCEPT ![a] = s]
            /\ s = "ask" => job[a].command = "fix"
            /\ s = "query" => job[a].command = "auto"
      BY <1>5, <2>2 DEF Decide
    <3>2. Actionable(job[a]) /\ ~Suspicious(job[a].reading) /\ Proposed(job[a]) /\ At(a, "decide")
      BY <1>5, <1>a, <2>2 DEF Decide, AgentInv
    <3>3. Cleared(job[a])
      BY <3>2 DEF Actionable, Proposed, Cleared
    <3>4. job' = job /\ undisturbed' \subseteq Agent
      BY <1>5, <1>a, <1>b, <2>2 DEF Decide
    <3>5. AgentInv(a)'
      BY <1>a, <3>1, <3>2, <3>3, <3>4 DEF AgentInv, Busy
    <3>6. job' = [job EXCEPT ![a] = job[a]] /\ s \in Steps
      BY <1>a, <3>4 DEF Steps, Busy
    <3>7. QED
      BY <1>5, <1>a, <3>1, <3>4, <3>5, <3>6, OneAgentSteps DEF Decide
  <2>3. QED
    BY <2>1, <2>2
<1>6. ASSUME NEW a \in Agent, UserAnswers(a) PROVE RailsInv'
  <2>1. CASE Return(a)
    BY <1>6, <1>a, <1>b, <2>1, OneAgentReturns DEF UserAnswers
  <2>2. CASE ~Return(a)
    <3> DEFINE j == [job[a] EXCEPT !.yes = TRUE]
    <3>1. pc' = [pc EXCEPT ![a] = "query"] /\ job' = [job EXCEPT ![a] = j] /\ undisturbed' \subseteq Agent
      BY <1>6, <1>b, <2>2 DEF UserAnswers
    <3>2. /\ j \in Jobs /\ j.command = job[a].command /\ j.target = job[a].target
          /\ j.seen = job[a].seen /\ j.reading = job[a].reading /\ j.yes
      BY <1>a DEF Jobs
    <3>3. AgentInv(a)'
      <4>1. job[a].command = "fix" /\ Cleared(job[a])
        BY <1>6, <1>a DEF UserAnswers, AgentInv
      <4>2. pc'[a] = "query" /\ job'[a] = j
        BY <1>a, <3>1
      <4>3. j.command = "fix" /\ Cleared(j) /\ j.yes
        BY <3>2, <4>1 DEF Cleared
      <4> HIDE DEF j
      <4>4. QED
        BY <4>2, <4>3 DEF AgentInv, Busy, At
    <3>4. QED
      BY <1>6, <1>a, <3>1, <3>2, <3>3, OneAgentSteps DEF UserAnswers, Steps, Busy
  <2>3. QED
    BY <2>1, <2>2
<1>c. ASSUME NEW a \in Agent, NEW p \in Plan \cup {NoPlan}, pc[a] \in {"query", "write"}, AfterSave(a, p),
             piece' \in [Agent -> Pieces], plan' \in Plan, file' \in Files,
             undisturbed' \subseteq Agent, tears' \in 0..MaxTears
      PROVE  RailsInv'
  <2>1. CASE Return(a)
    BY <1>c, <2>1, OneAgentReturns
  <2>2. CASE ~Return(a)
    <3> DEFINE j == [job[a] EXCEPT !.saving = p]
    <3>1. pc' = [pc EXCEPT ![a] = "apply"] /\ job' = [job EXCEPT ![a] = j] /\ job[a].command # "save"
      BY <1>c, <2>2 DEF AfterSave
    <3>2. /\ j \in Jobs /\ j.command = job[a].command /\ j.target = job[a].target
          /\ j.seen = job[a].seen /\ j.reading = job[a].reading /\ j.yes = job[a].yes
      BY <1>a DEF Jobs
    <3>3. AgentInv(a)'
      BY <1>c, <1>a, <3>1, <3>2 DEF AgentInv, Busy, Cleared
    <3>4. QED
      BY <1>c, <3>1, <3>2, <3>3, OneAgentSteps DEF Steps, Busy
  <2>3. QED
    BY <2>1, <2>2
<1>7. ASSUME NEW a \in Agent, Query(a) PROVE RailsInv'
  <2>1. CASE AfterSave(a, NoPlan) /\ UNCHANGED piece
    BY <1>7, <1>a, <1>c, <2>1 DEF Query
  <2>2. CASE ~(AfterSave(a, NoPlan) /\ UNCHANGED piece)
    <3> DEFINE j == [job[a] EXCEPT !.saving = plan]
    <3>1. /\ pc' = [pc EXCEPT ![a] = "write"] /\ job' = [job EXCEPT ![a] = j]
          /\ piece' = [piece EXCEPT ![a] = 1]
      BY <1>7, <2>2 DEF Query
    <3>2. /\ j \in Jobs /\ j.command = job[a].command /\ j.target = job[a].target
          /\ j.seen = job[a].seen /\ j.reading = job[a].reading /\ j.yes = job[a].yes
          /\ j.saving = plan
      BY <1>a DEF Jobs
    <3>3. AgentInv(a)'
      BY <1>7, <1>a, <3>1, <3>2 DEF Query, AgentInv, Busy, Cleared
    <3>4. piece' \in [Agent -> Pieces] /\ "write" \in Steps
      BY <1>a, <3>1 DEF Pieces, Steps, Busy
    <3>5. QED
      BY <1>7, <1>a, <3>1, <3>2, <3>3, <3>4, OneAgentSteps DEF Query
  <2>3. QED
    BY <2>1, <2>2
<1>8. ASSUME NEW a \in Agent, WritePiece(a) PROVE RailsInv'
  <2>1. job[a].saving \in Plan /\ At(a, "write") /\ piece[a] \in Pieces
    BY <1>8, <1>a DEF WritePiece, AgentInv
  <2>2. file' \in Files
    BY <1>8, <1>a, <2>1, AddPieceType DEF WritePiece
  <2>3. piece' \in [Agent -> Pieces]
    BY <1>8, <1>a DEF WritePiece, Pieces
  <2>4. CASE piece[a] = 5
    BY <1>8, <1>a, <1>c, <2>1, <2>2, <2>3, <2>4 DEF WritePiece
  <2>5. CASE piece[a] # 5
    <3>1. pc' = [pc EXCEPT ![a] = pc[a]] /\ job' = [job EXCEPT ![a] = job[a]]
      BY <1>8, <1>a, <2>5 DEF WritePiece
    <3>2. AgentInv(a)'
      BY <1>8, <1>a, <2>5 DEF WritePiece, AgentInv
    <3>3. QED
      BY <1>8, <1>a, <2>2, <2>3, <3>1, <3>2, OneAgentSteps DEF WritePiece
  <2>6. QED
    BY <2>4, <2>5
<1>9. ASSUME NEW a \in Agent, WriteFails(a) PROVE RailsInv'
  <2>1. piece' \in [Agent -> Pieces] /\ tears' \in 0..MaxTears
    BY <1>9, <1>a DEF WriteFails, Pieces
  <2>2. QED
    BY <1>9, <1>a, <1>c, <2>1 DEF WriteFails
<1>10. ASSUME NEW a \in Agent, Apply(a) PROVE RailsInv'
  <2>1. CASE Return(a)
    BY <1>10, <1>a, <2>1, OneAgentReturns DEF Apply, AgentInv, Cleared, Busy
  <2>2. CASE ~Return(a)
    <3> DEFINE j == [job[a] EXCEPT !.before = plan]
    <3>1. pc' = [pc EXCEPT ![a] = "verify"] /\ job' = [job EXCEPT ![a] = j] /\ plan' = job[a].target
      BY <1>10, <2>2 DEF Apply
    <3>2. /\ j \in Jobs /\ j.command = job[a].command /\ j.target = job[a].target
          /\ j.seen = job[a].seen /\ j.reading = job[a].reading /\ j.yes = job[a].yes
      BY <1>a DEF Jobs
    <3>3. AgentInv(a)' /\ job[a].target \in Plan
      BY <1>10, <1>a, <3>1, <3>2 DEF Apply, AgentInv, Busy, Cleared
    <3>4. QED
      BY <1>10, <1>a, <3>1, <3>2, <3>3, OneAgentSteps DEF Apply, Steps, Busy
  <2>3. QED
    BY <2>1, <2>2
<1>11. ASSUME NEW a \in Agent, Verify(a) PROVE RailsInv'
  BY <1>11, <1>a, OneAgentReturns DEF Verify
<1>12. ASSUME NEW a \in Agent, ReadCheckpoint(a) PROVE RailsInv'
  <2>1. CASE Return(a)
    BY <1>12, <1>a, <2>1, OneAgentReturns DEF ReadCheckpoint
  <2>2. CASE ~Return(a)
    <3> DEFINE j == [job[a] EXCEPT !.saving = Restorable(file)]
    <3>1. /\ pc' = [pc EXCEPT ![a] = "restore_apply"] /\ job' = [job EXCEPT ![a] = j]
          /\ Restorable(file) # NoPlan
      BY <1>12, <2>2 DEF ReadCheckpoint
    <3>2. /\ j \in Jobs /\ j.command = job[a].command /\ j.saving = Restorable(file)
          /\ Restorable(file) \in Plan
      BY <1>a, <3>1, RestorableType DEF Jobs
    <3>3. AgentInv(a)'
      BY <1>12, <1>a, <3>1, <3>2 DEF ReadCheckpoint, AgentInv, Busy
    <3>4. QED
      BY <1>12, <1>a, <3>1, <3>2, <3>3, OneAgentSteps DEF ReadCheckpoint, Steps, Busy
  <2>3. QED
    BY <2>1, <2>2
<1>13. ASSUME NEW a \in Agent, RestorePlan(a) PROVE RailsInv'
  <2>1. plan' \in Plan
    BY <1>13, <1>a DEF RestorePlan, AgentInv
  <2>2. QED
    BY <1>13, <1>a, <2>1, OneAgentReturns DEF RestorePlan
<1>14. CASE UserSetsPlan
  BY <1>14 DEF UserSetsPlan, RailsInv, TypeOK, AgentInv
<1>15. ASSUME NEW a \in Agent, Kill(a) PROVE RailsInv'
  <2>1. piece' \in [Agent -> Pieces] /\ tears' \in 0..MaxTears
    BY <1>15, <1>a DEF Kill, Pieces
  <2>2. QED
    BY <1>15, <1>a, <2>1, OneAgentReturns DEF Kill
<1>16. CASE UNCHANGED vars
  BY <1>16 DEF vars, RailsInv, TypeOK, AgentInv
<1>17. QED
  BY <1>1, <1>2, <1>3, <1>4, <1>5, <1>6, <1>7, <1>8, <1>9, <1>10, <1>11, <1>12, <1>13,
     <1>14, <1>15, <1>16 DEF Next, Progress

(* The state of the agents, the plan and the checkpoint file keep their    *)
(* types (diagnose.rs, checkpoint.rs).                                     *)
THEOREM ActionsTypeCorrect == Spec => []TypeOK
<1>1. RailsInv => TypeOK
  BY DEF RailsInv
<1>2. QED
  BY <1>1, InitRails, NextRails, PTL DEF Spec

(* The rails of diagnose.rs hold for every action that gets to the         *)
(* checkpoint or beyond, for any answers of the providers.                 *)
THEOREM ActionsStayWithinRails == Spec => []ActsWithinRails
<1>1. RailsInv => ActsWithinRails
  BY DEF RailsInv, ActsWithinRails, AgentInv, Cleared, Busy
<1>2. QED
  BY <1>1, InitRails, NextRails, PTL DEF Spec

-----------------------------------------------------------------------------
(* Reversibility.  A line is unfinished only while somebody writes it, so  *)
(* one who has the file to itself starts on an empty line, and what it     *)
(* saves is the plan it replaces.                                          *)

(* The line after n - 1 of its pieces, by what a reader looks at.          *)
Shaped(line, n, p) ==
    /\ n = 1 => line = EmptyLine
    /\ n = 2 => Len(line) = 1
    /\ n = 3 => Len(line) = 3 /\ line[2] = "power_plan" /\ line[3] = Blank
    /\ n = 4 => Len(line) = 3 /\ line[2] = "power_plan" /\ line[3] = p
    /\ n = 5 => Len(line) = 4 /\ line[2] = "power_plan" /\ line[3] = p

OpenInv ==
    tears = 0 /\ file.open # EmptyLine =>
      \E b \in Agent : At(b, "write") /\ piece[b] # 1

SavedInv(a) ==
    /\ At(a, "write") => job[a].saving = plan /\ Shaped(file.open, piece[a], plan)
    /\ At(a, "apply") /\ job[a].saving # NoPlan =>
         job[a].saving = plan /\ Restorable(file) = plan
    /\ At(a, "verify") /\ job[a].saving # NoPlan => Restorable(file) = job[a].before

UndisturbedInv ==
    \A a \in undisturbed : pc[a] \in Busy =>
      /\ \A b \in Agent \ {a} : pc[b] \notin Busy
      /\ tears = 0 => SavedInv(a)

SaveInv == RailsInv /\ OpenInv /\ UndisturbedInv

LEMMA AddTextShape ==
  ASSUME NEW line \in Lines, NEW text \in Words \cup Plan
  PROVE  /\ Len(AddText(line, text)) = Len(line)
         /\ \A i \in 1..(Len(line) - 1) : AddText(line, text)[i] = line[i]
         /\ Len(line) \in {2, 3} /\ line[Len(line)] = Blank => AddText(line, text)[Len(line)] = text
  BY DEF AddText, Lines

LEMMA AddBarShape ==
  ASSUME NEW line \in Lines, Len(line) # 4
  PROVE  /\ Len(AddBar(line)) = Len(line) + 1
         /\ \A i \in 1..Len(line) : AddBar(line)[i] = line[i]
         /\ AddBar(line)[Len(line) + 1] = Blank
  BY DEF AddBar, Lines, Fields

(* Each piece brings an undisturbed line to its next shape, and the last   *)
(* one makes it the checkpoint that restores p.                            *)
LEMMA NextShape ==
  ASSUME NEW f \in Files, NEW n \in Pieces, NEW p \in Plan, Shaped(f.open, n, p)
  PROVE  /\ n # 5 => Shaped(AddPiece(f, n, p).open, n + 1, p)
         /\ n = 5 => /\ AddPiece(f, n, p).open = EmptyLine
                     /\ Restorable(AddPiece(f, n, p)) = p
<1>1. f.open \in Lines /\ f.last \in Plan \cup {NoPlan} /\ f = [last |-> f.last, open |-> f.open]
  BY DEF Files
<1>2. EmptyLine \in Lines /\ Len(EmptyLine) = 1
  BY EmptyLineType DEF EmptyLine
<1> DEFINE g == AddPiece(f, n, p)
<1>3. CASE n = 1
  <2>1. g.open = AddText(f.open, "time")
    BY <1>1, <1>3 DEF AddPiece
  <2>2. Len(g.open) = 1
    BY <1>1, <1>2, <1>3, <2>1, AddTextShape DEF Shaped, Words
  <2>3. QED
    BY <1>3, <2>2 DEF Shaped
<1>4. CASE n = 2
  <2> DEFINE x == AddBar(f.open)
             y == AddText(x, "power_plan")
  <2>1. g.open = AddBar(y)
    BY <1>1, <1>4 DEF AddPiece
  <2>2. Len(f.open) = 1
    BY <1>4 DEF Shaped
  <2>3. x \in Lines /\ Len(x) = 2 /\ x[2] = Blank
    <3>1. Len(f.open) # 4 /\ x \in Lines
      BY <1>1, <2>2, AddBarType
    <3>2. Len(x) = Len(f.open) + 1 /\ x[Len(f.open) + 1] = Blank
      BY <1>1, <3>1, AddBarShape
    <3>3. QED
      BY <2>2, <3>1, <3>2
  <2> HIDE DEF x
  <2>4. y \in Lines /\ Len(y) = 2 /\ y[2] = "power_plan"
    BY <2>3, AddTextType, AddTextShape DEF Words
  <2> HIDE DEF y
  <2>5. Len(g.open) = 3 /\ g.open[2] = "power_plan" /\ g.open[3] = Blank
    <3>1. y \in Lines /\ Len(y) # 4
      BY <2>4
    <3> HIDE DEF g
    <3>2. /\ Len(g.open) = Len(y) + 1 /\ g.open[Len(y) + 1] = Blank
          /\ \A i \in 1..Len(y) : g.open[i] = y[i]
      BY <2>1, <3>1, AddBarShape
    <3>3. Len(y) + 1 = 3 /\ 2 \in 1..Len(y)
      BY <2>4
    <3>4. QED
      BY <2>4, <3>2, <3>3
  <2>6. QED
    BY <1>4, <2>5 DEF Shaped
<1>5. CASE n = 3
  <2>1. g.open = AddText(f.open, p)
    BY <1>1, <1>5 DEF AddPiece
  <2>2. Len(f.open) = 3 /\ f.open[2] = "power_plan" /\ f.open[3] = Blank
    BY <1>5 DEF Shaped
  <2>3. Len(g.open) = 3 /\ g.open[2] = "power_plan" /\ g.open[3] = p
    BY <1>1, <2>1, <2>2, AddTextShape
  <2>4. QED
    BY <1>5, <2>3 DEF Shaped
<1>6. CASE n = 4
  <2> DEFINE x == AddBar(f.open)
  <2>1. g.open = AddText(x, "label")
    BY <1>1, <1>6 DEF AddPiece
  <2>2. Len(f.open) = 3 /\ f.open[2] = "power_plan" /\ f.open[3] = p
    BY <1>6 DEF Shaped
  <2>3. x \in Lines /\ Len(x) = 4 /\ x[2] = "power_plan" /\ x[3] = p
    <3>1. Len(f.open) # 4 /\ x \in Lines
      BY <1>1, <2>2, AddBarType
    <3>2. Len(x) = Len(f.open) + 1 /\ \A i \in 1..Len(f.open) : x[i] = f.open[i]
      BY <1>1, <3>1, AddBarShape
    <3>3. Len(f.open) + 1 = 4 /\ 2 \in 1..Len(f.open) /\ 3 \in 1..Len(f.open)
      BY <2>2
    <3>4. QED
      BY <2>2, <3>1, <3>2, <3>3
  <2> HIDE DEF x
  <2>4. Len(g.open) = 4 /\ g.open[2] = "power_plan" /\ g.open[3] = p
    BY <2>1, <2>3, AddTextShape DEF Words
  <2>5. QED
    BY <1>6, <2>4 DEF Shaped
<1>7. CASE n = 5
  <2>1. g = [last |-> Restorable(f), open |-> EmptyLine]
    BY <1>7 DEF AddPiece
  <2>2. Len(f.open) = 4 /\ f.open[2] = "power_plan" /\ f.open[3] = p
    BY <1>7 DEF Shaped
  <2>3. Restorable(f) = p
    BY <1>2, <2>2 DEF Restorable, PlanOf
  <2>4. Restorable(g) = p
    BY <2>1, <2>3 DEF Restorable
  <2>5. QED
    BY <1>7, <2>1, <2>4
<1>8. QED
  BY <1>3, <1>4, <1>5, <1>6, <1>7 DEF Pieces

LEMMA InitSave == Init => SaveInv
  BY InitRails DEF Init, SaveInv, OpenInv, UndisturbedInv, EmptyFile

(* What the steps of one agent leave alone.                                *)
Calls(a) == \E c \in Commands : Call(a, c)

LEMMA OneMoves ==
  ASSUME RailsInv, NEW a \in Agent, Calls(a) \/ Progress(a) \/ Kill(a)
  PROVE  /\ \A b \in Agent \ {a} : pc'[b] = pc[b] /\ job'[b] = job[b] /\ piece'[b] = piece[b]
         /\ pc[a] \notin Busy =>
              /\ UNCHANGED <<plan, file, tears>>
              /\ pc'[a] \in Busy =>
                   undisturbed' = IF \E b \in Agent \ {a} : pc[b] \in Busy THEN {} ELSE {a}
              /\ pc'[a] \notin Busy => UNCHANGED undisturbed
         /\ pc[a] \in Busy => UNCHANGED undisturbed
<1> USE DEF Goto, At, Set, Return, Enter
<1>a. pc \in [Agent -> Steps] /\ job \in [Agent -> Jobs] /\ piece \in [Agent -> Pieces]
  BY DEF RailsInv, TypeOK
<1>1. CASE Calls(a)
  BY <1>1, <1>a DEF Calls, Call, Busy, Commands
<1>2. CASE (\E reading \in Readings : Collect(a, reading)) \/ PipelineAnswers(a) \/ PipelineUnavailable(a)
  BY <1>2, <1>a DEF Collect, PipelineAnswers, PipelineUnavailable, Busy
<1>3. CASE Decide(a)
  BY <1>3, <1>a DEF Decide, Busy
<1>4. CASE UserAnswers(a)
  BY <1>4, <1>a DEF UserAnswers, Busy
<1>5. CASE Query(a) \/ WriteFails(a)
  BY <1>5, <1>a DEF Query, WriteFails, AfterSave, Busy
<1>6. CASE WritePiece(a)
  BY <1>6, <1>a DEF WritePiece, AfterSave, Busy
<1>7. CASE Apply(a) \/ Verify(a) \/ ReadCheckpoint(a) \/ RestorePlan(a)
  BY <1>7, <1>a DEF Apply, Verify, ReadCheckpoint, RestorePlan, Busy
<1>8. CASE Kill(a)
  BY <1>8, <1>a DEF Kill, Busy
<1>9. QED
  BY <1>1, <1>2, <1>3, <1>4, <1>5, <1>6, <1>7, <1>8 DEF Progress

(* An agent that is not writing leaves the file and the count of tears.    *)
LEMMA OnlyWritersWrite ==
  ASSUME RailsInv, NEW a \in Agent, Calls(a) \/ Progress(a) \/ Kill(a), pc[a] # "write"
  PROVE  UNCHANGED <<file, tears>>
  BY DEF Calls, Call, Progress, Collect, PipelineAnswers, PipelineUnavailable, Decide,
         UserAnswers, Query, WritePiece, WriteFails, Apply, Verify, ReadCheckpoint,
         RestorePlan, Kill, At

LEMMA WriterSteps ==
  ASSUME RailsInv, NEW a \in Agent, Calls(a) \/ Progress(a) \/ Kill(a), pc[a] = "write"
  PROVE  WritePiece(a) \/ tears' = tears + 1
  BY DEF Calls, Call, Progress, Collect, PipelineAnswers, PipelineUnavailable, Decide,
         UserAnswers, Query, WriteFails, Apply, Verify, ReadCheckpoint, RestorePlan, Kill, At

LEMMA OpenStep ==
  ASSUME SaveInv, NEW a \in Agent, Calls(a) \/ Progress(a) \/ Kill(a) PROVE OpenInv'
<1>0. RailsInv /\ OpenInv /\ tears \in Nat /\ pc \in [Agent -> Steps]
      /\ piece \in [Agent -> Pieces] /\ job \in [Agent -> Jobs]
  BY DEF SaveInv, RailsInv, TypeOK
<1>1. \A b \in Agent \ {a} : pc'[b] = pc[b] /\ piece'[b] = piece[b]
  BY <1>0, OneMoves
<1>2. CASE pc[a] # "write"
  <2>1. UNCHANGED <<file, tears>>
    BY <1>0, <1>2, OnlyWritersWrite
  <2>2. QED
    BY <1>0, <1>1, <1>2, <2>1 DEF OpenInv, At
<1>3. CASE pc[a] = "write" /\ WritePiece(a)
  <2>1. CASE piece[a] = 5
    <3>1. file'.open = EmptyLine
      BY <1>3, <2>1 DEF WritePiece, AddPiece
    <3>2. QED
      BY <3>1 DEF OpenInv
  <2>2. CASE piece[a] # 5
    <3>1. pc'[a] = "write" /\ piece'[a] = piece[a] + 1
      BY <1>0, <1>3, <2>2 DEF WritePiece, At
    <3>2. piece'[a] # 1
      BY <1>0, <3>1 DEF Pieces
    <3>3. QED
      BY <3>1, <3>2 DEF OpenInv, At
  <2>3. QED
    BY <2>1, <2>2
<1>4. CASE tears' = tears + 1
  BY <1>0, <1>4 DEF OpenInv
<1>5. QED
  BY <1>0, <1>2, <1>3, <1>4, WriterSteps

(* One who starts to act does so at the start.                             *)
LEMMA EntersAtTheStart ==
  ASSUME RailsInv, NEW a \in Agent, Calls(a) \/ Progress(a) \/ Kill(a),
         pc[a] \notin Busy, pc'[a] \in Busy
  PROVE  pc'[a] \in {"query", "restore"}
<1>a. pc \in [Agent -> Steps]
  BY DEF RailsInv, TypeOK
<1> USE DEF Goto, At, Set, Return, Busy
<1>1. CASE Calls(a)
  BY <1>1, <1>a DEF Calls, Call, Commands
<1>2. CASE (\E reading \in Readings : Collect(a, reading)) \/ PipelineAnswers(a) \/ PipelineUnavailable(a)
  BY <1>2, <1>a DEF Collect, PipelineAnswers, PipelineUnavailable
<1>3. CASE Decide(a) \/ UserAnswers(a)
  BY <1>3, <1>a DEF Decide, UserAnswers
<1>4. CASE Query(a) \/ WriteFails(a) \/ WritePiece(a) \/ Apply(a) \/ Verify(a)
           \/ ReadCheckpoint(a) \/ RestorePlan(a)
  BY <1>4 DEF Query, WriteFails, WritePiece, Apply, Verify, ReadCheckpoint, RestorePlan
<1>5. CASE Kill(a)
  BY <1>5, <1>a DEF Kill
<1>6. QED
  BY <1>1, <1>2, <1>3, <1>4, <1>5 DEF Progress

LEMMA SavingFields ==
  ASSUME NEW g \in Jobs, NEW p \in Plan \cup {NoPlan}, NEW q \in Plan
  PROVE  /\ [g EXCEPT !.saving = p].saving = p
         /\ [g EXCEPT !.before = q].before = q
         /\ [g EXCEPT !.before = q].saving = g.saving
  BY DEF Jobs

(* The steps of the undisturbed agent itself.                              *)
LEMMA SavedStep ==
  ASSUME SaveInv, NEW a \in undisturbed, pc[a] \in Busy, Progress(a) \/ Kill(a),
         tears = 0, tears' = 0
  PROVE  SavedInv(a)'
<1>0. /\ RailsInv /\ OpenInv /\ pc \in [Agent -> Steps] /\ a \in Agent /\ file \in Files
      /\ piece \in [Agent -> Pieces] /\ job \in [Agent -> Jobs] /\ plan \in Plan
      /\ \A b \in Agent \ {a} : pc[b] \notin Busy
      /\ SavedInv(a)
  BY DEF SaveInv, RailsInv, TypeOK, UndisturbedInv
<1> USE DEF Goto, At, Set
<1>1. CASE pc'[a] \in {"idle", "query", "restore", "restore_apply"}
  BY <1>1 DEF SavedInv
<1>2. ASSUME Return(a) PROVE SavedInv(a)'
  BY <1>0, <1>2 DEF Return, SavedInv
<1>3. CASE Query(a)
  <2>1. CASE AfterSave(a, NoPlan)
    <3>1. CASE Return(a)
      BY <1>2, <3>1
    <3>2. CASE ~Return(a)
      <4>0. pc'[a] = "apply" /\ job'[a] = [job[a] EXCEPT !.saving = NoPlan]
        BY <1>0, <2>1, <3>2 DEF AfterSave
      <4>1. pc'[a] = "apply" /\ job'[a].saving = NoPlan
        BY <1>0, <4>0, SavingFields
      <4>2. QED
        BY <4>1 DEF SavedInv
    <3>3. QED
      BY <3>1, <3>2
  <2>2. CASE ~AfterSave(a, NoPlan)
    <3>1. /\ job'[a] = [job[a] EXCEPT !.saving = plan] /\ pc'[a] = "write" /\ piece'[a] = 1
          /\ UNCHANGED <<plan, file>>
      BY <1>0, <1>3, <2>2 DEF Query
    <3>2. job'[a].saving = plan
      BY <1>0, <3>1, SavingFields
    <3>3. file.open = EmptyLine
      BY <1>0, <1>3 DEF OpenInv, Query, Busy
    <3>4. QED
      BY <3>1, <3>2, <3>3 DEF SavedInv, Shaped
  <2>3. QED
    BY <2>1, <2>2
<1>4. CASE WritePiece(a)
  <2>1. /\ pc[a] = "write" /\ job[a].saving = plan /\ Shaped(file.open, piece[a], plan)
        /\ file' = AddPiece(file, piece[a], plan) /\ UNCHANGED plan
        /\ piece[a] \in Pieces
    BY <1>0, <1>4 DEF WritePiece, SavedInv
  <2>2. CASE piece[a] # 5
    <3>1. /\ pc'[a] = "write" /\ job'[a].saving = plan /\ piece'[a] = piece[a] + 1
      BY <1>0, <1>4, <2>1, <2>2 DEF WritePiece
    <3>2. Shaped(file'.open, piece[a] + 1, plan)
      BY <1>0, <2>1, <2>2, NextShape
    <3>3. QED
      BY <2>1, <3>1, <3>2 DEF SavedInv
  <2>3. CASE piece[a] = 5
    <3>1. Restorable(file') = plan
      BY <1>0, <2>1, <2>3, NextShape
    <3>2. AfterSave(a, plan)
      BY <1>4, <2>1, <2>3 DEF WritePiece
    <3>3. CASE Return(a)
      BY <1>2, <3>3
    <3>4. CASE ~Return(a)
      <4>0. pc'[a] = "apply" /\ job'[a] = [job[a] EXCEPT !.saving = plan]
        BY <1>0, <3>2, <3>4 DEF AfterSave
      <4>1. pc'[a] = "apply" /\ job'[a].saving = plan
        BY <1>0, <4>0, SavingFields
      <4>2. QED
        BY <2>1, <3>1, <4>1 DEF SavedInv
    <3>5. QED
      BY <3>3, <3>4
  <2>4. QED
    BY <2>2, <2>3
<1>5. CASE WriteFails(a)
  BY <1>5 DEF WriteFails
<1>6. CASE Apply(a)
  <2>1. CASE Return(a)
    BY <1>2, <2>1
  <2>2. CASE ~Return(a)
    <3>1. /\ pc[a] = "apply" /\ pc'[a] = "verify" /\ file' = file
          /\ job'[a] = [job[a] EXCEPT !.before = plan]
      BY <1>0, <1>6, <2>2 DEF Apply
    <3>2. job'[a].before = plan /\ job'[a].saving = job[a].saving
      BY <1>0, <3>1, SavingFields
    <3>3. QED
      BY <1>0, <3>1, <3>2 DEF SavedInv
  <2>3. QED
    BY <2>1, <2>2
<1>7. CASE Verify(a) \/ RestorePlan(a) \/ Kill(a)
  BY <1>2, <1>7 DEF Verify, RestorePlan, Kill
<1>8. CASE ReadCheckpoint(a)
  <2>1. CASE Return(a)
    BY <1>2, <2>1
  <2>2. CASE ~Return(a)
    BY <1>0, <1>8, <2>2, <1>1 DEF ReadCheckpoint
  <2>3. QED
    BY <2>1, <2>2
<1>9. CASE (\E reading \in Readings : Collect(a, reading)) \/ PipelineAnswers(a)
           \/ PipelineUnavailable(a) \/ Decide(a) \/ UserAnswers(a)
  BY <1>9 DEF Collect, PipelineAnswers, PipelineUnavailable, Decide, UserAnswers, Busy
<1>10. QED
  BY <1>3, <1>4, <1>5, <1>6, <1>7, <1>8, <1>9 DEF Progress

LEMMA NextSave == SaveInv /\ [Next]_vars => SaveInv'
<1> SUFFICES ASSUME SaveInv, [Next]_vars PROVE SaveInv'
  OBVIOUS
<1>0. RailsInv /\ OpenInv /\ UndisturbedInv /\ RailsInv' /\ undisturbed \subseteq Agent
      /\ undisturbed' \subseteq Agent
  BY NextRails DEF SaveInv, RailsInv, TypeOK
<1>1. ASSUME NEW a \in Agent, Calls(a) \/ Progress(a) \/ Kill(a) PROVE SaveInv'
  <2>1. OpenInv'
    BY <1>1, OpenStep
  <2>2. ASSUME NEW u \in undisturbed', pc'[u] \in Busy, u # a
        PROVE  /\ \A b \in Agent \ {u} : pc'[b] \notin Busy
               /\ tears' = 0 => SavedInv(u)'
    <3>1. pc[u] \in Busy /\ job'[u] = job[u] /\ piece'[u] = piece[u] /\ pc'[u] = pc[u]
      BY <1>0, <1>1, <2>2, OneMoves
    <3>2. pc[a] \notin Busy
      BY <1>0, <1>1, <2>2, <3>1, OneMoves DEF UndisturbedInv
    <3>3. pc'[a] \notin Busy
      BY <1>0, <1>1, <2>2, <3>1, <3>2, OneMoves
    <3>4. UNCHANGED <<plan, file, tears, undisturbed>>
      BY <1>0, <1>1, <3>2, <3>3, OneMoves
    <3>5. \A b \in Agent \ {u} : pc'[b] \notin Busy
      BY <1>0, <1>1, <2>2, <3>1, <3>3, <3>4, OneMoves DEF UndisturbedInv
    <3>6. tears' = 0 => SavedInv(u)'
      BY <1>0, <2>2, <3>1, <3>4 DEF UndisturbedInv, SavedInv, At
    <3>7. QED
      BY <3>5, <3>6
  <2>3. ASSUME a \in undisturbed', pc'[a] \in Busy, pc[a] \notin Busy
        PROVE  /\ \A b \in Agent \ {a} : pc'[b] \notin Busy
               /\ tears' = 0 => SavedInv(a)'
    <3>1. pc'[a] \in {"query", "restore"}
      BY <1>0, <1>1, <2>3, EntersAtTheStart
    <3>2. \A b \in Agent \ {a} : pc'[b] \notin Busy
      BY <1>0, <1>1, <2>3, OneMoves
    <3>3. QED
      BY <3>1, <3>2 DEF SavedInv, At
  <2>4. ASSUME a \in undisturbed', pc'[a] \in Busy, pc[a] \in Busy
        PROVE  /\ \A b \in Agent \ {a} : pc'[b] \notin Busy
               /\ tears' = 0 => SavedInv(a)'
    <3>1. a \in undisturbed
      BY <1>0, <1>1, <2>4, OneMoves
    <3>2. \A b \in Agent \ {a} : pc'[b] \notin Busy
      BY <1>0, <1>1, <2>4, <3>1, OneMoves DEF UndisturbedInv
    <3>3. tears' = 0 => tears = 0
      <4>1. tears \in Nat
        BY <1>0 DEF RailsInv, TypeOK
      <4>2. tears' = tears \/ tears' = tears + 1
        BY <1>0, <1>1, OnlyWritersWrite, WriterSteps DEF WritePiece
      <4>3. QED
        BY <4>1, <4>2
    <3>4. Progress(a) \/ Kill(a)
      BY <1>1, <2>4 DEF Calls, Call, At, Busy
    <3>5. QED
      BY <2>4, <3>1, <3>2, <3>3, <3>4, SavedStep
  <2>5. UndisturbedInv'
    BY <1>0, <2>2, <2>3, <2>4 DEF UndisturbedInv
  <2>6. QED
    BY <1>0, <2>1, <2>5 DEF SaveInv
<1>2. CASE UserSetsPlan
  BY <1>0, <1>2 DEF UserSetsPlan, SaveInv, OpenInv, UndisturbedInv, At
<1>3. CASE UNCHANGED vars
  <2>1. OpenInv'
    BY <1>0, <1>3 DEF vars, OpenInv, At
  <2>2. UndisturbedInv'
    BY <1>0, <1>3 DEF vars, UndisturbedInv, SavedInv, At
  <2>3. QED
    BY <1>0, <2>1, <2>2 DEF SaveInv
<1>4. QED
  BY <1>1, <1>2, <1>3 DEF Next, Calls

(* What an agent saved before it acted brings back the plan it replaced,   *)
(* if nobody else touched plan or file meanwhile and no line of the file   *)
(* was left unfinished.                                                    *)
THEOREM SavedIsReversible == Spec => []SavedMeansReversible
<1>1. SaveInv => SavedMeansReversible
  BY DEF SaveInv, UndisturbedInv, SavedInv, SavedMeansReversible, At, Busy
<1>2. QED
  BY <1>1, InitSave, NextSave, PTL DEF Spec

-----------------------------------------------------------------------------
(* The loop that decides when the daemon acts.                             *)

USE DaemonAssumption

(* The streak counts the latest readings that were hot and set nothing     *)
(* off.                                                                    *)
StreakIsHeat == at # "react" => \A i \in 1..streak : watch[i] = "hot"

(* The rest is not longer than what has passed since any reaction.         *)
RestedIsPast ==
    \A i \in 1..Memory : watch[i] = "react" =>
      \/ rested < i
      \/ rested = i /\ at = "tick"
      \/ i = 1 /\ at = "react"

DaemonInv == DaemonTypeOK /\ StreakIsHeat /\ RestedIsPast /\ ReactsToSustainedHeat

LEMMA DaemonStarts == DaemonInit => DaemonInv
  BY DEF DaemonInit, DaemonInv, DaemonTypeOK, StreakIsHeat, RestedIsPast, ReactsToSustainedHeat,
         Memory, Happenings

LEMMA NextDaemon == DaemonInv /\ [DaemonNext]_daemonVars => DaemonInv'
<1> SUFFICES ASSUME DaemonInv, [DaemonNext]_daemonVars PROVE DaemonInv'
  OBVIOUS
<1> USE DEF DaemonInv, DaemonTypeOK
<1>1. ASSUME NEW hot \in BOOLEAN, Tick(hot) PROVE DaemonInv'
  <2>1. PICK what \in Happenings :
          /\ watch' = [i \in 1..Memory |-> IF i = 1 THEN what ELSE watch[i - 1]]
          /\ what = "react" <=> at' = "react"
          /\ what = "react" => streak + 1 >= Required /\ rested >= Cooldown
          /\ what = "cool" => streak' = 0
          /\ what \in {"cool", "hot", "react"}
    BY <1>1 DEF Tick, Noted, Happenings, AtMost
  <2>2. /\ watch'[1] = what
        /\ \A i \in 2..Memory : watch'[i] = watch[i - 1]
    BY <2>1 DEF Memory
  <2>3. /\ at = "tick" /\ at' \in {"react", "sleep"} /\ rested' = rested
        /\ streak' \in 0..(Required + 1) /\ streak' <= streak + 1
    BY <1>1 DEF Tick, AtMost
  <2>4. DaemonTypeOK'
    <3>1. \A i \in 1..Memory : i # 1 => i - 1 \in 1..Memory
      BY DEF Memory
    <3>2. watch' \in [1..Memory -> Happenings]
      BY <2>1, <3>1
    <3>3. QED
      BY <2>3, <3>2
  <2>5. StreakIsHeat'
    <3>1. ASSUME at' # "react", NEW i \in 1..streak' PROVE watch'[i] = "hot"
      <4>1. what = "hot" /\ i \in 1..Memory
        BY <2>1, <2>3, <3>1 DEF Memory, Happenings
      <4>2. CASE i = 1
        BY <2>2, <4>1, <4>2
      <4>3. CASE i # 1
        <5>1. i - 1 \in 1..streak /\ i \in 2..Memory
          BY <2>3, <4>1, <4>3
        <5>2. QED
          BY <2>2, <2>3, <5>1 DEF StreakIsHeat
      <4>4. QED
        BY <4>2, <4>3
    <3>2. QED
      BY <3>1 DEF StreakIsHeat
  <2>6. ASSUME NEW i \in 2..Memory, watch'[i] = "react" PROVE rested < i
    <3>1. watch[i - 1] = "react" /\ i - 1 \in 1..Memory
      BY <2>2, <2>6 DEF Memory
    <3>2. QED
      BY <2>3, <3>1 DEF RestedIsPast
  <2>7. RestedIsPast'
    BY <2>1, <2>2, <2>3, <2>6 DEF RestedIsPast, Memory
  <2>8. ReactsToSustainedHeat'
    <3> SUFFICES ASSUME what = "react" PROVE ReactsToSustainedHeat'
      BY <2>2 DEF ReactsToSustainedHeat
    <3>1. ASSUME NEW i \in 2..Required PROVE watch'[i] = "hot"
      <4>1. i - 1 \in 1..streak /\ i \in 2..Memory
        BY <2>1, <3>1 DEF Memory
      <4>2. QED
        BY <2>2, <2>3, <4>1 DEF StreakIsHeat
    <3>2. ASSUME NEW i \in 2..Cooldown, watch'[i] = "react" PROVE FALSE
      <4>1. i \in 2..Memory
        BY DEF Memory
      <4>2. rested < i
        BY <2>6, <3>2, <4>1
      <4>3. QED
        BY <2>1, <4>2
    <3>3. QED
      BY <3>1, <3>2 DEF ReactsToSustainedHeat
  <2>9. QED
    BY <2>4, <2>5, <2>7, <2>8
<1>2. CASE Reacted
  BY <1>2 DEF Reacted, StreakIsHeat, RestedIsPast, ReactsToSustainedHeat
<1>3. CASE Wake
  BY <1>3 DEF Wake, AtMost, StreakIsHeat, RestedIsPast, ReactsToSustainedHeat
<1>4. CASE Stop
  BY <1>4 DEF Stop, StreakIsHeat, RestedIsPast, ReactsToSustainedHeat
<1>5. CASE UNCHANGED daemonVars
  BY <1>5 DEF daemonVars, StreakIsHeat, RestedIsPast, ReactsToSustainedHeat
<1>6. QED
  BY <1>1, <1>2, <1>3, <1>4, <1>5 DEF DaemonNext, LoopStep

(* The loop's state keeps its types (daemon.rs).                           *)
THEOREM DaemonTypeCorrect == DaemonSpec => []DaemonTypeOK
<1>1. DaemonInv => DaemonTypeOK
  BY DEF DaemonInv
<1>2. QED
  BY <1>1, DaemonStarts, NextDaemon, PTL DEF DaemonSpec

(* The daemon reacts only after Required hot readings in a row and not     *)
(* twice within a cooldown (daemon.rs, the two conditions before react).   *)
THEOREM ReactionsAreSustained == DaemonSpec => []ReactsToSustainedHeat
<1>1. DaemonInv => ReactsToSustainedHeat
  BY DEF DaemonInv
<1>2. QED
  BY <1>1, DaemonStarts, NextDaemon, PTL DEF DaemonSpec
-----------------------------------------------------------------------------
(* The shell and the runs of the command line.                             *)

USE MetricsAssumption, ShellAssumption, SessionsAssumption

-----------------------------------------------------------------------------
(* The shell: until it spawns its server there is none.                    *)
OrphanInv ==
    /\ app \in {"off", "endpoint"} => server = "none"
    /\ app = "closed" => server \in {"none", "dead"}

LEMMA NextOrphan == OrphanInv /\ [SessionsNext]_sessionsVars => OrphanInv'
  BY DEF OrphanInv, SessionsNext, Shell, AppStep, Endpoint, Spawn, Look, Connect, StopWaiting,
         OpenWindow, Bind, Close, KillApp, ServerDies, OtherListens, KillServer,
         UserRuns, ServerRuns, sessionsVars, svars

(* However the shell ends, short of dying itself, its server has ended:    *)
(* the window closed, nobody answered in time, or the spawn failed.        *)
THEOREM NoServerIsOrphaned == SessionsSpec => []NoOrphanServer
<1>1. SessionsInit => OrphanInv
  BY DEF SessionsInit, ShellInit, OrphanInv
<1>2. OrphanInv => NoOrphanServer
  BY DEF OrphanInv, NoOrphanServer
<1>3. QED
  BY NextOrphan, <1>1, <1>2, PTL DEF SessionsSpec

-----------------------------------------------------------------------------
(* The metrics.                                                            *)

Changes == [counters: SUBSET Counters, outcomes: Seq(Outcomes)]
CliRecs == [at: Places, then: Places, update: Changes, buf: Books]

(* Never more crashes than starts, nor more sensors away than looked for.  *)
InProportion(m) ==
    /\ m \in Books
    /\ m.count["crashes"] <= m.count["starts"]
    /\ m.count["sensor_unavailable"] <= m.count["sensor_attempts"]

Alone == \A c, d \in Clis : Running(c) /\ Running(d) => c = d

(* What a process is about to write.  A start counts a crash only if there *)
(* is a marker.                                                            *)
Counting(r) == "crashes" \in r.update.counters
Starting    == {Change({"starts"}, <<>>), Change({"starts", "crashes"}, <<>>)}
Ready(r, mark) ==
    /\ r.at \in {"load", "save"} =>
         \/ r.then = "mark" /\ r.update \in Starting /\ (Counting(r) => mark)
         \/ r.then = "work" /\ r.update \in Updates
         \/ r.then = "done" /\ r.update = Change({"clean_exits"}, <<>>)
    /\ r.at = "save" => InProportion(r.buf)
    /\ r.at \in {"idle", "start"} => r.then = "done"
    /\ r.at = "mark" => r.then = "mark"

CliInv ==
    /\ cli \in [Clis -> CliRecs]
    /\ marker \in BOOLEAN
    /\ \A c \in Clis : Ready(cli[c], marker)

(* The crash the marker announces is owed to the counters, except while a  *)
(* process has counted it or is in the session the marker stands for.  A   *)
(* session without a marker would be missing if it died.                   *)
Open(r)    == r.at = "work" \/ (r.at \in {"load", "save"} /\ r.then = "work")
Settled(r) == \/ r.at = "mark" \/ Open(r)
              \/ r.at \in {"load", "save"} /\ r.then = "mark" /\ ~Counting(r)
OwedOf(r, mark)    == IF mark /\ ~Settled(r) THEN 1 ELSE 0
MissingOf(r, mark) == IF ~mark /\ Open(r) THEN 1 ELSE 0
Owed    == IF marker /\ \A c \in Clis : ~Settled(cli[c]) THEN 1 ELSE 0
Missing == IF ~marker /\ \E c \in Clis : Open(cli[c]) THEN 1 ELSE 0

(* What is owed once a process has saved.                                  *)
OwedAfter(r, mark) == IF mark /\ r.then = "done" THEN 1 ELSE 0

Balance(n, owed, missing, d, k, f, l) ==
    /\ n + owed <= d + k
    /\ f + missing <= n + owed + l

CountInv ==
    /\ died \in Nat /\ stuck \in Nat /\ fell \in Nat /\ lost \in Nat
    /\ Balance(metrics.count["crashes"], Owed, Missing, died, stuck, fell, lost)
    /\ \A c \in Clis : cli[c].at = "save" =>
         Balance(cli[c].buf.count["crashes"], OwedAfter(cli[c], marker), Missing,
                 died, stuck, fell, lost)

CrashInv == Alone /\ CliInv /\ InProportion(metrics) /\ CountInv

-----------------------------------------------------------------------------
(* The operators on the book.                                              *)

LEMMA KeptType ==
  ASSUME NEW s \in Seq(Outcomes) PROVE Kept(s) \in Seq(Outcomes)
<1>1. CASE Len(s) > MaxOps
  <2>1. Len(s) - MaxOps + 1 \in 1..(Len(s) + 1) /\ Len(s) \in Int
    BY <1>1
  <2>2. \A i \in (Len(s) - MaxOps + 1)..Len(s) : i \in 1..Len(s)
    BY <2>1
  <2>3. SubSeq(s, Len(s) - MaxOps + 1, Len(s)) \in Seq(Outcomes)
    BY <2>1, <2>2
  <2>4. QED
    BY <1>1, <2>3 DEF Kept
<1>2. CASE ~(Len(s) > MaxOps)
  BY <1>2 DEF Kept
<1>3. QED
  BY <1>1, <1>2

LEMMA UpdatedBook ==
  ASSUME NEW m \in Books, NEW u \in Changes
  PROVE  /\ Updated(m, u) \in Books
         /\ \A k \in Counters : Updated(m, u).count[k] =
              m.count[k] + (IF k \in u.counters THEN 1 ELSE 0)
<1>1. m.operations \o u.outcomes \in Seq(Outcomes)
  BY DEF Books, Changes
<1>2. Kept(m.operations \o u.outcomes) \in Seq(Outcomes)
  BY <1>1, KeptType
<1>3. [k \in Counters |-> m.count[k] + (IF k \in u.counters THEN 1 ELSE 0)] \in [Counters -> Nat]
  BY DEF Books
<1>4. QED
  BY <1>2, <1>3 DEF Updated, Books

(* What may be written keeps the book balanced.                            *)
LEMMA UpdateInProportion ==
  ASSUME NEW m, InProportion(m), NEW u \in Changes,
         "crashes" \in u.counters => "starts" \in u.counters,
         "sensor_unavailable" \in u.counters => "sensor_attempts" \in u.counters
  PROVE  InProportion(Updated(m, u))
<1>1. {"crashes", "starts", "sensor_unavailable", "sensor_attempts"} \subseteq Counters
  BY DEF Counters
<1>2. m \in Books /\ m.count \in [Counters -> Nat]
  BY DEF InProportion, Books
<1>3. QED
  BY <1>1, <1>2, UpdatedBook DEF InProportion

(* What a process at work records touches neither starts nor crashes.      *)
LEMMA UpdatesHarmless ==
  ASSUME NEW u \in Updates
  PROVE  /\ u \in Changes
         /\ "crashes" \notin u.counters
         /\ "sensor_unavailable" \in u.counters => "sensor_attempts" \in u.counters
<1>1. <<>> \in Seq(Outcomes) /\ \A o \in Outcomes : <<o>> \in Seq(Outcomes)
  OBVIOUS
<1>2. \A r \in Reasons : r \notin {"crashes", "sensor_unavailable", "sensor_attempts"}
  OBVIOUS
<1>3. CASE \E o \in Outcomes : u = Change({}, <<o>>)
  BY <1>1, <1>3 DEF Change, Changes
<1>4. CASE \E r \in Reasons : u = Change({r}, <<>>)
  BY <1>1, <1>2, <1>4 DEF Change, Changes, Counters
<1>5. CASE u = Change({"sensor_attempts"}, <<>>)
  BY <1>1, <1>5 DEF Change, Changes, Counters
<1>6. CASE u = Change({"sensor_attempts", "sensor_unavailable"}, <<>>)
  BY <1>1, <1>6 DEF Change, Changes, Counters
<1>7. CASE u = Change({"false_warnings"}, <<>>)
  BY <1>1, <1>7 DEF Change, Changes, Counters
<1>8. QED
  BY <1>3, <1>4, <1>5, <1>6, <1>7 DEF Updates

LEMMA SessionUpdates ==
  /\ Change({"clean_exits"}, <<>>) \in Changes
  /\ Change({"starts"}, <<>>) \in Changes
  /\ Change({"starts", "crashes"}, <<>>) \in Changes
<1>1. <<>> \in Seq(Outcomes)
  OBVIOUS
<1>2. QED
  BY <1>1 DEF Change, Changes, Counters

LEMMA NoBookInProportion == NoBook \in Books /\ InProportion(NoBook) /\ NoBook.count["crashes"] = 0
<1>1. <<>> \in Seq(Outcomes) /\ [k \in Counters |-> 0] \in [Counters -> Nat]
  OBVIOUS
<1>2. {"crashes", "starts", "sensor_unavailable", "sensor_attempts"} \subseteq Counters
  BY DEF Counters
<1>3. QED
  BY <1>1, <1>2 DEF NoBook, Books, InProportion

LEMMA NoCliTyped == NoCli \in CliRecs /\ [NoCli EXCEPT !.at = "dead"] \in CliRecs
<1>1. <<>> \in Seq(Outcomes)
  OBVIOUS
<1>2. QED
  BY <1>1, NoBookInProportion DEF NoCli, CliRecs, Places, Change, Changes

-----------------------------------------------------------------------------
(* The steps.                                                              *)

LEMMA CountsCrashes ==
  ASSUME NEW m, InProportion(m) PROVE m \in Books /\ m.count["crashes"] \in Nat
  BY DEF InProportion, Books, Counters

LEMMA OwedNumbers ==
  ASSUME NEW r, NEW mark
  PROVE  OwedOf(r, mark) \in {0, 1} /\ MissingOf(r, mark) \in {0, 1} /\ OwedAfter(r, mark) \in {0, 1}
  BY DEF OwedOf, MissingOf, OwedAfter

(* A process moves while no other runs: what is left to check is that its  *)
(* new record is ready, and that the account is balanced then.             *)
LEMMA StepOf ==
  ASSUME CrashInv, NEW c \in Clis, NEW r \in CliRecs,
         cli' = [cli EXCEPT ![c] = r],
         \A d \in Clis \ {c} : ~Running(d),
         marker' \in BOOLEAN, Ready(r, marker'), InProportion(metrics'),
         died' \in Nat, stuck' \in Nat, fell' \in Nat, lost' \in Nat,
         Balance(metrics'.count["crashes"], OwedOf(r, marker'), MissingOf(r, marker'),
                 died', stuck', fell', lost'),
         r.at = "save" => Balance(r.buf.count["crashes"], OwedAfter(r, marker'),
                                  MissingOf(r, marker'), died', stuck', fell', lost')
  PROVE  CrashInv'
<1>1. cli' \in [Clis -> CliRecs] /\ cli'[c] = r /\ \A d \in Clis \ {c} : cli'[d] = cli[d]
  BY DEF CrashInv, CliInv
<1>2. \A d \in Clis \ {c} : cli'[d].at \in {"idle", "done", "dead"}
  BY <1>1 DEF Running
<1>3. Alone'
  BY <1>2 DEF Alone, Running
<1>4. \A d \in Clis \ {c} : Ready(cli'[d], marker')
  BY <1>1, <1>2 DEF CrashInv, CliInv, Ready
<1>5. CliInv'
  BY <1>1, <1>4 DEF CliInv
<1>6. \A d \in Clis \ {c} : ~Settled(cli'[d]) /\ ~Open(cli'[d]) /\ cli'[d].at # "save"
  BY <1>2 DEF Settled, Open
<1>7. Owed' = OwedOf(r, marker') /\ Missing' = MissingOf(r, marker')
  BY <1>1, <1>6 DEF Owed, Missing, OwedOf, MissingOf
<1>8. CountInv'
  BY <1>1, <1>6, <1>7 DEF CountInv
<1>9. QED
  BY <1>3, <1>5, <1>8 DEF CrashInv

(* While a process runs, nobody else does, and it alone says what is owed. *)
LEMMA RunsAlone ==
  ASSUME CrashInv, NEW c \in Clis, Running(c)
  PROVE  /\ cli \in [Clis -> CliRecs] /\ cli[c] \in CliRecs /\ marker \in BOOLEAN
         /\ Ready(cli[c], marker)
         /\ \A d \in Clis \ {c} : ~Running(d)
         /\ InProportion(metrics) /\ metrics.count["crashes"] \in Nat
         /\ died \in Nat /\ stuck \in Nat /\ fell \in Nat /\ lost \in Nat
         /\ Balance(metrics.count["crashes"], OwedOf(cli[c], marker), MissingOf(cli[c], marker),
                    died, stuck, fell, lost)
         /\ cli[c].at = "save" =>
              Balance(cli[c].buf.count["crashes"], OwedAfter(cli[c], marker),
                      MissingOf(cli[c], marker), died, stuck, fell, lost)
<1>1. \A d \in Clis \ {c} : ~Running(d)
  BY DEF CrashInv, Alone
<1>2. \A d \in Clis \ {c} : ~Settled(cli[d]) /\ ~Open(cli[d])
  BY <1>1 DEF Running, Settled, Open
<1>3. Owed = OwedOf(cli[c], marker) /\ Missing = MissingOf(cli[c], marker)
  BY <1>2 DEF Owed, Missing, OwedOf, MissingOf
<1>4. QED
  BY <1>1, <1>3, CountsCrashes DEF CrashInv, CliInv, CountInv

LEMMA InitCrash == SessionsInit => CrashInv
<1> SUFFICES ASSUME SessionsInit PROVE CrashInv
  OBVIOUS
<1> USE DEF SessionsInit, MetricsInit
<1>1. \A c \in Clis : cli[c] = NoCli /\ NoCli.at = "idle" /\ NoCli.then = "done"
  BY DEF NoCli
<1>2. cli \in [Clis -> CliRecs]
  BY NoCliTyped
<1>3. Alone /\ CliInv
  BY <1>1, <1>2 DEF Alone, Running, CliInv, Ready
<1>4. InProportion(metrics) /\ metrics.count["crashes"] = 0
  BY NoBookInProportion
<1>5. Owed = 0 /\ Missing = 0
  BY <1>1 DEF Owed, Missing, Open
<1>6. QED
  BY <1>1, <1>3, <1>4, <1>5 DEF CrashInv, CountInv, Balance

(* The record of a process that is about to write an update.               *)
Written(q, u, t) == [q EXCEPT !.at = "load", !.update = u, !.then = t]

LEMMA RecordWritten ==
  ASSUME CliInv, NEW c \in Clis, NEW u \in Changes, NEW t \in Places, Record(c, u, t)
  PROVE  /\ Written(cli[c], u, t) \in CliRecs
         /\ cli' = [cli EXCEPT ![c] = Written(cli[c], u, t)]
         /\ Written(cli[c], u, t).at = "load"
         /\ Written(cli[c], u, t).then = t
         /\ Written(cli[c], u, t).update = u
<1>1. cli[c] \in CliRecs /\ cli \in [Clis -> CliRecs] /\ "load" \in Places
  BY DEF CliInv, Places
<1>2. cli' = [cli EXCEPT ![c] = Written(cli[c], u, t)]
  BY <1>1 DEF Record, Written
<1>3. ASSUME NEW q \in CliRecs
      PROVE  LET r == [q EXCEPT !.at = "load", !.update = u, !.then = t]
             IN  r \in CliRecs /\ r.at = "load" /\ r.then = t /\ r.update = u
  BY <1>1 DEF CliRecs
<1>4. QED
  BY <1>1, <1>2, <1>3 DEF Written

LEMMA Moved ==
  ASSUME CliInv, NEW c \in Clis, NEW place \in Places, Move(c, place)
  PROVE  LET r == [cli[c] EXCEPT !.at = place]
         IN  /\ r \in CliRecs /\ cli' = [cli EXCEPT ![c] = r]
             /\ r.at = place /\ r.then = cli[c].then
<1>1. cli[c] \in CliRecs /\ cli \in [Clis -> CliRecs]
  BY DEF CliInv
<1>2. QED
  BY <1>1 DEF Move, CliRecs

(* While runs of the command line do not overlap, every step of theirs     *)
(* keeps the books.                                                        *)
LEMMA StartCrash ==
  ASSUME ~Overlap, CrashInv, NEW c \in Clis, MayStart, Start(c) PROVE CrashInv'
<1> DEFINE r == [cli[c] EXCEPT !.at = "start"]
<1>1. CliInv /\ \A d \in Clis : ~Running(d)
  BY DEF CrashInv, MayStart
<1>2. cli[c].at = "idle" /\ cli[c].then = "done" /\ "start" \in Places
  BY <1>1 DEF Start, CliAt, CliInv, Places, Ready
<1>3. r \in CliRecs /\ cli' = [cli EXCEPT ![c] = r] /\ r.at = "start" /\ r.then = "done"
  BY <1>1, <1>2, Moved DEF Start
<1> HIDE DEF r
<1>4. Ready(r, marker') /\ UNCHANGED <<metrics, marker, died, stuck, fell, lost>>
  BY <1>3 DEF Ready, Start, history
<1>5. \A d \in Clis : ~Settled(cli[d]) /\ ~Open(cli[d])
  BY <1>1 DEF Running, Settled, Open
<1>6. OwedOf(r, marker) = Owed /\ MissingOf(r, marker) = Missing
  BY <1>3, <1>5 DEF OwedOf, MissingOf, Owed, Missing, Settled, Open
<1>7. QED
  BY <1>1, <1>3, <1>4, <1>6, StepOf DEF CrashInv, CliInv, CountInv

LEMMA LookCrash ==
  ASSUME CrashInv, NEW c \in Clis, LookForMarker(c) PROVE CrashInv'
<1>1. Running(c) /\ cli[c].at = "start" /\ UNCHANGED <<metrics, marker, died, stuck, fell>>
  BY DEF LookForMarker, CliAt, Running
<1>2. PICK u \in Starting :
        /\ Record(c, u, "mark")
        /\ IF "crashes" \in u.counters THEN marker /\ lost' = lost
           ELSE lost' = lost + (IF marker THEN 1 ELSE 0)
  <2>1. lost \in Nat
    BY DEF CrashInv, CountInv
  <2>2. {"starts"} \cup {"crashes"} = {"starts", "crashes"} /\ {"starts"} \cup {} = {"starts"}
    OBVIOUS
  <2>3. /\ "crashes" \in Change({"starts", "crashes"}, <<>>).counters
        /\ "crashes" \notin Change({"starts"}, <<>>).counters
    BY DEF Change
  <2>4. CASE /\ Record(c, Change({"starts"} \cup (IF marker THEN {"crashes"} ELSE {}), <<>>), "mark")
             /\ UNCHANGED lost
    <3>1. CASE marker
      BY <2>2, <2>3, <2>4, <3>1 DEF Starting
    <3>2. CASE ~marker
      BY <2>1, <2>2, <2>3, <2>4, <3>2 DEF Starting
    <3>3. QED
      BY <3>1, <3>2
  <2>5. CASE /\ Record(c, Change({"starts"}, <<>>), "mark")
             /\ lost' = lost + (IF marker THEN 1 ELSE 0)
    BY <2>3, <2>5 DEF Starting
  <2>6. QED
    BY <2>4, <2>5 DEF LookForMarker
<1> DEFINE r == Written(cli[c], u, "mark")
<1>3. u \in Changes /\ "mark" \in Places
  BY SessionUpdates DEF Starting, Places
<1>4. r \in CliRecs /\ cli' = [cli EXCEPT ![c] = r] /\ r.at = "load" /\ r.then = "mark" /\ r.update = u
  BY <1>2, <1>3, RecordWritten DEF CrashInv
<1> HIDE DEF r
<1>5. /\ OwedOf(cli[c], marker) = (IF marker THEN 1 ELSE 0) /\ MissingOf(cli[c], marker) = 0
      /\ OwedOf(r, marker) = (IF "crashes" \in u.counters /\ marker THEN 1 ELSE 0)
      /\ MissingOf(r, marker) = 0
  BY <1>1, <1>4 DEF OwedOf, MissingOf, Settled, Open, Counting
<1>6. Ready(r, marker')
  BY <1>1, <1>2, <1>4 DEF Ready, Counting
<1>7. lost' \in Nat /\ Balance(metrics.count["crashes"], OwedOf(r, marker), MissingOf(r, marker),
                               died, stuck, fell, lost')
  BY <1>1, <1>2, <1>5, RunsAlone DEF Balance
<1>8. QED
  BY <1>1, <1>4, <1>6, <1>7, RunsAlone, StepOf

(* The change under way is one of those a process may make.                *)
LEMMA UpdateUnderWay ==
  ASSUME CrashInv, NEW c \in Clis, cli[c].at \in {"load", "save"}
  PROVE  LET u == cli[c].update
         IN  /\ u \in Changes
             /\ "crashes" \in u.counters => "starts" \in u.counters
             /\ "sensor_unavailable" \in u.counters => "sensor_attempts" \in u.counters
             /\ "crashes" \in u.counters => cli[c].then = "mark" /\ marker
             /\ cli[c].then \in {"mark", "work", "done"}
<1> DEFINE u == cli[c].update
<1>1. Ready(cli[c], marker)
  BY DEF CrashInv, CliInv
<1>2. CASE cli[c].then = "mark" /\ u \in Starting /\ (Counting(cli[c]) => marker)
  <2>1. u = Change({"starts"}, <<>>) \/ u = Change({"starts", "crashes"}, <<>>)
    BY <1>2 DEF Starting
  <2>2. u \in Changes /\ u.counters \in {{"starts"}, {"starts", "crashes"}}
    BY <2>1, SessionUpdates DEF Change
  <2>3. QED
    BY <1>2, <2>2 DEF Counting
<1>3. CASE cli[c].then = "work" /\ u \in Updates
  BY <1>3, UpdatesHarmless
<1>4. CASE cli[c].then = "done" /\ u = Change({"clean_exits"}, <<>>)
  <2>1. u \in Changes /\ u.counters = {"clean_exits"}
    BY <1>4, SessionUpdates DEF Change
  <2>2. QED
    BY <1>4, <2>1
<1>5. QED
  BY <1>1, <1>2, <1>3, <1>4 DEF Ready

LEMMA LoadCrash ==
  ASSUME CrashInv, NEW c \in Clis, Load(c) PROVE CrashInv'
<1> DEFINE u == cli[c].update
<1>1. /\ Running(c) /\ cli[c].at = "load" /\ UNCHANGED <<metrics, marker, died, stuck, fell>>
  BY DEF Load, CliAt, Running
<1>2. PICK base :
        /\ cli' = [cli EXCEPT ![c] = [cli[c] EXCEPT !.at = "save", !.buf = Updated(base, u)]]
        /\ \/ base = metrics /\ lost' = lost
           \/ base = NoBook /\ lost' = lost + metrics.count["crashes"]
  BY <1>1, RunsAlone DEF Load
<1> DEFINE b == Updated(base, u)
           r == [cli[c] EXCEPT !.at = "save", !.buf = b]
<1>3. InProportion(base) /\ base.count["crashes"] \in Nat /\ base \in Books
  BY <1>1, <1>2, RunsAlone, NoBookInProportion, CountsCrashes
<1>4. /\ u \in Changes
      /\ "crashes" \in u.counters => "starts" \in u.counters
      /\ "sensor_unavailable" \in u.counters => "sensor_attempts" \in u.counters
      /\ "crashes" \in u.counters => cli[c].then = "mark" /\ marker
      /\ cli[c].then \in {"mark", "work", "done"}
  BY <1>1, UpdateUnderWay
<1> HIDE DEF u
<1>5. /\ InProportion(b) /\ b \in Books
      /\ b.count["crashes"] = base.count["crashes"] + (IF "crashes" \in u.counters THEN 1 ELSE 0)
  <2>1. "crashes" \in Counters
    BY DEF Counters
  <2>2. QED
    BY <1>3, <1>4, <2>1, UpdateInProportion, UpdatedBook
<1> HIDE DEF b
<1>6. /\ r \in CliRecs /\ r.at = "save" /\ r.then = cli[c].then
      /\ r.update = u /\ r.buf = b /\ cli' = [cli EXCEPT ![c] = r]
  BY <1>1, <1>2, <1>5, RunsAlone DEF CliRecs, Places, u, b
<1> HIDE DEF r
<1>7. Ready(r, marker')
  BY <1>1, <1>5, <1>6, RunsAlone DEF Ready, Counting, u
<1>8. /\ OwedOf(r, marker) = OwedOf(cli[c], marker)
      /\ MissingOf(r, marker) = MissingOf(cli[c], marker)
  BY <1>1, <1>6 DEF OwedOf, MissingOf, Settled, Open, Counting, u
<1>9. OwedOf(r, marker) = (IF "crashes" \in u.counters THEN 1 ELSE 0) + OwedAfter(r, marker)
  BY <1>4, <1>6, RunsAlone DEF OwedOf, OwedAfter, Settled, Open, Counting
<1>10. /\ metrics.count["crashes"] \in Nat /\ lost' \in Nat
       /\ metrics.count["crashes"] + lost <= base.count["crashes"] + lost'
       /\ lost <= lost' /\ base.count["crashes"] <= metrics.count["crashes"]
  BY <1>1, <1>2, <1>3, RunsAlone, NoBookInProportion
<1>11. Balance(metrics.count["crashes"], OwedOf(r, marker), MissingOf(r, marker),
               died, stuck, fell, lost')
  BY <1>1, <1>8, <1>10, RunsAlone, OwedNumbers DEF Balance
<1>12. Balance(r.buf.count["crashes"], OwedAfter(r, marker), MissingOf(r, marker),
               died, stuck, fell, lost')
  <2>1. r.buf.count["crashes"] + OwedAfter(r, marker) = base.count["crashes"] + OwedOf(r, marker)
    BY <1>3, <1>5, <1>6, <1>9, OwedNumbers
  <2>2. QED
    BY <1>1, <1>3, <1>5, <1>6, <1>8, <1>10, <2>1, RunsAlone, OwedNumbers DEF Balance
<1>13. QED
  BY <1>1, <1>6, <1>7, <1>10, <1>11, <1>12, RunsAlone, StepOf

LEMMA SaveCrash ==
  ASSUME CrashInv, NEW c \in Clis, Save(c) PROVE CrashInv'
<1> DEFINE r == [cli[c] EXCEPT !.at = cli[c].then, !.update = NoCli.update, !.buf = NoBook]
<1>1. /\ Running(c) /\ cli[c].at = "save" /\ UNCHANGED <<marker, died, stuck, fell>>
      /\ cli' = [cli EXCEPT ![c] = r]
      /\ \/ metrics' = cli[c].buf /\ lost' = lost
         \/ metrics' = metrics /\ lost' = lost + Counts(c)
  <2>1. cli[c].at = "save"
    BY DEF Save, CliAt
  <2>2. cli \in [Clis -> CliRecs]
    BY DEF CrashInv, CliInv
  <2>3. QED
    BY <2>1, <2>2 DEF Save, Running
<1>2. /\ "crashes" \in cli[c].update.counters => cli[c].then = "mark" /\ marker
      /\ cli[c].then \in {"mark", "work", "done"}
  BY <1>1, UpdateUnderWay
<1>3. r \in CliRecs /\ r.at = cli[c].then /\ r.then = cli[c].then
  <2>1. NoCli.update \in Changes /\ NoBook \in Books
    BY NoCliTyped, NoBookInProportion DEF CliRecs
  <2>2. cli[c] \in CliRecs
    BY <1>1, RunsAlone
  <2>3. QED
    BY <2>1, <2>2 DEF CliRecs
<1> HIDE DEF r
<1>4. Ready(r, marker')
  BY <1>1, <1>2, <1>3 DEF Ready
<1>5. /\ OwedOf(r, marker) = OwedAfter(cli[c], marker)
      /\ MissingOf(r, marker) = MissingOf(cli[c], marker)
      /\ OwedOf(cli[c], marker) = OwedOf(r, marker) + Counts(c) /\ Counts(c) \in {0, 1}
  BY <1>1, <1>2, <1>3, RunsAlone DEF OwedOf, OwedAfter, MissingOf, Settled, Open, Counting, Counts
<1>6. InProportion(metrics') /\ lost' \in Nat
  BY <1>1, <1>5, RunsAlone DEF Ready
<1>7. Balance(metrics'.count["crashes"], OwedOf(r, marker), MissingOf(r, marker),
              died, stuck, fell, lost')
  <2>1. CASE metrics' = cli[c].buf /\ lost' = lost
    BY <1>1, <1>5, <2>1, RunsAlone
  <2>2. CASE metrics' = metrics /\ lost' = lost + Counts(c)
    BY <1>1, <1>5, <2>2, RunsAlone, OwedNumbers DEF Balance
  <2>3. QED
    BY <1>1, <2>1, <2>2
<1>8. r.at # "save"
  BY <1>2, <1>3
<1>9. QED
  BY <1>1, <1>3, <1>4, <1>6, <1>7, <1>8, RunsAlone, StepOf

LEMMA MarkCrash ==
  ASSUME CrashInv, NEW c \in Clis, Mark(c) PROVE CrashInv'
<1> DEFINE r == [cli[c] EXCEPT !.at = "work"]
<1>1. /\ Running(c) /\ cli[c].at = "mark" /\ UNCHANGED <<metrics, died, stuck, fell>>
      /\ Move(c, "work")
      /\ \/ marker' = TRUE /\ lost' = lost
         \/ marker' = marker /\ lost' = lost + (IF marker THEN 0 ELSE 1)
  BY DEF Mark, CliAt, Running
<1>2. r \in CliRecs /\ cli' = [cli EXCEPT ![c] = r] /\ r.at = "work"
  BY <1>1, Moved DEF Places, CrashInv
<1> HIDE DEF r
<1>3. Ready(r, marker') /\ marker' \in BOOLEAN /\ lost' \in Nat
  <2>1. lost \in Nat /\ marker \in BOOLEAN
    BY <1>1, RunsAlone
  <2>2. lost' \in Nat
    BY <1>1, <2>1
  <2>3. marker' \in BOOLEAN
    BY <1>1, <2>1
  <2>4. QED
    BY <1>2, <2>2, <2>3 DEF Ready
<1>4. /\ OwedOf(r, marker') = 0 /\ OwedOf(cli[c], marker) = 0 /\ MissingOf(cli[c], marker) = 0
      /\ MissingOf(r, marker') = IF marker' THEN 0 ELSE 1
  BY <1>1, <1>2 DEF OwedOf, MissingOf, Settled, Open
<1>5. Balance(metrics.count["crashes"], OwedOf(r, marker'), MissingOf(r, marker'),
              died, stuck, fell, lost')
  BY <1>1, <1>4, RunsAlone DEF Balance
<1>6. QED
  BY <1>1, <1>2, <1>3, <1>5, RunsAlone, StepOf

LEMMA WorkCrash ==
  ASSUME CrashInv, NEW c \in Clis, Work(c) PROVE CrashInv'
<1>0. PICK u \in Updates : Record(c, u, "work")
  BY DEF Work
<1> DEFINE r == Written(cli[c], u, "work")
<1>1. /\ Running(c) /\ cli[c].at = "work"
      /\ UNCHANGED <<metrics, marker, died, stuck, fell, lost>>
  BY DEF Work, CliAt, Running, history
<1>2. u \in Changes /\ "work" \in Places
  BY UpdatesHarmless DEF Places
<1>3. r \in CliRecs /\ cli' = [cli EXCEPT ![c] = r] /\ r.at = "load" /\ r.then = "work" /\ r.update = u
  BY <1>0, <1>2, RecordWritten DEF CrashInv
<1> HIDE DEF r
<1>4. Ready(r, marker')
  BY <1>3 DEF Ready
<1>5. /\ OwedOf(r, marker) = OwedOf(cli[c], marker)
      /\ MissingOf(r, marker) = MissingOf(cli[c], marker)
  BY <1>1, <1>3 DEF OwedOf, MissingOf, Settled, Open
<1>6. QED
  BY <1>1, <1>3, <1>4, <1>5, RunsAlone, StepOf

LEMMA ClearCrash ==
  ASSUME CrashInv, NEW c \in Clis, Clear(c) PROVE CrashInv'
<1>1. /\ Running(c) /\ cli[c].at = "work" /\ UNCHANGED <<cli, marker>>
      /\ \/ UNCHANGED <<metrics, died, stuck, fell, lost>>
         \/ /\ metrics' = NoBook /\ died' = 0 /\ fell' = 0 /\ stuck' = 0
            /\ lost' = IF marker THEN 0 ELSE 1
  BY DEF Clear, CliAt, Running, history
<1>2. cli' = [cli EXCEPT ![c] = cli[c]]
  BY <1>1, RunsAlone
<1>3. OwedOf(cli[c], marker) = 0 /\ MissingOf(cli[c], marker) = IF marker THEN 0 ELSE 1
  BY <1>1 DEF OwedOf, MissingOf, Settled, Open
<1>4. CASE UNCHANGED <<metrics, died, stuck, fell, lost>>
  BY <1>1, <1>2, <1>4, RunsAlone, StepOf
<1>5. CASE /\ metrics' = NoBook /\ died' = 0 /\ fell' = 0 /\ stuck' = 0
           /\ lost' = IF marker THEN 0 ELSE 1
  <2>1. Balance(metrics'.count["crashes"], OwedOf(cli[c], marker), MissingOf(cli[c], marker),
                died', stuck', fell', lost')
    BY <1>3, <1>5, NoBookInProportion DEF Balance
  <2>2. lost' \in Nat
    BY <1>5
  <2>3. QED
    BY <1>1, <1>2, <1>5, <2>1, <2>2, RunsAlone, NoBookInProportion, StepOf
<1>6. QED
  BY <1>1, <1>4, <1>5

LEMMA UnmarkCrash ==
  ASSUME CrashInv, NEW c \in Clis, Unmark(c) PROVE CrashInv'
<1> DEFINE u == Change({"clean_exits"}, <<>>)
           r == Written(cli[c], u, "done")
<1>1. /\ Running(c) /\ cli[c].at = "work" /\ UNCHANGED <<metrics, died, fell, lost>>
      /\ Record(c, u, "done")
      /\ \/ marker' = FALSE /\ stuck' = stuck
         \/ marker' = marker /\ stuck' = stuck + (IF marker THEN 1 ELSE 0)
  BY DEF Unmark, CliAt, Running
<1>2. u \in Changes /\ "done" \in Places
  BY SessionUpdates DEF Places
<1> HIDE DEF u
<1>3. r \in CliRecs /\ cli' = [cli EXCEPT ![c] = r] /\ r.at = "load" /\ r.then = "done" /\ r.update = u
  BY <1>1, <1>2, RecordWritten DEF CrashInv
<1> HIDE DEF r
<1>4. Ready(r, marker') /\ marker' \in BOOLEAN /\ stuck' \in Nat
  <2>1. stuck \in Nat /\ marker \in BOOLEAN
    BY <1>1, RunsAlone
  <2>2. stuck' \in Nat
    BY <1>1, <2>1
  <2>3. marker' \in BOOLEAN
    BY <1>1, <2>1
  <2>4. QED
    BY <1>3, <2>2, <2>3 DEF Ready, u
<1>5. /\ OwedOf(r, marker') = (IF marker' THEN 1 ELSE 0) /\ MissingOf(r, marker') = 0
      /\ OwedOf(cli[c], marker) = 0 /\ MissingOf(cli[c], marker) \in {0, 1}
  BY <1>1, <1>3 DEF OwedOf, MissingOf, Settled, Open
<1>6. Balance(metrics.count["crashes"], OwedOf(r, marker'), MissingOf(r, marker'),
              died, stuck', fell, lost)
  BY <1>1, <1>5, RunsAlone DEF Balance
<1>7. QED
  BY <1>1, <1>3, <1>4, <1>6, RunsAlone, StepOf

LEMMA KillCrash ==
  ASSUME CrashInv, NEW c \in Clis, KillCli(c) PROVE CrashInv'
<1> DEFINE r == [NoCli EXCEPT !.at = "dead"]
           open == cli[c].at = "work" \/ cli[c].then = "work"
<1>1. /\ Running(c) /\ UNCHANGED <<metrics, marker, stuck, lost>>
      /\ cli' = [cli EXCEPT ![c] = r]
      /\ died' = died + 1 /\ fell' = fell + (IF open THEN 1 ELSE 0)
  BY DEF KillCli, CliAt
<1>2. r \in CliRecs /\ r.at = "dead"
  BY NoCliTyped DEF NoCli
<1> HIDE DEF r
<1>3. cli[c].at \in {"start", "load", "save", "mark", "work"}
  <2>1. cli[c].at \in Places
    BY <1>1, RunsAlone DEF CliRecs
  <2>2. cli[c].at \notin {"idle", "done", "dead"}
    BY <1>1 DEF Running
  <2>3. QED
    BY <2>1, <2>2 DEF Places
<1>4. Ready(r, marker')
  BY <1>2 DEF Ready
<1>5. /\ OwedOf(r, marker) = (IF marker THEN 1 ELSE 0) /\ MissingOf(r, marker) = 0
      /\ OwedOf(cli[c], marker) \in {0, OwedOf(r, marker)}
  BY <1>2 DEF OwedOf, MissingOf, Settled, Open
<1>6. open => Open(cli[c]) /\ Settled(cli[c])
  <2>1. Ready(cli[c], marker)
    BY <1>1, RunsAlone
  <2>2. QED
    BY <1>3, <2>1 DEF Ready, Settled, Open
<1> HIDE DEF open
<1>7. open => OwedOf(cli[c], marker) = 0 /\ MissingOf(cli[c], marker) = IF marker THEN 0 ELSE 1
  BY <1>6 DEF OwedOf, MissingOf
<1>8. /\ died' \in Nat /\ fell' \in Nat
      /\ Balance(metrics.count["crashes"], OwedOf(r, marker), MissingOf(r, marker),
                 died', stuck, fell', lost)
  BY <1>1, <1>5, <1>7, RunsAlone, OwedNumbers DEF Balance
<1>9. QED
  BY <1>1, <1>2, <1>4, <1>8, RunsAlone, StepOf

LEMMA NextCrash ==
  ASSUME ~Overlap PROVE CrashInv /\ [SessionsNext]_sessionsVars => CrashInv'
<1> SUFFICES ASSUME CrashInv, [SessionsNext]_sessionsVars PROVE CrashInv'
  OBVIOUS
<1>1. CASE UNCHANGED mvars
  BY <1>1 DEF mvars, history, CrashInv, Alone, Running, CliInv, InProportion, CountInv, Owed, Missing
<1>2. ASSUME NEW c \in Clis, UserRuns(c) \/ ServerRuns(c) PROVE CrashInv'
  BY <1>2, StartCrash DEF UserRuns, ServerRuns
<1>3. ASSUME NEW c \in Clis, CliStep(c) PROVE CrashInv'
  BY <1>3, LookCrash, LoadCrash, SaveCrash, MarkCrash, WorkCrash, ClearCrash, UnmarkCrash
     DEF CliStep
<1>4. ASSUME NEW c \in Clis, KillCli(c) PROVE CrashInv'
  BY <1>4, KillCrash
<1>5. QED
  BY <1>1, <1>2, <1>3, <1>4 DEF SessionsNext, sessionsVars

-----------------------------------------------------------------------------
(* The summary.                                                            *)

LEMMA RateOnScale ==
  ASSUME NEW part \in Nat, NEW whole \in Nat, part <= whole
  PROVE  Rate(part, whole) \subseteq 0..100
<1>1. CASE whole = 0
  BY <1>1 DEF Rate
<1>2. CASE whole # 0
  <2> DEFINE q == (part * 100) \div whole
  <2>1. q \in Int /\ whole * q <= part * 100 /\ part * 100 < whole * (q + 1)
    BY <1>2
  <2> HIDE DEF q
  <2>2. part * 100 <= whole * 100
    OBVIOUS
  <2>3. q <= 100
    BY <1>2, <2>1, <2>2
  <2>4. q >= 0
    BY <1>2, <2>1
  <2>5. Rate(part, whole) = {q}
    BY <1>2 DEF Rate, q
  <2>6. QED
    BY <2>1, <2>3, <2>4, <2>5
<1>3. QED
  BY <1>1, <1>2

LEMMA TimesWithinTotal ==
  ASSUME NEW o, metrics.operations \in Seq(Outcomes)
  PROVE  Times(o) \in Nat /\ Times(o) <= Len(metrics.operations)
<1> DEFINE S == {i \in DOMAIN metrics.operations : metrics.operations[i] = o}
<1> DEFINE n == Len(metrics.operations)
<1>1. n \in Nat /\ S \subseteq 1..n
  OBVIOUS
<1>2. Times(o) = Cardinality(S)
  BY DEF Times
<1> HIDE DEF S, n
<1>3. IsFiniteSet(1..n) /\ Cardinality(1..n) = n
  <2>1. 1 \in Int /\ n \in Int
    BY <1>1
  <2>2. IsFiniteSet(1..n) /\ Cardinality(1..n) = IF 1 > n THEN 0 ELSE n - 1 + 1
    BY <2>1, FS_Interval
  <2>3. QED
    BY <1>1, <2>2
<1>4. IsFiniteSet(S) /\ Cardinality(S) <= n
  <2> DEFINE T == 1..n
  <2>1. IsFiniteSet(T) /\ S \in SUBSET T /\ Cardinality(T) = n
    BY <1>1, <1>3
  <2> HIDE DEF T
  <2>2. QED
    BY <2>1, FS_Subset
<1>5. Cardinality(S) \in Nat
  BY <1>4, FS_CardinalityType
<1>6. QED
  BY <1>2, <1>4, <1>5 DEF n

LEMMA SummaryOnScale ==
  ASSUME InProportion(metrics)
  PROVE  \A rate \in DOMAIN Summary : Summary[rate] \subseteq 0..100
<1> DEFINE n == metrics.count
<1> DEFINE total == Len(metrics.operations)
<1>1. /\ n["starts"] \in Nat /\ n["crashes"] \in Nat
      /\ n["sensor_unavailable"] \in Nat /\ n["sensor_attempts"] \in Nat
      /\ n["sensor_unavailable"] <= n["sensor_attempts"]
      /\ metrics.operations \in Seq(Outcomes) /\ total \in Nat
  BY DEF InProportion, Books, Counters
<1>2. Minus(n["starts"], n["crashes"]) \in Nat /\ Minus(n["starts"], n["crashes"]) <= n["starts"]
  BY <1>1 DEF Minus
<1>3. Rate(Minus(n["starts"], n["crashes"]), n["starts"]) \subseteq 0..100
  BY <1>1, <1>2, RateOnScale
<1>4. Rate(n["sensor_unavailable"], n["sensor_attempts"]) \subseteq 0..100
  BY <1>1, RateOnScale
<1>5. \A o : Rate(Times(o), total) \subseteq 0..100
  BY <1>1, TimesWithinTotal, RateOnScale
<1>6. Summary = [start_success |-> Rate(Minus(n["starts"], n["crashes"]), n["starts"]),
                 completion    |-> Rate(Times("Completed"), total),
                 cancel        |-> Rate(Times("Cancelled"), total),
                 sensor_unavailable |-> Rate(n["sensor_unavailable"], n["sensor_attempts"])]
  BY DEF Summary
<1> HIDE DEF n, total
<1>7. QED
  BY <1>3, <1>4, <1>5, <1>6

(* While no two runs of the command line overlap, a crash is counted once, *)
(* whatever file operations fail: never without a process that was killed  *)
(* or a marker that could not be removed, and missed only where a failure  *)
(* lost it; and every rate of the summary is a percentage.                 *)
THEOREM CrashesAreCountedOnce ==
  ASSUME ~Overlap PROVE SessionsSpec => []CrashesAccounted
<1>1. CrashInv => CrashesAccounted
  <2> SUFFICES ASSUME CrashInv PROVE CrashesAccounted
    OBVIOUS
  <2> DEFINE rest == \A c \in Clis : ~Running(c)
             n    == metrics.count["crashes"]
  <2>1. InProportion(metrics) /\ CountInv /\ marker \in BOOLEAN
    BY DEF CrashInv, CliInv
  <2>2. n \in Nat /\ n <= metrics.count["starts"]
    BY <2>1 DEF InProportion, Books, Counters
  <2>3. ASSUME rest PROVE Owed = Announced /\ Missing = 0
    BY <2>3 DEF Owed, Missing, Settled, Open, Running, Announced
  <2>4. Announced <= Owed /\ Announced \in {0, 1} /\ Owed \in {0, 1} /\ Missing \in {0, 1}
    BY <2>3 DEF Owed, Missing, Announced
  <2>5. n + Announced <= died + stuck
    BY <2>1, <2>2, <2>4 DEF CountInv, Balance
  <2>6. rest => fell <= n + Announced + lost
    BY <2>1, <2>2, <2>3, <2>4 DEF CountInv, Balance
  <2>7. QED
    BY <2>1, <2>2, <2>5, <2>6, SummaryOnScale DEF CrashesAccounted
<1>2. QED
  BY InitCrash, NextCrash, <1>1, PTL DEF SessionsSpec

-----------------------------------------------------------------------------
(* What the variables of the sessions hold, however many runs overlap.     *)

(* The port is the server's while it serves, and a round that asks there   *)
(* was counted as one of those that are allowed.                           *)
ShellInv ==
    /\ app \in {"off", "endpoint", "look", "connect", "answered", "window", "closed", "crashed"}
    /\ rounds \in 0..Patience /\ (app = "connect" => rounds < Patience)
    /\ server \in {"none", "starting", "serving", "dead"}
    /\ port \in {"closed", "server", "other"} /\ (port = "server" <=> server = "serving")

Trimmed(m) == m \in Books /\ Len(m.operations) <= MaxOps

BooksInv ==
    /\ cli \in [Clis -> CliRecs] /\ \A c \in Clis : Trimmed(cli[c].buf)
    /\ Trimmed(metrics) /\ marker \in BOOLEAN /\ died \in Nat /\ fell \in 0..died
    /\ stuck \in Nat /\ lost \in Nat /\ left \in 0..MaxUpdates /\ failures \in 0..MaxFailures

LEMMA KeptIsTrimmed ==
  ASSUME NEW s \in Seq(Outcomes) PROVE Len(Kept(s)) <= MaxOps
<1>1. CASE Len(s) > MaxOps
  <2>1. Len(s) - MaxOps + 1 \in 1..(Len(s) + 1) /\ Len(s) \in Nat
    BY <1>1
  <2>2. \A m, n \in Int : Len(SubSeq(s, m, n)) = IF m <= n THEN n - m + 1 ELSE 0
    OBVIOUS
  <2>3. Len(SubSeq(s, Len(s) - MaxOps + 1, Len(s))) = MaxOps
    BY <1>1, <2>1, <2>2
  <2>4. QED
    BY <1>1, <2>3 DEF Kept
<1>2. CASE ~(Len(s) > MaxOps)
  BY <1>2 DEF Kept
<1>3. QED
  BY <1>1, <1>2

LEMMA UpdateTrimmed ==
  ASSUME NEW m \in Books, NEW u \in Changes PROVE Trimmed(Updated(m, u))
<1>1. m.operations \o u.outcomes \in Seq(Outcomes)
  BY DEF Books, Changes
<1>2. Updated(m, u).operations = Kept(m.operations \o u.outcomes)
  BY DEF Updated
<1>3. QED
  BY <1>1, <1>2, UpdatedBook, KeptIsTrimmed DEF Trimmed

LEMMA NoBookTrimmed == Trimmed(NoBook) /\ NoCli.buf = NoBook /\ NoCli \in CliRecs
<1>1. NoBook.operations = <<>> /\ Len(<<>>) = 0
  BY DEF NoBook
<1>2. QED
  BY <1>1, NoBookInProportion, NoCliTyped DEF Trimmed, NoCli

(* The numbers of the history and of the bounds.                           *)
Numbers == /\ died \in Nat /\ fell \in 0..died /\ stuck \in Nat /\ lost \in Nat
           /\ left \in 0..MaxUpdates /\ failures \in 0..MaxFailures

LEMMA InitSessions == SessionsInit => OrphanInv /\ ShellInv /\ BooksInv
<1> SUFFICES ASSUME SessionsInit PROVE OrphanInv /\ ShellInv /\ BooksInv
  OBVIOUS
<1>1. OrphanInv /\ ShellInv
  BY DEF SessionsInit, ShellInit, OrphanInv, ShellInv
<1>2. /\ cli = [c \in Clis |-> NoCli] /\ metrics = NoBook
      /\ marker = FALSE /\ died = 0 /\ fell = 0 /\ stuck = 0 /\ lost = 0
      /\ left = MaxUpdates /\ failures = MaxFailures
  BY DEF SessionsInit, MetricsInit
<1>3. cli \in [Clis -> CliRecs] /\ \A c \in Clis : cli[c].buf = NoBook
  BY <1>2, NoBookTrimmed
<1>4. Numbers
  BY <1>2 DEF Numbers
<1>5. BooksInv
  BY <1>2, <1>3, <1>4, NoBookTrimmed DEF BooksInv, Numbers
<1>6. QED
  BY <1>1, <1>5

LEMMA NextShell == OrphanInv /\ ShellInv /\ [SessionsNext]_sessionsVars => ShellInv'
<1> SUFFICES ASSUME OrphanInv, ShellInv, [SessionsNext]_sessionsVars PROVE ShellInv'
  OBVIOUS
<1>1. CASE UNCHANGED svars
  BY <1>1 DEF ShellInv, svars
<1>2. CASE Endpoint \/ Spawn \/ Look \/ OpenWindow \/ KillApp \/ OtherListens
  BY <1>2 DEF OrphanInv, ShellInv, Endpoint, Spawn, Look, OpenWindow, KillApp, OtherListens
<1>3. CASE Connect
  BY <1>3 DEF ShellInv, Connect
<1>4. CASE Bind
  BY <1>4 DEF ShellInv, Bind
<1>5. CASE StopWaiting \/ Close \/ ServerDies
  BY <1>5 DEF ShellInv, StopWaiting, Close, ServerDies, KillServer
<1>6. UNCHANGED svars \/ Shell
  BY DEF SessionsNext, sessionsVars, UserRuns, ServerRuns
<1>7. QED
  BY <1>1, <1>2, <1>3, <1>4, <1>5, <1>6 DEF Shell, AppStep

LEMMA StepNumbers ==
  ASSUME Numbers, Trimmed(metrics), NEW c \in Clis, Start(c) \/ CliStep(c) \/ KillCli(c)
  PROVE  Numbers'
<1>1. metrics.count["crashes"] \in Nat
  BY DEF Trimmed, Books, Counters
<1>2. Counts(c) \in Nat
  BY DEF Counts
<1>3. Works \/ Fails => failures' \in 0..MaxFailures
  BY DEF Numbers, Works, Fails
<1>4. CASE Start(c)
  BY <1>4 DEF Numbers, Start, history
<1>5. CASE LookForMarker(c)
  BY <1>3, <1>5 DEF Numbers, LookForMarker
<1>6. CASE Load(c)
  BY <1>1, <1>3, <1>6 DEF Numbers, Load
<1>7. CASE Save(c)
  BY <1>2, <1>3, <1>7 DEF Numbers, Save
<1>8. CASE Mark(c)
  BY <1>3, <1>8 DEF Numbers, Mark
<1>9. CASE Work(c)
  BY <1>9 DEF Numbers, Work, history
<1>10. CASE Clear(c)
  BY <1>3, <1>10 DEF Numbers, Clear, history
<1>11. CASE Unmark(c)
  BY <1>3, <1>11 DEF Numbers, Unmark
<1>12. CASE KillCli(c)
  BY <1>12 DEF Numbers, KillCli
<1>13. QED
  BY <1>4, <1>5, <1>6, <1>7, <1>8, <1>9, <1>10, <1>11, <1>12 DEF CliStep

(* One process moves on, and what it is about to write is trimmed.         *)
LEMMA OneRunMoves ==
  ASSUME BooksInv, NEW c \in Clis, NEW r \in CliRecs, cli' = [cli EXCEPT ![c] = r],
         Trimmed(r.buf), Trimmed(metrics'), marker' \in BOOLEAN, Numbers'
  PROVE  BooksInv'
<1>1. cli' \in [Clis -> CliRecs] /\ cli'[c] = r /\ \A d \in Clis \ {c} : cli'[d] = cli[d]
  BY DEF BooksInv
<1>2. ASSUME NEW d \in Clis PROVE Trimmed(cli'[d].buf)
  BY <1>1 DEF BooksInv
<1>3. QED
  BY <1>1, <1>2 DEF BooksInv, Numbers

LEMMA StepBooks ==
  ASSUME BooksInv, NEW c \in Clis, Start(c) \/ CliStep(c) \/ KillCli(c)
  PROVE  BooksInv'
<1> DEFINE q == cli[c]
<1>0. Numbers'
  BY StepNumbers DEF BooksInv, Numbers
<1>1. q \in CliRecs /\ cli \in [Clis -> CliRecs] /\ Trimmed(q.buf)
  BY DEF BooksInv
<1>2. ASSUME NEW place \in Places, Move(c, place), marker' \in BOOLEAN,
             UNCHANGED metrics
      PROVE  BooksInv'
  <2> DEFINE r == [q EXCEPT !.at = place]
  <2>1. r \in CliRecs /\ r.buf = q.buf /\ cli' = [cli EXCEPT ![c] = r]
    BY <1>1, <1>2 DEF Move, CliRecs
  <2> HIDE DEF r
  <2>2. QED
    BY <1>0, <1>1, <1>2, <2>1, OneRunMoves DEF BooksInv
<1>3. ASSUME NEW u \in Changes, NEW t \in Places, Record(c, u, t), marker' \in BOOLEAN,
             UNCHANGED metrics
      PROVE  BooksInv'
  <2> DEFINE r == [q EXCEPT !.at = "load", !.update = u, !.then = t]
  <2>1. r \in CliRecs /\ r.buf = q.buf /\ cli' = [cli EXCEPT ![c] = r]
    BY <1>1, <1>3 DEF Record, CliRecs, Places
  <2> HIDE DEF r
  <2>2. QED
    BY <1>0, <1>1, <1>3, <2>1, OneRunMoves DEF BooksInv
<1>4. CASE Start(c) \/ Mark(c)
  BY <1>2, <1>4 DEF Start, Mark, Places, BooksInv
<1>5. CASE LookForMarker(c)
  <2>1. /\ Change({"starts"} \cup (IF marker THEN {"crashes"} ELSE {}), <<>>) \in Changes
        /\ Change({"starts"}, <<>>) \in Changes
    <3>1. CASE marker
      <4>1. {"starts"} \cup {"crashes"} = {"starts", "crashes"}
        OBVIOUS
      <4>2. QED
        BY <3>1, <4>1, SessionUpdates
    <3>2. CASE ~marker
      BY <3>2, SessionUpdates
    <3>3. QED
      BY <3>1, <3>2
  <2>2. QED
    BY <1>3, <1>5, <2>1 DEF LookForMarker, Places, BooksInv
<1>6. CASE Load(c)
  <2>1. PICK base \in {metrics, NoBook} :
          cli' = [cli EXCEPT ![c] = [q EXCEPT !.at = "save", !.buf = Updated(base, q.update)]]
    BY <1>1, <1>6 DEF Load
  <2> DEFINE b == Updated(base, q.update)
             r == [q EXCEPT !.at = "save", !.buf = b]
  <2>2. base \in Books /\ q.update \in Changes
    BY <1>1, NoBookTrimmed DEF BooksInv, Trimmed, CliRecs
  <2>3. b \in Books /\ Trimmed(b)
    BY <2>2, UpdatedBook, UpdateTrimmed
  <2>4. cli' = [cli EXCEPT ![c] = r]
    BY <2>1
  <2> HIDE DEF b
  <2>5. r \in CliRecs /\ r.buf = b
    BY <1>1, <2>3 DEF CliRecs, Places
  <2> HIDE DEF r
  <2>6. QED
    BY <1>0, <1>6, <2>3, <2>4, <2>5, OneRunMoves DEF BooksInv, Load
<1>7. CASE Save(c)
  <2> DEFINE r == [q EXCEPT !.at = q.then, !.update = NoCli.update, !.buf = NoBook]
  <2>1. cli' = [cli EXCEPT ![c] = r]
    BY <1>1, <1>7 DEF Save
  <2>2. NoCli.update \in Changes /\ NoBook \in Books /\ q.then \in Places
    BY <1>1, NoBookTrimmed DEF CliRecs, Trimmed
  <2>3. r \in CliRecs /\ r.buf = NoBook
    BY <1>1, <2>2 DEF CliRecs
  <2> HIDE DEF r
  <2>4. Trimmed(metrics') /\ marker' \in BOOLEAN
    BY <1>1, <1>7 DEF BooksInv, Save
  <2>5. QED
    BY <1>0, <2>1, <2>3, <2>4, NoBookTrimmed, OneRunMoves
<1>8. CASE Work(c)
  BY <1>3, <1>8, UpdatesHarmless DEF Work, Places, BooksInv
<1>9. CASE Clear(c)
  BY <1>0, <1>9, NoBookTrimmed DEF Clear, BooksInv, Numbers
<1>10. CASE Unmark(c)
  BY <1>3, <1>10, SessionUpdates DEF Unmark, Places, BooksInv
<1>11. CASE KillCli(c)
  <2> DEFINE r == [NoCli EXCEPT !.at = "dead"]
  <2>1. r \in CliRecs /\ r.buf = NoBook
    BY NoCliTyped, NoBookTrimmed DEF CliRecs
  <2> HIDE DEF r
  <2>2. cli' = [cli EXCEPT ![c] = r]
    BY <1>11 DEF KillCli, r
  <2>3. QED
    BY <1>0, <1>11, <2>1, <2>2, NoBookTrimmed, OneRunMoves DEF BooksInv, KillCli
<1>12. QED
  BY <1>4, <1>5, <1>6, <1>7, <1>8, <1>9, <1>10, <1>11 DEF CliStep

LEMMA NextBooks == BooksInv /\ [SessionsNext]_sessionsVars => BooksInv'
<1> SUFFICES ASSUME BooksInv, [SessionsNext]_sessionsVars PROVE BooksInv'
  OBVIOUS
<1>1. CASE UNCHANGED mvars
  BY <1>1 DEF BooksInv, mvars, history
<1>2. UNCHANGED mvars \/ \E c \in Clis : Start(c) \/ CliStep(c) \/ KillCli(c)
  BY DEF SessionsNext, sessionsVars, UserRuns, ServerRuns
<1>3. QED
  BY <1>1, <1>2, StepBooks

(* The shell, its server and the port, the runs of the command line and    *)
(* the metrics keep their types, however many runs overlap.                *)
THEOREM SessionsTypeCorrect == SessionsSpec => []SessionsTypeOK
<1>1. ShellInv /\ BooksInv => SessionsTypeOK
  BY DEF ShellInv, BooksInv, SessionsTypeOK, CliRecs, Trimmed
<1>2. QED
  BY InitSessions, NextOrphan, NextShell, NextBooks, <1>1, PTL DEF SessionsSpec
=============================================================================
