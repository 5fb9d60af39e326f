--------------------------- MODULE GatewayProofs ---------------------------
(***************************************************************************)
(* Theorems about consent and its records, for any number of calls,        *)
(* providers and scopes: revoking is final as long as the user changes one *)
(* consent at a time (SerialEdits), and the ledger is truthful in any case.*)
(* Killed processes, abandoned calls and requests that run during an edit  *)
(* are all allowed.                                                        *)
(***************************************************************************)
EXTENDS Gateway, TLAPS

USE GatewayAssumption

(* The one edit under way, if any, holds a copy of the store on disk with  *)
(* one entry changed, so that saving it undoes nothing else.               *)
EditInv ==
    /\ pc \in [Task -> Steps]
    /\ store \in Stores
    /\ buf \in [Task -> Stores]
    /\ DOMAIN op = Task
    /\ \A d, e \in Editors : d = e
    /\ \A e \in Editors :
         /\ op[e] \in Edits
         /\ pc[e] # "load" =>
              /\ op[e].kind = "revoke" => buf[e][op[e].provider] = NoPolicy
              /\ \A p \in Provider \ {op[e].provider} : buf[e][p] = store[p]
         /\ pc[e] = "write_tmp" => tmp = Torn
         /\ pc[e] = "rename" => tmp = buf[e]

RevokeInv ==
    \A p \in revoked :
      /\ p \in Provider
      /\ store[p] = NoPolicy
      /\ \A e \in Editors : op[e].kind = "grant" => op[e].provider # p

BarredInv ==
    /\ \A t \in Task : pc[t] \in {"idle", "name", "authorize", "send"} => t \notin SentTasks
    /\ \A b \in barred :
         /\ b \in Task
         /\ op[b].provider \in revoked \ Local
         /\ pc[b] \in {"name", "authorize", "report_denied", "done", "unrecorded", "killed"}
         /\ b \notin SentTasks

ConsentInv == EditInv /\ RevokeInv /\ BarredInv

LEMMA InitConsent == Init => ConsentInv
<1> USE DEF Init
<1>1. Init => EditInv
  BY DEF EditInv, Steps, Editors, Editing, Stores
<1>2. Init => RevokeInv
  BY DEF RevokeInv, Editors, Editing
<1>3. Init => BarredInv
  BY DEF BarredInv, SentTasks
<1>4. QED
  BY <1>1, <1>2, <1>3 DEF ConsentInv

LEMMA NextConsent ==
  ASSUME SerialEdits PROVE ConsentInv /\ [Next]_vars => ConsentInv'
<1> SUFFICES ASSUME ConsentInv, [Next]_vars PROVE ConsentInv'
  OBVIOUS
<1> USE DEF ConsentInv, Editors, Editing, Goto, At, files, past
<1>1. ASSUME NEW t \in Task, NEW o \in Edits, CallEdit(t, o) PROVE ConsentInv'
  <2>1. EditInv'
    BY <1>1 DEF CallEdit, EditInv, Steps
  <2>2. RevokeInv'
    BY <1>1 DEF CallEdit, EditInv, RevokeInv, Edits
  <2>3. BarredInv'
    BY <1>1 DEF CallEdit, EditInv, BarredInv, SentTasks
  <2>4. QED BY <2>1, <2>2, <2>3
<1>2. ASSUME NEW t \in Task, LoadStore(t) PROVE ConsentInv'
  <2>1. EditInv'
    BY <1>2 DEF LoadStore, EditInv, Steps, Stores, Edits, LoadPolicies
  <2>2. RevokeInv'
    BY <1>2 DEF LoadStore, EditInv, RevokeInv
  <2>3. BarredInv'
    BY <1>2 DEF LoadStore, EditInv, BarredInv, SentTasks
  <2>4. QED BY <2>1, <2>2, <2>3
<1>3. ASSUME NEW t \in Task, OpenTmp(t) PROVE ConsentInv'
  <2>1. EditInv'
    BY <1>3 DEF OpenTmp, EditInv, Steps
  <2>2. RevokeInv'
    BY <1>3 DEF OpenTmp, EditInv, RevokeInv
  <2>3. BarredInv'
    BY <1>3 DEF OpenTmp, EditInv, BarredInv, SentTasks
  <2>4. QED BY <2>1, <2>2, <2>3
<1>4. ASSUME NEW t \in Task, WriteTmp(t) PROVE ConsentInv'
  <2>1. EditInv'
    BY <1>4 DEF WriteTmp, EditInv, Steps
  <2>2. RevokeInv'
    BY <1>4 DEF WriteTmp, EditInv, RevokeInv
  <2>3. BarredInv'
    BY <1>4 DEF WriteTmp, EditInv, BarredInv, SentTasks
  <2>4. QED BY <2>1, <2>2, <2>3
<1>5. ASSUME NEW t \in Task, Rename(t) PROVE ConsentInv'
  <2>0. tmp = buf[t] /\ buf[t] \in Stores /\ tmp # NoFile
    BY <1>5 DEF Rename, EditInv, Stores
  <2>1. EditInv'
    BY <1>5, <2>0 DEF Rename, EditInv, Steps, Finished
  <2>2. RevokeInv'
    BY <1>5, <2>0 DEF Rename, EditInv, RevokeInv, Edits
  <2>3. BarredInv'
    BY <1>5, <2>0 DEF Rename, EditInv, BarredInv, SentTasks
  <2>4. QED BY <2>1, <2>2, <2>3
<1>6. ASSUME NEW t \in Task, NEW o \in Settings, CallSetModel(t, o) PROVE ConsentInv'
  BY <1>6 DEF CallSetModel, EditInv, RevokeInv, BarredInv, Steps, SentTasks
<1>7. ASSUME NEW t \in Task, SetModel(t) PROVE ConsentInv'
  BY <1>7 DEF SetModel, EditInv, RevokeInv, BarredInv, Steps, Finished, SentTasks
<1>8. ASSUME NEW t \in Task, NEW o \in Requests, CallAsk(t, o) PROVE ConsentInv'
  <2>1. EditInv'
    BY <1>8 DEF CallAsk, EditInv, Steps
  <2>2. RevokeInv'
    BY <1>8 DEF CallAsk, EditInv, RevokeInv
  <2>3. BarredInv'
    BY <1>8 DEF CallAsk, EditInv, BarredInv, SentTasks
  <2>4. QED BY <2>1, <2>2, <2>3
<1>9. ASSUME NEW t \in Task, NameModel(t) PROVE ConsentInv'
  BY <1>9 DEF NameModel, EditInv, RevokeInv, BarredInv, Steps, SentTasks
<1>10. ASSUME NEW t \in Task, Authorize(t) PROVE ConsentInv'
  <2>1. t \in barred => ~Authorized(LoadPolicies, op[t].provider, op[t].scope)
    BY DEF EditInv, RevokeInv, BarredInv, LoadPolicies, Authorized, CloudAllowed, Stores
  <2>2. EditInv'
    BY <1>10 DEF Authorize, EditInv, Steps, Reporting
  <2>3. RevokeInv'
    BY <1>10 DEF Authorize, EditInv, RevokeInv
  <2>4. BarredInv'
    BY <1>10, <2>1 DEF Authorize, EditInv, BarredInv, SentTasks
  <2>5. QED BY <2>2, <2>3, <2>4
<1>11. ASSUME NEW t \in Task, Send(t) PROVE ConsentInv'
  <2>1. EditInv' /\ RevokeInv'
    BY <1>11 DEF Send, EditInv, RevokeInv, Steps, Reporting
  <2>2. SentTasks' \subseteq SentTasks \cup {t}
    BY <1>11 DEF Send, SentTasks
  <2>3. BarredInv'
    BY <1>11, <2>2 DEF Send, EditInv, BarredInv
  <2>4. QED BY <2>1, <2>3
<1>12. ASSUME NEW t \in Task, Reply(t) PROVE ConsentInv'
  BY <1>12 DEF Reply, EditInv, RevokeInv, BarredInv, Steps, Reporting, SentTasks
<1>13. ASSUME NEW t \in Task, Record(t) PROVE ConsentInv'
  BY <1>13 DEF Record, EditInv, RevokeInv, BarredInv, Steps, Reporting, Finished, SentTasks
<1>14. ASSUME NEW t \in Task, Abandon(t) PROVE ConsentInv'
  BY <1>14 DEF Abandon, EditInv, RevokeInv, BarredInv, Steps, Finished, SentTasks
<1>15. ASSUME NEW t \in Task, Kill(t) PROVE ConsentInv'
  BY <1>15 DEF Kill, EditInv, RevokeInv, BarredInv, Steps, Finished, SentTasks
<1>16. CASE UNCHANGED vars
  BY <1>16 DEF vars, EditInv, RevokeInv, BarredInv, SentTasks
<1>17. QED
  BY <1>1, <1>2, <1>3, <1>4, <1>5, <1>6, <1>7, <1>8, <1>9, <1>10, <1>11, <1>12, <1>13,
     <1>14, <1>15, <1>16 DEF Next, Progress

(* While consents are edited one at a time, a revoke that returned stays   *)
(* in the store: nothing but a new grant of that provider opens it again.  *)
THEOREM RevokeIsFinal ==
  ASSUME SerialEdits PROVE Spec => []RevokeSticks
<1>1. ConsentInv => RevokeSticks
  BY DEF ConsentInv, EditInv, RevokeInv, RevokeSticks, CloudAllowed, LoadPolicies, Stores
<1>2. QED
  BY InitConsent, NextConsent, <1>1, PTL DEF Spec

(* While consents are edited one at a time, no request made after a revoke *)
(* returned reaches the cloud provider before the user grants it anew.     *)
THEOREM RevokedIsNeverCalled ==
  ASSUME SerialEdits PROVE Spec => []RevokedNeverCalled
<1>1. ConsentInv => RevokedNeverCalled
  BY DEF ConsentInv, BarredInv, RevokedNeverCalled
<1>2. QED
  BY InitConsent, NextConsent, <1>1, PTL DEF Spec

-----------------------------------------------------------------------------
(* The records that execute_agent leaves behind.  Nothing is assumed of    *)
(* SerialEdits here: processes may be killed, futures dropped, and the     *)
(* ledger may fail.                                                        *)

Asking == {"name", "authorize", "send", "await"} \cup Reporting

(* A task is where its kind of call can be.                                *)
KindInv ==
    \A t \in Task :
      /\ pc[t] \in Editing => op[t] \in Edits
      /\ pc[t] = "set" => op[t] \in Settings
      /\ pc[t] \in Asking => op[t] \in Requests

(* A request leaves once, between its authorization and its answer, and    *)
(* its record is written once, after it.                                   *)
CallInv ==
    \A t \in Task :
      /\ pc[t] \in {"idle", "name", "authorize", "send", "report_denied"} =>
           t \notin SentTasks
      /\ pc[t] \in {"await", "report_success"} => t \in SentTasks
      /\ pc[t] \in {"idle"} \cup Asking => \A r \in ledger : r.task # t

(* The model that a request and its record name.                           *)
NamedInv ==
    /\ \A t \in Task \ renamed :
         pc[t] \in {"authorize", "send"} =>
            named[t] = NameOf(op[t].provider, models[op[t].provider])
    /\ \A s \in sent : s.task \notin renamed =>
         named[s.task] = NameOf(op[s.task].provider, s.model)
    /\ \A r \in ledger : r.model = named[r.task]

RecordInv ==
    /\ \A r, q \in ledger : r.task = q.task => r = q
    /\ \A r \in ledger :
         /\ r.status = "policy_denied" => r.task \notin SentTasks
         /\ r.status = "success" => r.task \in SentTasks
         /\ pc[r.task] = "done"
    /\ \A t \in Task : pc[t] = "done" /\ op[t] \in Requests =>
         \E r \in ledger : r.task = t

TruthInv == TypeOK /\ KindInv /\ CallInv /\ NamedInv /\ RecordInv

LEMMA InitTruth == Init => TruthInv
<1> SUFFICES ASSUME Init PROVE TruthInv
  OBVIOUS
<1>1. TypeOK
  BY DEF Init, TypeOK, Steps, Stores
<1>2. SentTasks = {}
  BY DEF Init, SentTasks
<1>3. KindInv /\ CallInv /\ NamedInv /\ RecordInv
  BY <1>2 DEF Init, KindInv, CallInv, NamedInv, RecordInv, Editing, Asking, Reporting
<1>4. QED
  BY <1>1, <1>3 DEF TruthInv

(* Every step keeps the types, given that a task is where its call can be. *)
LEMMA NextType == TypeOK /\ KindInv /\ [Next]_vars => TypeOK'
<1> SUFFICES ASSUME TypeOK, KindInv, [Next]_vars PROVE TypeOK'
  OBVIOUS
<1> USE DEF TypeOK, Goto, At, files, past
<1>1. ASSUME NEW t \in Task, NEW o \in Edits, CallEdit(t, o) PROVE TypeOK'
  BY <1>1 DEF CallEdit, Steps, Editing
<1>2. ASSUME NEW t \in Task, LoadStore(t) PROVE TypeOK'
  BY <1>2 DEF LoadStore, Steps, Editing, Stores, LoadPolicies, KindInv, Edits
<1>3. ASSUME NEW t \in Task, OpenTmp(t) PROVE TypeOK'
  BY <1>3 DEF OpenTmp, Steps, Editing
<1>4. ASSUME NEW t \in Task, WriteTmp(t) PROVE TypeOK'
  BY <1>4 DEF WriteTmp, Steps, Editing
<1>5. ASSUME NEW t \in Task, Rename(t) PROVE TypeOK'
  BY <1>5 DEF Rename, Steps, Editing, Finished, KindInv, Edits
<1>6. ASSUME NEW t \in Task, NEW o \in Settings, CallSetModel(t, o) PROVE TypeOK'
  BY <1>6 DEF CallSetModel, Steps
<1>7. ASSUME NEW t \in Task, SetModel(t) PROVE TypeOK'
  <2>1. \/ models' = models
        \/ \E m \in Model : models' = [models EXCEPT ![op[t].provider] = m]
    BY <1>7 DEF SetModel
  <2>2. models' \in [Provider -> Model]
    BY <2>1
  <2>3. renamed' \subseteq Task
    BY <1>7 DEF SetModel
  <2>4. QED
    BY <1>7, <2>2, <2>3 DEF SetModel, Steps, Finished
<1>8. ASSUME NEW t \in Task, NEW o \in Requests, CallAsk(t, o) PROVE TypeOK'
  BY <1>8 DEF CallAsk, Steps
<1>9. ASSUME NEW t \in Task, NameModel(t) PROVE TypeOK'
  BY <1>9 DEF NameModel, NameOf, Steps, KindInv, Asking, Requests
<1>10. ASSUME NEW t \in Task, Authorize(t) PROVE TypeOK'
  BY <1>10 DEF Authorize, Steps, Reporting
<1>11. ASSUME NEW t \in Task, Send(t) PROVE TypeOK'
  BY <1>11 DEF Send, Steps, Reporting, KindInv, Asking, Requests
<1>12. ASSUME NEW t \in Task, Reply(t) PROVE TypeOK'
  BY <1>12 DEF Reply, Steps, Reporting
<1>13. ASSUME NEW t \in Task, Record(t) PROVE TypeOK'
  <2>1. NewRecord(t, named[t]) \in [task: Task, status: Statuses, model: Model \cup {Unnamed}]
    BY DEF NewRecord, Status, Statuses
  <2>2. QED
    BY <1>13, <2>1 DEF Record, Steps, Finished
<1>14. ASSUME NEW t \in Task, Abandon(t) PROVE TypeOK'
  BY <1>14 DEF Abandon, Steps, Finished
<1>15. ASSUME NEW t \in Task, Kill(t) PROVE TypeOK'
  BY <1>15 DEF Kill, Steps, Finished
<1>16. CASE UNCHANGED vars
  BY <1>16 DEF vars
<1>17. QED
  BY <1>1, <1>2, <1>3, <1>4, <1>5, <1>6, <1>7, <1>8, <1>9, <1>10, <1>11, <1>12, <1>13,
     <1>14, <1>15, <1>16 DEF Next, Progress

(* The steps that leave sent and the ledger alone: what is left to check   *)
(* is where the task goes, and that the names of the others stand.         *)
LEMMA QuietStep ==
  ASSUME TruthInv, NEW t \in Task, NEW s \in Steps, Goto(t, s),
         UNCHANGED <<sent, ledger, models, named, renamed>>,
         \A u \in Task \ {t} : op'[u] = op[u],
         s \in Editing => op'[t] \in Edits,
         s = "set" => op'[t] \in Settings,
         s \in Asking => op'[t] \in Requests,
         s \in {"idle", "name", "authorize", "send", "report_denied"} => t \notin SentTasks,
         s \in {"await", "report_success"} => t \in SentTasks,
         s \in {"idle"} \cup Asking => \A r \in ledger : r.task # t,
         s \in {"authorize", "send"} /\ t \notin renamed =>
           op' = op /\ named[t] = NameOf(op[t].provider, models[op[t].provider]),
         op'[t] = op[t] \/ t \notin SentTasks,
         pc[t] # "done",
         s = "done" => op'[t] \notin Requests
  PROVE  KindInv' /\ CallInv' /\ NamedInv' /\ RecordInv'
<1>1. SentTasks' = SentTasks
  BY DEF SentTasks
<1>2. pc \in [Task -> Steps] /\ \A u \in Task : pc'[u] = IF u = t THEN s ELSE pc[u]
  BY DEF TruthInv, TypeOK, Goto
<1>3. KindInv'
  BY <1>2 DEF KindInv, TruthInv
<1>4. CallInv'
  BY <1>1, <1>2 DEF CallInv, TruthInv
<1>5. NamedInv'
  <2>1. \A u \in Task \ renamed' : pc'[u] \in {"authorize", "send"} =>
           named'[u] = NameOf(op'[u].provider, models'[op'[u].provider])
    BY <1>2 DEF NamedInv, TruthInv
  <2>2. \A x \in sent : x.task \in Task /\ x.task \in SentTasks
    BY DEF TruthInv, TypeOK, SentTasks
  <2>3. \A x \in sent : op'[x.task] = op[x.task]
    BY <2>2
  <2>4. \A x \in sent' : x.task \notin renamed' =>
           named'[x.task] = NameOf(op'[x.task].provider, x.model)
    BY <2>3 DEF NamedInv, TruthInv
  <2>5. \A r \in ledger' : r.model = named'[r.task]
    BY DEF NamedInv, TruthInv
  <2>6. QED
    BY <2>1, <2>4, <2>5 DEF NamedInv
<1>6. \A r \in ledger : r.task \in Task
  BY DEF TruthInv, TypeOK
<1>7. RecordInv'
  BY <1>1, <1>2, <1>6 DEF RecordInv, TruthInv
<1>8. QED
  BY <1>3, <1>4, <1>5, <1>7

LEMMA NextTruth == TruthInv /\ [Next]_vars => TruthInv'
<1> SUFFICES ASSUME TruthInv, [Next]_vars PROVE KindInv' /\ CallInv' /\ NamedInv' /\ RecordInv'
  BY NextType DEF TruthInv
<1> DEFINE Rest == KindInv' /\ CallInv' /\ NamedInv' /\ RecordInv'
<1>a. pc \in [Task -> Steps] /\ SentTasks \subseteq Task
  BY DEF TruthInv, TypeOK, SentTasks
<1>b. KindInv /\ CallInv /\ NamedInv /\ RecordInv
  BY DEF TruthInv
<1>c. DOMAIN op = Task /\ named \in [Task -> Model \cup {Unnamed}] /\ models \in [Provider -> Model]
  BY DEF TruthInv, TypeOK
<1>d. /\ \A o \in Edits : o \notin Requests /\ o \notin Settings
      /\ \A o \in Settings : o \notin Requests
  BY DEF Edits, Requests, Settings
<1>e. \A r \in ledger : r.task \in Task
  BY DEF TruthInv, TypeOK
<1>f. \A s \in sent : s.task \in Task /\ s.task \in SentTasks
  BY DEF TruthInv, TypeOK, SentTasks
<1> USE DEF Goto, At, files, past, Editing, Asking, Reporting
<1>1. ASSUME NEW t \in Task, NEW o \in Edits, CallEdit(t, o) PROVE Rest
  BY <1>1, <1>a, <1>b, <1>c, <1>d, QuietStep DEF CallEdit, Steps, CallInv
<1>2. ASSUME NEW t \in Task, LoadStore(t) PROVE Rest
  BY <1>2, <1>a, <1>b, <1>c, QuietStep DEF LoadStore, Steps, KindInv
<1>3. ASSUME NEW t \in Task, OpenTmp(t) PROVE Rest
  BY <1>3, <1>a, <1>b, <1>c, QuietStep DEF OpenTmp, Steps, KindInv
<1>4. ASSUME NEW t \in Task, WriteTmp(t) PROVE Rest
  BY <1>4, <1>a, <1>b, <1>c, QuietStep DEF WriteTmp, Steps, KindInv
<1>5. ASSUME NEW t \in Task, Rename(t) PROVE Rest
  BY <1>5, <1>a, <1>b, <1>c, <1>d, QuietStep DEF Rename, Steps, Finished, KindInv
<1>6. ASSUME NEW t \in Task, NEW o \in Settings, CallSetModel(t, o) PROVE Rest
  BY <1>6, <1>a, <1>b, <1>c, <1>d, QuietStep DEF CallSetModel, Steps, CallInv
<1>7. ASSUME NEW t \in Task, SetModel(t) PROVE Rest
  <2>0. CASE UNCHANGED <<models, renamed>>
    BY <1>7, <2>0, <1>a, <1>b, <1>c, <1>d, QuietStep DEF SetModel, Steps, Finished, KindInv
  <2> SUFFICES ASSUME ~UNCHANGED <<models, renamed>> PROVE Rest
    BY <2>0
  <2>1. PICK m \in Model : models' = [models EXCEPT ![op[t].provider] = m]
    BY <1>7 DEF SetModel
  <2>2. SentTasks' = SentTasks
    BY <1>7 DEF SetModel, SentTasks
  <2>3. KindInv' /\ CallInv' /\ RecordInv'
    BY <1>7, <1>a, <1>b, <1>d, <1>e, <2>2 DEF SetModel, KindInv, CallInv, RecordInv
  <2>4. ASSUME NEW r \in Task \ renamed', pc'[r] \in {"authorize", "send"}
        PROVE  named'[r] = NameOf(op'[r].provider, models'[op'[r].provider])
    <3>1. r \notin renamed /\ pc[r] \in {"authorize", "send"}
      BY <1>7, <1>a, <2>4 DEF SetModel
    <3>2. op[r].provider # op[t].provider
      BY <1>7, <2>4, <3>1 DEF SetModel
    <3>3. QED
      BY <1>7, <1>b, <1>c, <2>1, <3>1, <3>2 DEF SetModel, NamedInv
  <2>5. NamedInv'
    BY <1>7, <1>b, <2>4 DEF SetModel, NamedInv
  <2>6. QED
    BY <2>3, <2>5
<1>8. ASSUME NEW t \in Task, NEW o \in Requests, CallAsk(t, o) PROVE Rest
  BY <1>8, <1>a, <1>b, <1>c, <1>d, QuietStep DEF CallAsk, Steps, CallInv
<1>9. ASSUME NEW t \in Task, NameModel(t) PROVE Rest
  <2>1. SentTasks' = SentTasks
    BY <1>9 DEF NameModel, SentTasks
  <2>2. KindInv' /\ CallInv' /\ RecordInv'
    BY <1>9, <1>a, <1>b, <1>e, <2>1 DEF NameModel, KindInv, CallInv, RecordInv
  <2>3. t \notin SentTasks /\ \A r \in ledger : r.task # t
    BY <1>9, <1>b DEF NameModel, CallInv
  <2>4. NamedInv'
    BY <1>9, <1>a, <1>b, <1>c, <1>e, <1>f, <2>3 DEF NameModel, NamedInv
  <2>5. QED
    BY <2>2, <2>4
<1>10. ASSUME NEW t \in Task, Authorize(t) PROVE Rest
  <2>1. CASE Goto(t, "send")
    BY <1>10, <2>1, <1>a, <1>b, <1>c, QuietStep
       DEF Authorize, Steps, KindInv, CallInv, NamedInv
  <2>2. CASE Goto(t, "report_denied")
    BY <1>10, <2>2, <1>a, <1>b, <1>c, QuietStep
       DEF Authorize, Steps, KindInv, CallInv, NamedInv
  <2>3. QED
    BY <1>10, <2>1, <2>2 DEF Authorize
<1>11. ASSUME NEW t \in Task, Send(t) PROVE Rest
  <2>1. CASE Goto(t, "await") /\ sent' = sent \cup {[task |-> t, model |-> models[op[t].provider]]}
    <3> DEFINE m == models[op[t].provider]
    <3>0. sent' = sent \cup {[task |-> t, model |-> m]} /\ [task |-> t, model |-> m].task = t
      BY <2>1
    <3> HIDE DEF m
    <3>1. SentTasks' = SentTasks \cup {t}
      BY <3>0, Zenon DEF SentTasks
    <3>2. \A r \in ledger : r.task # t
      BY <1>11, <1>b DEF Send, CallInv
    <3>3. KindInv' /\ CallInv' /\ RecordInv'
      BY <1>11, <1>a, <1>b, <1>e, <2>1, <3>1, <3>2 DEF Send, KindInv, CallInv, RecordInv
    <3>4. NamedInv'
      BY <1>11, <1>a, <1>b, <1>c, <2>1 DEF Send, NamedInv
    <3>5. QED
      BY <3>3, <3>4
  <2>2. CASE Goto(t, "report_failed") /\ UNCHANGED sent
    BY <1>11, <2>2, <1>a, <1>b, <1>c, QuietStep DEF Send, Steps, KindInv, CallInv
  <2>3. QED
    BY <1>11, <2>1, <2>2 DEF Send
<1>12. ASSUME NEW t \in Task, Reply(t) PROVE Rest
  <2>1. CASE Goto(t, "report_success")
    BY <1>12, <2>1, <1>a, <1>b, <1>c, QuietStep DEF Reply, Steps, KindInv, CallInv
  <2>2. CASE Goto(t, "report_failed")
    BY <1>12, <2>2, <1>a, <1>b, <1>c, QuietStep DEF Reply, Steps, KindInv, CallInv
  <2>3. QED
    BY <1>12, <2>1, <2>2 DEF Reply
<1>13. ASSUME NEW t \in Task, Record(t) PROVE Rest
  <2>1. CASE Goto(t, "done") /\ ledger' = ledger \cup {NewRecord(t, named[t])}
    <3>1. SentTasks' = SentTasks
      BY <1>13 DEF Record, SentTasks
    <3>2. \A r \in ledger : r.task # t
      BY <1>13, <1>b DEF Record, CallInv
    <3> DEFINE n == NewRecord(t, named[t])
    <3>3. /\ n.task = t /\ n.model = named[t]
          /\ n.status = "policy_denied" => t \notin SentTasks
          /\ n.status = "success" => t \in SentTasks
      BY <1>13, <1>b DEF Record, NewRecord, Status, CallInv
    <3>4. ledger' = ledger \cup {n}
      BY <2>1
    <3> HIDE DEF n
    <3>5. KindInv' /\ CallInv' /\ NamedInv'
      BY <1>13, <1>a, <1>b, <2>1, <3>1, <3>3, <3>4 DEF Record, KindInv, CallInv, NamedInv
    <3>6. RecordInv'
      BY <1>13, <1>a, <1>b, <1>e, <2>1, <3>1, <3>2, <3>3, <3>4 DEF Record, RecordInv
    <3>7. QED
      BY <3>5, <3>6
  <2>2. CASE Goto(t, "unrecorded") /\ UNCHANGED ledger
    BY <1>13, <2>2, <1>a, <1>b, <1>c, QuietStep DEF Record, Steps, Finished
  <2>3. QED
    BY <1>13, <2>1, <2>2 DEF Record
<1>14. ASSUME NEW t \in Task, Abandon(t) PROVE Rest
  BY <1>14, <1>a, <1>b, <1>c, QuietStep DEF Abandon, Steps, Finished
<1>15. ASSUME NEW t \in Task, Kill(t) PROVE Rest
  BY <1>15, <1>a, <1>b, <1>c, QuietStep DEF Kill, Steps, Finished
<1>16. CASE UNCHANGED vars
  BY <1>16, <1>b DEF vars, KindInv, CallInv, NamedInv, RecordInv, SentTasks
<1>17. QED
  BY <1>1, <1>2, <1>3, <1>4, <1>5, <1>6, <1>7, <1>8, <1>9, <1>10, <1>11, <1>12, <1>13,
     <1>14, <1>15, <1>16 DEF Next, Progress

(* Every execute_agent that ran to its end left exactly one record, and    *)
(* the record tells the truth about what left the machine and to which     *)
(* model, whatever the other tasks, kills, drops and failures did.         *)
THEOREM RecordsTellTheTruth == Spec => []OneTruthfulRecord
<1>1. TruthInv => OneTruthfulRecord
  <2> SUFFICES ASSUME TruthInv PROVE OneTruthfulRecord
    OBVIOUS
  <2>1. ASSUME NEW t \in Task, pc[t] = "done", op[t] \in Requests
        PROVE  \E r \in ledger :
                 /\ \A q \in ledger : q.task = t => q = r
                 /\ r.task = t
                 /\ r.status = "policy_denied" => t \notin SentTasks
                 /\ r.status = "success" => t \in SentTasks
    <3>1. PICK r \in ledger : r.task = t
      BY <2>1 DEF TruthInv, RecordInv
    <3>2. \A q \in ledger : q.task = t => q = r
      BY <3>1 DEF TruthInv, RecordInv
    <3>3. /\ r.status = "policy_denied" => t \notin SentTasks
          /\ r.status = "success" => t \in SentTasks
      BY <3>1 DEF TruthInv, RecordInv
    <3>4. QED
      BY <3>1, <3>2, <3>3
  <2>2. QED
    BY <2>1 DEF TruthInv, NamedInv, OneTruthfulRecord
<1>2. QED
  BY InitTruth, NextTruth, <1>1, PTL DEF Spec

(* Every state of the gateway keeps the type of each variable.             *)
THEOREM GatewayTypeCorrect == Spec => []TypeOK
<1>1. TruthInv => TypeOK
  BY DEF TruthInv
<1>2. QED
  BY InitTruth, NextTruth, <1>1, PTL DEF Spec
=============================================================================
