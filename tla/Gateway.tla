------------------------------ MODULE Gateway ------------------------------
(***************************************************************************)
(* Consent and the policy gateway: velox-core/src/policy.rs, with          *)
(* atomic_write, the model settings and query_with_usage of ai.rs.         *)
(*                                                                         *)
(* A task is one call of grant_consent, revoke_consent, set_model or       *)
(* execute_agent, in a CLI invocation or a handler of the server.  Tasks   *)
(* share velox_policies.json and velox_models.json and take no lock on     *)
(* them: another task can run between any two file operations.             *)
(*                                                                         *)
(* No caller requests a tool and grant_consent allows none, so the tool    *)
(* whitelist, empty against empty, is left out.  set_model's own file      *)
(* handling has the shape of grant_consent's and is one step here.  The    *)
(* file of the custom providers stays as it is.                            *)
(***************************************************************************)
EXTENDS Integers, FiniteSets

CONSTANTS
    Task,           \* calls that may be made
    Provider,       \* provider names that exist
    Custom,         \* those of velox_providers.json; the others are built in
    Local,          \* the custom ones flagged local, on a loopback address
    Scope,          \* ContextScope: 0 minimal, 1 system, 2 drivers
    Model,          \* model ids a provider may be set to
    Unnamed,        \* the empty name of a model
    NoPolicy,       \* a provider without an entry in the policy file
    Torn,           \* a partly written file
    NoFile,         \* no temporary file
    NoTask,         \* a task that has not been called
    MaxKills,       \* bound: tasks whose process is killed
    MayAbandon,     \* may a caller drop execute_agent while it waits?
    LedgerMayFail,  \* may ledger::record fail (lock timeout, disk)?
    SerialEdits     \* does the user change one consent at a time?

ASSUME GatewayAssumption ==
    /\ Local \subseteq Custom /\ Custom \subseteq Provider
    /\ Scope \subseteq Nat /\ 0 \in Scope
    /\ NoPolicy \notin Scope
    /\ Unnamed \notin Model
    /\ Torn \notin [Provider -> Scope \cup {NoPolicy}]
    /\ NoFile \notin [Provider -> Scope \cup {NoPolicy}] /\ NoFile # Torn
    /\ MaxKills \in Nat
    /\ {MayAbandon, LedgerMayFail, SerialEdits} \subseteq BOOLEAN

Edits    == [kind: {"grant", "revoke"}, provider: Provider, scope: Scope]
Requests == [kind: {"ask"}, provider: Provider, scope: Scope]
Settings == [kind: {"set_model"}, provider: Provider, scope: {0}]

VARIABLES
    pc,        \* pc[t]: where task t is
    op,        \* op[t]: what it was called for
    store,     \* content of velox_policies.json: Torn, or provider -> max scope
    tmp,       \* content of velox_policies.json.tmp
    buf,       \* buf[t]: the store t loaded and changed
    models,    \* models[p]: the model id p is asked for: of velox_models.json if
               \* p is built in, of velox_providers.json if it is custom
    named,     \* named[t]: the name t read when execute_agent began
    sent,      \* calls that left for their provider: task and model
    ledger,    \* session records: task, status and model
    kills,     \* tasks killed so far
    renamed,   \* requests whose provider got another model after they named theirs
    revoked,   \* providers whose revoke took effect, with no grant asked since
    barred     \* requests made while their cloud provider was revoked

files == <<store, tmp, buf>>
past  == <<sent, ledger, kills, revoked, barred>>
vars  == <<pc, op, files, models, named, renamed, past>>

Stores    == [Provider -> Scope \cup {NoPolicy}]
Statuses  == {"success", "failed", "policy_denied"}
Editing   == {"load", "open_tmp", "write_tmp", "rename"}
Reporting == {"report_success", "report_failed", "report_denied"}
Finished  == {"done", "unrecorded", "dropped", "killed"}
Steps     == {"idle", "name", "authorize", "send", "await", "set"}
             \cup Editing \cup Reporting \cup Finished

At(t, s)   == pc[t] = s
Goto(t, s) == pc' = [pc EXCEPT ![t] = s]

Editors == {t \in Task : pc[t] \in Editing}

(* load_policies: an unreadable or unparsable file has no entries.         *)
LoadPolicies == IF store = Torn THEN [p \in Provider |-> NoPolicy] ELSE store

(* policy_for and the default policy: minimal data, no cloud.              *)
CloudAllowed(s, p) == s[p] # NoPolicy
MaxContext(s, p)   == IF s[p] = NoPolicy THEN 0 ELSE s[p]

(* Defect: the checks forget where the provider runs.                      *)
AuthorizedAnywhere(s, p, scope) == scope <= MaxContext(s, p)

(* authorize_with: first the location, then the scope.                     *)
Authorized(s, p, scope) ==
    /\ p \notin Local => CloudAllowed(s, p)
    /\ scope <= MaxContext(s, p)

Init ==
    /\ pc = [t \in Task |-> "idle"]
    /\ op = [t \in Task |-> NoTask]
    /\ store \in {[p \in Provider |-> NoPolicy], [p \in Provider |-> 0]}
    /\ tmp = NoFile
    /\ buf = [t \in Task |-> [p \in Provider |-> NoPolicy]]
    /\ models \in [Provider -> Model]
    /\ named = [t \in Task |-> Unnamed]
    /\ sent = {}
    /\ ledger = {}
    /\ kills = 0
    /\ renamed = {}
    /\ revoked = {}
    /\ barred = {}

-----------------------------------------------------------------------------
(* grant_consent and revoke_consent: load, change, save.                   *)

(* A new grant ends the effect of earlier revokes, for the requests that   *)
(* are already under way as well.                                          *)
CallEdit(t, o) ==
    /\ At(t, "idle")
    /\ SerialEdits => Editors = {}
    /\ op' = [op EXCEPT ![t] = o]
    /\ revoked' = IF o.kind = "grant" THEN revoked \ {o.provider} ELSE revoked
    /\ barred' = IF o.kind = "grant"
                 THEN {b \in barred : op[b].provider # o.provider} ELSE barred
    /\ Goto(t, "load")
    /\ UNCHANGED <<files, models, named, renamed, sent, ledger, kills>>

LoadStore(t) ==
    /\ At(t, "load")
    /\ buf' = [buf EXCEPT ![t] = [LoadPolicies EXCEPT ![op[t].provider] =
                 IF op[t].kind = "grant" THEN op[t].scope ELSE NoPolicy]]
    /\ Goto(t, "open_tmp")
    /\ UNCHANGED <<op, store, tmp, models, named, renamed, past>>

OpenTmp(t) ==
    /\ At(t, "open_tmp")
    /\ tmp' = Torn
    /\ Goto(t, "write_tmp")
    /\ UNCHANGED <<op, store, buf, models, named, renamed, past>>

(* A temporary file that another editor has renamed is the store by now.   *)
WriteTmp(t) ==
    /\ At(t, "write_tmp")
    /\ IF tmp # NoFile THEN tmp' = buf[t] /\ UNCHANGED store
                       ELSE store' = buf[t] /\ UNCHANGED tmp
    /\ Goto(t, "rename")
    /\ UNCHANGED <<op, buf, models, named, renamed, past>>

(* The rename succeeds if the temporary file is still there, and then the  *)
(* call returns true.  A revoke that overlaps no grant of the same         *)
(* provider is in force from here on.                                      *)
Rename(t) ==
    /\ At(t, "rename")
    /\ IF tmp # NoFile
       THEN /\ store' = tmp
            /\ tmp' = NoFile
            /\ revoked' = IF /\ op[t].kind = "revoke"
                             /\ \A e \in Editors \ {t} :
                                  op[e].kind = "grant" => op[e].provider # op[t].provider
                          THEN revoked \cup {op[t].provider} ELSE revoked
       ELSE UNCHANGED <<store, tmp, revoked>>
    /\ Goto(t, "done")
    /\ UNCHANGED <<op, buf, models, named, renamed, sent, ledger, kills, barred>>

-----------------------------------------------------------------------------
(* set_model: the user picks another model for a provider.  Custom         *)
(* providers have no slot in velox_models.json, and are refused.           *)

CallSetModel(t, o) ==
    /\ At(t, "idle")
    /\ op' = [op EXCEPT ![t] = o]
    /\ Goto(t, "set")
    /\ UNCHANGED <<files, models, named, renamed, past>>

SetModel(t) ==
    /\ At(t, "set")
    /\ \/ /\ op[t].provider \notin Custom
          /\ \E m \in Model : models' = [models EXCEPT ![op[t].provider] = m]
          /\ renamed' = renamed \cup {r \in Task : /\ pc[r] \in {"authorize", "send"}
                                                 /\ op[r].provider = op[t].provider}
       \/ /\ op[t].provider \in Custom
          /\ UNCHANGED <<models, renamed>>
    /\ Goto(t, "done")
    /\ UNCHANGED <<op, files, named, past>>

-----------------------------------------------------------------------------
(* execute_agent: name the model, authorize, call, record.                 *)

CallAsk(t, o) ==
    /\ At(t, "idle")
    /\ op' = [op EXCEPT ![t] = o]
    /\ barred' = IF o.provider \in revoked \ Local THEN barred \cup {t} ELSE barred
    /\ Goto(t, "name")
    /\ UNCHANGED <<files, models, named, renamed, sent, ledger, kills, revoked>>

(* What model_name says of a model that was asked: nothing if the provider *)
(* is custom.                                                              *)
NameOf(p, model) == IF p \in Custom THEN Unnamed ELSE model

NameModel(t) ==
    /\ At(t, "name")
    /\ named' = [named EXCEPT ![t] = NameOf(op[t].provider, models[op[t].provider])]
    /\ Goto(t, "authorize")
    /\ UNCHANGED <<op, files, models, renamed, past>>

Authorize(t) ==
    /\ At(t, "authorize")
    /\ Goto(t, IF Authorized(LoadPolicies, op[t].provider, op[t].scope)
               THEN "send" ELSE "report_denied")
    /\ UNCHANGED <<op, files, models, named, renamed, past>>

(* Defect: the request goes out before the policy is looked at.            *)
SendUnchecked(t) ==
    /\ At(t, "authorize") \/ At(t, "send")
    /\ sent' = sent \cup {[task |-> t, model |-> models[op[t].provider]]}
    /\ Goto(t, IF At(t, "send") THEN "await" ELSE "report_denied")
    /\ UNCHANGED <<op, files, models, named, renamed, ledger, kills, revoked, barred>>

(* query_with_usage reads the models again, those of the built-in and of   *)
(* the custom providers from their own files, and sends, unless there is   *)
(* no API key: then it returns None at once.                               *)
Send(t) ==
    /\ At(t, "send")
    /\ \/ /\ sent' = sent \cup {[task |-> t, model |-> models[op[t].provider]]}
          /\ Goto(t, "await")
       \/ /\ UNCHANGED sent
          /\ Goto(t, "report_failed")
    /\ UNCHANGED <<op, files, models, named, renamed, ledger, kills, revoked, barred>>

(* The provider answers, or the HTTP client gives up after its 90 seconds. *)
Reply(t) ==
    /\ At(t, "await")
    /\ Goto(t, "report_success") \/ Goto(t, "report_failed")
    /\ UNCHANGED <<op, files, models, named, renamed, past>>

Status(t) ==
    CASE pc[t] = "report_success" -> "success"
      [] pc[t] = "report_denied"  -> "policy_denied"
      [] OTHER                    -> "failed"

NewRecord(t, model) == [task |-> t, status |-> Status(t), model |-> model]

(* ledger::record, whose own result execute_agent never sees.              *)
Record(t) ==
    /\ pc[t] \in Reporting
    /\ \/ ledger' = ledger \cup {NewRecord(t, named[t])} /\ Goto(t, "done")
       \/ LedgerMayFail /\ UNCHANGED ledger /\ Goto(t, "unrecorded")
    /\ UNCHANGED <<op, files, models, named, renamed, sent, kills, revoked, barred>>

-----------------------------------------------------------------------------
(* The caller drops the future while it waits: the client of a server      *)
(* handler disconnects, or chat_send's own timeout fires first.            *)
Abandon(t) ==
    /\ MayAbandon
    /\ At(t, "await")
    /\ Goto(t, "dropped")
    /\ UNCHANGED <<op, files, models, named, renamed, past>>

(* The process of a task is killed between two of its steps.               *)
Kill(t) ==
    /\ kills < MaxKills
    /\ pc[t] \notin {"idle"} \cup Finished
    /\ kills' = kills + 1
    /\ Goto(t, "killed")
    /\ UNCHANGED <<op, files, models, named, renamed, sent, ledger, revoked, barred>>

Progress(t) ==
    \/ LoadStore(t) \/ OpenTmp(t) \/ WriteTmp(t) \/ Rename(t)
    \/ SetModel(t)
    \/ NameModel(t) \/ Authorize(t) \/ Send(t) \/ Reply(t) \/ Record(t)

Next ==
    \/ \E t \in Task, o \in Edits    : CallEdit(t, o)
    \/ \E t \in Task, o \in Settings : CallSetModel(t, o)
    \/ \E t \in Task, o \in Requests : CallAsk(t, o)
    \/ \E t \in Task : Progress(t) \/ Abandon(t) \/ Kill(t)

Spec == Init /\ [][Next]_vars

-----------------------------------------------------------------------------
(* Each variable keeps its type.                                           *)
TypeOK ==
    /\ pc \in [Task -> Steps]
    /\ op \in [Task -> Edits \cup Requests \cup Settings \cup {NoTask}]
    /\ store \in Stores \cup {Torn}
    /\ tmp \in Stores \cup {Torn, NoFile}
    /\ buf \in [Task -> Stores]
    /\ models \in [Provider -> Model]
    /\ named \in [Task -> Model \cup {Unnamed}]
    /\ sent \subseteq [task: Task, model: Model]
    /\ ledger \subseteq [task: Task, status: Statuses, model: Model \cup {Unnamed}]
    /\ kills \in 0..MaxKills
    /\ renamed \subseteq Task
    /\ revoked \subseteq Provider
    /\ barred \subseteq Task

SentTasks == {s.task : s \in sent}

(* revoke_consent returns a provider to deny-by-default: once a revoke is  *)
(* in force, no later request reaches that cloud provider until the user   *)
(* asks for a new grant.                                                   *)
RevokedNeverCalled == barred \cap SentTasks = {}

(* The store shows what the user last asked for: a revoke that is in force *)
(* is not undone by a change made to another provider's entry.             *)
RevokeSticks == \A p \in revoked : ~CloudAllowed(LoadPolicies, p)

(* Every execute_agent that ran to its end has exactly one record, and it  *)
(* is truthful: denied calls never left, successful ones did, and the model*)
(* it names is the one the request was sent to, unless set_model ran       *)
(* between the two.  Of a custom provider's model it says nothing: it      *)
(* names none, and so never a wrong one.                                   *)
OneTruthfulRecord ==
    /\ \A t \in Task : pc[t] = "done" /\ op[t] \in Requests =>
         \E r \in ledger :
           /\ \A q \in ledger : q.task = t => q = r
           /\ r.task = t
           /\ r.status = "policy_denied" => t \notin SentTasks
           /\ r.status = "success" => t \in SentTasks
    /\ \A r \in ledger, s \in sent :
         r.task = s.task /\ r.task \notin renamed =>
            r.model = NameOf(op[r.task].provider, s.model)
=============================================================================
