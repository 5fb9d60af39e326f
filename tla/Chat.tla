-------------------------------- MODULE Chat --------------------------------
(***************************************************************************)
(* Conversations with a provider: the chat handlers of velox-server, which *)
(* share one lock, and `velox chorus`, which has none.  Both append        *)
(* through velox-core/src/conversation.rs: read the file, add a message,   *)
(* write a temporary file, rename it.                                      *)
(*                                                                         *)
(* A call in Tasks is a handler of the one server process, a call in       *)
(* Commands a process of its own.  Any file operation can fail, callers    *)
(* can go away, processes can be killed, consent and models can change.    *)
(***************************************************************************)
EXTENDS ChatData

CONSTANTS
    Tasks, Commands,
    Free,           \* nobody holds the chat lock
    Overlap,        \* may a command run beside another program?
    MaxKills,       \* bound: processes killed
    MaxChanges      \* bound: changes of the consents

ASSUME ChatAssumption ==
    /\ Calls = Tasks \cup Commands /\ Tasks \cap Commands = {}
    /\ Free \notin Tasks /\ Overlap \in BOOLEAN
    /\ {MaxKills, MaxChanges} \subseteq Nat

VARIABLES
    pc,         \* pc[t]: where call t is
    job,        \* job[t]: what was asked for, and its locals
    lock,       \* AppState.chat_lock
    file,       \* file[c]: conversations/<c>.json
    tmp,        \* tmp[c]: conversations/<c>.json.tmp
    model,      \* model[p]: the model configured for provider p, if p is built in
    allowed,    \* providers with a key and the user's consent
    deleted,    \* history: conversations that were deleted
    past        \* how many kills and changes there were

disk == <<file, tmp>>
vars == <<pc, job, lock, disk, model, allowed, deleted, past>>

Operations == {"send", "create", "delete", "model"}
Steps      == {"idle", "check", "query", "waiting", "load", "open_tmp", "write_tmp", "rename",
               "remove", "set_model", "done"}

Jobs == [op: Operations, conv: Convs, provider: Providers, model: Models,
         text: Texts,              \* the question
         answer: Texts,
         really: Authors,          \* history: who answers
         seen: Files,              \* the conversation the provider is shown
         buf: Files,               \* the conversation to be written
         role: {"question", "answer"},
         warned: BOOLEAN]

At(t, s)   == pc[t] = s
Goto(t, s) == pc' = [pc EXCEPT ![t] = s]
Set(t, j)  == job' = [job EXCEPT ![t] = j]
Running(t) == pc[t] \notin {"idle", "done"}
File(t)    == file[job[t].conv]

NoJob == [op |-> "send", conv |-> CHOOSE c \in Convs : TRUE,
          provider |-> CHOOSE p \in Providers : TRUE, model |-> CHOOSE m \in Models : TRUE,
          text |-> 0, answer |-> 0, really |-> User, seen |-> Absent, buf |-> Absent,
          role |-> "question", warned |-> FALSE]

(* A handler or process ends, whatever it tells its caller; the guard is   *)
(* dropped with the handler.                                               *)
Leave(t) ==
    /\ Goto(t, "done")
    /\ Set(t, NoJob)
    /\ lock' = IF lock = t THEN Free ELSE lock

Init ==
    /\ pc = [t \in Calls |-> "idle"]
    /\ job = [t \in Calls |-> NoJob]
    /\ lock = Free
    /\ file \in [Convs -> {Absent, Corrupt, Talk(<<>>)}]
    /\ tmp = [c \in Convs |-> Absent]
    /\ model = [p \in Providers |-> NoJob.model]                 \* ModelConfig::default
    /\ allowed \in SUBSET Providers
    /\ deleted = {}
    /\ past = [kills |-> 0, changes |-> 0]

-----------------------------------------------------------------------------
(* A call begins.                                                          *)

MayBegin(t) == Overlap \/ \A u \in Calls : Running(u) => {t, u} \subseteq Tasks

First(op) == CASE op = "send"   -> "check"
               [] op = "create" -> "open_tmp"
               [] op = "delete" -> "remove"
               [] op = "model"  -> "set_model"

(* The command line lets the user choose a provider, but no model of it.   *)
NamesNoModel(j) == j.op = "send" => j.model = NoJob.model

(* new_id never gives the id of another conversation.                      *)
Fresh(c) == /\ file[c] = Absent /\ c \notin deleted
            /\ \A u \in Calls : Running(u) /\ job[u].op = "create" => job[u].conv # c

JobFor(op, c, p, m, text) ==
    [NoJob EXCEPT !.op = op, !.conv = c, !.provider = p, !.model = m, !.text = text]
JobsFor(ops, convs, providers, models, texts) ==
    {JobFor(op, c, p, m, text) :
        op \in ops, c \in convs, p \in providers, m \in models, text \in texts}

Requests == JobsFor({"send"}, Convs, Providers, Models, Texts)
       \cup JobsFor({"create", "delete"}, Convs, {NoJob.provider}, {NoJob.model}, {0})
       \cup JobsFor({"model"}, {NoJob.conv}, Providers, Models, {0})

Request(t, j) ==
    /\ At(t, "idle") /\ MayBegin(t)
    /\ t \in Tasks => lock = Free
    /\ t \in Commands => NamesNoModel(j)
    /\ j.op = "create" => Fresh(j.conv)
    /\ lock' = IF t \in Tasks THEN t ELSE lock
    /\ Goto(t, First(j.op))
    /\ Set(t, [j EXCEPT !.buf = IF j.op = "create" THEN Talk(<<>>) ELSE Absent])
    /\ UNCHANGED <<disk, model, allowed, deleted, past>>

(* try_lock fails: 409, the handler has done nothing.                      *)
Busy(t) ==
    /\ At(t, "idle") /\ MayBegin(t) /\ t \in Tasks /\ lock # Free
    /\ Leave(t)
    /\ UNCHANGED <<disk, model, allowed, deleted, past>>

(* chat_send and ask_in read the conversation before the provider is asked;*)
(* only the server looks at the text, the model and the consent itself,    *)
(* and it asks built-in providers only.                                    *)
AcceptableAnyModel(t) ==          \* Defect: the model the user chose is not compared.
    /\ job[t].provider \notin Custom
    /\ job[t].text \in 1..MaxChars
    /\ job[t].provider \in allowed

Acceptable(t) ==
    /\ job[t].provider \notin Custom
    /\ job[t].text \in 1..MaxChars
    /\ job[t].model = model[job[t].provider]
    /\ job[t].provider \in allowed

Check(t) ==
    /\ At(t, "check")
    /\ \/ /\ t \in Tasks => Acceptable(t)
          /\ File(t).is = "talk"
          /\ Goto(t, "query")
          /\ Set(t, [job[t] EXCEPT !.seen = Talk(Context(File(t).messages))])
          /\ UNCHANGED lock
       \/ /\ (t \in Tasks /\ ~Acceptable(t)) \/ File(t).is # "talk"
          /\ Leave(t)
    /\ UNCHANGED <<disk, model, allowed, deleted, past>>

(* Who answers: a built-in provider with the model configured now, a custom*)
(* one with that of its entry in velox_providers.json, which may be any.   *)
Asked(p) == {<<p, m>> : m \in IF p \in Custom THEN Models ELSE {model[p]}}

(* Defect: the guard is dropped before the await.                          *)
QueryUnlocked(t) ==
    /\ At(t, "query")
    /\ \/ /\ job[t].provider \in allowed
          /\ Goto(t, "waiting")
          /\ \E who \in Asked(job[t].provider) : Set(t, [job[t] EXCEPT !.really = who])
          /\ lock' = Free
       \/ /\ job[t].provider \notin allowed
          /\ Leave(t)
    /\ UNCHANGED <<disk, model, allowed, deleted, past>>

(* execute_agent authorises (again) and asks.                              *)
Query(t) ==
    /\ At(t, "query")
    /\ \/ /\ job[t].provider \in allowed
          /\ Goto(t, "waiting")
          /\ \E who \in Asked(job[t].provider) : Set(t, [job[t] EXCEPT !.really = who])
          /\ UNCHANGED lock
       \/ /\ job[t].provider \notin allowed
          /\ Leave(t)
    /\ UNCHANGED <<disk, model, allowed, deleted, past>>

Answered(t, text) ==
    /\ At(t, "waiting")
    /\ Goto(t, "load")
    /\ Set(t, [job[t] EXCEPT !.answer = text])
    /\ UNCHANGED <<lock, disk, model, allowed, deleted, past>>

(* An error, the timeout of 95 seconds (90 per request), or a client that  *)
(* has left: nothing is stored.                                            *)
GiveUp(t) ==
    /\ At(t, "waiting")
    /\ Leave(t)
    /\ UNCHANGED <<disk, model, allowed, deleted, past>>

-----------------------------------------------------------------------------
(* append, first for the question, then for the answer.                    *)

(* The server reports the model it was asked for, the command line the one *)
(* that is configured after the answer, and none for a custom provider.    *)
Author(t) ==
    IF job[t].role = "question" THEN User
    ELSE IF t \in Tasks THEN <<job[t].provider, job[t].model>>
    ELSE Named(<<job[t].provider, model[job[t].provider]>>)

Text(t) == IF job[t].role = "question" THEN job[t].text ELSE job[t].answer
Turn(t) == Message(t, Text(t), Author(t),
                    IF job[t].role = "question" THEN User ELSE job[t].really)

(* Defects: the server goes on as well; a failed append is tried again.    *)
AppendFailsGoesOn(t) ==
    IF job[t].op = "send" /\ job[t].role = "question"
    THEN /\ Goto(t, "load")
         /\ Set(t, [job[t] EXCEPT !.role = "answer", !.warned = TRUE])
         /\ UNCHANGED lock
    ELSE Leave(t)

AppendFailsRetries(t) == Goto(t, "load") /\ UNCHANGED <<job, lock>>

(* An append that fails: the server stops (and_then), the command line goes*)
(* on with the answer.                                                     *)
AppendFails(t) ==
    IF t \in Commands /\ job[t].op = "send" /\ job[t].role = "question"
    THEN /\ Goto(t, "load")
         /\ Set(t, [job[t] EXCEPT !.role = "answer", !.warned = TRUE])
         /\ UNCHANGED lock
    ELSE Leave(t)

Load(t) ==
    /\ At(t, "load")
    /\ \/ /\ Storable(Text(t)) /\ File(t).is = "talk"
          /\ Goto(t, "open_tmp")
          /\ Set(t, [job[t] EXCEPT !.buf = Talk(Add(File(t).messages, Turn(t)))])
          /\ UNCHANGED lock
       \/ AppendFails(t)
    /\ UNCHANGED <<disk, model, allowed, deleted, past>>

OpenTmp(t) ==
    /\ At(t, "open_tmp")
    /\ \/ /\ tmp' = [tmp EXCEPT ![job[t].conv] = Corrupt]
          /\ Goto(t, "write_tmp")
          /\ UNCHANGED <<job, lock>>
       \/ AppendFails(t) /\ UNCHANGED tmp
    /\ UNCHANGED <<file, model, allowed, deleted, past>>

WriteTmp(t) ==
    /\ At(t, "write_tmp")
    /\ \/ /\ tmp' = [tmp EXCEPT ![job[t].conv] = job[t].buf]
          /\ Goto(t, "rename")
          /\ UNCHANGED <<job, lock>>
       \/ AppendFails(t) /\ UNCHANGED tmp
    /\ UNCHANGED <<file, model, allowed, deleted, past>>

Saved(t) ==
    IF job[t].op = "send" /\ job[t].role = "question"
    THEN /\ Goto(t, "load")
         /\ Set(t, [job[t] EXCEPT !.role = "answer"])
         /\ UNCHANGED lock
    ELSE Leave(t)

Rename(t) ==
    LET c == job[t].conv
    IN  /\ At(t, "rename")
        /\ \/ /\ tmp[c] # Absent
              /\ file' = [file EXCEPT ![c] = tmp[c]]
              /\ tmp' = [tmp EXCEPT ![c] = Absent]
              /\ Saved(t)
           \/ AppendFails(t) /\ UNCHANGED disk
        /\ UNCHANGED <<model, allowed, deleted, past>>

-----------------------------------------------------------------------------
(* The other calls under the lock, and the rest of the world.              *)

Remove(t) ==
    LET c == job[t].conv
    IN  /\ At(t, "remove")
        /\ \/ /\ file[c] # Absent
              /\ file' = [file EXCEPT ![c] = Absent]
              /\ deleted' = deleted \cup {c}
              /\ Leave(t)
           \/ /\ Leave(t)
              /\ UNCHANGED <<file, deleted>>
        /\ UNCHANGED <<tmp, model, allowed, past>>

SetModel(t) ==
    /\ At(t, "set_model")
    /\ \/ /\ job[t].provider \notin Custom
          /\ model' = [model EXCEPT ![job[t].provider] = job[t].model]
          /\ Leave(t)
       \/ Leave(t) /\ UNCHANGED model
    /\ UNCHANGED <<disk, allowed, deleted, past>>

(* consent and revoke, a key that is set or removed: of one provider.      *)
ConsentChanges(p) ==
    /\ past.changes < MaxChanges /\ past' = [past EXCEPT !.changes = @ + 1]
    /\ allowed' = IF p \in allowed THEN allowed \ {p} ELSE allowed \cup {p}
    /\ UNCHANGED <<pc, job, lock, disk, model, deleted>>

(* Closing the window kills the server with all its handlers.              *)
Kill(dead) ==
    /\ past.kills < MaxKills /\ past' = [past EXCEPT !.kills = @ + 1]
    /\ \E t \in dead : Running(t)
    /\ pc' = [t \in Calls |-> IF t \in dead /\ Running(t) THEN "done" ELSE pc[t]]
    /\ job' = [t \in Calls |-> IF t \in dead /\ Running(t) THEN NoJob ELSE job[t]]
    /\ lock' = IF lock \in dead THEN Free ELSE lock
    /\ UNCHANGED <<disk, model, allowed, deleted>>

Step(t) ==
    \/ Check(t) \/ Query(t) \/ GiveUp(t) \/ \E text \in Texts : Answered(t, text)
    \/ Load(t) \/ OpenTmp(t) \/ WriteTmp(t) \/ Rename(t)
    \/ Remove(t) \/ SetModel(t)

Next ==
    \/ \E t \in Calls :
        \/ \E j \in Requests : Request(t, j)
        \/ Busy(t)
        \/ Step(t)
    \/ \E p \in Providers : ConsentChanges(p)
    \/ \E dead \in {Tasks} \cup {{t} : t \in Commands} : Kill(dead)

(* Every call is run to its end: awaits end in an answer or a timeout.     *)
Spec == Init /\ [][Next]_vars /\ \A t \in Calls : WF_vars(Step(t))

-----------------------------------------------------------------------------
(* Properties.                                                             *)

(* The types of the calls' places and locals, of the lock and of the files.*)
TypeOK ==
    /\ pc \in [Calls -> Steps]
    /\ job \in [Calls -> Jobs]
    /\ lock \in Tasks \cup {Free}
    /\ file \in [Convs -> Files] /\ tmp \in [Convs -> Files]
    /\ model \in [Providers -> Models]
    /\ allowed \subseteq Providers /\ deleted \subseteq Convs
    /\ past \in [kills: 0..MaxKills, changes: 0..MaxChanges]

(* The conversation files behave like Transcript: no turn is lost or torn, *)
(* an answer stands behind its own question, what is deleted stays away,   *)
(* whatever fails or is killed between the steps of append.                *)
Stored == INSTANCE Transcript WITH transcript <- file, deleted <- deleted
ImplementsTranscript == Stored!Spec

(* An answer is stored behind what its provider was shown: the history read*)
(* before the call is still the end of the conversation after the call.    *)
NoStaleContext ==
    [][\A t \in Calls :
         At(t, "rename") /\ pc'[t] = "load" /\ job'[t].role = "answer" /\ ~job'[t].warned
         => /\ File(t).is = "talk"
            /\ job[t].seen = Talk(Context(File(t).messages))]_vars

(* The model named under an answer is the one that gave it, though the name*)
(* is read from the request or the settings and not from the answer.  Under*)
(* an answer of a custom provider stands no model at all, only its name.   *)
NamesTheModelThatAnswered ==
    \A c \in Convs : file[c].is = "talk" =>
        \A i \in DOMAIN file[c].messages :
            file[c].messages[i].from = Named(file[c].messages[i].really)

(* Every call ends and lets go of the lock.                                *)
EveryCallEnds == \A t \in Calls : Running(t) ~> ~Running(t)
=============================================================================
