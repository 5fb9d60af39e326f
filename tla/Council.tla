------------------------------ MODULE Council ------------------------------
(***************************************************************************)
(* A session of the read-only Council: run_with of velox-core/src/         *)
(* council.rs, driven by council_stream of velox-server/src/main.rs.       *)
(*                                                                         *)
(* One task proposes (claude), has the proposal reviewed (gpt), lets it be *)
(* revised at most once, passes it through a deterministic gate and        *)
(* decides.  Each role is called through execute_agent and awaited, each   *)
(* stage is announced to the client of the stream, which may leave at any  *)
(* time.  The task learns of that only when an event cannot be delivered,  *)
(* and looks at the cancel flag only before it calls a role.               *)
(***************************************************************************)
EXTENDS CouncilData, FiniteSets

CONSTANTS
    PROPOSER, REVIEWER, REVISER,   \* the provider of each role
    Scope                          \* ContextScope, as numbers

ASSUME CouncilAssumption ==
    /\ {PROPOSER, REVIEWER, REVISER} \subseteq Provider
    /\ PROPOSER # REVIEWER /\ REVISER # REVIEWER
    /\ Scope \subseteq Nat

VARIABLES
    phase,      \* what the task does next
    role,       \* the role it calls, awaits or has heard
    request,    \* the CouncilRequest: ids of the bundle, its scope, the approved scope
    proposal,   \* the proposal on the table
    connected,  \* the client still listens
    cancel,     \* the cancel flag
    asked,      \* calls of roles so far, in order
    delivered,  \* events the client has received, in order
    minutes,    \* the reviews so far: proposal, verdict, reviewer
    decision    \* Undecided, or the CouncilDecision

vars == <<phase, role, request, proposal, connected, cancel, asked, delivered,
          minutes, decision>>

Phases == {"open", "ask", "await", "heard", "gate", "decided", "closed"}
Roles  == {"propose", "review", "revise"}
Events == {"evidence", "proposed", "reviewed", "revised", "passed", "failed", "done"}

Requests == [bundle: SUBSET EvidenceId, scope: Scope, approved: Scope]

ProviderOf(r) == CASE r = "propose" -> PROPOSER
                   [] r = "review"  -> REVIEWER
                   [] r = "revise"  -> REVISER

(* Defect: the gate does not look the cited ids up in the bundle.          *)
GatePassesUnknown(p) == p.findings # {} /\ {} \notin p.findings

(* gate: independent roles, at least one finding, and every finding cites  *)
(* evidence, all of it from the bundle.                                    *)
GatePasses(p) ==
    /\ p.by # REVIEWER
    /\ p.findings # {}
    /\ \A f \in p.findings : f # {} /\ f \subseteq request.bundle

(* Defect: an event that cannot be delivered is ignored.                   *)
EmitNeverCancels(event) ==
    /\ delivered' = IF connected THEN Append(delivered, event) ELSE delivered
    /\ UNCHANGED cancel

(* on_event of council_stream: an event nobody receives cancels.           *)
Emit(event) ==
    /\ delivered' = IF connected THEN Append(delivered, event) ELSE delivered
    /\ cancel' = (cancel \/ ~connected)

Decide(d) ==
    /\ decision' = d
    /\ phase' = "decided"
    /\ UNCHANGED role

Goto(p, r) == phase' = p /\ role' = r /\ UNCHANGED decision

Init ==
    /\ phase = "open"
    /\ role = "propose"
    /\ request \in Requests
    /\ proposal = NoProposal
    /\ connected = TRUE
    /\ cancel = FALSE
    /\ asked = <<>>
    /\ delivered = <<>>
    /\ minutes = <<>>
    /\ decision = Undecided

-----------------------------------------------------------------------------
(* Defect: evidence beyond the approved scope is let through.              *)
OpenUnchecked ==
    /\ phase = "open"
    /\ Emit("evidence") /\ Goto("ask", "propose")
    /\ UNCHANGED <<request, proposal, connected, asked, minutes>>

(* The bundle must stay within the scope the user approved.                *)
Open ==
    /\ phase = "open"
    /\ \/ /\ request.scope > request.approved
          /\ Decide(Terminal("Inconclusive"))
          /\ UNCHANGED <<cancel, delivered>>
       \/ /\ request.scope <= request.approved
          /\ Emit("evidence")
          /\ Goto("ask", "propose")
    /\ UNCHANGED <<request, proposal, connected, asked, minutes>>

(* Defect: a cancelled session stops without a decision.                   *)
AskStalls ==
    /\ phase = "ask"
    /\ ~cancel
    /\ asked' = Append(asked, [role |-> role, scope |-> request.scope,
                               connected |-> connected])
    /\ Goto("await", role)
    /\ UNCHANGED <<request, proposal, connected, cancel, delivered, minutes>>

(* Cancelled, or the role is called with the bundle and what is on the     *)
(* table.                                                                  *)
Ask ==
    /\ phase = "ask"
    /\ \/ /\ cancel
          /\ Decide(Terminal("Cancelled"))
          /\ UNCHANGED asked
       \/ /\ ~cancel
          /\ asked' = Append(asked, [role |-> role, scope |-> request.scope,
                                     connected |-> connected])
          /\ Goto("await", role)
    /\ UNCHANGED <<request, proposal, connected, cancel, delivered, minutes>>

(* The policy denies the call, the provider fails or times out, or its     *)
(* answer is not the JSON that was asked for.                              *)
HearNothing ==
    /\ phase = "await"
    /\ Decide(Terminal("Inconclusive"))
    /\ UNCHANGED <<request, proposal, connected, cancel, asked, delivered, minutes>>

HearProposal(findings) ==
    /\ phase = "await"
    /\ role \in {"propose", "revise"}
    /\ proposal' = [by |-> ProviderOf(role), findings |-> findings]
    /\ Goto("heard", role)
    /\ UNCHANGED <<request, connected, cancel, asked, delivered, minutes>>

HearVerdict(v) ==
    /\ phase = "await"
    /\ role = "review"
    /\ minutes' = Append(minutes, [proposal |-> proposal, verdict |-> v,
                                   by |-> ProviderOf(role)])
    /\ Goto("heard", role)
    /\ UNCHANGED <<request, proposal, connected, cancel, asked, delivered>>

(* A proposal or a revised one is announced and must pass the gate before  *)
(* anyone reviews it.                                                      *)
TakeProposal ==
    /\ phase = "heard"
    /\ role \in {"propose", "revise"}
    /\ Emit(IF role = "propose" THEN "proposed" ELSE "revised")
    /\ IF GatePasses(proposal) THEN Goto("ask", "review")
                               ELSE Decide(Terminal("Inconclusive"))
    /\ UNCHANGED <<request, proposal, connected, asked, minutes>>

(* Defect: the reviewer may ask for another revision again and again.      *)
TakeVerdictNoLimit ==
    /\ phase = "heard"
    /\ role = "review"
    /\ Emit("reviewed")
    /\ \/ LastVerdict(minutes) = "reject" /\ Decide(Terminal("Rejected"))
       \/ LastVerdict(minutes) = "approve" /\ Goto("gate", role)
       \/ LastVerdict(minutes) = "revise" /\ Goto("ask", "revise")
    /\ UNCHANGED <<request, proposal, connected, asked, minutes>>

(* A verdict is announced and followed; a second revise ends the session.  *)
TakeVerdict ==
    /\ phase = "heard"
    /\ role = "review"
    /\ Emit("reviewed")
    /\ \/ LastVerdict(minutes) = "reject" /\ Decide(Terminal("Rejected"))
       \/ LastVerdict(minutes) = "approve" /\ Goto("gate", role)
       \/ LastVerdict(minutes) = "revise" /\ Len(minutes) = 1 /\ Goto("ask", "revise")
       \/ LastVerdict(minutes) = "revise" /\ Len(minutes) > 1 /\ Decide(Terminal("Inconclusive"))
    /\ UNCHANGED <<request, proposal, connected, asked, minutes>>

(* Defect: the result of the final gate is not announced.                  *)
FinalizeSilently ==
    /\ phase = "gate"
    /\ UNCHANGED <<cancel, delivered>>
    /\ Decide(IF GatePasses(proposal) THEN Approved(proposal) ELSE Terminal("Inconclusive"))
    /\ UNCHANGED <<request, proposal, connected, asked, minutes>>

(* gated_finalize: the gate again, the event, the decision.                *)
Finalize ==
    /\ phase = "gate"
    /\ Emit(IF GatePasses(proposal) THEN "passed" ELSE "failed")
    /\ Decide(IF GatePasses(proposal) THEN Approved(proposal) ELSE Terminal("Inconclusive"))
    /\ UNCHANGED <<request, proposal, connected, asked, minutes>>

(* The decision itself is the last thing on the stream.                    *)
Close ==
    /\ phase = "decided"
    /\ delivered' = IF connected THEN Append(delivered, "done") ELSE delivered
    /\ Goto("closed", role)
    /\ UNCHANGED <<request, proposal, connected, cancel, asked, minutes>>

(* The client goes away: the receiving end of the channel is dropped.      *)
Leave ==
    /\ connected
    /\ connected' = FALSE
    /\ UNCHANGED <<phase, role, request, proposal, cancel, asked, delivered,
                   minutes, decision>>

Hear ==
    \/ HearNothing
    \/ \E findings \in SUBSET SUBSET EvidenceId : HearProposal(findings)
    \/ \E v \in Verdicts : HearVerdict(v)

TaskStep == Open \/ Ask \/ Hear \/ TakeProposal \/ TakeVerdict \/ Finalize \/ Close

Next == TaskStep \/ Leave

Spec == Init /\ [][Next]_vars

(* The spawned task runs on, with or without a client, and every call is   *)
(* answered, refused or cut off by the HTTP client's 90 seconds.           *)
FairSpec == Spec /\ WF_vars(TaskStep)

-----------------------------------------------------------------------------
(* Each variable keeps its type.                                           *)
TypeOK ==
    /\ phase \in Phases
    /\ role \in Roles
    /\ request \in Requests
    /\ proposal \in Proposals \cup {NoProposal}
    /\ connected \in BOOLEAN /\ cancel \in BOOLEAN
    /\ asked \in Seq([role: Roles, scope: Scope, connected: BOOLEAN])
    /\ delivered \in Seq(Events)
    /\ minutes \in Seq(Entries)
    /\ decision \in Decisions \cup {Undecided}

(* "A checked recommendation": what is approved is exactly the proposal of *)
(* the last review, approved there by a provider other than its author,    *)
(* and every finding of it cites evidence of the bundle and nothing else.  *)
ApprovedIsReviewed ==
    decision # Undecided /\ decision.status = "Approved" =>
      /\ minutes # <<>>
      /\ LET last == minutes[Len(minutes)]
         IN /\ last.verdict = "approve"
            /\ last.proposal = decision.proposal
            /\ last.by # decision.proposal.by
      /\ decision.proposal.findings # {} /\ {} \notin decision.proposal.findings
      /\ decision.used = UNION decision.proposal.findings
      /\ decision.used \subseteq request.bundle

(* No role is ever given evidence beyond the scope the user approved.      *)
NothingBeyondScope == \A i \in DOMAIN asked : asked[i].scope <= request.approved

(* The client's disconnection stops the session: at most the role that was *)
(* about to be called when it left is still called, and paid for.          *)
AtMostOneCallAfterLeaving ==
    \A i, j \in DOMAIN asked : asked[i].connected \/ asked[j].connected \/ i = j

(* A client that stays can tell the outcome from the stream: it ends with  *)
(* done, each review was announced, and the gate passed iff the decision   *)
(* is Approved.  In particular the final gate never refuses.               *)
StreamMatchesDecision ==
    phase = "closed" /\ connected =>
      /\ delivered[Len(delivered)] = "done"
      /\ \A i \in DOMAIN delivered : delivered[i] # "failed"
      /\ (\E i \in DOMAIN delivered : delivered[i] = "passed")
            <=> decision.status = "Approved"
      /\ Cardinality({i \in DOMAIN delivered : delivered[i] = "reviewed"}) = Len(minutes)

(* Every session comes to its decision, whoever left and whatever the      *)
(* providers answered.                                                     *)
EverySessionCloses == phase = "open" ~> phase = "closed"

(* A session implements the minutes.                                       *)
Minutes == INSTANCE CouncilMinutes
ImplementsMinutes == Minutes!Spec
=============================================================================
