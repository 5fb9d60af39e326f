--------------------------- MODULE CouncilProofs ---------------------------
(***************************************************************************)
(* Theorems about a Council session, for every bundle, whatever the roles  *)
(* answer and whenever the client leaves.                                  *)
(***************************************************************************)
EXTENDS Council, SequenceTheorems, FiniteSetTheorems, TLAPS

USE CouncilDataAssumption, CouncilAssumption

(* The proposal on the table has passed the gate.                          *)
Gated == \/ phase \in {"ask", "await"} /\ role \in {"review", "revise"}
         \/ phase = "heard" /\ role = "review"
         \/ phase = "gate"

(* Only before the first answer, and at the end, there is no proposal.     *)
TableInv ==
    /\ phase \in {"heard", "gate"} => proposal \in Proposals
    /\ Gated => proposal \in Proposals /\ GatePasses(proposal)
    /\ phase \in {"decided", "closed"} <=> decision # Undecided

SentBack == Len(minutes) = 1 /\ minutes[1].verdict = "revise"

(* What the minutes say at each stage: nothing until the first review, one *)
(* "revise" while it is followed, then the verdict on what is on the table.*)
MinutesInv ==
    /\ phase = "open" \/ (phase \in {"ask", "await", "heard"} /\ role = "propose")
         => minutes = <<>>
    /\ phase \in {"ask", "await"} /\ role = "review" => minutes = <<>> \/ SentBack
    /\ phase \in {"ask", "await", "heard"} /\ role = "revise" => SentBack
    /\ phase = "gate" => role = "review" /\ LastVerdict(minutes) = "approve"
    /\ phase = "gate" \/ (phase = "heard" /\ role = "review") =>
         /\ Len(minutes) \in 1..2
         /\ minutes[Len(minutes)].proposal = proposal
         /\ minutes[Len(minutes)].by = REVIEWER

CouncilInv == TypeOK /\ TableInv /\ MinutesInv

LEMMA TerminalTyped == \A s \in Statuses : Terminal(s) \in Decisions
BY DEF Terminal, Decisions

LEMMA ApprovedTyped == \A p \in Proposals : Approved(p) \in Decisions
<1> SUFFICES ASSUME NEW p \in Proposals PROVE Approved(p) \in Decisions
  OBVIOUS
<1>1. UNION p.findings \subseteq EvidenceId
  BY DEF Proposals
<1>2. QED
  BY <1>1 DEF Approved, Decisions, Statuses

(* An event is delivered or not: the stream keeps its type either way.     *)
LEMMA EmitTyped ==
  ASSUME NEW e \in Events, Emit(e), TypeOK
  PROVE  delivered' \in Seq(Events) /\ cancel' \in BOOLEAN
BY DEF Emit, TypeOK

Calls == [role: Roles, scope: Scope, connected: BOOLEAN]

LEMMA AskedTyped ==
  ASSUME TypeOK, NEW b \in BOOLEAN
  PROVE  Append(asked, [role |-> role, scope |-> request.scope, connected |-> b]) \in Seq(Calls)
BY DEF TypeOK, Calls, Requests

LEMMA AskedGrows ==
  ASSUME TypeOK, Ask
  PROVE  \/ UNCHANGED asked
         \/ /\ DOMAIN asked' = 1..(Len(asked) + 1) /\ DOMAIN asked = 1..Len(asked)
            /\ Len(asked) \in Nat
            /\ \A i \in 1..Len(asked) : asked'[i] = asked[i]
            /\ asked'[Len(asked) + 1].scope = request.scope
            /\ asked'[Len(asked) + 1].connected = connected
<1>1. CASE asked' = Append(asked, [role |-> role, scope |-> request.scope,
                                   connected |-> connected])
  <2> DEFINE call == [role |-> role, scope |-> request.scope, connected |-> connected]
  <2>1. asked \in Seq(Calls) /\ call \in Calls
    BY DEF TypeOK, Calls, Requests
  <2>2. /\ asked' \in Seq(Calls)
        /\ Len(asked') = Len(asked) + 1
        /\ \A i \in 1..Len(asked) : asked'[i] = asked[i]
        /\ asked'[Len(asked) + 1] = call
    BY <1>1, <2>1, AppendProperties
  <2>3. DOMAIN asked' = 1..Len(asked') /\ DOMAIN asked = 1..Len(asked) /\ Len(asked) \in Nat
    BY <2>1, <2>2
  <2>4. QED
    BY <2>2, <2>3
<1>2. QED
  BY <1>1 DEF Ask

LEMMA InitCouncil == Init => CouncilInv
<1> SUFFICES ASSUME Init PROVE CouncilInv
  OBVIOUS
<1>1. TypeOK
  <2>1. asked \in Seq(Calls) /\ delivered \in Seq(Events) /\ minutes \in Seq(Entries)
    BY DEF Init
  <2>2. connected \in BOOLEAN /\ cancel \in BOOLEAN
    BY DEF Init
  <2>3. QED
    BY <2>1, <2>2 DEF Init, TypeOK, Calls, Phases, Roles
<1>2. TableInv /\ MinutesInv
  BY DEF Init, TableInv, Gated, MinutesInv
<1>3. QED
  BY <1>1, <1>2 DEF CouncilInv

LEMMA OneMore == \A n \in 0..1 : n + 1 \in 1..2
OBVIOUS

LEMMA NextCouncil == CouncilInv /\ [Next]_vars => CouncilInv'
<1> SUFFICES ASSUME CouncilInv, [Next]_vars PROVE CouncilInv'
  OBVIOUS
<1> USE DEF CouncilInv
<1> USE TerminalTyped, ApprovedTyped DEF Statuses
<1>1. ASSUME Open PROVE CouncilInv'
  <2>1. TypeOK'
    BY <1>1, EmitTyped DEF Open, TypeOK, Decide, Goto, Phases, Roles, Events
  <2>2. TableInv' /\ MinutesInv'
    BY <1>1 DEF Open, Decide, Goto, TypeOK, TableInv, Gated, MinutesInv, SentBack, Phases
  <2>3. QED BY <2>1, <2>2
<1>2. ASSUME Ask PROVE CouncilInv'
  <2>1. TypeOK'
    <3>1. asked' \in Seq(Calls)
      BY <1>2, AskedTyped DEF Ask, TypeOK, Calls
    <3>2. QED
      BY <1>2, <3>1 DEF Ask, TypeOK, Calls, Decide, Goto, Phases
  <2>2. TableInv' /\ MinutesInv'
    BY <1>2 DEF Ask, Decide, Goto, TypeOK, TableInv, Gated, GatePasses, MinutesInv, SentBack
  <2>3. QED BY <2>1, <2>2
<1>3. ASSUME HearNothing PROVE CouncilInv'
  BY <1>3 DEF HearNothing, Decide, TypeOK, TableInv, Gated, MinutesInv, Phases
<1>4. ASSUME NEW f \in SUBSET SUBSET EvidenceId, HearProposal(f) PROVE CouncilInv'
  <2>1. proposal' \in Proposals
    BY <1>4 DEF HearProposal, Proposals, ProviderOf
  <2>2. TypeOK'
    BY <1>4, <2>1 DEF HearProposal, TypeOK, Goto, Phases
  <2>3. TableInv' /\ MinutesInv'
    BY <1>4, <2>1 DEF HearProposal, Goto, TypeOK, TableInv, Gated, MinutesInv, SentBack
  <2>4. QED BY <2>2, <2>3
<1>5. ASSUME NEW v \in Verdicts, HearVerdict(v) PROVE CouncilInv'
  <2> DEFINE entry == [proposal |-> proposal, verdict |-> v, by |-> REVIEWER]
  <2>1. entry \in Entries /\ minutes' = Append(minutes, entry)
    BY <1>5 DEF HearVerdict, Entries, TableInv, Gated, ProviderOf
  <2>2. /\ minutes' \in Seq(Entries)
        /\ Len(minutes') = Len(minutes) + 1
        /\ minutes'[Len(minutes')] = entry
    BY <2>1, AppendProperties DEF TypeOK
  <2>3. TypeOK'
    BY <1>5, <2>2 DEF HearVerdict, TypeOK, Goto, Phases
  <2>4. Len(minutes) \in 0..1
    BY <1>5 DEF HearVerdict, MinutesInv, SentBack
  <2>5. /\ phase = "await" /\ role = "review" /\ phase' = "heard" /\ role' = "review"
        /\ UNCHANGED <<request, proposal, decision>>
    BY <1>5 DEF HearVerdict, Goto
  <2>7. TableInv'
    BY <2>5 DEF TableInv, Gated, GatePasses
  <2>8. MinutesInv'
    <3>1. entry.proposal = proposal' /\ entry.by = REVIEWER
      BY <2>5
    <3> HIDE DEF entry
    <3>2. Len(minutes') \in 1..2
      BY <2>2, <2>4, OneMore
    <3>3. /\ minutes'[Len(minutes')].proposal = proposal'
          /\ minutes'[Len(minutes')].by = REVIEWER
      BY <2>2, <3>1
    <3>4. QED
      BY <2>5, <3>2, <3>3 DEF MinutesInv
  <2>6. QED BY <2>3, <2>7, <2>8
<1>6. ASSUME TakeProposal PROVE CouncilInv'
  <2>1. TypeOK'
    BY <1>6, EmitTyped DEF TakeProposal, TypeOK, Decide, Goto, Phases, Roles, Events
  <2>2. TableInv' /\ MinutesInv'
    BY <1>6 DEF TakeProposal, Decide, Goto, TypeOK, TableInv, Gated, GatePasses,
                MinutesInv, SentBack
  <2>3. QED BY <2>1, <2>2
<1>7. ASSUME TakeVerdict PROVE CouncilInv'
  <2>1. TypeOK'
    BY <1>7, EmitTyped DEF TakeVerdict, TypeOK, Decide, Goto, Phases, Roles, Events
  <2>2. TableInv'
    BY <1>7 DEF TakeVerdict, Decide, Goto, TypeOK, TableInv, Gated, GatePasses
  <2>3. MinutesInv'
    BY <1>7 DEF TakeVerdict, Decide, Goto, TypeOK, MinutesInv, SentBack, LastVerdict
  <2>4. QED BY <2>1, <2>2, <2>3
<1>8. ASSUME Finalize PROVE CouncilInv'
  <2>1. TypeOK'
    BY <1>8, EmitTyped DEF Finalize, TypeOK, TableInv, Decide, Phases, Events
  <2>2. TableInv' /\ MinutesInv'
    BY <1>8 DEF Finalize, Decide, TypeOK, TableInv, Gated, MinutesInv
  <2>3. QED BY <2>1, <2>2
<1>9. ASSUME Close PROVE CouncilInv'
  BY <1>9 DEF Close, Goto, TypeOK, TableInv, Gated, MinutesInv, Phases, Events
<1>10. ASSUME Leave PROVE CouncilInv'
  BY <1>10 DEF Leave, TypeOK, TableInv, Gated, GatePasses, MinutesInv, SentBack
<1>11. CASE UNCHANGED vars
  BY <1>11 DEF vars, TypeOK, TableInv, Gated, GatePasses, MinutesInv, SentBack
<1>12. QED
  BY <1>1, <1>2, <1>3, <1>4, <1>5, <1>6, <1>7, <1>8, <1>9, <1>10, <1>11
     DEF Next, TaskStep, Hear

(* A session keeps its variables well formed.                              *)
THEOREM CouncilTypeCorrect == Spec => []TypeOK
<1>1. Spec => []CouncilInv
  BY InitCouncil, NextCouncil, PTL DEF Spec
<1>2. CouncilInv => TypeOK
  BY DEF CouncilInv
<1>3. QED
  BY <1>1, <1>2, PTL

-----------------------------------------------------------------------------
(* A Council decision is a reviewed one: Approved is said only of the very *)
(* proposal the independent reviewer approved last, and all evidence it    *)
(* cites is in the bundle.                                                 *)
THEOREM OnlyReviewedIsApproved == Spec => []ApprovedIsReviewed
<1> DEFINE Inv == CouncilInv /\ ApprovedIsReviewed
<1>1. Init => Inv
  BY InitCouncil DEF Init, ApprovedIsReviewed
<1>2. Inv /\ [Next]_vars => Inv'
  <2> SUFFICES ASSUME Inv, [Next]_vars PROVE Inv'
    OBVIOUS
  <2>1. CouncilInv'
    BY NextCouncil
  <2>2. CASE Finalize
    <3>1. CASE GatePasses(proposal)
      <4>1. decision' = Approved(proposal) /\ UNCHANGED <<minutes, request>>
        BY <2>2, <3>1 DEF Finalize, Decide
      <4>2. /\ minutes # <<>>
            /\ minutes[Len(minutes)].verdict = "approve"
            /\ minutes[Len(minutes)].proposal = proposal
            /\ minutes[Len(minutes)].by = REVIEWER
        BY <2>2 DEF Finalize, CouncilInv, MinutesInv, LastVerdict
      <4>3. /\ proposal.by # REVIEWER
            /\ proposal.findings # {} /\ {} \notin proposal.findings
            /\ UNION proposal.findings \subseteq request.bundle
        BY <3>1 DEF GatePasses
      <4>4. /\ decision'.proposal = proposal
            /\ decision'.used = UNION proposal.findings
        BY <4>1 DEF Approved
      <4>5. ApprovedIsReviewed'
        BY <4>1, <4>2, <4>3, <4>4 DEF ApprovedIsReviewed
      <4>6. QED BY <2>1, <4>5
    <3>2. CASE ~GatePasses(proposal)
      BY <2>1, <2>2, <3>2 DEF Finalize, Decide, Terminal, ApprovedIsReviewed
    <3>3. QED BY <2>1, <3>1, <3>2
  <2>3. CASE UNCHANGED <<decision, minutes, request>>
    BY <2>1, <2>3 DEF ApprovedIsReviewed
  <2>4. CASE decision' = Undecided
    BY <2>1, <2>4 DEF ApprovedIsReviewed
  <2>5. CASE decision' \in {Terminal("Rejected"), Terminal("Inconclusive"), Terminal("Cancelled")}
    BY <2>1, <2>5 DEF ApprovedIsReviewed, Terminal
  <2>6. CASE Open \/ Ask \/ HearNothing \/ TakeProposal \/ TakeVerdict
    BY <2>3, <2>5, <2>6 DEF Open, Ask, HearNothing, TakeProposal, TakeVerdict, Decide, Goto
  <2>7. CASE \E v \in Verdicts : HearVerdict(v)
    BY <2>4, <2>7 DEF HearVerdict, Goto, CouncilInv, TableInv
  <2>8. CASE (\E f \in SUBSET SUBSET EvidenceId : HearProposal(f)) \/ Close \/ Leave \/ UNCHANGED vars
    BY <2>3, <2>8 DEF HearProposal, Close, Leave, Goto, vars
  <2>9. QED
    BY <2>2, <2>6, <2>7, <2>8 DEF Next, TaskStep, Hear
<1>3. QED
  BY <1>1, <1>2, PTL DEF Spec

(* Evidence is given to roles only within the scope the user approved.     *)
THEOREM CouncilStaysInScope == Spec => []NothingBeyondScope
<1> DEFINE ScopeInv ==
      /\ CouncilInv
      /\ phase \notin {"open", "decided", "closed"} => request.scope <= request.approved
      /\ NothingBeyondScope
<1>1. Init => ScopeInv
  BY InitCouncil DEF Init, NothingBeyondScope
<1>2. ScopeInv /\ [Next]_vars => ScopeInv'
  <2> SUFFICES ASSUME ScopeInv, [Next]_vars PROVE ScopeInv'
    OBVIOUS
  <2>1. CouncilInv'
    BY NextCouncil
  <2>2. CASE Ask
    BY <2>1, <2>2, AskedGrows DEF Ask, Decide, Goto, NothingBeyondScope
  <2>3. CASE UNCHANGED asked
    BY <2>1, <2>3 DEF Next, TaskStep, Hear, Open, Ask, HearNothing, HearProposal,
       HearVerdict, TakeProposal, TakeVerdict, Finalize, Close, Leave, Decide, Goto, vars,
       NothingBeyondScope
  <2>4. QED
    BY <2>2, <2>3 DEF Next, TaskStep, Hear, Open, HearNothing, HearProposal,
       HearVerdict, TakeProposal, TakeVerdict, Finalize, Close, Leave, vars
<1>3. QED
  BY <1>1, <1>2, PTL DEF Spec

(* After the client has left, one more call at most goes out: the event    *)
(* that follows it cannot be delivered and cancels the session.            *)
THEOREM LeavingStopsCalls == Spec => []AtMostOneCallAfterLeaving
<1> DEFINE LeftInv ==
      /\ CouncilInv
      /\ AtMostOneCallAfterLeaving
      /\ (\E i \in DOMAIN asked : ~asked[i].connected) =>
           ~connected /\ (phase \in {"open", "ask"} => cancel)
<1>1. Init => LeftInv
  BY InitCouncil DEF Init, AtMostOneCallAfterLeaving
<1>2. LeftInv /\ [Next]_vars => LeftInv'
  <2> SUFFICES ASSUME LeftInv, [Next]_vars PROVE LeftInv'
    OBVIOUS
  <2>1. CouncilInv'
    BY NextCouncil
  <2>2. CASE Ask
    BY <2>1, <2>2, AskedGrows DEF Ask, Decide, Goto, AtMostOneCallAfterLeaving
  <2>3. CASE Open
    BY <2>1, <2>3 DEF Open, Emit, Decide, Goto, CouncilInv, TypeOK, AtMostOneCallAfterLeaving
  <2>4. CASE TakeProposal \/ TakeVerdict \/ Finalize
    <3>1. UNCHANGED <<asked, connected>> /\ (~connected => cancel')
      BY <2>4 DEF TakeProposal, TakeVerdict, Finalize, Emit
    <3>2. QED
      BY <2>1, <3>1 DEF AtMostOneCallAfterLeaving
  <2>5. CASE Hear \/ Close
    <3>1. UNCHANGED <<asked, connected>> /\ phase' \in {"heard", "decided", "closed"}
      BY <2>5 DEF Hear, HearNothing, HearProposal, HearVerdict, Close, Decide, Goto
    <3>2. QED
      BY <2>1, <3>1 DEF AtMostOneCallAfterLeaving
  <2>6. CASE Leave \/ UNCHANGED vars
    BY <2>1, <2>6 DEF Leave, vars, AtMostOneCallAfterLeaving
  <2>7. QED
    BY <2>2, <2>3, <2>4, <2>5, <2>6 DEF Next, TaskStep
<1>3. QED
  BY <1>1, <1>2, PTL DEF Spec

-----------------------------------------------------------------------------
(* What a client that stays reads on its stream.                           *)

(* Where an event stands in a stream.                                      *)
Places(stream, e) == {i \in DOMAIN stream : stream[i] = e}

(* One more event adds its own place and no other.                         *)
LEMMA OneMorePlace ==
  ASSUME NEW s \in Seq(Events), NEW x \in Events
  PROVE  /\ \A e \in Events \ {x} : Places(Append(s, x), e) = Places(s, e)
         /\ Places(Append(s, x), x) # {}
         /\ Cardinality(Places(Append(s, x), x)) = Cardinality(Places(s, x)) + 1
         /\ Cardinality(Places(s, x)) \in Nat
         /\ Append(s, x)[Len(Append(s, x))] = x
<1> DEFINE long == Append(s, x)
<1> DEFINE n == Len(s) + 1
<1>1. /\ long \in Seq(Events) /\ Len(long) = n /\ Len(s) \in Nat
      /\ \A i \in 1..Len(s) : long[i] = s[i]
      /\ long[n] = x
  BY AppendProperties
<1>2. DOMAIN long = 1..n /\ DOMAIN s = 1..Len(s) /\ 1..n = 1..Len(s) \cup {n} /\ n \notin 1..Len(s)
  BY <1>1
<1> HIDE DEF long, n
<1>3. Places(long, x) = Places(s, x) \cup {n} /\ n \notin Places(s, x)
  BY <1>1, <1>2 DEF Places
<1>4. \A e \in Events \ {x} : Places(long, e) = Places(s, e)
  BY <1>1, <1>2 DEF Places
<1>5. IsFiniteSet(1..Len(s)) /\ Places(s, x) \subseteq 1..Len(s)
  BY <1>1, <1>2, FS_Interval DEF Places
<1>6. IsFiniteSet(Places(s, x))
  BY <1>5, FS_Subset
<1>7. Cardinality(Places(long, x)) = Cardinality(Places(s, x)) + 1
  BY <1>3, <1>6, FS_AddElement
<1>8. Cardinality(Places(s, x)) \in Nat
  BY <1>6, FS_CardinalityType
<1>9. long[Len(long)] = x /\ Places(long, x) # {}
  BY <1>1, <1>3
<1>10. QED
  BY <1>4, <1>7, <1>8, <1>9 DEF long

(* A review that has been heard is announced in the next step.             *)
Unannounced == IF phase = "heard" /\ role = "review" THEN 1 ELSE 0

Announcing ==
    /\ Places(delivered, "failed") = {}
    /\ Places(delivered, "passed") # {} <=> decision # Undecided /\ decision.status = "Approved"
    /\ Cardinality(Places(delivered, "reviewed")) + Unannounced = Len(minutes)
    /\ phase = "closed" => delivered[Len(delivered)] = "done"

StreamInv == CouncilInv /\ (connected => Announcing)

LEMMA InitStream == Init => StreamInv
<1> SUFFICES ASSUME Init PROVE Announcing
  BY InitCouncil DEF StreamInv
<1>1. Places(delivered, "failed") = {} /\ Places(delivered, "passed") = {}
      /\ Places(delivered, "reviewed") = {}
  BY DEF Init, Places
<1>2. Cardinality(Places(delivered, "reviewed")) = 0
  BY <1>1, FS_EmptySet
<1>3. QED
  BY <1>1, <1>2 DEF Init, Announcing, Unannounced

(* What an event tells a client that listens.                              *)
LEMMA Told ==
  ASSUME CouncilInv, connected, NEW x \in Events,
         delivered' = Append(delivered, x)
  PROVE  /\ x # "failed" => Places(delivered', "failed") = Places(delivered, "failed")
         /\ IF x = "passed" THEN Places(delivered', "passed") # {}
                            ELSE Places(delivered', "passed") = Places(delivered, "passed")
         /\ Cardinality(Places(delivered', "reviewed")) =
              Cardinality(Places(delivered, "reviewed")) + (IF x = "reviewed" THEN 1 ELSE 0)
         /\ Cardinality(Places(delivered, "reviewed")) \in Nat
         /\ delivered'[Len(delivered')] = x
<1>1. delivered \in Seq(Events) /\ {"failed", "passed", "reviewed"} \subseteq Events
  BY DEF CouncilInv, TypeOK, Events
<1>2. Cardinality(Places(delivered, "reviewed")) \in Nat
  BY <1>1, OneMorePlace
<1>3. QED
  BY <1>1, <1>2, OneMorePlace

LEMMA NextStream == StreamInv /\ [Next]_vars => StreamInv'
<1> SUFFICES ASSUME StreamInv, [Next]_vars, connected' PROVE Announcing'
  BY NextCouncil DEF StreamInv
<1>1. connected
  BY DEF StreamInv, CouncilInv, TypeOK, Next, TaskStep, Hear, Open, Ask, HearNothing,
         HearProposal, HearVerdict, TakeProposal, TakeVerdict, Finalize, Close, Leave, vars
<1>2. Announcing /\ CouncilInv
  BY <1>1 DEF StreamInv
<1>3. Cardinality(Places(delivered, "reviewed")) \in Nat /\ Len(minutes) \in Nat
  <2>1. delivered \in Seq(Events) /\ minutes \in Seq(Entries) /\ "reviewed" \in Events
    BY <1>2 DEF CouncilInv, TypeOK, Events
  <2>2. QED
    BY <2>1, OneMorePlace
<1> USE DEF Unannounced, Goto, Decide, Terminal
<1>4. CASE Open
  <2>1. CASE Emit("evidence") /\ Goto("ask", "propose")
    BY <1>1, <1>2, <1>3, <1>4, <2>1, Told DEF Open, Emit, Announcing, Events
  <2>2. CASE Decide(Terminal("Inconclusive")) /\ UNCHANGED delivered
    BY <1>1, <1>2, <1>3, <1>4, <2>2 DEF Open, Announcing, CouncilInv, TableInv
  <2>3. QED
    BY <1>4, <2>1, <2>2 DEF Open
<1>5. CASE Ask \/ HearNothing
  BY <1>1, <1>2, <1>3, <1>5 DEF Ask, HearNothing, Announcing, CouncilInv, TableInv
<1>6. CASE \E f \in SUBSET SUBSET EvidenceId : HearProposal(f)
  BY <1>1, <1>2, <1>3, <1>6 DEF HearProposal, Announcing
<1>7. ASSUME NEW v \in Verdicts, HearVerdict(v) PROVE Announcing'
  <2>1. Len(minutes') = Len(minutes) + 1
    <3> DEFINE entry == [proposal |-> proposal, verdict |-> v, by |-> REVIEWER]
    <3>1. entry \in Entries /\ minutes' = Append(minutes, entry) /\ minutes \in Seq(Entries)
      BY <1>2, <1>7 DEF HearVerdict, Entries, CouncilInv, TypeOK, TableInv, Gated, ProviderOf
    <3>2. QED
      BY <3>1, AppendProperties
  <2>2. QED
    BY <1>1, <1>2, <1>3, <1>7, <2>1 DEF HearVerdict, Announcing
<1>8. CASE TakeProposal
  <2>1. PICK x \in {"proposed", "revised"} : delivered' = Append(delivered, x)
    BY <1>1, <1>8 DEF TakeProposal, Emit
  <2>2. QED
    BY <1>1, <1>2, <1>3, <1>8, <2>1, Told
       DEF TakeProposal, Announcing, Events, CouncilInv, TableInv
<1>9. CASE TakeVerdict
  <2>1. delivered' = Append(delivered, "reviewed")
    BY <1>1, <1>9 DEF TakeVerdict, Emit
  <2>2. QED
    BY <1>1, <1>2, <1>3, <1>9, <2>1, Told
       DEF TakeVerdict, Announcing, Events, CouncilInv, TableInv
<1>10. CASE Finalize
  <2>1. GatePasses(proposal) /\ proposal \in Proposals
    BY <1>2, <1>10 DEF Finalize, CouncilInv, TableInv, Gated
  <2>2. delivered' = Append(delivered, "passed") /\ decision' = Approved(proposal)
    BY <1>1, <1>10, <2>1 DEF Finalize, Emit
  <2>3. decision' # Undecided /\ decision'.status = "Approved"
    BY <2>1, <2>2, ApprovedTyped DEF Approved
  <2>4. QED
    BY <1>1, <1>2, <1>3, <1>10, <2>2, <2>3, Told DEF Finalize, Announcing, Events
<1>11. CASE Close
  <2>1. delivered' = Append(delivered, "done")
    BY <1>1, <1>11 DEF Close
  <2>2. QED
    BY <1>1, <1>2, <1>3, <1>11, <2>1, Told DEF Close, Announcing, Events
<1>12. CASE Leave \/ UNCHANGED vars
  BY <1>2, <1>12 DEF Leave, vars, Announcing
<1>13. QED
  BY <1>4, <1>5, <1>6, <1>7, <1>8, <1>9, <1>10, <1>11, <1>12 DEF Next, TaskStep, Hear

(* A client that stays can tell the outcome from its stream: done comes    *)
(* last, no gate failed on it, it passed iff the decision is Approved, and *)
(* every review was announced.                                             *)
THEOREM StreamTellsTheDecision == Spec => []StreamMatchesDecision
<1>1. StreamInv => StreamMatchesDecision
  <2> SUFFICES ASSUME StreamInv, phase = "closed", connected PROVE StreamMatchesDecision
    BY DEF StreamMatchesDecision
  <2>1. /\ Places(delivered, "failed") = {}
        /\ Places(delivered, "passed") # {} <=> decision # Undecided /\ decision.status = "Approved"
        /\ Cardinality(Places(delivered, "reviewed")) + 0 = Len(minutes)
        /\ delivered[Len(delivered)] = "done"
    BY DEF StreamInv, Announcing, Unannounced
  <2>2. decision # Undecided
    BY DEF StreamInv, CouncilInv, TableInv
  <2>3. Cardinality(Places(delivered, "reviewed")) = Len(minutes)
    <3>1. delivered \in Seq(Events) /\ "reviewed" \in Events
      BY DEF StreamInv, CouncilInv, TypeOK, Events
    <3>2. Cardinality(Places(delivered, "reviewed")) \in Nat
      BY <3>1, OneMorePlace
    <3>3. QED
      BY <2>1, <3>2
  <2>4. \A i \in DOMAIN delivered : delivered[i] # "failed"
    BY <2>1 DEF Places
  <2>5. (\E i \in DOMAIN delivered : delivered[i] = "passed") <=> decision.status = "Approved"
    BY <2>1, <2>2 DEF Places
  <2>6. QED
    BY <2>1, <2>3, <2>4, <2>5 DEF StreamMatchesDecision, Places
<1>2. QED
  BY InitStream, NextStream, <1>1, PTL DEF Spec

-----------------------------------------------------------------------------
(* Run by its stages, calls and events, a session does nothing its minutes *)
(* do not justify: every step is a review, the conclusion or invisible.    *)
THEOREM CouncilImplementsMinutes == Spec => ImplementsMinutes
<1>1. Init => Minutes!Init
  BY DEF Init, Minutes!Init
<1>2. CouncilInv /\ [Next]_vars => [Minutes!Next]_Minutes!minutesVars
  <2> SUFFICES ASSUME CouncilInv, [Next]_vars
               PROVE  Minutes!Next \/ UNCHANGED <<minutes, decision>>
    BY DEF Minutes!minutesVars
  <2> USE DEF CouncilInv, LastVerdict, Minutes!LastVerdict, Terminal, Minutes!Terminal
  <2> DEFINE Pending == minutes # <<>> => LastVerdict(minutes) = "revise"
  <2>1. ASSUME decision = Undecided, Pending, UNCHANGED minutes,
               decision' \in {Terminal("Inconclusive"), Terminal("Cancelled")}
        PROVE  Minutes!Next
    BY <2>1 DEF Minutes!Next, Minutes!Conclude
  <2>2. phase \in {"open", "ask", "await"} \/ (phase = "heard" /\ role # "review")
        => decision = Undecided /\ Pending
    BY DEF TypeOK, Roles, TableInv, MinutesInv, SentBack
  <2>3. CASE Open \/ Ask \/ HearNothing \/ TakeProposal
    <3>1. UNCHANGED minutes
          /\ (decision' \in {Terminal("Inconclusive"), Terminal("Cancelled")} \/ UNCHANGED decision)
      BY <2>3 DEF Open, Ask, HearNothing, TakeProposal, Decide, Goto
    <3>2. decision = Undecided /\ Pending
      BY <2>2, <2>3 DEF Open, Ask, HearNothing, TakeProposal
    <3>3. QED BY <2>1, <3>1, <3>2
  <2>4. CASE TakeVerdict
    <3>0. phase = "heard" /\ role = "review" /\ UNCHANGED minutes
      BY <2>4 DEF TakeVerdict
    <3>1. decision = Undecided /\ minutes # <<>> /\ UNCHANGED minutes
      BY <3>0 DEF TableInv, MinutesInv
    <3>2. \/ LastVerdict(minutes) = "reject" /\ decision' = Terminal("Rejected")
          \/ LastVerdict(minutes) = "revise" /\ decision' = Terminal("Inconclusive")
          \/ UNCHANGED decision
      BY <2>4 DEF TakeVerdict, Decide, Goto
    <3>3. QED
      BY <2>1, <3>1, <3>2 DEF Minutes!Next, Minutes!Conclude
  <2>5. CASE Finalize
    <3>1. /\ decision' = Approved(proposal) /\ UNCHANGED minutes
          /\ decision = Undecided /\ minutes # <<>> /\ LastVerdict(minutes) = "approve"
          /\ minutes[Len(minutes)].proposal = proposal
      BY <2>5 DEF Finalize, Decide, TableInv, Gated, MinutesInv
    <3>2. QED
      BY <3>1 DEF Minutes!Next, Minutes!Conclude, Approved, Minutes!Approved
  <2>6. ASSUME NEW v \in Verdicts, HearVerdict(v) PROVE Minutes!Next
    <3> DEFINE entry == [proposal |-> proposal, verdict |-> v, by |-> REVIEWER]
    <3>1. entry \in Entries /\ minutes' = Append(minutes, entry) /\ UNCHANGED decision
      BY <2>6 DEF HearVerdict, Entries, TableInv, Gated, ProviderOf, Goto
    <3>2. decision = Undecided /\ entry.by # entry.proposal.by
      BY <2>6 DEF HearVerdict, TableInv, Gated, GatePasses
    <3>3. Minutes!MayReview
      BY <2>6 DEF HearVerdict, MinutesInv, SentBack, Minutes!MayReview
    <3>4. Minutes!Review(entry)
      BY <3>1, <3>2, <3>3 DEF Minutes!Review
    <3>5. QED
      BY <3>1, <3>4 DEF Minutes!Next, Entries, Minutes!Entries, Proposals, Minutes!Proposals,
         Verdicts, Minutes!Verdicts
  <2>7. CASE (\E f \in SUBSET SUBSET EvidenceId : HearProposal(f)) \/ Close \/ Leave \/ UNCHANGED vars
    BY <2>7 DEF HearProposal, Close, Leave, Goto, vars
  <2>8. QED
    BY <2>3, <2>4, <2>5, <2>6, <2>7 DEF Next, TaskStep, Hear
<1>3. QED
  BY <1>1, <1>2, InitCouncil, NextCouncil, PTL DEF Spec, ImplementsMinutes, Minutes!Spec
=============================================================================
