---------------------------- MODULE CouncilData ----------------------------
(***************************************************************************)
(* Proposals, verdicts, minutes and decisions of a Council session, from   *)
(* the types of velox-core/src/council.rs.  Statements, summaries and      *)
(* reasons are left out: nothing but people reads them.                    *)
(***************************************************************************)
EXTENDS Integers, Sequences

CONSTANTS EvidenceId,   \* ids a finding may cite
          Provider,     \* AI providers
          NoProposal,   \* no proposal
          Undecided     \* the decision of a session that is still running

(* A proposal, by what the gate looks at: who made it, and for each of its *)
(* findings the ids it cites.                                              *)
Proposals == [by: Provider, findings: SUBSET SUBSET EvidenceId]
Verdicts  == {"approve", "revise", "reject"}
Entries   == [proposal: Proposals, verdict: Verdicts, by: Provider]
Statuses  == {"Approved", "Rejected", "Inconclusive", "Cancelled"}
Decisions == [status: Statuses, proposal: Proposals \cup {NoProposal},
              used: SUBSET EvidenceId]

ASSUME CouncilDataAssumption ==
    /\ Undecided \notin Decisions
    /\ NoProposal \notin Proposals

Terminal(status) == [status |-> status, proposal |-> NoProposal, used |-> {}]

(* Defect: the ids stay grouped by finding.                                *)
ApprovedGrouped(p) == [status |-> "Approved", proposal |-> p, used |-> p.findings]

(* The ids an approved proposal cites, each once.                          *)
Approved(p) == [status |-> "Approved", proposal |-> p, used |-> UNION p.findings]

LastVerdict(reviews) == reviews[Len(reviews)].verdict
=============================================================================
