--------------------------- MODULE CouncilMinutes ---------------------------
(***************************************************************************)
(* What a Council session promises, whatever its roles answer: the minutes *)
(* list the proposals that were reviewed with their verdicts, a second one *)
(* only after the reviewer asked for a revision, and the decision follows  *)
(* the last entry.  There are no stages, calls, events or clients here.    *)
(***************************************************************************)
EXTENDS CouncilData

VARIABLES minutes,   \* the reviews so far: proposal, verdict, reviewer
          decision   \* Undecided, or the CouncilDecision

minutesVars == <<minutes, decision>>

MayReview ==
    minutes = <<>> \/ (Len(minutes) = 1 /\ LastVerdict(minutes) = "revise")

Init == minutes = <<>> /\ decision = Undecided

(* The reviewer is never the provider that made the proposal.              *)
Review(entry) ==
    /\ decision = Undecided
    /\ MayReview
    /\ entry.by # entry.proposal.by
    /\ minutes' = Append(minutes, entry)
    /\ UNCHANGED decision

Conclude ==
    /\ decision = Undecided
    /\ \/ /\ minutes # <<>> /\ LastVerdict(minutes) = "approve"
          /\ decision' = Approved(minutes[Len(minutes)].proposal)
       \/ /\ minutes # <<>> /\ LastVerdict(minutes) = "reject"
          /\ decision' = Terminal("Rejected")
       \/ /\ minutes # <<>> => LastVerdict(minutes) = "revise"
          /\ decision' \in {Terminal("Inconclusive"), Terminal("Cancelled")}
    /\ UNCHANGED minutes

Next == (\E entry \in Entries : Review(entry)) \/ Conclude

Spec == Init /\ [][Next]_minutesVars
=============================================================================
