SPECIFICATION FairSpec
CONSTANTS
    e1 = e1  e2 = e2
    claude = claude  gpt = gpt
    EvidenceId = {e1, e2}
    Provider = {claude, gpt}
    PROPOSER = claude
    REVIEWER = gpt
    REVISER = claude
    Scope = {0, 1}
    NoProposal = NoProposal
    Undecided = Undecided
INVARIANTS
    TypeOK
    ApprovedIsReviewed
    NothingBeyondScope
    AtMostOneCallAfterLeaving
    StreamMatchesDecision
PROPERTIES
    EverySessionCloses
    ImplementsMinutes
CHECK_DEADLOCK FALSE
