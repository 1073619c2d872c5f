SPECIFICATION Spec
CONSTANTS
    Cases = {"case1"}
    Executions = {"e1"}
    CaseOf <- OneCase
    Unkeyed = {}
    Dossiers <- OneDossier
    Decisions = {"approve", "escalate"}
    Recommendations <- AnyDecision
    Checkpointers = {"memory", "postgres"}
    Requests = {r1, r2}
    MaxRequests = 3
    MaxRestarts = 1
    None = None
SYMMETRY RequestSymmetry
INVARIANTS TypeOK GateRespected PendingApprovalHasReview
PROPERTY StoredReviewsFixed
CHECK_DEADLOCK FALSE
