SPECIFICATION Spec
CONSTANTS
    Cases = {"case1"}
    Executions = {"e1", "e2", "u1"}
    CaseOf <- OneCase
    Unkeyed = {"u1"}
    Dossiers <- FourDossiers
    Decisions <- Recommendation
    Recommendations <- DeterministicBackend
    Checkpointers = {"postgres"}
    Requests = {"r1"}
    MaxRequests = 4
    MaxRestarts = 0
    None = None
INVARIANTS NodesRunOnce CompletionAnnouncedOnce StatusExplained RecommendationJustified
PROPERTY EndsForGood
CHECK_DEADLOCK FALSE
