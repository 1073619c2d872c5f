SPECIFICATION Spec
CONSTANTS
    Cases = {"case1"}
    Executions = {"e1"}
    CaseOf <- OneCase
    Unkeyed = {}
    Dossiers <- OneDossier
    Decisions = {"approve"}
    Recommendations <- AnyDecision
    Checkpointers = {"postgres"}
    Requests = {"r1", "r2"}
    MaxRequests = 2
    MaxRestarts = 0
    None = None
INVARIANT NodesRunOnce
CHECK_DEADLOCK FALSE
