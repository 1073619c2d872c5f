SPECIFICATION Spec
CONSTANTS
    Cases = {"case1", "case2"}
    ChunkCount <- TwoAndOne
    Requests = {"r1", "r2", "r3"}
    Backends = {"memory", "postgres"}
    MaxRequests = 3
    None = None
INVARIANTS TypeOK IndexWhole HistoryTrue RefusedOnlyWhenIndexed
PROPERTY RequestsAnswered
CHECK_DEADLOCK FALSE
