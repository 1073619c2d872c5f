SPECIFICATION LifecycleSpec
CONSTANTS
    None = None
    Tenants = {"acme"}
    Keys = {"k1"}
    KeysOf <- KeysOfTheTenant
    Users <- TwoMembers
    Cases = {"case1"}
    CaseTenant <- OfTheCase
    Reviews = {1}
    ReviewCase <- OfTheReview
    ApiRequests = {"a1", "a2"}
    McpRequests = {"x1", "x2"}
    Processes = {"mcp1"}
    ProcessOf <- OneProcess
    MaxRestarts = 0
    Workers = {"w1"}
    BatchSize = 1
    LockTimeout = 1
    MaxAttempts = 2
    RetryBase = 1
    RetryMax = 1
    MaxTime = 1
    MaxFaults = 1
INVARIANTS OutcomeAgrees AppliedOnce
PROPERTY DecisionReachesWorkflow
