SPECIFICATION Spec
CONSTANTS
    None = None
    Tenants = {"acme"}
    Keys = {"k1"}
    KeysOf <- AllKeys
    Users <- OneTenantUsers
    Cases = {"case1"}
    CaseTenant <- OneCase
    Reviews = {1, 2}
    ReviewCase <- AllOfCase1
    ApiRequests = {"a1", "a2"}
    McpRequests = {"x1", "x2"}
    Processes = {"mcp1", "mcp2"}
    ProcessOf <- TwoProcesses
    MaxRestarts = 0
INVARIANTS
    AppliedOnce
