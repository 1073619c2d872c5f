SPECIFICATION Spec
CONSTANTS
    None = None
    Tenants = {"acme", "mill"}
    Keys = {"k1"}
    KeysOf <- AllKeys
    Users <- AdminUsers
    Cases = {"case1", "case2"}
    CaseTenant <- TwoCases
    Reviews = {1, 2}
    ReviewCase <- EachItsCase
    ApiRequests = {"a1", "a2"}
    McpRequests = {"x1", "x2"}
    Processes = {"mcp1"}
    ProcessOf <- OneProcess
    MaxRestarts = 0
INVARIANT ReceiptOfOwnWrite
