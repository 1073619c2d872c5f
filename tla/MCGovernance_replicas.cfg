SPECIFICATION Spec
CONSTANTS
    None = None
    Tenants = {"acme", "mill"}
    Keys = {"k1", "k2"}
    KeysOf <- OwnKeys
    Users <- MemberAndAdmin
    Cases = {"case1"}
    CaseTenant <- OneCase
    Reviews = {1, 2}
    ReviewCase <- AllOfCase1
    ApiRequests = {a1, a2}
    McpRequests = {m1, m2}
    Processes = {m1, m2}
    ProcessOf <- OwnProcess
    MaxRestarts = 1
SYMMETRY Symmetry
INVARIANTS
    TypeOK
    WritesAuthorised
    AuditAgrees
    ReceiptsAgree
    LateExecutionAnswered
    ReceiptOfOwnWrite
    FreshKeyAccepted
PROPERTY ImplementsGovernedAction
