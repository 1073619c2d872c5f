---------------------------- MODULE MCGovernance ----------------------------
(* Governance for TLC: who the users are, and which slots the requests of  *)
(* the API and of the MCP servers use.                                     *)
EXTENDS Governance, TLC

User(subject, tenant, roles) ==
    [subject |-> subject, tenant_id |-> tenant, roles |-> roles]

(* One tenant whose two members may both propose and decide.               *)
OneTenantUsers == {User("ann", "acme", {"analyst", "approver"}),
                   User("bob", "acme", {"analyst", "approver"})}

(* Two tenants, each with its analyst, an approver for one of them and an  *)
(* administrator who belongs to one and acts in both.                      *)
AdminUsers == {User("ann", "acme", {"analyst"}),
               User("max", "mill", {"analyst", "approver"}),
               User("root", "mill", {"admin"})}

(* Two tenants and one case: a member of its tenant, an administrator of   *)
(* the other one who acts on it too, and a member there who may not.       *)
MemberAndAdmin == {User("ann", "acme", {"analyst", "approver"}),
                   User("max", "mill", {"analyst", "approver"}),
                   User("root", "mill", {"admin"})}

(* All tenants choose from all keys, or each from keys of its own.         *)
AllKeys == [t \in Tenants |-> Keys]
OwnKeys == [t \in Tenants |-> IF t = "acme" THEN {"k1"} ELSE {"k2"}]

OneCase == [c \in Cases |-> "acme"]
TwoCases == [c \in Cases |-> IF c = "case1" THEN "acme" ELSE "mill"]

AllOfCase1 == [v \in Reviews |-> "case1"]
EachItsCase == [v \in Reviews |-> IF v = 1 THEN "case1" ELSE "case2"]

OneProcess == [r \in McpRequests |-> "mcp1"]
TwoProcesses == [r \in McpRequests |-> IF r = "x1" THEN "mcp1" ELSE "mcp2"]

(* Every request slot of the MCP servers is a process of its own, and its  *)
(* name that of the process.                                               *)
OwnProcess == [r \in McpRequests |-> r]

(* The request slots of the API are interchangeable, and so are the MCP    *)
(* processes with their slots: no definition names one of them.            *)
Symmetry == Permutations(ApiRequests) \cup Permutations(McpRequests)

=============================================================================
