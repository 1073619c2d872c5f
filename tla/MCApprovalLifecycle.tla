------------------------ MODULE MCApprovalLifecycle -------------------------
(* ApprovalLifecycle for TLC: one tenant with two members, one review.     *)
EXTENDS ApprovalLifecycle, TLC

TwoMembers == {[subject |-> s, tenant_id |-> "acme", roles |-> {"analyst", "approver"}] :
                  s \in {"ann", "bob"}}

KeysOfTheTenant == [t \in Tenants |-> Keys]
OfTheCase == [c \in Cases |-> "acme"]
OfTheReview == [v \in Reviews |-> "case1"]
OneProcess == [r \in McpRequests |-> "mcp1"]

=============================================================================
