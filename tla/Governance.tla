----------------------------- MODULE Governance -----------------------------
(***************************************************************************)
(* Governed actions: proposal by an analyst, decision by another person,   *)
(* execution by the MCP server.                                            *)
(*                                                                         *)
(* packages/governance/service.py       propose, decide, execute           *)
(* packages/governance/repositories.py  SqlAlchemyActionRepository         *)
(* apps/api/main.py                     the handlers that call propose and *)
(*                                      decide                             *)
(* apps/mcp_server/main.py              the execution tool and its process *)
(*                                                                         *)
(* A request is a coroutine that awaits the database between its steps, so *)
(* what it read may be stale when it writes.  Every database transaction   *)
(* and every call of the supplier system is one action; a request the code *)
(* refuses without a write is no step at all.  A review stands for the     *)
(* recommendation and the tool arguments that are derived from it.         *)
(***************************************************************************)
EXTENDS Integers, Sequences, FiniteSets

CONSTANTS
    Tenants,         \* tenant identifiers
    Keys,            \* idempotency keys chosen by callers
    KeysOf,          \* the keys that the callers of each tenant choose from
    Users,           \* principals: [subject, tenant_id, roles]
    Cases,           \* supplier cases
    CaseTenant,      \* the tenant of each case
    Reviews,         \* completed reviews, numbered by completed_at
    ReviewCase,      \* the case of each review
    ApiRequests,     \* request slots of the API
    McpRequests,     \* request slots of the MCP servers
    Processes,       \* MCP server processes
    ProcessOf,       \* the process that serves each MCP request slot
    MaxRestarts,     \* bound: restarts of MCP server processes
    None             \* SQL NULL, Python None

ASSUME GovernanceAssumption ==
    /\ Users \subseteq [subject : STRING, tenant_id : Tenants,
                        roles : SUBSET {"analyst", "approver", "executor", "admin"}]
    /\ KeysOf \in [Tenants -> SUBSET Keys]
    /\ CaseTenant \in [Cases -> Tenants]
    /\ Reviews \subseteq Nat
    /\ ReviewCase \in [Reviews -> Cases]
    /\ ApiRequests \cap McpRequests = {}
    /\ ProcessOf \in [McpRequests -> Processes]
    /\ MaxRestarts \in Nat

VARIABLES
    reviews,         \* review_runs: the reviews saved so far
    actions,         \* governed_actions by id, None where there is no row
    audit,           \* audit_events of each action, oldest first
    enqueued,        \* actions with a row in outbox_messages
    pc,              \* where each request is
    action,          \* the action a request has built or read
    receipts,        \* InMemorySupplierSystem._receipts of each MCP process
    writes,          \* every write the supplier system ever performed
    returned,        \* receipts handed to callers of execute, by action
    restarts         \* restarts of MCP processes so far

dbVars == <<reviews, actions, audit, enqueued>>
requestVars == <<pc, action>>
supplierVars == <<receipts, writes>>
vars == <<dbVars, requestVars, supplierVars, returned, restarts>>

-----------------------------------------------------------------------------

Requests == ApiRequests \cup McpRequests

ActionIds == Tenants \X Keys

(* uuid5 over the caller's tenant and the key.                             *)
ActionId(principal, key) == <<principal.tenant_id, key>>

ServiceSubject == "service:mcp-supplier-executor"
Subjects == {p.subject : p \in Users}

Receipt == [action_id : ActionIds, applied : Reviews, executed_at : Nat]

Action == [id : ActionIds, case_id : Cases, review_id : Reviews, tenant_id : Tenants,
           status : {"pending_approval", "approved", "rejected", "executed"},
           proposer_id : Subjects, approver_id : Subjects \cup {None},
           idempotency_key : Keys, execution_receipt : Receipt \cup {None}]

Event == [event_type : {"proposed", "approved", "rejected", "executed"},
          actor_id : Subjects \cup {ServiceSubject}]

(* What a row shows of the proposal and of the decision.                   *)
Proposal == [proposer_id : Subjects, tenant_id : Tenants, applied : Reviews]
Decision == [approver_id : Subjects, status : {"approved", "rejected"}]

(* NULL is no value of any of these types.                                 *)
ASSUME NoneAssumption ==
    None \notin Subjects \cup Action \cup Receipt \cup Proposal \cup Decision

(* Principal.has_role                                                      *)
HasRole(principal, role) == role \in principal.roles \/ "admin" \in principal.roles

(* GovernanceService._require_tenant and get_authorized_case.              *)
InTenant(principal, tenant_id) ==
    "admin" \in principal.roles \/ principal.tenant_id = tenant_id

(* get_latest_review; only used where the case has a review.               *)
ReviewsOf(case) == {v \in reviews : ReviewCase[v] = case}
LatestReview(case) == CHOOSE v \in ReviewsOf(case) : \A u \in ReviewsOf(case) : u <= v

(* Fault seeded in _get_by_idempotency: only pending actions are found.    *)
ExistingPending(tenant_id, key) ==
    {id \in ActionIds : /\ actions[id] # None
                        /\ actions[id].status = "pending_approval"
                        /\ actions[id].tenant_id = tenant_id
                        /\ actions[id].idempotency_key = key}

(* _get_by_idempotency                                                     *)
Existing(tenant_id, key) ==
    {id \in ActionIds : /\ actions[id] # None
                        /\ actions[id].tenant_id = tenant_id
                        /\ actions[id].idempotency_key = key}

(* The one audit event of a transaction.                                   *)
Logged(type, actor) == <<[event_type |-> type, actor_id |-> actor]>>

-----------------------------------------------------------------------------

Init ==
    /\ reviews = {}
    /\ actions = [id \in ActionIds |-> None]
    /\ audit = [id \in ActionIds |-> <<>>]
    /\ enqueued = {}
    /\ pc = [r \in Requests |-> "idle"]
    /\ action = [r \in Requests |-> None]
    /\ receipts = [p \in Processes |-> [k \in Keys |-> None]]
    /\ writes = <<>>
    /\ returned = [id \in ActionIds |-> {}]
    /\ restarts = 0

(* The request is answered, with a result or an HTTP error.                *)
Respond(r) ==
    /\ pc' = [pc EXCEPT ![r] = "idle"]
    /\ action' = [action EXCEPT ![r] = None]

Await(r, where, value) ==
    /\ pc' = [pc EXCEPT ![r] = where]
    /\ action' = [action EXCEPT ![r] = value]

(* save_review, for a review that completes while actions are governed.    *)
SaveReview(v) ==
    /\ v \notin reviews
    /\ reviews' = reviews \cup {v}
    /\ UNCHANGED <<actions, audit, enqueued, requestVars, supplierVars, returned, restarts>>

(* propose_case_action up to the repository: authorise, read the latest    *)
(* review, build the action.                                               *)
ProposeRead(r, principal, case, key) ==
    /\ pc[r] = "idle"
    /\ InTenant(principal, CaseTenant[case])
    /\ ReviewsOf(case) # {}
    /\ HasRole(principal, "analyst")
    /\ Await(r, "propose_lookup",
             [id |-> ActionId(principal, key), case_id |-> case,
              review_id |-> LatestReview(case), tenant_id |-> CaseTenant[case],
              status |-> "pending_approval", proposer_id |-> principal.subject,
              approver_id |-> None, idempotency_key |-> key,
              execution_receipt |-> None])
    /\ UNCHANGED <<dbVars, supplierVars, returned, restarts>>

(* create_proposal's first lookup.  An action found is returned, or is a   *)
(* conflict; either way nothing is written.                                *)
ProposeLookup(r) ==
    /\ pc[r] = "propose_lookup"
    /\ IF Existing(action[r].tenant_id, action[r].idempotency_key) # {}
       THEN Respond(r)
       ELSE Await(r, "propose_insert", action[r])
    /\ UNCHANGED <<dbVars, supplierVars, returned, restarts>>

(* The INSERT violates the primary key or the (tenant, key) constraint.    *)
IntegrityError(a) ==
    actions[a.id] # None \/ Existing(a.tenant_id, a.idempotency_key) # {}

(* Fault seeded in propose: the audit event names the (unset) approver.    *)
ProposeInsertMisattributed(r) ==
    LET a == action[r] IN
    /\ pc[r] = "propose_insert"
    /\ ~IntegrityError(a)
    /\ actions' = [actions EXCEPT ![a.id] = a]
    /\ audit' = [audit EXCEPT ![a.id] = @ \o Logged("proposed", a.approver_id)]
    /\ enqueued' = enqueued \cup {a.id}
    /\ Respond(r)
    /\ UNCHANGED <<reviews, supplierVars, returned, restarts>>

(* Action, audit event and outbox message in one transaction.              *)
ProposeInsert(r) ==
    LET a == action[r] IN
    /\ pc[r] = "propose_insert"
    /\ IF IntegrityError(a)
       THEN Await(r, "propose_relookup", a) /\ UNCHANGED <<actions, audit, enqueued>>
       ELSE /\ actions' = [actions EXCEPT ![a.id] = a]
            /\ audit' = [audit EXCEPT ![a.id] = @ \o Logged("proposed", a.proposer_id)]
            /\ enqueued' = enqueued \cup {a.id}
            /\ Respond(r)
    /\ UNCHANGED <<reviews, supplierVars, returned, restarts>>

(* Who won the race?  With no such action the IntegrityError is raised     *)
(* again and leaves the handler as an internal server error.               *)
ProposeRelookup(r) ==
    /\ pc[r] = "propose_relookup"
    /\ IF Existing(action[r].tenant_id, action[r].idempotency_key) # {}
       THEN Respond(r)
       ELSE Await(r, "internal_error", action[r])
    /\ UNCHANGED <<dbVars, supplierVars, returned, restarts>>

(* Fault seeded in decide: the proposer may decide too.                    *)
MayDecideOwn(principal, a) ==
    /\ HasRole(principal, "approver")
    /\ InTenant(principal, a.tenant_id)

(* decide's checks on the action it has read.                              *)
MayDecide(principal, a) ==
    /\ HasRole(principal, "approver")
    /\ InTenant(principal, a.tenant_id)
    /\ a.proposer_id # principal.subject

(* decide up to save_transition.                                           *)
DecideRead(r, principal, id, status) ==
    /\ pc[r] = "idle"
    /\ actions[id] # None
    /\ MayDecide(principal, actions[id])
    /\ actions[id].status = "pending_approval"
    /\ Await(r, "decide_save", [actions[id] EXCEPT !.status = status,
                                                   !.approver_id = principal.subject])
    /\ UNCHANGED <<dbVars, supplierVars, returned, restarts>>

(* Faults seeded in save_transition: the status is not compared; a         *)
(* decision may be changed until the action is executed.                   *)
TransitionAllowedAlways(id, expected_status) == actions[id] # None
TransitionAllowedRevised(id, expected_status) ==
    /\ actions[id] # None
    /\ \/ actions[id].status = expected_status
       \/ expected_status = "pending_approval" /\ actions[id].status = "approved"

(* save_transition locks the row and compares its status.                  *)
TransitionAllowed(id, expected_status) ==
    actions[id] # None /\ actions[id].status = expected_status

(* Its assignments and the audit event.                                    *)
SaveTransition(a, actor) ==
    /\ actions' = [actions EXCEPT ![a.id] =
                    [@ EXCEPT !.status = a.status, !.approver_id = a.approver_id,
                              !.execution_receipt = a.execution_receipt]]
    /\ audit' = [audit EXCEPT ![a.id] = @ \o Logged(a.status, actor)]
    /\ UNCHANGED <<reviews, enqueued>>

DecideSave(r) ==
    LET a == action[r] IN
    /\ pc[r] = "decide_save"
    /\ IF TransitionAllowed(a.id, "pending_approval")
       THEN SaveTransition(a, a.approver_id)
       ELSE UNCHANGED dbVars
    /\ Respond(r)
    /\ UNCHANGED <<supplierVars, returned, restarts>>

Return(id, receipt) == returned' = [returned EXCEPT ![id] = @ \cup {receipt}]

(* execute's first read, for the service principal, which has every role   *)
(* and passes every tenant check.                                          *)
ExecuteRead(r, id) ==
    /\ pc[r] = "idle"
    /\ actions[id] # None
    /\ \/ /\ actions[id].status = "executed"
          /\ actions[id].execution_receipt # None
          /\ Return(id, actions[id].execution_receipt)
          /\ UNCHANGED requestVars
       \/ /\ actions[id].status = "approved"
          /\ Await(r, "execute_call", actions[id])
          /\ UNCHANGED returned
    /\ UNCHANGED <<dbVars, supplierVars, restarts>>

(* Faults seeded in set_onboarding_decision: earlier receipts are not      *)
(* looked up; any earlier receipt is taken for the caller's.               *)
EarlierReceiptNever(process, key) == None
EarlierReceiptAny(process, key) ==
    IF \A k \in Keys : receipts[process][k] = None THEN None
    ELSE receipts[process][CHOOSE k \in Keys : receipts[process][k] # None]

(* self._receipts.get(idempotency_key)                                     *)
EarlierReceipt(process, key) == receipts[process][key]

(* set_onboarding_decision and the executed action built from its receipt. *)
ExecuteCall(r) ==
    LET a       == action[r]
        process == ProcessOf[r]
        earlier == EarlierReceipt(process, a.idempotency_key)
        fresh   == [action_id |-> a.id, applied |-> a.review_id,
                    executed_at |-> Len(writes) + 1]
        receipt == IF earlier # None THEN earlier ELSE fresh
    IN
    /\ pc[r] = "execute_call"
    /\ IF earlier # None
       THEN UNCHANGED supplierVars
       ELSE /\ writes' = Append(writes, fresh)
            /\ receipts' = [receipts EXCEPT ![process][a.idempotency_key] = fresh]
    /\ Await(r, "execute_save", [a EXCEPT !.status = "executed",
                                          !.execution_receipt = receipt])
    /\ UNCHANGED <<dbVars, returned, restarts>>

ExecuteSave(r) ==
    LET a == action[r] IN
    /\ pc[r] = "execute_save"
    /\ IF TransitionAllowed(a.id, "approved")
       THEN /\ SaveTransition(a, ServiceSubject)
            /\ Return(a.id, a.execution_receipt)
            /\ Respond(r)
       ELSE Await(r, "execute_reload", a) /\ UNCHANGED <<dbVars, returned>>
    /\ UNCHANGED <<supplierVars, restarts>>

(* Fault seeded in execute: after a lost race the caller gets the receipt  *)
(* of its own call.                                                        *)
ExecuteReloadOwn(r) ==
    /\ pc[r] = "execute_reload"
    /\ Return(action[r].id, action[r].execution_receipt)
    /\ Respond(r)
    /\ UNCHANGED <<dbVars, supplierVars, restarts>>

(* Another execution was faster: answer with the receipt that is stored.   *)
ExecuteReload(r) ==
    LET current == actions[action[r].id] IN
    /\ pc[r] = "execute_reload"
    /\ IF current # None /\ current.status = "executed" /\ current.execution_receipt # None
       THEN Return(action[r].id, current.execution_receipt) /\ Respond(r)
       ELSE Await(r, "internal_error", action[r]) /\ UNCHANGED returned
    /\ UNCHANGED <<dbVars, supplierVars, restarts>>

(* The API process ends or its client goes away in mid-request, or the     *)
(* handler has raised and the request is answered with an internal error.  *)
Abandon(r) ==
    /\ pc[r] # "idle"
    /\ Respond(r)
    /\ UNCHANGED <<dbVars, supplierVars, returned, restarts>>

(* An MCP process is replaced: its requests and its receipts are gone.     *)
RestartMcp(p) ==
    /\ restarts < MaxRestarts
    /\ restarts' = restarts + 1
    /\ pc' = [r \in Requests |->
                IF r \in McpRequests /\ ProcessOf[r] = p THEN "idle" ELSE pc[r]]
    /\ action' = [r \in Requests |->
                IF r \in McpRequests /\ ProcessOf[r] = p THEN None ELSE action[r]]
    /\ receipts' = [receipts EXCEPT ![p] = [k \in Keys |-> None]]
    /\ UNCHANGED <<dbVars, writes, returned>>

ApiNext(r) ==
    \/ \E p \in Users, c \in Cases : \E k \in KeysOf[p.tenant_id] : ProposeRead(r, p, c, k)
    \/ ProposeLookup(r) \/ ProposeInsert(r) \/ ProposeRelookup(r)
    \/ \E p \in Users, id \in ActionIds, s \in {"approved", "rejected"} :
            DecideRead(r, p, id, s)
    \/ DecideSave(r) \/ Abandon(r)

McpNext(r) ==
    \/ \E id \in ActionIds : ExecuteRead(r, id)
    \/ ExecuteCall(r) \/ ExecuteSave(r) \/ ExecuteReload(r)

Next ==
    \/ \E v \in Reviews : SaveReview(v)
    \/ \E r \in ApiRequests : ApiNext(r)
    \/ \E r \in McpRequests : McpNext(r)
    \/ \E p \in Processes : RestartMcp(p)

Spec == Init /\ [][Next]_vars

-----------------------------------------------------------------------------
(* Properties.                                                             *)

TypeOK ==
    /\ reviews \subseteq Reviews
    /\ actions \in [ActionIds -> Action \cup {None}]
    /\ audit \in [ActionIds -> Seq(Event)]
    /\ enqueued \subseteq ActionIds
    /\ pc \in [Requests -> {"idle", "propose_lookup", "propose_insert",
                            "propose_relookup", "decide_save", "execute_call",
                            "execute_save", "execute_reload", "internal_error"}]
    /\ action \in [Requests -> Action \cup {None}]
    /\ receipts \in [Processes -> [Keys -> Receipt \cup {None}]]
    /\ writes \in Seq(Receipt)
    /\ returned \in [ActionIds -> SUBSET Receipt]
    /\ restarts \in Nat

(* A principal with the approver role in the action's tenant, other than   *)
(* the proposer, stands behind the action.                                 *)
Approved(a) ==
    \E p \in Users : /\ p.subject = a.approver_id
                     /\ p.subject # a.proposer_id
                     /\ "approver" \in p.roles \/ "admin" \in p.roles
                     /\ p.tenant_id = a.tenant_id \/ "admin" \in p.roles

(* No write without authority: whatever the supplier system was told was   *)
(* approved by somebody else than the proposer, is exactly what was        *)
(* proposed, and can no longer be rejected (decide, execute).              *)
WritesAuthorised ==
    \A i \in 1..Len(writes) :
        LET a == actions[writes[i].action_id] IN
        /\ a # None
        /\ a.status \in {"approved", "executed"}
        /\ Approved(a)
        /\ writes[i].applied = a.review_id

(* The audit events an action must have, given what is stored of it.       *)
Trail(a) ==
    LET proposed == Logged("proposed", a.proposer_id)
        decided(status) == proposed \o Logged(status, a.approver_id)
    IN  CASE a.status = "pending_approval" -> proposed
          [] a.status \in {"approved", "rejected"} -> decided(a.status)
          [] a.status = "executed" -> decided("approved") \o Logged("executed", ServiceSubject)

(* Audit history cannot disagree with a committed transition, and every    *)
(* action has its outbox message (create_proposal, save_transition): one   *)
(* event per transition, in order, naming who made it, however many        *)
(* requests raced to make it.                                              *)
AuditAgrees ==
    \A id \in ActionIds :
        /\ audit[id] = IF actions[id] = None THEN <<>> ELSE Trail(actions[id])
        /\ id \in enqueued <=> actions[id] # None

(* Every caller of execute is given the receipt that is stored, although   *)
(* several may have called the supplier system (execute's reload).         *)
ReceiptsAgree ==
    \A id \in ActionIds :
        returned[id] # {} =>
            actions[id] # None /\ returned[id] = {actions[id].execution_receipt}

(* An execution that loses the race for save_transition is never answered  *)
(* with an error: the reload finds the action executed (execute).          *)
LateExecutionAnswered == \A r \in McpRequests : pc[r] # "internal_error"

(* The supplier system is written once per action, across retries and      *)
(* replicas (ADR 0003; InMemorySupplierSystem keeps its receipts per       *)
(* process).                                                               *)
AppliedOnce ==
    \A i, j \in 1..Len(writes) :
        writes[i].action_id = writes[j].action_id => i = j

(* An executed action stores a receipt of its own write (the supplier      *)
(* system looks receipts up by the idempotency key alone).                 *)
ReceiptOfOwnWrite ==
    \A id \in ActionIds :
        actions[id] # None /\ actions[id].status = "executed" =>
            /\ actions[id].execution_receipt.action_id = id
            /\ \E i \in 1..Len(writes) : writes[i] = actions[id].execution_receipt

(* Idempotency keys are unique per tenant and nothing more: a proposal     *)
(* with a key its tenant has not used is never refused, and one with a     *)
(* used key, or that loses the race for it, finds the action that has it   *)
(* (create_proposal re-raises an IntegrityError that no action of the      *)
(* tenant explains).                                                       *)
FreshKeyAccepted == \A r \in ApiRequests : pc[r] # "internal_error"

-----------------------------------------------------------------------------
(* The promise to the enterprise, and how the rows show it.                *)

ProposalOf(id) ==
    IF actions[id] = None THEN None
    ELSE [proposer_id |-> actions[id].proposer_id, tenant_id |-> actions[id].tenant_id,
          applied |-> actions[id].review_id]

DecisionOf(id) ==
    IF actions[id] = None THEN None
    ELSE IF actions[id].status = "pending_approval" THEN None
    ELSE [approver_id |-> actions[id].approver_id,
          status |-> IF actions[id].status = "rejected" THEN "rejected" ELSE "approved"]

ReceiptOf(id) == IF actions[id] = None THEN None ELSE actions[id].execution_receipt

MayDecideIn(subject, tenant_id) ==
    \E p \in Users : /\ p.subject = subject
                     /\ HasRole(p, "approver")
                     /\ InTenant(p, tenant_id)

Promise == INSTANCE GovernedAction WITH
    Ids <- ActionIds,
    Proposals <- Proposal,
    Authority <- MayDecideIn,
    proposal <- [id \in ActionIds |-> ProposalOf(id)],
    decision <- [id \in ActionIds |-> DecisionOf(id)],
    receipt <- [id \in ActionIds |-> ReceiptOf(id)]

(* Governance keeps its promise: with any number of requests and processes *)
(* at work, stale reads, lost races and restarts included, every step is a *)
(* proposal, a decision, a write or a completion as GovernedAction allows  *)
(* it, or changes nothing that anybody relies on; a stale request undoes   *)
(* nothing (create_proposal, save_transition, execute).                    *)
ImplementsGovernedAction == Promise!Spec

=============================================================================
