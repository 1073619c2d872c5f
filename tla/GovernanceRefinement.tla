------------------------ MODULE GovernanceRefinement ------------------------
(***************************************************************************)
(* Governance implements GovernedAction: under the mapping of              *)
(* Governance!Promise every step is a step of the abstract specification   *)
(* or changes nothing it can see.                                          *)
(***************************************************************************)
EXTENDS GovernanceProofs

(* A step that changes neither rows nor writes is a stutter.               *)
LEMMA InvisibleStutters ==
    ASSUME UNCHANGED <<actions, writes>>
    PROVE  UNCHANGED Promise!vars
BY DEF Promise!vars, ProposalOf, DecisionOf, ReceiptOf

(* Before anything is proposed the promise is in its initial state.        *)
LEMMA InitPromise == Init => Promise!Init
BY DEF Init, Promise!Init, ProposalOf, DecisionOf, ReceiptOf

(* A row that stays as it is looks as it did.                              *)
LEMMA OthersLookTheSame ==
    ASSUME NEW id, actions'[id] = actions[id]
    PROVE  /\ ProposalOf(id)' = ProposalOf(id)
           /\ DecisionOf(id)' = DecisionOf(id)
           /\ ReceiptOf(id)' = ReceiptOf(id)
BY DEF ProposalOf, DecisionOf, ReceiptOf

(* An insert is the promise's Propose.                                     *)
LEMMA InsertProposes ==
    ASSUME IInv, NEW r \in ApiRequests, ProposeInsert(r)
    PROVE  Promise!Propose(action[r].id) \/ UNCHANGED Promise!vars
<1>1. /\ pc[r] = "propose_insert" /\ r \in Requests /\ writes' = writes
    BY DEF ProposeInsert, Requests, supplierVars
<1>2. RequestOK(r)
    BY <1>1 DEF IInv, RequestsOK
<1>3. PICK a \in Action : a = action[r]
    BY <1>1, <1>2 DEF RequestOK
<1>4. /\ a.id \in ActionIds /\ a.proposer_id \in Subjects /\ a.tenant_id \in Tenants
      /\ a.review_id \in Reviews /\ a.status = "pending_approval"
      /\ a.execution_receipt = None /\ a # None
    BY <1>1, <1>2, <1>3, NoneIsNothing DEF RequestOK, ProposingOK, Proposing, Action
<1>5. CASE IntegrityError(a)
    BY <1>1, <1>3, <1>5, InvisibleStutters DEF ProposeInsert
<1>6. CASE ~IntegrityError(a)
  <2>1. actions' = [actions EXCEPT ![a.id] = a] /\ actions[a.id] = None
    BY <1>3, <1>6 DEF ProposeInsert, IntegrityError
  <2>2. /\ actions'[a.id] = a
        /\ \A id \in ActionIds : id # a.id => actions'[id] = actions[id]
    BY <1>4, <2>1 DEF IInv, TypeOK
  <2>3. ProposalOf(a.id) = None /\ DecisionOf(a.id) = None /\ ReceiptOf(a.id) = None
    BY <2>1 DEF ProposalOf, DecisionOf, ReceiptOf
  <2>4. ProposalOf(a.id)' \in Proposal /\ DecisionOf(a.id)' = None /\ ReceiptOf(a.id)' = None
    BY <1>4, <2>2 DEF ProposalOf, DecisionOf, ReceiptOf, Proposal
  <2>5. \A id \in ActionIds : id # a.id =>
            /\ ProposalOf(id)' = ProposalOf(id) /\ DecisionOf(id)' = DecisionOf(id)
            /\ ReceiptOf(id)' = ReceiptOf(id)
    BY <2>2, OthersLookTheSame
  <2>6. Promise!Propose(a.id)
    BY <1>1, <1>4, <2>3, <2>4, <2>5 DEF Promise!Propose
  <2> QED
    BY <1>3, <2>6
<1> QED
    BY <1>5, <1>6

(* The row that a transition leaves, as the promise sees it.               *)
LEMMA TransitionSeen ==
    ASSUME IInv, NEW a \in Action, NEW actor, a.id \in ActionIds, actions[a.id] # None,
           a.status # "pending_approval", SaveTransition(a, actor)
    PROVE  /\ ProposalOf(a.id)' = ProposalOf(a.id)
           /\ DecisionOf(a.id)' =
                [approver_id |-> a.approver_id,
                 status |-> IF a.status = "rejected" THEN "rejected" ELSE "approved"]
           /\ ReceiptOf(a.id)' = a.execution_receipt
           /\ \A id \in ActionIds : id # a.id =>
                /\ ProposalOf(id)' = ProposalOf(id) /\ DecisionOf(id)' = DecisionOf(id)
                /\ ReceiptOf(id)' = ReceiptOf(id)
<1>1. PICK b \in Action : b = actions[a.id]
    BY DEF IInv, TypeOK
<1>2. PICK c : /\ c = [b EXCEPT !.status = a.status, !.approver_id = a.approver_id,
                                !.execution_receipt = a.execution_receipt]
               /\ actions' = [actions EXCEPT ![a.id] = c]
    BY <1>1, Zenon DEF SaveTransition
<1>3. /\ c \in Action /\ SameProposal(c, b) /\ c.status = a.status
      /\ c.approver_id = a.approver_id /\ c.execution_receipt = a.execution_receipt
    BY <1>2 DEF Action, SameProposal
<1>4. /\ actions'[a.id] = c /\ c # None
      /\ \A id \in ActionIds : id # a.id => actions'[id] = actions[id]
    BY <1>2, <1>3, NoneIsNothing DEF IInv, TypeOK
<1>5. ProposalOf(a.id)' = ProposalOf(a.id)
    BY <1>1, <1>3, <1>4 DEF ProposalOf, SameProposal
<1>6. DecisionOf(a.id)' =
        [approver_id |-> a.approver_id,
         status |-> IF a.status = "rejected" THEN "rejected" ELSE "approved"]
    BY <1>3, <1>4 DEF DecisionOf
<1>7. ReceiptOf(a.id)' = a.execution_receipt
    BY <1>3, <1>4 DEF ReceiptOf
<1> QED
    BY <1>4, <1>5, <1>6, <1>7, OthersLookTheSame

(* A saved decision is the promise's Decide.                               *)
LEMMA SaveDecides ==
    ASSUME IInv, NEW r \in ApiRequests, DecideSave(r)
    PROVE  Promise!Decide(action[r].id) \/ UNCHANGED Promise!vars
<1>1. pc[r] = "decide_save" /\ r \in Requests /\ writes' = writes
    BY DEF DecideSave, Requests, supplierVars
<1>2. RequestOK(r)
    BY <1>1 DEF IInv, RequestsOK
<1>3. PICK a \in Action : a = action[r]
    BY <1>1, <1>2 DEF RequestOK
<1>4. /\ a.id \in ActionIds /\ SameProposal(a, actions[a.id])
      /\ a.status \in {"approved", "rejected"} /\ a.approver_id \in Subjects
      /\ Approved(a) /\ a.execution_receipt = None
    BY <1>1, <1>2, <1>3 DEF RequestOK, DecidingOK, RowOf, Action
<1>5. CASE ~TransitionAllowed(a.id, "pending_approval")
    BY <1>1, <1>3, <1>5, InvisibleStutters DEF DecideSave, dbVars
<1>6. CASE TransitionAllowed(a.id, "pending_approval")
  <2>1. /\ SaveTransition(a, a.approver_id) /\ actions[a.id] # None
        /\ actions[a.id].status = "pending_approval"
    BY <1>3, <1>6 DEF DecideSave, TransitionAllowed
  <2>2. actions[a.id] \in Action
    BY <1>4, <2>1 DEF IInv, TypeOK
  <2>3. ProposalOf(a.id) = [proposer_id |-> a.proposer_id, tenant_id |-> a.tenant_id,
                            applied |-> a.review_id]
    BY <1>4, <2>1 DEF ProposalOf, SameProposal
  <2>4. ProposalOf(a.id) # None
    <3>1. [proposer_id |-> a.proposer_id, tenant_id |-> a.tenant_id,
           applied |-> a.review_id] \in Proposal
        BY DEF Proposal, Action
    <3> QED
        BY <2>3, <3>1, NoneIsNothing
  <2>5. DecisionOf(a.id) = None /\ ReceiptOf(a.id) = None
    BY <1>4, <2>1 DEF DecisionOf, ReceiptOf, IInv, RowsOK, RowOK
  <2>6. /\ ProposalOf(a.id)' = ProposalOf(a.id) /\ ReceiptOf(a.id)' = ReceiptOf(a.id)
        /\ DecisionOf(a.id)' =
                [approver_id |-> a.approver_id,
                 status |-> IF a.status = "rejected" THEN "rejected" ELSE "approved"]
        /\ \A id \in ActionIds : id # a.id =>
                /\ ProposalOf(id)' = ProposalOf(id) /\ DecisionOf(id)' = DecisionOf(id)
                /\ ReceiptOf(id)' = ReceiptOf(id)
    BY <1>4, <2>1, <2>5, TransitionSeen
  <2>7. DecisionOf(a.id)' \in Decision /\ DecisionOf(a.id)'.approver_id = a.approver_id
    BY <1>4, <2>6 DEF Decision
  <2>8. a.approver_id # a.proposer_id /\ MayDecideIn(a.approver_id, a.tenant_id)
    BY <1>4 DEF Approved, MayDecideIn, HasRole, InTenant
  <2>9. Promise!Decide(a.id)
    BY <1>1, <1>4, <2>3, <2>4, <2>5, <2>6, <2>7, <2>8 DEF Promise!Decide, Decision
  <2> QED
    BY <1>3, <2>9
<1> QED
    BY <1>5, <1>6

(* A call of the supplier system is the promise's Write, or invisible.     *)
LEMMA CallWrites ==
    ASSUME IInv, NEW r \in McpRequests, ExecuteCall(r)
    PROVE  Promise!Write(action[r].id) \/ UNCHANGED Promise!vars
<1>1. pc[r] = "execute_call" /\ r \in Requests /\ actions' = actions
    BY DEF ExecuteCall, Requests, dbVars
<1>2. RequestOK(r)
    BY <1>1 DEF IInv, RequestsOK
<1>3. PICK a \in Action : a = action[r]
    BY <1>1, <1>2 DEF RequestOK
<1>4. /\ a.id \in ActionIds /\ actions[a.id] # None /\ SameProposal(a, actions[a.id])
      /\ actions[a.id].status \in {"approved", "executed"}
    BY <1>1, <1>2, <1>3 DEF RequestOK, ExecutingOK, Executing, RowOf, Action
<1>5. CASE UNCHANGED supplierVars
    BY <1>1, <1>5, InvisibleStutters DEF supplierVars
<1>6. CASE ~UNCHANGED supplierVars
  <2>1. writes' = Append(writes, [action_id |-> a.id, applied |-> a.review_id,
                                  executed_at |-> Len(writes) + 1])
    BY <1>3, <1>6 DEF ExecuteCall
  <2>2. DecisionOf(a.id) = [approver_id |-> actions[a.id].approver_id, status |-> "approved"]
    BY <1>4 DEF DecisionOf
  <2>3. DecisionOf(a.id) # None /\ DecisionOf(a.id).status = "approved"
    <3>1. actions[a.id].approver_id \in Subjects
        BY <1>4 DEF IInv, RowsOK, RowOK
    <3>2. DecisionOf(a.id) \in Decision
        BY <2>2, <3>1 DEF Decision
    <3> QED
        BY <2>2, <3>2, NoneIsNothing
  <2>4. ProposalOf(a.id).applied = a.review_id
    BY <1>4 DEF ProposalOf, SameProposal
  <2>5. \A id \in ActionIds :
            /\ ProposalOf(id)' = ProposalOf(id) /\ DecisionOf(id)' = DecisionOf(id)
            /\ ReceiptOf(id)' = ReceiptOf(id)
    BY <1>1, OthersLookTheSame
  <2>6. Promise!Write(a.id)
    BY <1>4, <2>1, <2>3, <2>4, <2>5 DEF Promise!Write, Promise!IsApproved
  <2> QED
    BY <1>3, <2>6
<1> QED
    BY <1>5, <1>6

(* A saved execution is the promise's Complete: without shared keys the    *)
(* receipt found under the key is that of the action's own write.          *)
LEMMA SaveCompletes ==
    ASSUME IInv, KeysUnshared, NEW r \in McpRequests, ExecuteSave(r)
    PROVE  Promise!Complete(action[r].id) \/ UNCHANGED Promise!vars
<1>1. pc[r] = "execute_save" /\ r \in Requests /\ writes' = writes
    BY DEF ExecuteSave, Requests, supplierVars
<1>2. RequestOK(r)
    BY <1>1 DEF IInv, RequestsOK
<1>3. PICK a \in Action : a = action[r]
    BY <1>1, <1>2 DEF RequestOK
<1>4. /\ a.id \in ActionIds /\ a.idempotency_key = a.id[2]
      /\ actions[a.id] # None /\ actions[a.id].approver_id = a.approver_id
      /\ a.status = "executed" /\ Known(a.execution_receipt, a.id[2])
    BY <1>1, <1>2, <1>3 DEF RequestOK, ExecutingOK, SavingOK, Executing, RowOf, Action
<1>5. CASE ~TransitionAllowed(a.id, "approved")
    BY <1>1, <1>3, <1>5, InvisibleStutters DEF ExecuteSave, dbVars
<1>6. CASE TransitionAllowed(a.id, "approved")
  <2>1. SaveTransition(a, ServiceSubject) /\ actions[a.id].status = "approved"
    BY <1>3, <1>6 DEF ExecuteSave, TransitionAllowed
  <2>2. RowOK(a.id)
    BY <1>4 DEF IInv, RowsOK
  <2>3. DecisionOf(a.id) = [approver_id |-> a.approver_id, status |-> "approved"]
    BY <1>4, <2>1 DEF DecisionOf
  <2>4. DecisionOf(a.id) # None /\ DecisionOf(a.id).status = "approved"
    <3>1. DecisionOf(a.id) \in Decision
        BY <1>4, <2>1, <2>2, <2>3 DEF Decision, RowOK
    <3> QED
        BY <2>3, <3>1, NoneIsNothing
  <2>5. ReceiptOf(a.id) = None
    BY <1>4, <2>1, <2>2 DEF ReceiptOf, RowOK
  <2>6. /\ ProposalOf(a.id)' = ProposalOf(a.id) /\ DecisionOf(a.id)' = DecisionOf(a.id)
        /\ ReceiptOf(a.id)' = a.execution_receipt
        /\ \A id \in ActionIds : id # a.id =>
                /\ ProposalOf(id)' = ProposalOf(id) /\ DecisionOf(id)' = DecisionOf(id)
                /\ ReceiptOf(id)' = ReceiptOf(id)
    BY <1>4, <2>1, <2>3, TransitionSeen
  <2>7. PICK i \in 1..Len(writes) :
            writes[i] = a.execution_receipt /\ writes[i].action_id[2] = a.id[2]
    BY <1>4 DEF Known
  <2>8. writes[i].action_id = a.id
    <3>1. writes[i].action_id \in ActionIds /\ actions[writes[i].action_id] # None
        BY WritesType DEF IInv, WritesAuthorised, Receipt
    <3> QED
        BY <1>4, <2>7, <3>1 DEF KeysUnshared
  <2>9. Promise!Complete(a.id)
    BY <1>1, <1>4, <2>4, <2>5, <2>6, <2>7, <2>8 DEF Promise!Complete, Promise!IsApproved
  <2> QED
    BY <1>3, <2>9
<1> QED
    BY <1>5, <1>6

(* Every step implements a step of the promise.                            *)
LEMMA NextPromise ==
    IInv /\ KeysUnshared /\ [Next]_vars => [Promise!Next]_(Promise!vars)
<1> SUFFICES ASSUME IInv, KeysUnshared, [Next]_vars
             PROVE  Promise!Next \/ UNCHANGED Promise!vars
    OBVIOUS
<1>1. ASSUME NEW r \in Requests, pc[r] # "idle" PROVE action[r].id \in ActionIds
    BY <1>1 DEF IInv, RequestsOK, RequestOK, Action
<1>2. ASSUME NEW r \in ApiRequests, ProposeInsert(r)
      PROVE  Promise!Next \/ UNCHANGED Promise!vars
  <2>1. action[r].id \in ActionIds
    BY <1>1, <1>2 DEF ProposeInsert, Requests
  <2> QED
    BY <1>2, <2>1, InsertProposes DEF Promise!Next
<1>3. ASSUME NEW r \in ApiRequests, DecideSave(r)
      PROVE  Promise!Next \/ UNCHANGED Promise!vars
  <2>1. action[r].id \in ActionIds
    BY <1>1, <1>3 DEF DecideSave, Requests
  <2> QED
    BY <1>3, <2>1, SaveDecides DEF Promise!Next
<1>4. ASSUME NEW r \in McpRequests, ExecuteCall(r)
      PROVE  Promise!Next \/ UNCHANGED Promise!vars
  <2>1. action[r].id \in ActionIds
    BY <1>1, <1>4 DEF ExecuteCall, Requests
  <2> QED
    BY <1>4, <2>1, CallWrites DEF Promise!Next
<1>5. ASSUME NEW r \in McpRequests, ExecuteSave(r)
      PROVE  Promise!Next \/ UNCHANGED Promise!vars
  <2>1. action[r].id \in ActionIds
    BY <1>1, <1>5 DEF ExecuteSave, Requests
  <2> QED
    BY <1>5, <2>1, SaveCompletes DEF Promise!Next
<1>6. CASE UNCHANGED <<actions, writes>>
    BY <1>6, InvisibleStutters
<1> QED
    BY <1>2, <1>3, <1>4, <1>5, <1>6
       DEF Next, vars, dbVars, supplierVars, SaveReview, ApiNext, McpNext, ProposeRead,
           ProposeLookup, ProposeRelookup, DecideRead, Abandon, ExecuteRead,
           ExecuteReload, RestartMcp

(* Where tenants choose different keys, Governance implements              *)
(* GovernedAction: whatever requests, processes, stale reads, lost races   *)
(* and restarts there are, what becomes visible is one proposal, one       *)
(* authorised decision, writes of approved actions only and one completion *)
(* with a receipt of the action's own write (propose, decide, execute).    *)
THEOREM Refinement ==
    ASSUME KeysApart
    PROVE  Spec => ImplementsGovernedAction
<1>1. Init => Promise!Init
    BY InitPromise
<1>2. IInv /\ KeysUnshared /\ [Next]_vars => [Promise!Next]_(Promise!vars)
    BY NextPromise
<1>3. Spec => []KeysUnshared
    BY KeysStayApart
<1> QED
    BY <1>1, <1>2, <1>3, Invariance, PTL DEF Spec, ImplementsGovernedAction, Promise!Spec

=============================================================================
