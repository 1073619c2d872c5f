-------------------------- MODULE GovernanceProofs --------------------------
(***************************************************************************)
(* Proofs about module Governance, for any tenants, keys, users, cases and *)
(* reviews and any number of concurrent requests and processes.  The       *)
(* inductive invariant IInv says what a suspended request may still rely   *)
(* on although everything it has read may be stale.                        *)
(***************************************************************************)
EXTENDS Governance, TLAPS

(* Two versions of one proposal: nothing but decision and result differ.   *)
SameProposal(a, b) ==
    /\ a.id = b.id /\ a.case_id = b.case_id /\ a.review_id = b.review_id
    /\ a.tenant_id = b.tenant_id /\ a.proposer_id = b.proposer_id
    /\ a.idempotency_key = b.idempotency_key

(* The receipt is that of a write under the key.                           *)
Known(receipt, key) ==
    \E i \in 1..Len(writes) : writes[i] = receipt /\ receipt.action_id[2] = key

(* What the status of a row says of its other columns.                     *)
RowOK(id) ==
    LET a == actions[id] IN
    /\ a.id = id /\ a.idempotency_key = id[2]
    /\ a.status = "pending_approval" => a.approver_id = None
    /\ a.status # "pending_approval" => a.approver_id \in Subjects /\ Approved(a)
    /\ a.status # "executed" => a.execution_receipt = None
    /\ a.status = "executed" =>
          a.execution_receipt \in Receipt /\ Known(a.execution_receipt, id[2])

RowsOK == \A id \in ActionIds : actions[id] # None => RowOK(id)

Proposing == {"propose_lookup", "propose_insert", "propose_relookup"}
Executing == {"execute_call", "execute_save", "execute_reload"}

(* The row of the action that the request works on.                        *)
RowOf(r) == actions[action[r].id]

(* A proposal is as it was built.                                          *)
ProposingOK(r) ==
    /\ action[r].status = "pending_approval"
    /\ action[r].approver_id = None
    /\ action[r].execution_receipt = None

(* A decision is one its maker may make.                                   *)
DecidingOK(r) ==
    /\ RowOf(r) # None
    /\ SameProposal(action[r], RowOf(r))
    /\ action[r].status \in {"approved", "rejected"}
    /\ action[r].approver_id \in Subjects
    /\ Approved(action[r])
    /\ action[r].execution_receipt = None

(* What is being executed is still approved, by the same person.           *)
ExecutingOK(r) ==
    /\ RowOf(r) # None
    /\ SameProposal(action[r], RowOf(r))
    /\ RowOf(r).status \in {"approved", "executed"}
    /\ RowOf(r).approver_id = action[r].approver_id

(* An execution that has called the supplier system holds a receipt.       *)
SavingOK(r) ==
    /\ action[r].status = "executed"
    /\ action[r].execution_receipt \in Receipt
    /\ Known(action[r].execution_receipt, action[r].idempotency_key)

RequestOK(r) ==
    /\ pc[r] # "idle" => action[r] \in Action /\ action[r].idempotency_key = action[r].id[2]
    /\ pc[r] \in Proposing => ProposingOK(r)
    /\ pc[r] = "decide_save" => DecidingOK(r)
    /\ pc[r] \in Executing => ExecutingOK(r)
    /\ pc[r] = "execute_save" => SavingOK(r)
    /\ pc[r] = "execute_reload" => RowOf(r).status = "executed"
    /\ r \in McpRequests => pc[r] \in Executing \cup {"idle"}

RequestsOK == \A r \in Requests : RequestOK(r)

(* The receipts a process remembers are receipts of writes.                *)
ReceiptsOK ==
    \A p \in Processes : \A k \in Keys :
        receipts[p][k] # None => Known(receipts[p][k], k)

(* A receipt was handed out only of an executed action.                    *)
ReturnedOK ==
    \A id \in ActionIds :
        returned[id] # {} =>
            /\ actions[id] # None /\ actions[id].status = "executed"
            /\ returned[id] = {actions[id].execution_receipt}

(* A case with reviews has a latest one.                                   *)
LatestOK ==
    \A c \in Cases : ReviewsOf(c) # {} =>
        \E v \in ReviewsOf(c) : \A u \in ReviewsOf(c) : u <= v

IInv ==
    /\ TypeOK
    /\ LatestOK
    /\ RowsOK
    /\ RequestsOK
    /\ ReceiptsOK
    /\ ReturnedOK
    /\ WritesAuthorised
    /\ AuditAgrees

-----------------------------------------------------------------------------
(* Facts about the operators.                                              *)

(* Rows do not go back: a proposal stays what it is, what was approved     *)
(* stays approved by the same person, what was rejected or executed does   *)
(* not change.                                                             *)
RowsAdvance ==
    \A id \in ActionIds : actions[id] # None =>
        /\ actions'[id] # None
        /\ SameProposal(actions'[id], actions[id])
        /\ actions[id].status \in {"approved", "executed"} =>
              /\ actions'[id].status \in {"approved", "executed"}
              /\ actions'[id].approver_id = actions[id].approver_id
        /\ actions[id].status \in {"rejected", "executed"} => actions'[id] = actions[id]

(* Writes of the supplier system are never undone.                         *)
WritesGrow ==
    /\ Len(writes) <= Len(writes')
    /\ \A i \in 1..Len(writes) : writes'[i] = writes[i]

(* None is told from every row, receipt and subject.                       *)
LEMMA NoneIsNothing ==
    /\ None \notin Subjects /\ None \notin Action /\ None \notin Receipt
    /\ None \notin Proposal /\ None \notin Decision
BY NoneAssumption

(* The supplier system's log has a length, and its entries are receipts.   *)
LEMMA WritesType ==
    ASSUME TypeOK
    PROVE  /\ Len(writes) \in Nat
           /\ \A i \in 1..Len(writes) : writes[i] \in Receipt
BY DEF TypeOK

(* The identifier of an action has the tenant and the key of its caller.   *)
LEMMA IdType ==
    ASSUME NEW id \in ActionIds
    PROVE  id[1] \in Tenants /\ id[2] \in Keys /\ id = <<id[1], id[2]>>
BY DEF ActionIds

-----------------------------------------------------------------------------
(* What a step that leaves a request alone leaves it.                      *)

(* A request keeps what it relies on while rows only advance and writes    *)
(* only grow.                                                              *)
LEMMA RequestKept ==
    ASSUME IInv, RowsAdvance, WritesGrow, Len(writes') \in Nat,
           NEW r \in Requests, pc'[r] = pc[r], action'[r] = action[r]
    PROVE  RequestOK(r)'
<1>1. RequestOK(r)
    BY DEF IInv, RequestsOK
<1>2. CASE pc[r] = "idle"
    BY <1>2 DEF RequestOK, Proposing, Executing
<1>3. CASE pc[r] # "idle"
  <2>1. action[r] \in Action /\ action[r].id \in ActionIds
    BY <1>1, <1>3 DEF RequestOK, Action
  <2>2. pc[r] = "decide_save" => DecidingOK(r)'
    BY <1>1, <2>1 DEF RequestOK, DecidingOK, RowOf, RowsAdvance, SameProposal
  <2>3. pc[r] \in Executing => ExecutingOK(r)'
    BY <1>1, <2>1 DEF RequestOK, ExecutingOK, RowOf, RowsAdvance, SameProposal
  <2>4. pc[r] = "execute_save" => SavingOK(r)'
    <3>1. Len(writes) \in Nat
        BY WritesType DEF IInv
    <3> QED
        BY <1>1, <2>1, <3>1 DEF RequestOK, SavingOK, Known, WritesGrow
  <2>5. pc[r] = "execute_reload" => RowOf(r)'.status = "executed"
    BY <1>1, <2>1 DEF RequestOK, ExecutingOK, RowOf, RowsAdvance, Executing
  <2>6. pc[r] \in Proposing => ProposingOK(r)'
    BY <1>1 DEF RequestOK, ProposingOK
  <2> QED
    BY <1>1, <2>1, <2>2, <2>3, <2>4, <2>5, <2>6 DEF RequestOK
<1> QED
    BY <1>2, <1>3

(* A request that is answered has nothing left to rely on.                 *)
LEMMA RequestIdle ==
    ASSUME NEW r \in Requests, pc'[r] = "idle"
    PROVE  RequestOK(r)'
BY DEF RequestOK, Proposing, Executing

(* A step of one request that changes no table, no receipt and no write.   *)
LEMMA PrivateStep ==
    ASSUME IInv, NEW r \in Requests, TypeOK', RequestOK(r)',
           UNCHANGED <<dbVars, receipts, writes, returned>>,
           \A q \in Requests : q # r => pc'[q] = pc[q] /\ action'[q] = action[q]
    PROVE  IInv'
<1>1. RowsAdvance /\ WritesGrow /\ Len(writes') \in Nat
    BY WritesType DEF IInv, RowsAdvance, WritesGrow, SameProposal, dbVars
<1>2. RequestsOK'
    BY <1>1, RequestKept DEF RequestsOK, Requests
<1>3. RowsOK' /\ ReceiptsOK' /\ ReturnedOK' /\ WritesAuthorised' /\ AuditAgrees' /\ LatestOK'
    BY DEF IInv, RowsOK, RowOK, Known, ReceiptsOK, ReturnedOK, WritesAuthorised, AuditAgrees,
           LatestOK, ReviewsOf, dbVars
<1> QED
    BY <1>2, <1>3 DEF IInv

-----------------------------------------------------------------------------
(* The steps.                                                              *)

(* Nothing has been proposed, read or written at first.                    *)
LEMMA InitIInv == Init => IInv
<1> SUFFICES ASSUME Init PROVE IInv
    OBVIOUS
<1>1. TypeOK
    BY DEF Init, TypeOK
<1>2. RowsOK /\ ReceiptsOK /\ ReturnedOK /\ AuditAgrees /\ LatestOK
    BY DEF Init, LatestOK, ReviewsOf, RowsOK, ReceiptsOK, ReturnedOK, AuditAgrees
<1>3. WritesAuthorised
    BY DEF Init, WritesAuthorised
<1>4. RequestsOK
    BY DEF Init, RequestsOK, RequestOK, Proposing, Executing
<1> QED
    BY <1>1, <1>2, <1>3, <1>4 DEF IInv

(* Answering a request, and nothing else.                                  *)
LEMMA RespondStep ==
    ASSUME IInv, NEW r \in Requests, Respond(r),
           UNCHANGED <<dbVars, supplierVars, returned, restarts>>
    PROVE  IInv'
<1>1. TypeOK'
    BY DEF IInv, TypeOK, Respond, dbVars, supplierVars
<1>2. /\ pc'[r] = "idle"
      /\ \A q \in Requests : q # r => pc'[q] = pc[q] /\ action'[q] = action[q]
    BY DEF IInv, TypeOK, Respond
<1>3. RequestOK(r)'
    BY <1>2, RequestIdle
<1> QED
    BY <1>1, <1>2, <1>3, PrivateStep DEF dbVars, supplierVars

(* Suspending a request with an action, and nothing else.                  *)
LEMMA AwaitStep ==
    ASSUME IInv, NEW r \in Requests, NEW value \in Action,
           NEW where \in {"propose_lookup", "propose_insert", "propose_relookup",
                          "decide_save", "execute_call", "execute_save",
                          "execute_reload", "internal_error"},
           Await(r, where, value), RequestOK(r)',
           UNCHANGED <<dbVars, supplierVars, returned, restarts>>
    PROVE  IInv'
<1>1. TypeOK'
    BY DEF IInv, TypeOK, Await, dbVars, supplierVars
<1>2. \A q \in Requests : q # r => pc'[q] = pc[q] /\ action'[q] = action[q]
    BY DEF IInv, TypeOK, Await
<1> QED
    BY <1>1, <1>2, PrivateStep DEF dbVars, supplierVars

(* A review is saved.                                                      *)
LEMMA SaveReviewStep ==
    ASSUME IInv, NEW v \in Reviews, SaveReview(v)
    PROVE  IInv'
<1>1. UNCHANGED <<actions, audit, enqueued, pc, action, receipts, writes, returned, restarts>>
    BY DEF SaveReview, requestVars, supplierVars
<1>2. TypeOK'
    BY <1>1 DEF IInv, TypeOK, SaveReview
<1>3. RowsAdvance /\ WritesGrow /\ Len(writes') \in Nat
    BY <1>1, WritesType DEF IInv, RowsAdvance, WritesGrow, SameProposal
<1>4. RequestsOK'
    BY <1>1, <1>3, RequestKept DEF RequestsOK, Requests
<1>5. RowsOK' /\ ReceiptsOK' /\ ReturnedOK' /\ WritesAuthorised' /\ AuditAgrees'
    BY <1>1 DEF IInv, RowsOK, RowOK, Known, ReceiptsOK, ReturnedOK, WritesAuthorised,
                AuditAgrees
<1>6. LatestOK'
  <2> SUFFICES ASSUME NEW c \in Cases, ReviewsOf(c)' # {}
               PROVE  \E w \in ReviewsOf(c)' : \A u \in ReviewsOf(c)' : u <= w
    BY DEF LatestOK
  <2>1. v \in Nat /\ ReviewsOf(c) \subseteq Nat
    BY GovernanceAssumption DEF IInv, TypeOK, ReviewsOf
  <2>2. ReviewsOf(c)' = ReviewsOf(c) \cup (IF ReviewCase[v] = c THEN {v} ELSE {})
    BY DEF SaveReview, ReviewsOf
  <2>3. CASE ReviewsOf(c) = {}
    BY <2>1, <2>2, <2>3
  <2>4. CASE ReviewsOf(c) # {}
    <3>1. PICK w \in ReviewsOf(c) : \A u \in ReviewsOf(c) : u <= w
        BY <2>4 DEF IInv, LatestOK
    <3>2. CASE ReviewCase[v] = c /\ w <= v
        BY <2>1, <2>2, <3>1, <3>2
    <3>3. CASE ~(ReviewCase[v] = c /\ w <= v)
        BY <2>1, <2>2, <3>1, <3>3
    <3> QED
        BY <3>2, <3>3
  <2> QED
    BY <2>3, <2>4
<1> QED
    BY <1>2, <1>4, <1>5, <1>6 DEF IInv


(* propose builds an action from the latest review.                        *)
LEMMA ProposeReadStep ==
    ASSUME IInv, NEW r \in ApiRequests, NEW principal \in Users, NEW case \in Cases,
           NEW key \in Keys, ProposeRead(r, principal, case, key)
    PROVE  IInv'
<1> DEFINE a == [id |-> ActionId(principal, key), case_id |-> case,
                 review_id |-> LatestReview(case), tenant_id |-> CaseTenant[case],
                 status |-> "pending_approval", proposer_id |-> principal.subject,
                 approver_id |-> None, idempotency_key |-> key,
                 execution_receipt |-> None]
<1>1. /\ Await(r, "propose_lookup", a)
      /\ UNCHANGED <<dbVars, supplierVars, returned, restarts>>
      /\ ReviewsOf(case) # {}
    BY DEF ProposeRead
<1>2. LatestReview(case) \in Reviews
    BY <1>1 DEF IInv, LatestOK, LatestReview, TypeOK, ReviewsOf
<1>3. /\ principal.tenant_id \in Tenants
      /\ principal.subject \in Subjects
      /\ CaseTenant[case] \in Tenants
      /\ ActionId(principal, key) \in ActionIds
      /\ ActionId(principal, key)[2] = key
    BY GovernanceAssumption DEF Subjects, ActionId, ActionIds
<1>4. a \in Action
    BY <1>2, <1>3 DEF Action
<1>5. /\ a.idempotency_key = a.id[2] /\ a.status = "pending_approval"
      /\ a.approver_id = None /\ a.execution_receipt = None
    BY <1>3
<1> HIDE DEF a
<1>6. r \in Requests /\ r \notin McpRequests
    BY GovernanceAssumption DEF Requests
<1>7. pc'[r] = "propose_lookup" /\ action'[r] = a
    BY <1>1, <1>6 DEF Await, IInv, TypeOK
<1>8. RequestOK(r)'
    BY <1>4, <1>5, <1>6, <1>7 DEF RequestOK, Proposing, Executing, ProposingOK
<1> QED
    BY <1>1, <1>4, <1>6, <1>8, AwaitStep

(* A proposal that is looked for goes on, or is answered.                  *)
LEMMA ProposeLookupStep ==
    ASSUME IInv, NEW r \in ApiRequests, ProposeLookup(r)
    PROVE  IInv'
<1>1. /\ pc[r] = "propose_lookup"
      /\ UNCHANGED <<dbVars, supplierVars, returned, restarts>>
      /\ Respond(r) \/ Await(r, "propose_insert", action[r])
    BY DEF ProposeLookup
<1>2. r \in Requests /\ r \notin McpRequests
    BY GovernanceAssumption DEF Requests
<1>3. CASE Respond(r)
    BY <1>1, <1>2, <1>3, RespondStep
<1>4. CASE Await(r, "propose_insert", action[r])
  <2>1. pc'[r] = "propose_insert" /\ action'[r] = action[r]
    BY <1>2, <1>4 DEF Await, IInv, TypeOK
  <2>2. RequestOK(r)
    BY <1>2 DEF IInv, RequestsOK
  <2>3. action[r] \in Action
    BY <1>1, <2>2 DEF RequestOK
  <2>4. RequestOK(r)'
    BY <1>1, <1>2, <2>1, <2>2 DEF RequestOK, Proposing, Executing, ProposingOK
  <2> QED
    BY <1>1, <1>2, <1>4, <2>3, <2>4, AwaitStep
<1> QED
    BY <1>1, <1>3, <1>4

(* The lookup after a lost race answers with the row that is there.        *)
LEMMA ProposeRelookupStep ==
    ASSUME IInv, NEW r \in ApiRequests, ProposeRelookup(r)
    PROVE  IInv'
<1>1. /\ pc[r] = "propose_relookup"
      /\ UNCHANGED <<dbVars, supplierVars, returned, restarts>>
      /\ Respond(r) \/ Await(r, "internal_error", action[r])
    BY DEF ProposeRelookup
<1>2. r \in Requests /\ r \notin McpRequests
    BY GovernanceAssumption DEF Requests
<1>3. CASE Respond(r)
    BY <1>1, <1>2, <1>3, RespondStep
<1>4. CASE Await(r, "internal_error", action[r])
  <2>1. pc'[r] = "internal_error" /\ action'[r] = action[r]
    BY <1>2, <1>4 DEF Await, IInv, TypeOK
  <2>2. RequestOK(r)
    BY <1>2 DEF IInv, RequestsOK
  <2>3. action[r] \in Action
    BY <1>1, <2>2 DEF RequestOK
  <2>4. RequestOK(r)'
    BY <1>1, <1>2, <2>1, <2>2 DEF RequestOK, Proposing, Executing
  <2> QED
    BY <1>1, <1>2, <1>4, <2>3, <2>4, AwaitStep
<1> QED
    BY <1>1, <1>3, <1>4

(* decide works on the row it has read.                                    *)
LEMMA DecideReadStep ==
    ASSUME IInv, NEW r \in ApiRequests, NEW principal \in Users, NEW id \in ActionIds,
           NEW status \in {"approved", "rejected"}, DecideRead(r, principal, id, status)
    PROVE  IInv'
<1> DEFINE a == [actions[id] EXCEPT !.status = status, !.approver_id = principal.subject]
<1>1. /\ Await(r, "decide_save", a)
      /\ UNCHANGED <<dbVars, supplierVars, returned, restarts>>
      /\ actions[id] # None /\ MayDecide(principal, actions[id])
      /\ actions[id].status = "pending_approval"
    BY DEF DecideRead
<1>2. actions[id] \in Action /\ principal.subject \in Subjects
    BY <1>1 DEF IInv, TypeOK, Subjects
<1>3. /\ a \in Action /\ SameProposal(a, actions[id])
      /\ a.status = status /\ a.approver_id = principal.subject
      /\ a.execution_receipt = actions[id].execution_receipt
    BY <1>2 DEF Action, SameProposal
<1> HIDE DEF a
<1>4. RowOK(id)
    BY <1>1 DEF IInv, RowsOK
<1>5. a.id = id /\ a.idempotency_key = id[2] /\ a.execution_receipt = None
    BY <1>1, <1>3, <1>4 DEF RowOK, SameProposal
<1>6. Approved(a)
    BY <1>1, <1>3 DEF MayDecide, Approved, SameProposal, HasRole, InTenant
<1>7. r \in Requests /\ r \notin McpRequests
    BY GovernanceAssumption DEF Requests
<1>8. pc'[r] = "decide_save" /\ action'[r] = a /\ actions'[id] = actions[id]
    BY <1>1, <1>7 DEF Await, IInv, TypeOK, dbVars
<1>9. DecidingOK(r)'
    BY <1>1, <1>2, <1>3, <1>5, <1>6, <1>8 DEF DecidingOK, RowOf
<1>10. RequestOK(r)'
    BY <1>3, <1>5, <1>7, <1>8, <1>9 DEF RequestOK, Proposing, Executing
<1> QED
    BY <1>1, <1>3, <1>7, <1>10, AwaitStep

(* A new row appears where there was none.                                 *)
LEMMA ProposeInsertStep ==
    ASSUME IInv, NEW r \in ApiRequests, ProposeInsert(r)
    PROVE  IInv' /\ RowsAdvance
<1>1. pc[r] = "propose_insert" /\ UNCHANGED <<reviews, supplierVars, returned, restarts>>
    BY DEF ProposeInsert
<1>2. r \in Requests /\ r \notin McpRequests
    BY GovernanceAssumption DEF Requests
<1>3. RequestOK(r)
    BY <1>2 DEF IInv, RequestsOK
<1>4. PICK a \in Action : a = action[r]
    BY <1>1, <1>3 DEF RequestOK
<1>5. /\ a.id \in ActionIds /\ a.proposer_id \in Subjects /\ a.idempotency_key = a.id[2]
      /\ a.status = "pending_approval" /\ a.approver_id = None /\ a.execution_receipt = None
    BY <1>1, <1>3, <1>4 DEF RequestOK, ProposingOK, Proposing, Action
<1>6. CASE IntegrityError(a)
  <2>1. Await(r, "propose_relookup", a) /\ UNCHANGED <<actions, audit, enqueued>>
    BY <1>4, <1>6 DEF ProposeInsert
  <2>2. pc'[r] = "propose_relookup" /\ action'[r] = a
    BY <1>2, <2>1 DEF Await, IInv, TypeOK
  <2>3. RequestOK(r)'
    BY <1>2, <1>5, <2>2 DEF RequestOK, Proposing, Executing, ProposingOK
  <2>4. RowsAdvance
    BY <2>1 DEF RowsAdvance, SameProposal
  <2> QED
    BY <1>1, <1>2, <2>1, <2>3, <2>4, AwaitStep DEF dbVars
<1>7. CASE ~IntegrityError(a)
  <2>1. /\ actions' = [actions EXCEPT ![a.id] = a]
        /\ audit' = [audit EXCEPT ![a.id] = audit[a.id] \o Logged("proposed", a.proposer_id)]
        /\ enqueued' = enqueued \cup {a.id}
        /\ Respond(r)
        /\ actions[a.id] = None
    BY <1>4, <1>7 DEF ProposeInsert, IntegrityError
  <2>2. /\ actions'[a.id] = a
        /\ \A id \in ActionIds : id # a.id => actions'[id] = actions[id]
    BY <1>5, <2>1 DEF IInv, TypeOK
  <2>3. audit[a.id] = <<>>
    BY <1>5, <2>1 DEF IInv, AuditAgrees
  <2>4. /\ audit'[a.id] = Logged("proposed", a.proposer_id)
        /\ \A id \in ActionIds : id # a.id => audit'[id] = audit[id]
    <3>1. Logged("proposed", a.proposer_id) \in Seq(Event)
        BY <1>5 DEF Logged, Event
    <3>2. <<>> \o Logged("proposed", a.proposer_id) = Logged("proposed", a.proposer_id)
        BY <3>1
    <3> QED
        BY <1>5, <2>1, <2>3, <3>2 DEF IInv, TypeOK
  <2>5. TypeOK'
    <3>1. Logged("proposed", a.proposer_id) \in Seq(Event)
        BY <1>5 DEF Logged, Event
    <3>2. audit' \in [ActionIds -> Seq(Event)]
        BY <1>5, <2>1, <2>4, <3>1 DEF IInv, TypeOK
    <3> QED
        BY <1>1, <1>5, <2>1, <3>2 DEF IInv, TypeOK, Respond, supplierVars
  <2>6. RowsAdvance /\ WritesGrow /\ Len(writes') \in Nat
    BY <1>1, <2>1, <2>2, WritesType DEF IInv, RowsAdvance, WritesGrow, SameProposal, supplierVars
  <2>7. RequestsOK'
    <3>1. /\ pc'[r] = "idle"
          /\ \A q \in Requests : q # r => pc'[q] = pc[q] /\ action'[q] = action[q]
        BY <1>2, <2>1 DEF IInv, TypeOK, Respond
    <3>2. RequestOK(r)'
        BY <1>2, <3>1, RequestIdle
    <3>3. ASSUME NEW q \in Requests, q # r PROVE RequestOK(q)'
        BY <2>6, <3>1, <3>3, RequestKept
    <3> QED
        BY <3>2, <3>3 DEF RequestsOK, Requests
  <2>8. RowsOK'
    <3> SUFFICES ASSUME NEW id \in ActionIds, actions'[id] # None PROVE RowOK(id)'
        BY DEF RowsOK
    <3>1. CASE id = a.id
        BY <1>5, <2>2, <3>1 DEF RowOK
    <3>2. CASE id # a.id
        BY <1>1, <2>2, <3>2 DEF IInv, RowsOK, RowOK, Known, supplierVars
    <3> QED
        BY <3>1, <3>2
  <2>9. ReceiptsOK' /\ LatestOK'
    BY <1>1 DEF IInv, ReceiptsOK, Known, LatestOK, ReviewsOf, supplierVars
  <2>10. ReturnedOK'
    BY <1>1, <2>1, <2>2 DEF IInv, ReturnedOK
  <2>11. WritesAuthorised'
    <3>1. \A i \in 1..Len(writes) : writes[i].action_id \in ActionIds
        BY WritesType DEF IInv, Receipt
    <3> QED
        BY <1>1, <2>1, <2>2, <3>1 DEF IInv, WritesAuthorised, supplierVars
  <2>12. AuditAgrees'
    <3>1. Trail(a) = Logged("proposed", a.proposer_id)
        BY <1>5 DEF Trail
    <3>2. a # None
        BY NoneIsNothing
    <3>3. ASSUME NEW id \in ActionIds
          PROVE  /\ audit'[id] = IF actions'[id] = None THEN <<>> ELSE Trail(actions'[id])
                 /\ id \in enqueued' <=> actions'[id] # None
      <4>1. CASE id = a.id
        BY <2>1, <2>2, <2>4, <3>1, <3>2, <4>1
      <4>2. CASE id # a.id
        BY <2>1, <2>2, <2>4, <4>2 DEF IInv, AuditAgrees
      <4> QED
        BY <4>1, <4>2
    <3> QED
        BY <3>3 DEF AuditAgrees, Trail
  <2> QED
    BY <2>5, <2>6, <2>7, <2>8, <2>9, <2>10, <2>11, <2>12 DEF IInv
<1> QED
    BY <1>6, <1>7

(* The two transitions that save_transition is called for.                 *)
Deciding(a, actor) ==
    /\ TransitionAllowed(a.id, "pending_approval")
    /\ a.status \in {"approved", "rejected"} /\ a.execution_receipt = None
    /\ actor = a.approver_id

Finishing(a, actor) ==
    /\ TransitionAllowed(a.id, "approved")
    /\ a.status = "executed" /\ a.execution_receipt \in Receipt
    /\ Known(a.execution_receipt, a.idempotency_key)
    /\ a.approver_id = actions[a.id].approver_id
    /\ actor = ServiceSubject

(* A transition leaves all but the returned receipts in order.             *)
LEMMA TransitionStep ==
    ASSUME IInv, NEW r \in Requests, NEW a \in Action, NEW actor,
           SameProposal(a, actions[a.id]), a.idempotency_key = a.id[2],
           a.approver_id \in Subjects, Approved(a),
           Deciding(a, actor) \/ Finishing(a, actor),
           SaveTransition(a, actor), Respond(r), UNCHANGED <<supplierVars, restarts>>
    PROVE  /\ returned' \in [ActionIds -> SUBSET Receipt] => TypeOK'
           /\ LatestOK' /\ RowsOK' /\ RequestsOK' /\ ReceiptsOK'
           /\ WritesAuthorised' /\ AuditAgrees' /\ RowsAdvance
           /\ actions'[a.id] # None /\ actions'[a.id].status = a.status
           /\ actions'[a.id].execution_receipt = a.execution_receipt
           /\ \A id \in ActionIds : id # a.id => actions'[id] = actions[id]
<1>1. /\ a.id \in ActionIds /\ a.status \in {"approved", "rejected", "executed"}
      /\ actions[a.id] # None /\ actions[a.id].status \in {"pending_approval", "approved"}
    BY DEF Action, Deciding, Finishing, TransitionAllowed
<1>2. PICK b \in Action : b = actions[a.id]
    BY <1>1 DEF IInv, TypeOK
<1>3. PICK c : /\ c = [b EXCEPT !.status = a.status, !.approver_id = a.approver_id,
                                !.execution_receipt = a.execution_receipt]
               /\ actions' = [actions EXCEPT ![a.id] = c]
    BY <1>2, Zenon DEF SaveTransition
<1>4. /\ c \in Action /\ SameProposal(c, b) /\ c.status = a.status
      /\ c.approver_id = a.approver_id /\ c.execution_receipt = a.execution_receipt
    BY <1>3 DEF Action, SameProposal
<1>5. actions' = [actions EXCEPT ![a.id] = c]
    BY <1>3
<1>6. /\ actions'[a.id] = c /\ c # None
      /\ \A id \in ActionIds : id # a.id => actions'[id] = actions[id]
    BY <1>1, <1>4, <1>5, NoneIsNothing DEF IInv, TypeOK
<1>7. /\ audit' = [audit EXCEPT ![a.id] = audit[a.id] \o Logged(a.status, actor)]
      /\ UNCHANGED <<reviews, enqueued, receipts, writes, restarts>>
    BY DEF SaveTransition, supplierVars
<1>8. Logged(a.status, actor) \in Seq(Event)
    BY <1>1 DEF Logged, Event, Deciding, Finishing
<1>9. audit[a.id] \o Logged(a.status, actor) \in Seq(Event)
    BY <1>1, <1>8 DEF IInv, TypeOK
<1>10. /\ audit' \in [ActionIds -> Seq(Event)]
       /\ audit'[a.id] = audit[a.id] \o Logged(a.status, actor)
       /\ \A id \in ActionIds : id # a.id => audit'[id] = audit[id]
    BY <1>1, <1>7, <1>9 DEF IInv, TypeOK
<1>11. ASSUME returned' \in [ActionIds -> SUBSET Receipt] PROVE TypeOK'
    BY <1>1, <1>4, <1>5, <1>7, <1>10, <1>11 DEF IInv, TypeOK, Respond
<1>12. RowsAdvance /\ WritesGrow /\ Len(writes') \in Nat
  <2>1. WritesGrow /\ Len(writes') \in Nat
    BY <1>7, WritesType DEF IInv, WritesGrow
  <2>2. b.status = "approved" => a.status = "executed" /\ a.approver_id = b.approver_id
    BY <1>2 DEF Deciding, Finishing, TransitionAllowed
  <2> QED
    BY <1>1, <1>2, <1>4, <1>6, <2>1, <2>2 DEF RowsAdvance, SameProposal
<1>13. RequestsOK'
  <2>1. /\ pc'[r] = "idle"
        /\ \A q \in Requests : q # r => pc'[q] = pc[q] /\ action'[q] = action[q]
    BY DEF IInv, TypeOK, Respond
  <2>2. RequestOK(r)'
    BY <2>1, RequestIdle
  <2>3. ASSUME NEW q \in Requests, q # r PROVE RequestOK(q)'
    BY <1>12, <2>1, <2>3, RequestKept
  <2> QED
    BY <2>2, <2>3 DEF RequestsOK, Requests
<1>14. SameProposal(c, a) /\ Approved(c)
    BY <1>2, <1>4 DEF SameProposal, Approved
<1>15. RowsOK'
  <2> SUFFICES ASSUME NEW id \in ActionIds, actions'[id] # None PROVE RowOK(id)'
    BY DEF RowsOK
  <2>1. CASE id = a.id
    BY <1>1, <1>4, <1>6, <1>7, <1>14, <2>1 DEF RowOK, Deciding, Finishing, Known, SameProposal
  <2>2. CASE id # a.id
    BY <1>6, <1>7, <2>2 DEF IInv, RowsOK, RowOK, Known
  <2> QED
    BY <2>1, <2>2
<1>16. ReceiptsOK' /\ LatestOK'
    BY <1>7 DEF IInv, ReceiptsOK, Known, LatestOK, ReviewsOf
<1>17. WritesAuthorised'
  <2> SUFFICES ASSUME NEW i \in 1..Len(writes)
               PROVE  LET d == actions'[writes[i].action_id] IN
                      /\ d # None /\ d.status \in {"approved", "executed"}
                      /\ Approved(d) /\ writes[i].applied = d.review_id
    BY <1>7 DEF WritesAuthorised, Approved
  <2>1. writes[i].action_id \in ActionIds
    BY WritesType DEF IInv, Receipt
  <2>2. CASE writes[i].action_id = a.id
    <3>1. b.status = "approved" /\ writes[i].applied = b.review_id
        BY <1>1, <1>2, <2>2 DEF IInv, WritesAuthorised
    <3>2. a.status = "executed"
        BY <1>2, <3>1 DEF Deciding, Finishing, TransitionAllowed
    <3> QED
        BY <1>2, <1>4, <1>6, <1>14, <2>2, <3>1, <3>2 DEF SameProposal
  <2>3. CASE writes[i].action_id # a.id
    BY <1>6, <2>1, <2>3 DEF IInv, WritesAuthorised
  <2> QED
    BY <2>2, <2>3
<1>18. Trail(c) = Trail(b) \o Logged(a.status, actor)
  <2>1. RowOK(a.id)
    BY <1>1 DEF IInv, RowsOK
  <2>2. CASE Deciding(a, actor)
    <3>1. Trail(b) = Logged("proposed", b.proposer_id)
        BY <1>2, <2>2 DEF Deciding, TransitionAllowed, Trail
    <3>2. Trail(c) = Logged("proposed", c.proposer_id) \o Logged(c.status, c.approver_id)
        BY <1>4, <2>2 DEF Deciding, Trail
    <3> QED
        BY <1>4, <2>2, <3>1, <3>2 DEF Deciding, SameProposal
  <2>3. CASE Finishing(a, actor)
    <3>1. Trail(b) = Logged("proposed", b.proposer_id) \o Logged("approved", b.approver_id)
        BY <1>2, <2>3 DEF Finishing, TransitionAllowed, Trail
    <3>2. Trail(c) = (Logged("proposed", c.proposer_id) \o Logged("approved", c.approver_id))
                        \o Logged("executed", ServiceSubject)
        BY <1>4, <2>3 DEF Finishing, Trail
    <3> QED
        BY <1>2, <1>4, <2>3, <3>1, <3>2 DEF Finishing, SameProposal
  <2> QED
    BY <2>2, <2>3
<1>19. AuditAgrees'
  <2>1. ASSUME NEW id \in ActionIds
        PROVE  /\ audit'[id] = IF actions'[id] = None THEN <<>> ELSE Trail(actions'[id])
               /\ id \in enqueued' <=> actions'[id] # None
    <3>1. CASE id = a.id
        BY <1>1, <1>2, <1>6, <1>7, <1>10, <1>18, <3>1 DEF IInv, AuditAgrees
    <3>2. CASE id # a.id
        BY <1>6, <1>7, <1>10, <3>2 DEF IInv, AuditAgrees
    <3> QED
        BY <3>1, <3>2
  <2> QED
    BY <2>1 DEF AuditAgrees, Trail
<1> QED
    BY <1>4, <1>6, <1>11, <1>12, <1>13, <1>15, <1>16, <1>17, <1>19

(* A decision is saved, or comes too late.                                 *)
LEMMA DecideSaveStep ==
    ASSUME IInv, NEW r \in ApiRequests, DecideSave(r)
    PROVE  IInv' /\ RowsAdvance
<1>1. /\ pc[r] = "decide_save" /\ Respond(r)
      /\ UNCHANGED <<supplierVars, returned, restarts>>
    BY DEF DecideSave
<1>2. r \in Requests
    BY DEF Requests
<1>3. RequestOK(r)
    BY <1>2 DEF IInv, RequestsOK
<1>4. PICK a \in Action : a = action[r]
    BY <1>1, <1>3 DEF RequestOK
<1>5. /\ SameProposal(a, actions[a.id]) /\ a.idempotency_key = a.id[2]
      /\ a.status \in {"approved", "rejected"} /\ a.approver_id \in Subjects
      /\ Approved(a) /\ a.execution_receipt = None
    BY <1>1, <1>3, <1>4 DEF RequestOK, DecidingOK, RowOf
<1>6. CASE TransitionAllowed(a.id, "pending_approval")
  <2>1. SaveTransition(a, a.approver_id) /\ Deciding(a, a.approver_id)
    BY <1>4, <1>5, <1>6 DEF DecideSave, Deciding
  <2>2. /\ returned' \in [ActionIds -> SUBSET Receipt] => TypeOK'
        /\ LatestOK' /\ RowsOK' /\ RequestsOK' /\ ReceiptsOK'
        /\ WritesAuthorised' /\ AuditAgrees' /\ RowsAdvance
        /\ \A id \in ActionIds : id # a.id => actions'[id] = actions[id]
    BY <1>1, <1>2, <1>5, <2>1, TransitionStep
  <2>3. returned' = returned /\ returned[a.id] = {}
    BY <1>1, <1>6 DEF IInv, ReturnedOK, TransitionAllowed, Action
  <2>4. ReturnedOK'
    BY <2>2, <2>3 DEF IInv, ReturnedOK
  <2> QED
    BY <2>2, <2>3, <2>4 DEF IInv, TypeOK
<1>7. CASE ~TransitionAllowed(a.id, "pending_approval")
  <2>1. UNCHANGED dbVars
    BY <1>4, <1>7 DEF DecideSave
  <2>2. RowsAdvance
    BY <2>1 DEF RowsAdvance, SameProposal, dbVars
  <2> QED
    BY <1>1, <1>2, <2>1, <2>2, RespondStep
<1> QED
    BY <1>6, <1>7

(* execute answers from an executed row, or works on an approved one.      *)
LEMMA ExecuteReadStep ==
    ASSUME IInv, NEW r \in McpRequests, NEW id \in ActionIds, ExecuteRead(r, id)
    PROVE  IInv'
<1>1. actions[id] # None /\ UNCHANGED <<dbVars, supplierVars, restarts>>
    BY DEF ExecuteRead
<1>2. r \in Requests
    BY DEF Requests
<1>3. RowOK(id) /\ actions[id] \in Action
    BY <1>1 DEF IInv, RowsOK, TypeOK
<1>4. CASE /\ actions[id].status = "executed"
           /\ Return(id, actions[id].execution_receipt)
           /\ UNCHANGED requestVars
  <2>1. actions[id].execution_receipt \in Receipt
    BY <1>3, <1>4 DEF RowOK
  <2>2. TypeOK'
    BY <1>1, <1>4, <2>1 DEF IInv, TypeOK, Return, dbVars, supplierVars, requestVars
  <2>3. ReturnedOK'
    BY <1>1, <1>4, <2>1 DEF IInv, TypeOK, ReturnedOK, Return, dbVars
  <2>4. RowsAdvance /\ WritesGrow /\ Len(writes') \in Nat
    BY <1>1, WritesType DEF IInv, RowsAdvance, WritesGrow, SameProposal, dbVars, supplierVars
  <2>5. RequestsOK'
    BY <1>4, <2>4, RequestKept DEF RequestsOK, Requests, requestVars
  <2>6. RowsOK' /\ ReceiptsOK' /\ WritesAuthorised' /\ AuditAgrees' /\ LatestOK'
    BY <1>1 DEF IInv, RowsOK, RowOK, Known, ReceiptsOK, WritesAuthorised, AuditAgrees,
                LatestOK, ReviewsOf, dbVars, supplierVars
  <2> QED
    BY <2>2, <2>3, <2>5, <2>6 DEF IInv
<1>5. CASE /\ actions[id].status = "approved"
           /\ Await(r, "execute_call", actions[id])
           /\ UNCHANGED returned
  <2>1. pc'[r] = "execute_call" /\ action'[r] = actions[id] /\ actions'[id] = actions[id]
    BY <1>1, <1>2, <1>5 DEF Await, IInv, TypeOK, dbVars
  <2>2. ExecutingOK(r)'
    BY <1>1, <1>3, <1>5, <2>1 DEF ExecutingOK, RowOf, RowOK, SameProposal
  <2>3. RequestOK(r)'
    BY <1>3, <2>1, <2>2 DEF RequestOK, RowOK, Proposing, Executing
  <2> QED
    BY <1>1, <1>2, <1>3, <1>5, <2>3, AwaitStep
<1> QED
    BY <1>4, <1>5 DEF ExecuteRead

(* The supplier system is called: it writes, or knows the key.             *)
LEMMA ExecuteCallStep ==
    ASSUME IInv, NEW r \in McpRequests, ExecuteCall(r)
    PROVE  IInv'
<1>1. /\ pc[r] = "execute_call" /\ UNCHANGED <<dbVars, returned, restarts>>
      /\ r \in Requests /\ ProcessOf[r] \in Processes
    BY GovernanceAssumption DEF ExecuteCall, Requests
<1>2. RequestOK(r)
    BY <1>1 DEF IInv, RequestsOK
<1>3. PICK a \in Action : a = action[r]
    BY <1>1, <1>2 DEF RequestOK
<1>4. /\ a.id \in ActionIds /\ a.review_id \in Reviews /\ a.idempotency_key \in Keys
      /\ a.idempotency_key = a.id[2]
      /\ actions[a.id] # None /\ SameProposal(a, actions[a.id])
      /\ actions[a.id].status \in {"approved", "executed"}
      /\ actions[a.id].approver_id = a.approver_id
    BY <1>1, <1>2, <1>3 DEF RequestOK, ExecutingOK, Executing, RowOf, Action
<1> DEFINE process == ProcessOf[r]
           earlier == receipts[process][a.idempotency_key]
           fresh   == [action_id |-> a.id, applied |-> a.review_id,
                       executed_at |-> Len(writes) + 1]
<1>5. fresh \in Receipt /\ fresh.action_id = a.id /\ fresh.applied = a.review_id
    BY <1>4, WritesType DEF Receipt, IInv
<1>6. earlier \in Receipt \cup {None}
    BY <1>1, <1>4 DEF IInv, TypeOK
<1>7. PICK x \in Receipt :
        /\ x = IF earlier # None THEN earlier ELSE fresh
        /\ Await(r, "execute_save", [a EXCEPT !.status = "executed", !.execution_receipt = x])
    BY <1>3, <1>5, <1>6 DEF ExecuteCall, EarlierReceipt
<1>8. PICK b : /\ b = [a EXCEPT !.status = "executed", !.execution_receipt = x]
               /\ Await(r, "execute_save", b)
    BY <1>7
<1>9. /\ b \in Action /\ SameProposal(b, a) /\ b.status = "executed"
      /\ b.execution_receipt = x /\ b.approver_id = a.approver_id
    BY <1>8 DEF Action, SameProposal
<1>10. /\ pc'[r] = "execute_save" /\ action'[r] = b
       /\ \A q \in Requests : q # r => pc'[q] = pc[q] /\ action'[q] = action[q]
    BY <1>1, <1>8 DEF Await, IInv, TypeOK
<1>11. ExecutingOK(r)'
    BY <1>1, <1>4, <1>9, <1>10 DEF ExecutingOK, RowOf, SameProposal, dbVars
<1>12. ASSUME Known(x, a.idempotency_key)' PROVE RequestOK(r)'
    BY <1>4, <1>9, <1>10, <1>11, <1>12
       DEF RequestOK, Proposing, Executing, SavingOK, Known, SameProposal
<1>13. CASE earlier # None
  <2>1. UNCHANGED supplierVars
    BY <1>3, <1>13 DEF ExecuteCall, EarlierReceipt
  <2>2. Known(x, a.idempotency_key)'
    BY <1>1, <1>4, <1>7, <1>13, <2>1 DEF IInv, ReceiptsOK, Known, supplierVars
  <2> QED
    BY <1>1, <1>8, <1>9, <1>12, <2>1, <2>2, AwaitStep
<1>14. CASE earlier = None
  <2>1. /\ writes' = Append(writes, x)
        /\ receipts' = [receipts EXCEPT ![process][a.idempotency_key] = x]
        /\ x = fresh
    BY <1>3, <1>7, <1>14 DEF ExecuteCall, EarlierReceipt
  <2> HIDE DEF fresh
  <2>2. /\ Len(writes) \in Nat /\ Len(writes') = Len(writes) + 1
        /\ writes' \in Seq(Receipt) /\ writes'[Len(writes) + 1] = x
        /\ \A i \in 1..Len(writes) : writes'[i] = writes[i]
    BY <1>5, <2>1 DEF IInv, TypeOK
  <2>3. WritesGrow /\ Len(writes') \in Nat /\ RowsAdvance
    BY <1>1, <2>2 DEF WritesGrow, RowsAdvance, SameProposal, dbVars
  <2>4. receipts' \in [Processes -> [Keys -> Receipt \cup {None}]]
    BY <1>1, <1>4, <1>5, <2>1 DEF IInv, TypeOK
  <2>5. TypeOK'
    BY <1>1, <1>8, <1>9, <2>2, <2>4 DEF IInv, TypeOK, Await, dbVars
  <2>6. Known(x, a.idempotency_key)'
    BY <1>4, <1>5, <2>1, <2>2 DEF Known
  <2>7. RequestsOK'
    <3>1. RequestOK(r)'
        BY <1>12, <2>6
    <3>2. ASSUME NEW q \in Requests, q # r PROVE RequestOK(q)'
        BY <1>10, <2>3, <3>2, RequestKept
    <3> QED
        BY <3>1, <3>2 DEF RequestsOK, Requests
  <2>8. ReceiptsOK'
    <3> SUFFICES ASSUME NEW p \in Processes, NEW k \in Keys, receipts'[p][k] # None
                 PROVE  Known(receipts[p][k], k)'
        BY DEF ReceiptsOK
    <3>1. CASE p = process /\ k = a.idempotency_key
        BY <1>1, <1>4, <2>1, <2>6, <3>1 DEF IInv, TypeOK, Known
    <3>2. CASE ~(p = process /\ k = a.idempotency_key)
      <4>1. receipts'[p][k] = receipts[p][k]
        BY <1>1, <1>4, <2>1, <3>2 DEF IInv, TypeOK
      <4> QED
        BY <2>2, <4>1 DEF IInv, ReceiptsOK, Known
    <3> QED
        BY <3>1, <3>2
  <2>9. WritesAuthorised'
    <3>1. Approved(actions[a.id]) /\ a.review_id = actions[a.id].review_id
        BY <1>4 DEF IInv, RowsOK, RowOK, SameProposal
    <3> SUFFICES ASSUME NEW i \in 1..(Len(writes) + 1)
                 PROVE  LET d == actions[writes'[i].action_id] IN
                        /\ d # None /\ d.status \in {"approved", "executed"}
                        /\ Approved(d) /\ writes'[i].applied = d.review_id
        BY <1>1, <2>2 DEF WritesAuthorised, Approved, dbVars
    <3>2. CASE i = Len(writes) + 1
        BY <1>4, <1>5, <2>1, <2>2, <3>1, <3>2
    <3>3. CASE i \in 1..Len(writes)
        BY <2>2, <3>3 DEF IInv, WritesAuthorised
    <3> QED
        BY <2>2, <3>2, <3>3
  <2>10. RowsOK'
    <3> SUFFICES ASSUME NEW id \in ActionIds, actions[id] # None PROVE RowOK(id)'
        BY <1>1 DEF RowsOK, dbVars
    <3> QED
        BY <1>1, <2>2 DEF IInv, RowsOK, RowOK, Known, dbVars
  <2>11. ReturnedOK' /\ AuditAgrees' /\ LatestOK'
    BY <1>1 DEF IInv, ReturnedOK, AuditAgrees, LatestOK, ReviewsOf, dbVars
  <2> QED
    BY <2>5, <2>7, <2>8, <2>9, <2>10, <2>11 DEF IInv
<1> QED
    BY <1>13, <1>14

(* The result is saved, or another execution was faster.                   *)
LEMMA ExecuteSaveStep ==
    ASSUME IInv, NEW r \in McpRequests, ExecuteSave(r)
    PROVE  IInv' /\ RowsAdvance
<1>1. pc[r] = "execute_save" /\ r \in Requests /\ UNCHANGED <<supplierVars, restarts>>
    BY DEF ExecuteSave, Requests
<1>2. RequestOK(r)
    BY <1>1 DEF IInv, RequestsOK
<1>3. PICK a \in Action : a = action[r]
    BY <1>1, <1>2 DEF RequestOK
<1>4. /\ a.id \in ActionIds /\ a.idempotency_key = a.id[2]
      /\ actions[a.id] # None /\ SameProposal(a, actions[a.id])
      /\ actions[a.id].status \in {"approved", "executed"}
      /\ actions[a.id].approver_id = a.approver_id
      /\ a.status = "executed" /\ a.execution_receipt \in Receipt
      /\ Known(a.execution_receipt, a.idempotency_key)
    BY <1>1, <1>2, <1>3 DEF RequestOK, ExecutingOK, SavingOK, Executing, RowOf, Action
<1>5. CASE TransitionAllowed(a.id, "approved")
  <2>1. /\ SaveTransition(a, ServiceSubject) /\ Return(a.id, a.execution_receipt)
        /\ Respond(r) /\ Finishing(a, ServiceSubject)
    BY <1>3, <1>4, <1>5 DEF ExecuteSave, Finishing
  <2>2. a.approver_id \in Subjects /\ Approved(a)
    BY <1>4 DEF IInv, RowsOK, RowOK, SameProposal, Approved
  <2>3. /\ returned' \in [ActionIds -> SUBSET Receipt] => TypeOK'
        /\ LatestOK' /\ RowsOK' /\ RequestsOK' /\ ReceiptsOK'
        /\ WritesAuthorised' /\ AuditAgrees' /\ RowsAdvance
        /\ actions'[a.id] # None /\ actions'[a.id].status = a.status
        /\ actions'[a.id].execution_receipt = a.execution_receipt
        /\ \A id \in ActionIds : id # a.id => actions'[id] = actions[id]
    BY <1>1, <1>4, <2>1, <2>2, TransitionStep
  <2>4. returned[a.id] = {}
    BY <1>4, <1>5 DEF IInv, ReturnedOK, TransitionAllowed
  <2>5. /\ returned' \in [ActionIds -> SUBSET Receipt]
        /\ returned'[a.id] = {a.execution_receipt}
        /\ \A id \in ActionIds : id # a.id => returned'[id] = returned[id]
    BY <1>4, <2>1, <2>4 DEF IInv, TypeOK, Return
  <2>6. ReturnedOK'
    BY <1>4, <2>3, <2>5 DEF IInv, ReturnedOK
  <2> QED
    BY <2>3, <2>5, <2>6 DEF IInv
<1>6. CASE ~TransitionAllowed(a.id, "approved")
  <2>1. Await(r, "execute_reload", a) /\ UNCHANGED <<dbVars, returned>>
    BY <1>3, <1>6 DEF ExecuteSave
  <2>2. pc'[r] = "execute_reload" /\ action'[r] = a /\ actions' = actions
    BY <1>1, <2>1 DEF Await, IInv, TypeOK, dbVars
  <2>3. RequestOK(r)'
    BY <1>4, <1>6, <2>2
       DEF RequestOK, Proposing, Executing, ExecutingOK, RowOf, TransitionAllowed
  <2>4. RowsAdvance
    BY <2>2 DEF RowsAdvance, SameProposal
  <2> QED
    BY <1>1, <2>1, <2>3, <2>4, AwaitStep
<1> QED
    BY <1>5, <1>6

(* The faster execution's receipt is there to be returned.                 *)
LEMMA ExecuteReloadStep ==
    ASSUME IInv, NEW r \in McpRequests, ExecuteReload(r)
    PROVE  IInv'
<1>1. /\ pc[r] = "execute_reload" /\ r \in Requests
      /\ UNCHANGED <<dbVars, supplierVars, restarts>>
    BY DEF ExecuteReload, Requests
<1>2. RequestOK(r)
    BY <1>1 DEF IInv, RequestsOK
<1>3. PICK id \in ActionIds : id = action[r].id
    BY <1>1, <1>2 DEF RequestOK, Action
<1>4. actions[id] # None /\ actions[id].status = "executed"
    BY <1>1, <1>2, <1>3 DEF RequestOK, ExecutingOK, Executing, RowOf
<1>5. actions[id].execution_receipt \in Receipt
    BY <1>4 DEF IInv, RowsOK, RowOK
<1>6. Return(id, actions[id].execution_receipt) /\ Respond(r)
    BY <1>3, <1>4, <1>5, NoneIsNothing DEF ExecuteReload
<1>7. TypeOK'
    BY <1>1, <1>5, <1>6 DEF IInv, TypeOK, Return, Respond, dbVars, supplierVars
<1>8. ReturnedOK'
    BY <1>1, <1>4, <1>6 DEF IInv, TypeOK, ReturnedOK, Return, dbVars
<1>9. RowsAdvance /\ WritesGrow /\ Len(writes') \in Nat
    BY <1>1, WritesType DEF IInv, RowsAdvance, WritesGrow, SameProposal, dbVars, supplierVars
<1>10. RequestsOK'
  <2>1. /\ pc'[r] = "idle"
        /\ \A q \in Requests : q # r => pc'[q] = pc[q] /\ action'[q] = action[q]
    BY <1>1, <1>6 DEF IInv, TypeOK, Respond
  <2>2. RequestOK(r)'
    BY <1>1, <2>1, RequestIdle
  <2>3. ASSUME NEW q \in Requests, q # r PROVE RequestOK(q)'
    BY <1>9, <2>1, <2>3, RequestKept
  <2> QED
    BY <2>2, <2>3 DEF RequestsOK, Requests
<1>11. RowsOK' /\ ReceiptsOK' /\ WritesAuthorised' /\ AuditAgrees' /\ LatestOK'
    BY <1>1 DEF IInv, RowsOK, RowOK, Known, ReceiptsOK, WritesAuthorised, AuditAgrees,
                LatestOK, ReviewsOf, dbVars, supplierVars
<1> QED
    BY <1>7, <1>8, <1>10, <1>11 DEF IInv

(* A process is replaced: it forgets its requests and its receipts.        *)
LEMMA RestartMcpStep ==
    ASSUME IInv, NEW p \in Processes, RestartMcp(p)
    PROVE  IInv'
<1>1. UNCHANGED <<dbVars, writes, returned>>
    BY DEF RestartMcp
<1>2. \A r \in Requests : \/ pc'[r] = "idle"
                          \/ pc'[r] = pc[r] /\ action'[r] = action[r]
    BY DEF RestartMcp
<1>3. \A q \in Processes, k \in Keys : receipts'[q][k] \in {None, receipts[q][k]}
    BY DEF RestartMcp, IInv, TypeOK
<1>4. receipts' \in [Processes -> [Keys -> Receipt \cup {None}]]
    BY DEF RestartMcp, IInv, TypeOK
<1>5. TypeOK'
    BY <1>1, <1>4 DEF IInv, TypeOK, RestartMcp, dbVars
<1>6. RowsAdvance /\ WritesGrow /\ Len(writes') \in Nat
    BY <1>1, WritesType DEF IInv, RowsAdvance, WritesGrow, SameProposal, dbVars
<1>7. RequestsOK'
    BY <1>2, <1>6, RequestKept, RequestIdle DEF RequestsOK, Requests
<1>8. ReceiptsOK'
    BY <1>1, <1>3 DEF IInv, ReceiptsOK, Known
<1>9. RowsOK' /\ ReturnedOK' /\ WritesAuthorised' /\ AuditAgrees' /\ LatestOK'
    BY <1>1 DEF IInv, RowsOK, RowOK, Known, ReturnedOK, WritesAuthorised, AuditAgrees,
                LatestOK, ReviewsOf, dbVars
<1> QED
    BY <1>5, <1>7, <1>8, <1>9 DEF IInv

(* A step that changes no variable keeps the invariant.                    *)
LEMMA StutterStep ==
    ASSUME IInv, UNCHANGED vars
    PROVE  IInv'
<1>1. TypeOK'
    BY DEF IInv, TypeOK, vars, dbVars, requestVars, supplierVars
<1>2. RowsAdvance /\ WritesGrow /\ Len(writes') \in Nat
    BY WritesType DEF IInv, RowsAdvance, WritesGrow, SameProposal, vars, dbVars, supplierVars
<1>3. RequestsOK'
    BY <1>2, RequestKept DEF RequestsOK, Requests, vars, requestVars
<1>4. RowsOK' /\ ReceiptsOK' /\ ReturnedOK' /\ WritesAuthorised' /\ AuditAgrees' /\ LatestOK'
    BY DEF IInv, RowsOK, RowOK, Known, ReceiptsOK, ReturnedOK, WritesAuthorised, AuditAgrees,
           LatestOK, ReviewsOf, vars, dbVars, supplierVars
<1> QED
    BY <1>1, <1>3, <1>4 DEF IInv

-----------------------------------------------------------------------------

(* Every handler step, restart and cut-off keeps the invariant.            *)
LEMMA NextIInv == IInv /\ [Next]_vars => IInv'
<1> SUFFICES ASSUME IInv, [Next]_vars PROVE IInv'
    OBVIOUS
<1>1. ASSUME NEW v \in Reviews, SaveReview(v) PROVE IInv'
    BY <1>1, SaveReviewStep
<1>2. ASSUME NEW r \in ApiRequests, ApiNext(r) PROVE IInv'
  <2>1. ASSUME NEW u \in Users, NEW c \in Cases, NEW k \in KeysOf[u.tenant_id],
               ProposeRead(r, u, c, k)
        PROVE  IInv'
    <3>1. k \in Keys
        BY GovernanceAssumption
    <3> QED
        BY <2>1, <3>1, ProposeReadStep
  <2>2. ASSUME NEW u \in Users, NEW id \in ActionIds, NEW s \in {"approved", "rejected"},
               DecideRead(r, u, id, s)
        PROVE  IInv'
    BY <2>2, DecideReadStep
  <2>3. CASE ProposeLookup(r)
    BY <2>3, ProposeLookupStep
  <2>4. CASE ProposeInsert(r)
    BY <2>4, ProposeInsertStep
  <2>5. CASE ProposeRelookup(r)
    BY <2>5, ProposeRelookupStep
  <2>6. CASE DecideSave(r)
    BY <2>6, DecideSaveStep
  <2>7. CASE Abandon(r)
    BY <2>7, RespondStep DEF Abandon, Requests
  <2> QED
    BY <1>2, <2>1, <2>2, <2>3, <2>4, <2>5, <2>6, <2>7 DEF ApiNext
<1>3. ASSUME NEW r \in McpRequests, McpNext(r) PROVE IInv'
    BY <1>3, ExecuteReadStep, ExecuteCallStep, ExecuteSaveStep, ExecuteReloadStep DEF McpNext
<1>4. ASSUME NEW p \in Processes, RestartMcp(p) PROVE IInv'
    BY <1>4, RestartMcpStep
<1>5. CASE UNCHANGED vars
    BY <1>5, StutterStep
<1> QED
    BY <1>1, <1>2, <1>3, <1>4, <1>5 DEF Next

(* Every step lets the rows advance only; a row appears by an insert.      *)
LEMMA NextRows ==
    ASSUME IInv, [Next]_vars
    PROVE  /\ RowsAdvance
           /\ \A id \in ActionIds : actions[id] = None =>
                 \/ actions'[id] = None
                 \/ \E r \in ApiRequests : /\ ProposeInsert(r)
                                           /\ action[r].id = id /\ actions'[id] = action[r]
<1> DEFINE Appears(id) ==
        \/ actions'[id] = actions[id]
        \/ actions[id] # None
        \/ \E r \in ApiRequests : /\ ProposeInsert(r)
                                  /\ action[r].id = id /\ actions'[id] = action[r]
<1> SUFFICES RowsAdvance /\ \A id \in ActionIds : Appears(id)
    OBVIOUS
<1>1. ASSUME NEW r \in ApiRequests, ProposeInsert(r)
      PROVE  RowsAdvance /\ \A id \in ActionIds : Appears(id)
  <2>1. RowsAdvance
    BY <1>1, ProposeInsertStep
  <2>2. \/ actions' = actions
        \/ actions' = [actions EXCEPT ![action[r].id] = action[r]]
    BY <1>1 DEF ProposeInsert
  <2>3. \A id \in ActionIds : Appears(id)
    BY <1>1, <2>2 DEF IInv, TypeOK
  <2> QED
    BY <2>1, <2>3
<1>2. ASSUME NEW r \in Requests, action[r].id \in ActionIds, RowsAdvance,
             \/ UNCHANGED dbVars
             \/ /\ actions[action[r].id] # None
                /\ \E actor : SaveTransition(action[r], actor)
      PROVE  \A id \in ActionIds : Appears(id)
    BY <1>2 DEF SaveTransition, IInv, TypeOK, dbVars
<1>3. ASSUME NEW r \in ApiRequests, DecideSave(r)
      PROVE  RowsAdvance /\ \A id \in ActionIds : Appears(id)
  <2>1. r \in Requests /\ action[r].id \in ActionIds
    BY <1>3 DEF DecideSave, IInv, RequestsOK, RequestOK, Action, Requests
  <2>2. RowsAdvance
    BY <1>3, DecideSaveStep
  <2> QED
    BY <1>2, <1>3, <2>1, <2>2 DEF DecideSave, TransitionAllowed
<1>4. ASSUME NEW r \in McpRequests, ExecuteSave(r)
      PROVE  RowsAdvance /\ \A id \in ActionIds : Appears(id)
  <2>1. r \in Requests /\ action[r].id \in ActionIds
    BY <1>4 DEF ExecuteSave, IInv, RequestsOK, RequestOK, Action, Requests
  <2>2. RowsAdvance
    BY <1>4, ExecuteSaveStep
  <2> QED
    BY <1>2, <1>4, <2>1, <2>2 DEF ExecuteSave, TransitionAllowed
<1>5. ASSUME actions' = actions
      PROVE  RowsAdvance /\ \A id \in ActionIds : Appears(id)
    BY <1>5 DEF RowsAdvance, SameProposal
<1> QED
    BY <1>1, <1>3, <1>4, <1>5 DEF Next, vars, dbVars, SaveReview, ApiNext, McpNext, ProposeRead,
       ProposeLookup, ProposeRelookup, DecideRead, Abandon, ExecuteRead, ExecuteCall,
       ExecuteReload, RestartMcp

(* The inductive invariant holds throughout.                               *)
THEOREM Invariance == Spec => []IInv
BY InitIInv, NextIInv, PTL DEF Spec

(* The tables, requests and receipts keep their types.                     *)
THEOREM TypeCorrect == Spec => []TypeOK
<1>1. IInv => TypeOK
    BY DEF IInv
<1> QED
    BY <1>1, Invariance, PTL

(* The supplier system is told nothing that somebody other than the        *)
(* proposer, with authority in the tenant, has not approved (execute).     *)
THEOREM Authorised == Spec => []WritesAuthorised
<1>1. IInv => WritesAuthorised
    BY DEF IInv
<1> QED
    BY <1>1, Invariance, PTL

(* The audit trail is the history of the row, whoever raced to make it     *)
(* (create_proposal, save_transition).                                     *)
THEOREM AuditComplete == Spec => []AuditAgrees
<1>1. IInv => AuditAgrees
    BY DEF IInv
<1> QED
    BY <1>1, Invariance, PTL

(* All callers of execute are given one receipt, the stored one.           *)
THEOREM OneReceipt == Spec => []ReceiptsAgree
<1>1. IInv => ReceiptsAgree
    BY DEF IInv, ReturnedOK, ReceiptsAgree
<1> QED
    BY <1>1, Invariance, PTL

(* An execution that loses the race is never answered with an error.       *)
THEOREM LateExecutions == Spec => []LateExecutionAnswered
<1>1. IInv => LateExecutionAnswered
    BY DEF IInv, RequestsOK, RequestOK, LateExecutionAnswered, Requests, Executing
<1> QED
    BY <1>1, Invariance, PTL

-----------------------------------------------------------------------------
(* What holds under the conditions the deployment must provide.            *)

(* No two actions share an idempotency key.                                *)
KeysUnshared ==
    \A i, j \in ActionIds :
        actions[i] # None /\ actions[j] # None /\ i[2] = j[2] => i = j

(* As long as tenants use different keys, an executed action stores a      *)
(* receipt of its own write; the adapter's lookup by key is then enough    *)
(* (set_onboarding_decision).                                              *)
THEOREM OwnReceipts == Spec => [](KeysUnshared => ReceiptOfOwnWrite)
<1>1. IInv => (KeysUnshared => ReceiptOfOwnWrite)
  <2> SUFFICES ASSUME IInv, KeysUnshared, NEW id \in ActionIds, actions[id] # None,
                      actions[id].status = "executed"
               PROVE  /\ actions[id].execution_receipt.action_id = id
                      /\ \E i \in 1..Len(writes) : writes[i] = actions[id].execution_receipt
    BY DEF ReceiptOfOwnWrite
  <2>1. RowOK(id)
    BY DEF IInv, RowsOK
  <2>2. PICK i \in 1..Len(writes) : /\ writes[i] = actions[id].execution_receipt
                                    /\ writes[i].action_id[2] = id[2]
    BY <2>1 DEF RowOK, Known
  <2>3. writes[i].action_id \in ActionIds /\ actions[writes[i].action_id] # None
    BY WritesType DEF IInv, WritesAuthorised, Receipt
  <2>4. writes[i].action_id = id
    BY <2>2, <2>3 DEF KeysUnshared
  <2> QED
    BY <2>2, <2>4
<1> QED
    BY <1>1, Invariance, PTL

(* The callers of different tenants choose different keys.                 *)
KeysApart ==
    \A s, t \in Tenants : s # t => KeysOf[s] \cap KeysOf[t] = {}

(* The key of an action is one of its caller's tenant.                     *)
OfItsTenant(id) == id[2] \in KeysOf[id[1]]

KeyInv ==
    /\ \A id \in ActionIds : actions[id] # None => OfItsTenant(id)
    /\ \A r \in ApiRequests : pc[r] \in Proposing => OfItsTenant(action[r].id)

(* A request proposes what it has built, or is about to, from a key of its *)
(* caller's tenant.                                                        *)
LEMMA ProposingStep ==
    ASSUME IInv, KeyInv, [Next]_vars, NEW q \in ApiRequests, pc'[q] \in Proposing
    PROVE  OfItsTenant(action'[q].id)
<1>1. q \in Requests /\ q \notin McpRequests
    BY GovernanceAssumption DEF Requests
<1>2. CASE pc'[q] = pc[q] /\ action'[q] = action[q]
    BY <1>2 DEF KeyInv
<1>3. ASSUME NEW u \in Users, NEW c \in Cases, NEW k \in KeysOf[u.tenant_id],
             ProposeRead(q, u, c, k)
      PROVE  OfItsTenant(action'[q].id)
  <2>1. action'[q].id = <<u.tenant_id, k>>
    BY <1>1, <1>3 DEF ProposeRead, Await, IInv, TypeOK, ActionId
  <2> QED
    BY <2>1 DEF OfItsTenant
<1>4. CASE ApiNext(q)
  <2>1. CASE pc[q] \in Proposing /\ action'[q] = action[q]
    BY <2>1 DEF KeyInv
  <2>2. CASE ProposeLookup(q) \/ ProposeInsert(q) \/ ProposeRelookup(q)
    BY <1>1, <2>1, <2>2 DEF ProposeLookup, ProposeInsert, ProposeRelookup, Respond, Await,
       Proposing, IInv, TypeOK
  <2>3. ~(DecideSave(q) \/ Abandon(q))
    BY <1>1 DEF DecideSave, Abandon, Respond, Proposing, IInv, TypeOK
  <2>4. ~\E u \in Users, id \in ActionIds, s \in {"approved", "rejected"} :
            DecideRead(q, u, id, s)
    BY <1>1 DEF DecideRead, Await, Proposing, IInv, TypeOK
  <2> QED
    BY <1>3, <1>4, <2>2, <2>3, <2>4 DEF ApiNext
<1>5. ASSUME NEW r \in ApiRequests, r # q, ApiNext(r)
      PROVE  pc'[q] = pc[q] /\ action'[q] = action[q]
    BY <1>1, <1>5 DEF ApiNext, ProposeRead, ProposeLookup, ProposeInsert, ProposeRelookup,
       DecideRead, DecideSave, Abandon, Await, Respond, IInv, TypeOK, Requests
<1>6. ASSUME NEW r \in McpRequests, McpNext(r)
      PROVE  pc'[q] = pc[q] /\ action'[q] = action[q]
    BY <1>1, <1>6 DEF McpNext, ExecuteRead, ExecuteCall, ExecuteSave, ExecuteReload,
       Await, Respond, IInv, TypeOK, requestVars
<1>7. ASSUME NEW p \in Processes, RestartMcp(p)
      PROVE  pc'[q] = pc[q] /\ action'[q] = action[q]
    BY <1>1, <1>7 DEF RestartMcp
<1> QED
    BY <1>2, <1>4, <1>5, <1>6, <1>7 DEF Next, SaveReview, vars, requestVars

(* Tenants whose callers choose different keys never share one, whatever   *)
(* requests and administrators there are (propose).                        *)
THEOREM KeysStayApart ==
    ASSUME KeysApart
    PROVE  Spec => []KeysUnshared
<1>1. Init => KeyInv
    BY DEF Init, KeyInv, Proposing, Requests
<1>2. IInv /\ KeyInv /\ [Next]_vars => KeyInv'
  <2> SUFFICES ASSUME IInv, KeyInv, [Next]_vars PROVE KeyInv'
    OBVIOUS
  <2>1. ASSUME NEW id \in ActionIds, actions'[id] # None PROVE OfItsTenant(id)
    <3>1. CASE actions[id] # None
        BY <3>1 DEF KeyInv
    <3>2. CASE actions[id] = None
      <4>1. PICK r \in ApiRequests : ProposeInsert(r) /\ action[r].id = id
        BY <2>1, <3>2, NextRows
      <4>2. pc[r] \in Proposing
        BY <4>1 DEF ProposeInsert, Proposing
      <4> QED
        BY <4>1, <4>2 DEF KeyInv
    <3> QED
        BY <3>1, <3>2
  <2>2. ASSUME NEW r \in ApiRequests, pc'[r] \in Proposing
        PROVE  OfItsTenant(action'[r].id)
    BY <2>2, ProposingStep
  <2> QED
    BY <2>1, <2>2 DEF KeyInv, OfItsTenant
<1>3. KeyInv => KeysUnshared
  <2> SUFFICES ASSUME KeyInv, NEW i \in ActionIds, NEW j \in ActionIds,
                      actions[i] # None, actions[j] # None, i[2] = j[2]
               PROVE  i = j
    BY DEF KeysUnshared
  <2>1. i[2] \in KeysOf[i[1]] /\ i[2] \in KeysOf[j[1]]
    BY DEF KeyInv, OfItsTenant
  <2>2. i[1] = j[1]
    BY <2>1, IdType DEF KeysApart
  <2> QED
    BY <2>2, IdType
<1> QED
    BY <1>1, <1>2, <1>3, Invariance, PTL DEF Spec

(* Until its first restart a process remembers every key it has written.   *)
Remembered ==
    \A i \in 1..Len(writes) : \A p \in Processes : receipts[p][writes[i].action_id[2]] # None

OnceInv == restarts = 0 => Remembered /\ AppliedOnce

(* A write is made only by a process that does not remember its key.       *)
LEMMA OnceStep ==
    ASSUME \A p, q \in Processes : p = q, IInv, OnceInv, [Next]_vars
    PROVE  OnceInv'
<1>1. ASSUME NEW p \in Processes, RestartMcp(p) PROVE OnceInv'
    BY <1>1 DEF OnceInv, RestartMcp, IInv, TypeOK
<1>2. ASSUME NEW r \in McpRequests, ExecuteCall(r), writes' # writes PROVE OnceInv'
  <2>1. pc[r] = "execute_call" /\ r \in Requests /\ ProcessOf[r] \in Processes
    BY <1>2, GovernanceAssumption DEF ExecuteCall, Requests
  <2>2. RequestOK(r)
    BY <2>1 DEF IInv, RequestsOK
  <2>3. PICK a \in Action : a = action[r] /\ a.idempotency_key = a.id[2]
    BY <2>1, <2>2 DEF RequestOK
  <2>4. a.id \in ActionIds /\ a.idempotency_key \in Keys /\ a.review_id \in Reviews
    BY <2>3 DEF Action
  <2>5. PICK x : /\ x = [action_id |-> a.id, applied |-> a.review_id,
                         executed_at |-> Len(writes) + 1]
                 /\ receipts[ProcessOf[r]][a.idempotency_key] = None
                 /\ writes' = Append(writes, x)
                 /\ receipts' = [receipts EXCEPT ![ProcessOf[r]][a.idempotency_key] = x]
                 /\ restarts' = restarts
    BY <1>2, <2>3 DEF ExecuteCall, EarlierReceipt, supplierVars
  <2>6. x \in Receipt /\ x.action_id = a.id
    BY <2>4, <2>5, WritesType DEF Receipt, IInv
  <2>7. /\ Len(writes) \in Nat /\ Len(writes') = Len(writes) + 1
        /\ writes'[Len(writes) + 1] = x
        /\ \A i \in 1..Len(writes) : writes'[i] = writes[i] /\ writes[i] \in Receipt
    BY <2>5, <2>6 DEF IInv, TypeOK
  <2>8. \A p \in Processes : \A k \in Keys :
            receipts'[p][k] = IF k = a.idempotency_key THEN x ELSE receipts[p][k]
    BY <2>1, <2>4, <2>5 DEF IInv, TypeOK
  <2>9. \A i \in 1..Len(writes) : writes[i].action_id[2] \in Keys
    BY <2>7, IdType DEF Receipt
  <2> SUFFICES ASSUME restarts = 0 PROVE Remembered' /\ AppliedOnce'
    BY <2>5 DEF OnceInv
  <2>10. Remembered /\ AppliedOnce
    BY DEF OnceInv
  <2>11. Remembered'
    <3> SUFFICES ASSUME NEW i \in 1..(Len(writes) + 1), NEW p \in Processes
                 PROVE  receipts'[p][writes'[i].action_id[2]] # None
        BY <2>7 DEF Remembered
    <3>1. CASE i = Len(writes) + 1
        BY <2>3, <2>4, <2>6, <2>7, <2>8, <3>1, NoneIsNothing
    <3>2. CASE i \in 1..Len(writes)
        BY <2>6, <2>7, <2>8, <2>9, <2>10, <3>2, NoneIsNothing DEF Remembered
    <3> QED
        BY <2>7, <3>1, <3>2
  <2>12. \A i \in 1..Len(writes) : writes[i].action_id # a.id
    BY <2>1, <2>3, <2>5, <2>10 DEF Remembered
  <2>13. AppliedOnce'
    <3> SUFFICES ASSUME NEW i \in 1..(Len(writes) + 1), NEW j \in 1..(Len(writes) + 1),
                        writes'[i].action_id = writes'[j].action_id
                 PROVE  i = j
        BY <2>7 DEF AppliedOnce
    <3> QED
        BY <2>6, <2>7, <2>10, <2>12 DEF AppliedOnce
  <2> QED
    BY <2>11, <2>13
<1>3. ASSUME UNCHANGED <<receipts, writes, restarts>> PROVE OnceInv'
    BY <1>3 DEF OnceInv, Remembered, AppliedOnce
<1>4. \/ \E p \in Processes : RestartMcp(p)
      \/ \E r \in McpRequests : ExecuteCall(r) /\ writes' # writes
      \/ UNCHANGED <<receipts, writes, restarts>>
  <2>1. ASSUME NEW r \in McpRequests, ExecuteCall(r)
        PROVE  writes' # writes \/ UNCHANGED <<receipts, writes, restarts>>
    <3>1. CASE UNCHANGED supplierVars
        BY <2>1, <3>1 DEF ExecuteCall, supplierVars
    <3>2. CASE ~UNCHANGED supplierVars
      <4>1. PICK x : writes' = Append(writes, x)
        BY <2>1, <3>2 DEF ExecuteCall
      <4>2. writes' # writes
        BY <4>1 DEF IInv, TypeOK
      <4> QED
        BY <4>2
    <3> QED
        BY <3>1, <3>2
  <2> QED
    BY <2>1 DEF Next, vars, supplierVars, SaveReview, ApiNext, McpNext, ProposeRead,
       ProposeLookup, ProposeInsert, ProposeRelookup, DecideRead, DecideSave, Abandon,
       ExecuteRead, ExecuteSave, ExecuteReload
<1> QED
    BY <1>1, <1>2, <1>3, <1>4

(* One MCP process that is not restarted writes each action once, however  *)
(* often and concurrently execute is called (InMemorySupplierSystem).      *)
THEOREM WrittenOnce ==
    ASSUME \A p, q \in Processes : p = q
    PROVE  Spec => [](restarts = 0 => AppliedOnce)
<1>1. Init => OnceInv
    BY DEF Init, OnceInv, Remembered, AppliedOnce
<1>2. IInv /\ OnceInv /\ [Next]_vars => OnceInv'
    BY OnceStep
<1>3. OnceInv => (restarts = 0 => AppliedOnce)
    BY DEF OnceInv
<1> QED
    BY <1>1, <1>2, <1>3, Invariance, PTL DEF Spec

(* Whoever may propose for a case belongs to the case's tenant: there is   *)
(* no administrator with cases of other tenants.                           *)
ProposersAtHome ==
    \A p \in Users, c \in Cases :
        InTenant(p, CaseTenant[c]) /\ HasRole(p, "analyst") => p.tenant_id = CaseTenant[c]

(* Then the identifier of an action begins with its own tenant, and an     *)
(* insert that fails has lost against an action of the same tenant.        *)
HomeInv ==
    /\ \A id \in ActionIds : actions[id] # None => actions[id].tenant_id = id[1]
    /\ \A r \in ApiRequests :
          /\ pc[r] \in Proposing => action[r].tenant_id = action[r].id[1]
          /\ pc[r] = "propose_relookup" => RowOf(r) # None
          /\ pc[r] # "internal_error"

(* The row of a proposal's identifier is what the lookup by tenant and key *)
(* finds, if there is one.                                                 *)
LEMMA LookupByKey ==
    ASSUME IInv, HomeInv, NEW r \in ApiRequests, pc[r] \in Proposing
    PROVE  Existing(action[r].tenant_id, action[r].idempotency_key) # {} <=> RowOf(r) # None
<1>1. r \in Requests /\ pc[r] # "idle"
    BY DEF Requests, Proposing
<1>2. RequestOK(r)
    BY <1>1 DEF IInv, RequestsOK
<1>3. /\ action[r].id \in ActionIds /\ action[r].tenant_id = action[r].id[1]
      /\ action[r].idempotency_key = action[r].id[2]
    BY <1>1, <1>2 DEF RequestOK, HomeInv, Action
<1>4. ASSUME NEW id \in ActionIds, actions[id] # None
      PROVE  actions[id].tenant_id = id[1] /\ actions[id].idempotency_key = id[2]
    BY <1>4 DEF HomeInv, IInv, RowsOK, RowOK
<1>5. ASSUME NEW id \in ActionIds, id[1] = action[r].id[1], id[2] = action[r].id[2]
      PROVE  id = action[r].id
    BY <1>3, <1>5, IdType
<1> QED
    BY <1>3, <1>4, <1>5 DEF Existing, RowOf

(* With callers in the tenant of their case, a refused insert finds its    *)
(* own row.                                                                *)
LEMMA HomeStep ==
    ASSUME ProposersAtHome, IInv, HomeInv, [Next]_vars
    PROVE  HomeInv'
<1> DEFINE AtHome(r) == /\ pc[r] \in Proposing => action[r].tenant_id = action[r].id[1]
                        /\ pc[r] = "propose_relookup" => RowOf(r) # None
                        /\ pc[r] # "internal_error"
<1>1. RowsAdvance
    BY NextRows
<1>2. ASSUME NEW id \in ActionIds, actions'[id] # None
      PROVE  actions'[id].tenant_id = id[1]
  <2>1. CASE actions[id] # None
    BY <1>1, <2>1 DEF RowsAdvance, SameProposal, HomeInv
  <2>2. CASE actions[id] = None
    <3>1. PICK r \in ApiRequests : /\ ProposeInsert(r) /\ action[r].id = id
                                   /\ actions'[id] = action[r]
        BY <1>2, <2>2, NextRows
    <3> QED
        BY <3>1 DEF ProposeInsert, HomeInv, Proposing
  <2> QED
    BY <2>1, <2>2
<1>3. ASSUME NEW q \in ApiRequests, pc'[q] = pc[q], action'[q] = action[q]
      PROVE  AtHome(q)'
  <2>1. pc[q] \in Proposing => action[q].id \in ActionIds
    BY DEF IInv, RequestsOK, RequestOK, Requests, Proposing, Action
  <2> QED
    BY <1>1, <1>3, <2>1 DEF HomeInv, RowOf, Proposing, RowsAdvance
<1>4. ASSUME NEW r \in ApiRequests, ApiNext(r), NEW q \in ApiRequests PROVE AtHome(q)'
  <2>1. r \in Requests /\ q \in Requests
    BY DEF Requests
  <2>2. CASE q # r
    <3>1. pc'[q] = pc[q] /\ action'[q] = action[q]
        BY <1>4, <2>1, <2>2 DEF ApiNext, ProposeRead, ProposeLookup, ProposeInsert,
           ProposeRelookup, DecideRead, DecideSave, Abandon, Await, Respond, IInv, TypeOK
    <3> QED
        BY <1>3, <3>1
  <2> SUFFICES AtHome(r)'
    BY <2>2
  <2>3. pc'[r] = "idle" => AtHome(r)'
    BY DEF Proposing
  <2>4. ASSUME NEW u \in Users, NEW c \in Cases, NEW k \in KeysOf[u.tenant_id],
               ProposeRead(r, u, c, k)
        PROVE  AtHome(r)'
    <3>1. /\ pc'[r] = "propose_lookup"
          /\ action'[r].tenant_id = CaseTenant[c] /\ action'[r].id = <<u.tenant_id, k>>
        BY <2>1, <2>4 DEF ProposeRead, Await, IInv, TypeOK, ActionId
    <3>2. u.tenant_id = CaseTenant[c]
        BY <2>4 DEF ProposeRead, ProposersAtHome
    <3> QED
        BY <3>1, <3>2 DEF Proposing
  <2>5. ASSUME NEW u \in Users, NEW id \in ActionIds, NEW s \in {"approved", "rejected"},
               DecideRead(r, u, id, s)
        PROVE  AtHome(r)'
    BY <2>1, <2>5 DEF DecideRead, Await, IInv, TypeOK, Proposing
  <2>6. CASE ProposeLookup(r)
    <3>1. \/ pc'[r] = "idle"
          \/ pc'[r] = "propose_insert" /\ action'[r] = action[r]
        BY <2>1, <2>6 DEF ProposeLookup, Respond, Await, IInv, TypeOK
    <3> QED
        BY <2>3, <2>6, <3>1 DEF HomeInv, Proposing, ProposeLookup
  <2>7. CASE ProposeInsert(r)
    <3>1. pc[r] = "propose_insert" /\ pc[r] \in Proposing
        BY <2>7 DEF ProposeInsert, Proposing
    <3>2. CASE IntegrityError(action[r])
      <4>1. actions' = actions /\ pc'[r] = "propose_relookup" /\ action'[r] = action[r]
        BY <2>1, <2>7, <3>2 DEF ProposeInsert, Await, IInv, TypeOK
      <4>2. RowOf(r) # None
        BY <3>1, <3>2, LookupByKey DEF IntegrityError, RowOf
      <4> QED
        BY <3>1, <4>1, <4>2 DEF RowOf, HomeInv
    <3>3. CASE ~IntegrityError(action[r])
      <4>1. pc'[r] = "idle"
        BY <2>1, <2>7, <3>3 DEF ProposeInsert, Respond, IInv, TypeOK
      <4> QED
        BY <2>3, <4>1
    <3> QED
        BY <3>2, <3>3
  <2>8. CASE ProposeRelookup(r)
    <3>1. pc[r] \in Proposing /\ RowOf(r) # None
        BY <2>8 DEF ProposeRelookup, Proposing, HomeInv
    <3>2. Respond(r)
        BY <2>8, <3>1, LookupByKey DEF ProposeRelookup
    <3>3. pc'[r] = "idle"
        BY <2>1, <3>2 DEF Respond, IInv, TypeOK
    <3> QED
        BY <2>3, <3>3
  <2>9. CASE DecideSave(r) \/ Abandon(r)
    <3>1. pc'[r] = "idle"
        BY <2>1, <2>9 DEF DecideSave, Abandon, Respond, IInv, TypeOK
    <3> QED
        BY <2>3, <3>1
  <2> QED
    BY <1>4, <2>4, <2>5, <2>6, <2>7, <2>8, <2>9 DEF ApiNext
<1>5. ASSUME NEW q \in ApiRequests, ~\E r \in ApiRequests : ApiNext(r)
      PROVE  AtHome(q)'
  <2>1. q \in Requests /\ q \notin McpRequests
    BY GovernanceAssumption DEF Requests
  <2>2. (pc'[q] = pc[q] /\ action'[q] = action[q]) \/ pc'[q] = "idle"
    <3>1. ASSUME NEW r \in McpRequests, McpNext(r)
          PROVE  pc'[q] = pc[q] /\ action'[q] = action[q]
        BY <2>1, <3>1 DEF McpNext, ExecuteRead, ExecuteCall, ExecuteSave, ExecuteReload,
           Await, Respond, IInv, TypeOK, requestVars
    <3>2. ASSUME NEW p \in Processes, RestartMcp(p)
          PROVE  pc'[q] = pc[q] /\ action'[q] = action[q]
        BY <2>1, <3>2 DEF RestartMcp
    <3> QED
        BY <1>5, <3>1, <3>2 DEF Next, SaveReview, vars, requestVars
  <2> QED
    BY <1>3, <2>2 DEF Proposing
<1> QED
    BY <1>2, <1>4, <1>5 DEF HomeInv

(* Where nobody proposes across tenants, a key its tenant has not used is  *)
(* always accepted (create_proposal's lookup after an IntegrityError).     *)
THEOREM FreshKeys ==
    ASSUME ProposersAtHome
    PROVE  Spec => []FreshKeyAccepted
<1>1. Init => HomeInv
    BY DEF Init, HomeInv, Proposing, Requests
<1>2. IInv /\ HomeInv /\ [Next]_vars => HomeInv'
    BY HomeStep
<1>3. HomeInv => FreshKeyAccepted
    BY DEF HomeInv, FreshKeyAccepted
<1> QED
    BY <1>1, <1>2, <1>3, Invariance, PTL DEF Spec

=============================================================================
