-------------------------- MODULE LifecycleProofs ---------------------------
(***************************************************************************)
(* Proofs about module ApprovalLifecycle.  The composition behaves like    *)
(* each of its components, so what is proved of them holds in it; from     *)
(* both together it follows that the approval executions agree with the    *)
(* committed decisions.                                                    *)
(***************************************************************************)
EXTENDS ApprovalLifecycle, GovernanceRefinement

OutboxPart == INSTANCE OutboxRefinement WITH Messages <- ActionIds, pc <- worker_pc

-----------------------------------------------------------------------------
(* The steps of the composition as steps of the outbox.                    *)

(* A worker's step is one by its name in either instance.                  *)
LEMMA WorkerStep ==
    ASSUME NEW w \in Workers, Delivery!WorkerNext(w)
    PROVE  OutboxPart!WorkerNext(w)
<1> USE DEF Delivery!dbVars, OutboxPart!dbVars, Delivery!workerVars, OutboxPart!workerVars,
            Delivery!Leave, OutboxPart!Leave, Delivery!Advance, OutboxPart!Advance,
            Delivery!Current, OutboxPart!Current, Delivery!HoldsLease, OutboxPart!HoldsLease
<1>1. Delivery!Poll(w) => OutboxPart!Poll(w)
  BY DEF Delivery!Poll, OutboxPart!Poll
<1>2. Delivery!ClaimBatch(w) => OutboxPart!ClaimBatch(w)
  BY DEF Delivery!ClaimBatch, OutboxPart!ClaimBatch, Delivery!Due, OutboxPart!Due,
         Delivery!IsBatch, OutboxPart!IsBatch, Delivery!Before, OutboxPart!Before,
         Delivery!Lease, OutboxPart!Lease
<1>3. Delivery!DeliverOk(w) => OutboxPart!DeliverOk(w)
  BY DEF Delivery!DeliverOk, OutboxPart!DeliverOk
<1>4. Delivery!DeliverError(w) => OutboxPart!DeliverError(w)
  BY DEF Delivery!DeliverError, OutboxPart!DeliverError
<1>5. Delivery!AlreadyPublished(w) => OutboxPart!AlreadyPublished(w)
  BY DEF Delivery!AlreadyPublished, OutboxPart!AlreadyPublished
<1>6. Delivery!MarkPublished(w) => OutboxPart!MarkPublished(w)
  BY DEF Delivery!MarkPublished, OutboxPart!MarkPublished, Delivery!ExecutionArn,
         OutboxPart!ExecutionArn
<1>7. Delivery!RecordFailure(w) => OutboxPart!RecordFailure(w)
  BY DEF Delivery!RecordFailure, OutboxPart!RecordFailure, Delivery!RetryDelay,
         OutboxPart!RetryDelay, Delivery!Exhausted, OutboxPart!Exhausted
<1>8. Delivery!LeaseLost(w) => OutboxPart!LeaseLost(w)
  BY DEF Delivery!LeaseLost, OutboxPart!LeaseLost
<1>9. Delivery!Start(w) => OutboxPart!Start(w)
  BY DEF Delivery!Start, OutboxPart!Start
<1>10. Delivery!PollFailed(w) => OutboxPart!PollFailed(w)
  BY DEF Delivery!PollFailed, OutboxPart!PollFailed
<1>11. Delivery!Crash(w) => OutboxPart!Crash(w)
  BY DEF Delivery!Crash, OutboxPart!Crash
<1> QED
  BY <1>1, <1>2, <1>3, <1>4, <1>5, <1>6, <1>7, <1>8, <1>9, <1>10, <1>11
  DEF Delivery!WorkerNext, OutboxPart!WorkerNext, Delivery!Step, OutboxPart!Step

(* The settings are as the outbox assumes them.                            *)
LEMMA Settings == OutboxPart!OutboxAssumption
BY LifecycleAssumption DEF OutboxPart!OutboxAssumption

(* The two instances of Outbox are one specification.                      *)
LEMMA SameOutbox == Delivery!Spec => OutboxPart!Spec
<1>1. Delivery!Init => OutboxPart!Init
  BY DEF Delivery!Init, OutboxPart!Init
<1>2. ASSUME [Delivery!Next]_(Delivery!vars)
      PROVE  [OutboxPart!Next]_(OutboxPart!vars)
  <2>1. ASSUME NEW m \in ActionIds, Delivery!Enqueue(m)
        PROVE  OutboxPart!Enqueue(m)
    BY <2>1 DEF Delivery!Enqueue, OutboxPart!Enqueue, Delivery!workerVars, OutboxPart!workerVars
  <2>2. Delivery!Tick => OutboxPart!Tick
    BY DEF Delivery!Tick, OutboxPart!Tick, Delivery!dbVars, OutboxPart!dbVars,
           Delivery!workerVars, OutboxPart!workerVars
  <2>3. CASE Delivery!Next
    BY <2>1, <2>2, <2>3, WorkerStep DEF Delivery!Next, OutboxPart!Next
  <2>4. CASE UNCHANGED Delivery!vars
    BY <2>4 DEF Delivery!vars, OutboxPart!vars, Delivery!dbVars, OutboxPart!dbVars,
                Delivery!workerVars, OutboxPart!workerVars
  <2> QED
    BY <1>2, <2>3, <2>4
<1>3. [Delivery!Next]_(Delivery!vars) => [OutboxPart!Next]_(OutboxPart!vars)
  BY <1>2
<1> QED
  BY <1>1, <1>3, PTL DEF Delivery!Spec, OutboxPart!Spec

(* The steps of the composition are steps of the outbox.                   *)
LEMMA OutboxStep ==
    ASSUME IInv, [LifecycleNext]_lifecycleVars
    PROVE  [Delivery!Next]_(Delivery!vars)
<1> USE DEF vars, dbVars, outboxVars, Delivery!vars, Delivery!dbVars, Delivery!workerVars
<1>1. CASE Propose
  <2>1. PICK r \in ApiRequests : ProposeInsert(r) /\ Delivery!Enqueue(action[r].id)
    BY <1>1 DEF Propose
  <2>2. action[r].id \in ActionIds
    BY <2>1 DEF ProposeInsert, IInv, RequestsOK, RequestOK, Action, Requests
  <2> QED
    BY <2>1, <2>2 DEF Delivery!Next
<1>2. CASE Govern
  BY <1>2 DEF Govern
<1>3. CASE Deliver
  BY <1>3 DEF Deliver, Delivery!Next
<1>4. CASE \E id \in ActionIds : Machine(id) \/ CheckRaises(id) \/ TimeOut(id)
  BY <1>4 DEF Machine, CheckRaises, TimeOut, CheckCommittedApproval, WaitForHumanDecision, Enter
<1>5. CASE UNCHANGED lifecycleVars
  BY <1>5 DEF lifecycleVars
<1> QED
  BY <1>1, <1>2, <1>3, <1>4, <1>5 DEF LifecycleNext

(* The steps of the composition are steps of the governed actions.         *)
LEMMA GovernanceStep ==
    ASSUME [LifecycleNext]_lifecycleVars
    PROVE  [Next]_vars
<1>1. CASE Propose
  BY <1>1 DEF Propose, Next, ApiNext
<1>2. CASE Govern
  BY <1>2 DEF Govern
<1>3. CASE Deliver
  BY <1>3 DEF Deliver
<1>4. CASE \E id \in ActionIds : Machine(id) \/ CheckRaises(id) \/ TimeOut(id)
  BY <1>4 DEF Machine, CheckRaises, TimeOut, CheckCommittedApproval, WaitForHumanDecision, Enter
<1>5. CASE UNCHANGED lifecycleVars
  BY <1>5 DEF lifecycleVars
<1> QED
  BY <1>1, <1>2, <1>3, <1>4, <1>5 DEF LifecycleNext

(* Governance is not disturbed by the outbox and the state machine: every  *)
(* behaviour of the composition is one of Governance, so that all theorems *)
(* about governed actions hold in it (create_proposal is the only shared   *)
(* transaction).                                                           *)
THEOREM GovernanceImplemented == LifecycleSpec => Spec
<1>1. LifecycleInit => Init
  BY DEF LifecycleInit
<1>2. [LifecycleNext]_lifecycleVars => [Next]_vars
  BY GovernanceStep
<1> QED
  BY <1>1, <1>2, PTL DEF LifecycleSpec, Spec

(* The outbox is not disturbed either: it is filled by create_proposal     *)
(* alone, once per action, as module Outbox has it.                        *)
THEOREM OutboxImplemented == LifecycleSpec => Delivery!Spec
<1>1. LifecycleInit => Delivery!Init
  BY DEF LifecycleInit
<1>2. IInv /\ [LifecycleNext]_lifecycleVars => [Delivery!Next]_(Delivery!vars)
  BY OutboxStep
<1>3. LifecycleSpec => []IInv
  BY GovernanceImplemented, Invariance, PTL
<1> QED
  BY <1>1, <1>2, <1>3, PTL DEF LifecycleSpec, Delivery!Spec

-----------------------------------------------------------------------------
(* The state machine.                                                      *)

(* Executions are never deleted.                                           *)
LEMMA ExecutionsGrow ==
    ASSUME [LifecycleNext]_lifecycleVars
    PROVE  executions \subseteq executions'
<1> USE DEF outboxVars, Delivery!dbVars, Delivery!workerVars
<1>1. ASSUME NEW w \in Workers, Delivery!WorkerNext(w)
      PROVE  executions \subseteq executions'
  BY <1>1 DEF Delivery!WorkerNext, Delivery!Step, Delivery!Poll, Delivery!ClaimBatch,
     Delivery!DeliverOk, Delivery!DeliverError, Delivery!AlreadyPublished,
     Delivery!MarkPublished, Delivery!RecordFailure, Delivery!LeaseLost, Delivery!Start,
     Delivery!PollFailed, Delivery!Crash
<1> QED
  BY <1>1 DEF LifecycleNext, lifecycleVars, Propose, Delivery!Enqueue, Govern, Deliver,
     Delivery!Tick, Machine, CheckRaises, TimeOut, CheckCommittedApproval,
     WaitForHumanDecision, Enter

States == {"absent"} \cup Running \cup Ended

(* The outcomes, and what the two components know of each other.           *)
MachineOK ==
    /\ machine \in [ActionIds -> States]
    /\ OutcomeAgrees

(* A row that is there has one of the statuses the machine routes.         *)
LEMMA RouteKnown ==
    ASSUME IInv, NEW id \in ActionIds, actions[id] # None
    PROVE  /\ Route(actions[id].status) \in States
           /\ Route(actions[id].status) # "ApprovalUnexpectedState"
           /\ Route(actions[id].status) # "absent"
           /\ Route(actions[id].status) = "ApprovalSucceeded" =>
                 actions[id].status \in {"approved", "executed"}
           /\ Route(actions[id].status) = "ApprovalRejected" => actions[id].status = "rejected"
<1>1. actions[id].status \in {"pending_approval", "approved", "rejected", "executed"}
  BY DEF IInv, TypeOK, Action
<1> QED
  BY <1>1 DEF Route, States, Running, Ended

(* A decision that an execution has reported is not reversed, an execution *)
(* begins for a committed action, and each check reports what is there.    *)
LEMMA MachineStep ==
    ASSUME IInv, IInv', MachineOK, OutboxPart!IInv', [LifecycleNext]_lifecycleVars
    PROVE  MachineOK'
<1>1. RowsAdvance
  BY GovernanceStep, NextRows
<1>2. executions \subseteq executions'
  BY ExecutionsGrow
<1>3. \A id \in ActionIds : id \in executions' => actions'[id] # None
  BY DEF IInv, AuditAgrees, OutboxPart!IInv, OutboxPart!AbsentInv
<1>4. ASSUME NEW id \in ActionIds, machine'[id] = machine[id]
      PROVE  /\ machine'[id] \in States
             /\ machine'[id] # "absent" => actions'[id] # None /\ id \in executions'
             /\ machine'[id] = "ApprovalSucceeded" =>
                   actions'[id].status \in {"approved", "executed"}
             /\ machine'[id] = "ApprovalRejected" => actions'[id].status = "rejected"
             /\ machine'[id] # "ApprovalUnexpectedState"
  BY <1>1, <1>2, <1>4 DEF MachineOK, OutcomeAgrees, RowsAdvance
<1>5. CASE machine' = machine
  BY <1>4, <1>5 DEF MachineOK, OutcomeAgrees
<1>6. CASE Deliver
  <2>1. machine' = [id \in ActionIds |->
                      IF id \in executions' \ executions THEN "CheckCommittedApproval"
                      ELSE machine[id]]
    BY <1>6 DEF Deliver
  <2>2. ASSUME NEW id \in ActionIds, id \in executions' \ executions
        PROVE  machine'[id] = "CheckCommittedApproval" /\ actions'[id] # None
    BY <1>3, <2>1, <2>2
  <2>3. ASSUME NEW id \in ActionIds, id \notin executions' \ executions
        PROVE  machine'[id] = machine[id]
    BY <2>1, <2>3
  <2>4. "CheckCommittedApproval" \in States
    BY DEF States, Running
  <2>5. machine' \in [ActionIds -> States]
    BY <2>1, <2>4 DEF MachineOK
  <2>6. OutcomeAgrees'
    BY <1>4, <2>2, <2>3 DEF OutcomeAgrees
  <2> QED
    BY <2>5, <2>6 DEF MachineOK
<1>7. ASSUME NEW id \in ActionIds, NEW state, Enter(id, state), machine[id] # "absent",
             state \in States, state # "absent", state # "ApprovalUnexpectedState",
             state = "ApprovalSucceeded" => actions[id].status \in {"approved", "executed"},
             state = "ApprovalRejected" => actions[id].status = "rejected"
      PROVE  MachineOK'
  <2>1. /\ machine' = [machine EXCEPT ![id] = state] /\ actions' = actions
        /\ executions' = executions
    BY <1>7 DEF Enter, vars, dbVars, outboxVars
  <2>2. machine' \in [ActionIds -> States] /\ machine'[id] = state
    BY <1>7, <2>1 DEF MachineOK
  <2>3. \A i \in ActionIds : i # id => machine'[i] = machine[i]
    BY <2>1 DEF MachineOK
  <2>4. OutcomeAgrees'
    BY <1>7, <2>1, <2>2, <2>3 DEF MachineOK, OutcomeAgrees
  <2> QED
    BY <2>2, <2>4 DEF MachineOK
<1>8. ASSUME NEW id \in ActionIds, Machine(id) \/ CheckRaises(id) \/ TimeOut(id)
      PROVE  MachineOK'
  <2>1. CASE CheckCommittedApproval(id)
    <3>1. machine[id] = "CheckCommittedApproval" /\ actions[id] # None
      BY <2>1 DEF CheckCommittedApproval, MachineOK, OutcomeAgrees
    <3>2. Enter(id, Route(actions[id].status))
      BY <2>1, <3>1 DEF CheckCommittedApproval
    <3> QED
      BY <1>7, <3>1, <3>2, RouteKnown
  <2>2. CASE WaitForHumanDecision(id)
    BY <1>7, <2>2 DEF WaitForHumanDecision, States, Running
  <2>3. CASE CheckRaises(id)
    BY <1>7, <2>3 DEF CheckRaises, States, Ended
  <2>4. CASE TimeOut(id)
    BY <1>7, <2>4 DEF TimeOut, States, Running, Ended
  <2> QED
    BY <1>8, <2>1, <2>2, <2>3, <2>4 DEF Machine
<1>9. Propose \/ Govern \/ UNCHANGED lifecycleVars => machine' = machine
  BY DEF Propose, Govern, lifecycleVars
<1> QED
  BY <1>5, <1>6, <1>8, <1>9 DEF LifecycleNext

(* The outcome of an approval execution is the committed decision and      *)
(* stays so, although the decision, the delivery and the polling of the    *)
(* status belong to three processes: no request reverses what a workflow   *)
(* has reported, and no execution exists without its action                *)
(* (RouteApprovalStatus, save_transition, create_proposal).                *)
THEOREM OutcomesCommitted == LifecycleSpec => []OutcomeAgrees
<1>1. LifecycleInit => MachineOK
  BY DEF LifecycleInit, MachineOK, OutcomeAgrees, States
<1>2. IInv /\ IInv' /\ MachineOK /\ OutboxPart!IInv' /\ [LifecycleNext]_lifecycleVars
        => MachineOK'
  BY MachineStep
<1>3. LifecycleSpec => []IInv
  BY GovernanceImplemented, Invariance, PTL
<1>4. OutboxPart!Spec => []OutboxPart!IInv
  BY OutboxPart!Invariance, Settings
<1>5. LifecycleSpec => []OutboxPart!IInv
  BY <1>4, OutboxImplemented, SameOutbox, PTL
<1>6. MachineOK => OutcomeAgrees
  BY DEF MachineOK
<1> QED
  BY <1>1, <1>2, <1>3, <1>5, <1>6, PTL DEF LifecycleSpec

(* A workflow reports only decisions made by somebody other than the       *)
(* proposer who has authority in the action's tenant, whatever happens     *)
(* between the decision and the poll (decide, RouteApprovalStatus).        *)
THEOREM OutcomesAuthorised ==
    LifecycleSpec => [](\A id \in ActionIds :
                            machine[id] \in {"ApprovalSucceeded", "ApprovalRejected"} =>
                                Approved(actions[id]))
<1>1. IInv /\ OutcomeAgrees => \A id \in ActionIds :
                            machine[id] \in {"ApprovalSucceeded", "ApprovalRejected"} =>
                                Approved(actions[id])
  BY DEF IInv, OutcomeAgrees, RowsOK, RowOK
<1>2. LifecycleSpec => []IInv
  BY GovernanceImplemented, Invariance, PTL
<1> QED
  BY <1>1, <1>2, OutcomesCommitted, PTL

(* Where tenants choose different keys, the composed system keeps the      *)
(* promises of both components: enterprise writes as GovernedAction allows *)
(* them, and for every proposal a workflow as WorkflowStart allows it.     *)
THEOREM PromisesKept ==
    ASSUME KeysApart
    PROVE  LifecycleSpec => ImplementsGovernedAction /\ OutboxPart!ImplementsPromise
<1>1. OutboxPart!Spec => OutboxPart!ImplementsPromise
  BY OutboxPart!Refinement, Settings
<1>2. LifecycleSpec => OutboxPart!Spec
  BY OutboxImplemented, SameOutbox, PTL
<1>3. Spec => ImplementsGovernedAction
  BY Refinement
<1> QED
  BY <1>1, <1>2, <1>3, GovernanceImplemented, PTL

=============================================================================
