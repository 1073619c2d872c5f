------------------------- MODULE ApprovalLifecycle --------------------------
(***************************************************************************)
(* The life of a governed action across processes: Governance decides and  *)
(* executes it, Outbox starts its Step Functions execution, and the state  *)
(* machine of the production stack polls the committed decision.           *)
(*                                                                         *)
(* infra/iac/lib/production-stack.ts        the state machine              *)
(* apps/approval_status/lambda_handler.py   the status it polls            *)
(*                                                                         *)
(* Governance and Outbox share the database: create_proposal's transaction *)
(* is a step of both, every other step belongs to one of them.             *)
(***************************************************************************)
EXTENDS Governance

CONSTANTS Workers, BatchSize, LockTimeout, MaxAttempts, RetryBase, RetryMax,
          MaxTime, MaxFaults        \* as in Outbox

(* The settings of the outbox are positive, and NULL is no owner and no    *)
(* time.                                                                   *)
ASSUME LifecycleAssumption ==
    /\ {BatchSize, LockTimeout, MaxAttempts, RetryBase, RetryMax} \subseteq Nat \ {0}
    /\ {MaxTime, MaxFaults} \subseteq Nat
    /\ None \notin Nat \cup Workers

VARIABLES
    now, row, arn, executions, messages, current_time, faults,   \* as in Outbox
    worker_pc,       \* pc of Outbox
    machine          \* state of each approval execution

outboxVars == <<now, row, arn, executions, messages, current_time, faults, worker_pc>>
lifecycleVars == <<vars, outboxVars, machine>>

Delivery == INSTANCE Outbox WITH Messages <- ActionIds, pc <- worker_pc

-----------------------------------------------------------------------------

Running == {"CheckCommittedApproval", "WaitForHumanDecision"}
Ended == {"ApprovalSucceeded", "ApprovalRejected", "ApprovalUnexpectedState",
          "TaskFailed", "TimedOut"}

(* Fault seeded in RouteApprovalStatus: the executed case is missing.      *)
RouteWithoutExecuted(status) ==
    CASE status = "pending_approval" -> "WaitForHumanDecision"
      [] status = "approved"         -> "ApprovalSucceeded"
      [] status = "rejected"         -> "ApprovalRejected"
      [] OTHER                       -> "ApprovalUnexpectedState"

(* RouteApprovalStatus                                                     *)
Route(status) ==
    CASE status = "pending_approval"       -> "WaitForHumanDecision"
      [] status \in {"approved", "executed"} -> "ApprovalSucceeded"
      [] status = "rejected"               -> "ApprovalRejected"
      [] OTHER                             -> "ApprovalUnexpectedState"

LifecycleInit ==
    /\ Init
    /\ Delivery!Init
    /\ machine = [id \in ActionIds |-> "absent"]

(* create_proposal commits action, audit event and outbox row together.    *)
Propose ==
    /\ \E r \in ApiRequests : ProposeInsert(r) /\ Delivery!Enqueue(action[r].id)
    /\ UNCHANGED machine

(* Any other step of the API and of the MCP servers.                       *)
Govern ==
    /\ Next
    /\ UNCHANGED <<enqueued, outboxVars, machine>>

(* A worker's step; an execution it creates begins with its first state.   *)
Deliver ==
    /\ (\E w \in Workers : Delivery!WorkerNext(w)) \/ Delivery!Tick
    /\ machine' = [id \in ActionIds |->
                    IF id \in executions' \ executions THEN "CheckCommittedApproval"
                    ELSE machine[id]]
    /\ UNCHANGED vars

Enter(id, state) ==
    /\ machine' = [machine EXCEPT ![id] = state]
    /\ UNCHANGED <<vars, outboxVars>>

(* The Lambda returns the committed status and the machine branches on it; *)
(* for an action that does not exist it raises.                            *)
CheckCommittedApproval(id) ==
    /\ machine[id] = "CheckCommittedApproval"
    /\ Enter(id, IF actions[id] = None THEN "TaskFailed" ELSE Route(actions[id].status))

(* The Lambda raises: only errors of the Lambda service are retried.       *)
CheckRaises(id) ==
    /\ machine[id] = "CheckCommittedApproval"
    /\ Enter(id, "TaskFailed")

(* Fault seeded in the state machine: the wait does not lead back.         *)
WaitForHumanDecisionAgain(id) ==
    /\ machine[id] = "WaitForHumanDecision"
    /\ Enter(id, "WaitForHumanDecision")

(* After five minutes the machine checks again.                            *)
WaitForHumanDecision(id) ==
    /\ machine[id] = "WaitForHumanDecision"
    /\ Enter(id, "CheckCommittedApproval")

(* The execution's timeout of 30 days.                                     *)
TimeOut(id) ==
    /\ machine[id] \in Running
    /\ Enter(id, "TimedOut")

Machine(id) == CheckCommittedApproval(id) \/ WaitForHumanDecision(id)

LifecycleNext ==
    \/ Propose \/ Govern \/ Deliver
    \/ \E id \in ActionIds : Machine(id) \/ CheckRaises(id) \/ TimeOut(id)

(* Step Functions drives its executions.                                   *)
LifecycleSpec ==
    /\ LifecycleInit /\ [][LifecycleNext]_lifecycleVars
    /\ \A id \in ActionIds : WF_lifecycleVars(Machine(id))

-----------------------------------------------------------------------------
(* Properties.                                                             *)

(* The outcome of an approval execution is the decision that is committed, *)
(* and stays so: no later request reverses what the workflow has reported, *)
(* no action ends in a state the machine does not expect, and every        *)
(* execution has a committed action (RouteApprovalStatus, save_transition, *)
(* create_proposal).                                                       *)
OutcomeAgrees ==
    \A id \in ActionIds :
        /\ machine[id] # "absent" => actions[id] # None /\ id \in executions
        /\ machine[id] = "ApprovalSucceeded" => actions[id].status \in {"approved", "executed"}
        /\ machine[id] = "ApprovalRejected" => actions[id].status = "rejected"
        /\ machine[id] # "ApprovalUnexpectedState"

(* A decision reaches the workflow: an execution whose action is decided   *)
(* does not wait for ever but comes to an end, in a poll that reads the    *)
(* decision unless a poll raises or the timeout comes first                *)
(* (WaitForHumanDecision returns to the check).                            *)
DecisionReachesWorkflow ==
    \A id \in ActionIds :
        (machine[id] \in Running /\ actions[id].status # "pending_approval")
            ~> machine[id] \in Ended

=============================================================================
