--------------------------- MODULE GovernedAction ---------------------------
(***************************************************************************)
(* What governance promises of an enterprise write, whatever requests,     *)
(* processes and retries carry it out: an action is proposed once, with    *)
(* arguments that never change; one authorised person other than the       *)
(* proposer decides once; the write is only ever made for an approved      *)
(* action; and the action is completed once, with the receipt of a write   *)
(* of its own.                                                             *)
(*                                                                         *)
(* packages/governance/service.py   the contract of GovernanceService      *)
(***************************************************************************)
EXTENDS Integers, Sequences

CONSTANTS
    Ids,             \* governed actions
    Subjects,        \* people
    Proposals,       \* [proposer_id, tenant_id, applied]: what is asked for
    Authority(_, _), \* Authority(s, tenant): s may decide in the tenant
    None

VARIABLES
    proposal,        \* proposer, tenant and arguments of each action
    decision,        \* approver and verdict
    writes,          \* writes the enterprise system has made
    receipt          \* the receipt an action was completed with

vars == <<proposal, decision, writes, receipt>>

Init ==
    /\ proposal = [id \in Ids |-> None]
    /\ decision = [id \in Ids |-> None]
    /\ writes = <<>>
    /\ receipt = [id \in Ids |-> None]

(* propose                                                                 *)
Propose(id) ==
    /\ proposal[id] = None
    /\ proposal'[id] \in Proposals
    /\ proposal' = [proposal EXCEPT ![id] = proposal'[id]]
    /\ UNCHANGED <<decision, writes, receipt>>

(* decide                                                                  *)
Decide(id) ==
    /\ proposal[id] # None
    /\ decision[id] = None
    /\ decision'[id] \in [approver_id : Subjects, status : {"approved", "rejected"}]
    /\ decision'[id].approver_id # proposal[id].proposer_id
    /\ Authority(decision'[id].approver_id, proposal[id].tenant_id)
    /\ decision' = [decision EXCEPT ![id] = decision'[id]]
    /\ UNCHANGED <<proposal, writes, receipt>>

IsApproved(id) == decision[id] # None /\ decision[id].status = "approved"

(* execute's call of the enterprise system, possibly repeated.             *)
Write(id) ==
    /\ IsApproved(id)
    /\ writes' = Append(writes, [action_id |-> id, applied |-> proposal[id].applied,
                                 executed_at |-> Len(writes) + 1])
    /\ UNCHANGED <<proposal, decision, receipt>>

(* execute's committed result.                                             *)
Complete(id) ==
    /\ IsApproved(id)
    /\ receipt[id] = None
    /\ \E i \in 1..Len(writes) :
        /\ writes[i].action_id = id
        /\ receipt' = [receipt EXCEPT ![id] = writes[i]]
    /\ UNCHANGED <<proposal, decision, writes>>

Next == \E id \in Ids : Propose(id) \/ Decide(id) \/ Write(id) \/ Complete(id)

Spec == Init /\ [][Next]_vars

=============================================================================
