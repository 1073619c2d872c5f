---------------------------- MODULE WorkflowStart ----------------------------
(***************************************************************************)
(* What the transactional outbox promises for every committed message:     *)
(* its approval workflow is started at least once, the reference of the    *)
(* started execution is stored together with the publication mark, and     *)
(* the message ends in exactly one of two final states.  How leases,       *)
(* retries and worker crashes bring this about is left to module Outbox.   *)
(***************************************************************************)

CONSTANTS
    Messages,        \* outbox messages, one per governed action
    Reference(_),    \* the one execution reference a message can lead to
    None             \* "no reference stored yet"

VARIABLES
    status,          \* "absent", "pending", "published" or "dead_lettered"
    started,         \* messages whose workflow execution exists
    stored           \* execution reference stored with the action, or None

vars == <<status, started, stored>>

Init ==
    /\ status = [m \in Messages |-> "absent"]
    /\ started = {}
    /\ stored = [m \in Messages |-> None]

Commit(m) ==
    /\ status[m] = "absent"
    /\ status' = [status EXCEPT ![m] = "pending"]
    /\ UNCHANGED <<started, stored>>

(* Delivery is at least once: a start may be repeated, and one that was    *)
(* under way when the message was settled may still arrive afterwards.     *)
Invoke(m) ==
    /\ status[m] # "absent"
    /\ started' = started \cup {m}
    /\ UNCHANGED <<status, stored>>

Publish(m) ==
    /\ status[m] = "pending"
    /\ m \in started
    /\ status' = [status EXCEPT ![m] = "published"]
    /\ stored' = [stored EXCEPT ![m] = Reference(m)]
    /\ UNCHANGED started

DeadLetter(m) ==
    /\ status[m] = "pending"
    /\ status' = [status EXCEPT ![m] = "dead_lettered"]
    /\ UNCHANGED <<started, stored>>

Next == \E m \in Messages : Commit(m) \/ Invoke(m) \/ Publish(m) \/ DeadLetter(m)

Spec == Init /\ [][Next]_vars

=============================================================================
