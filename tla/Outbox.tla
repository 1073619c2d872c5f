------------------------------- MODULE Outbox -------------------------------
(***************************************************************************)
(* The transactional outbox: rows committed with governed actions, and the *)
(* workers that lease them, start the approval workflow and acknowledge.   *)
(*                                                                         *)
(* packages/outbox/repositories.py   the three transactions on a row       *)
(* packages/outbox/dispatcher.py     dispatch_once, one batch of a worker  *)
(* packages/workflows/approvals.py   the idempotently named external start *)
(* apps/outbox_worker/main.py        the polling loop around dispatch_once *)
(*                                                                         *)
(* Each repository method is one database transaction and so one action;   *)
(* everything between two of them (the external call, the clock, the other *)
(* workers, crashes) interleaves.                                          *)
(***************************************************************************)
EXTENDS Integers, Sequences, FiniteSets

CONSTANTS
    Messages,        \* outbox messages, one per governed action
    Workers,         \* worker identities (hostname-pid)
    BatchSize,       \* settings.outbox_batch_size
    LockTimeout,     \* settings.outbox_lock_timeout_seconds
    MaxAttempts,     \* settings.outbox_max_attempts
    RetryBase,       \* settings.outbox_retry_base_seconds
    RetryMax,        \* settings.outbox_retry_max_seconds
    MaxTime,         \* bound: the clock stops here
    MaxFaults,       \* bound: worker crashes and database errors
    None             \* SQL NULL

ASSUME OutboxAssumption ==
    /\ BatchSize \in Nat \ {0}
    /\ LockTimeout \in Nat \ {0}
    /\ MaxAttempts \in Nat \ {0}
    /\ RetryBase \in Nat \ {0}
    /\ RetryMax \in Nat \ {0}
    /\ MaxTime \in Nat
    /\ MaxFaults \in Nat
    /\ None \notin Nat \cup Workers

VARIABLES
    now,             \* the UTC clock every process reads
    enqueued,        \* messages whose proposal transaction has committed
    row,             \* the outbox_messages table
    arn,             \* governed_actions.workflow_execution_arn
    executions,      \* Step Functions executions that exist (external)
    pc,              \* where each worker is
    messages,        \* rest of a worker's claimed batch, as read at the claim
    current_time,    \* dispatch_once's clock reading; 0 outside a call
    faults           \* crashes and database errors so far

dbVars == <<enqueued, row, arn>>
workerVars == <<pc, messages, current_time>>
vars == <<now, dbVars, executions, workerVars, faults>>

-----------------------------------------------------------------------------

(* The columns of OutboxMessageRecord that the outbox code decides on.     *)
Row == [attempt_count : Nat, available_at : Int, created_at : Nat,
        locked_at : Nat \cup {None}, locked_by : Workers \cup {None},
        published_at : Nat \cup {None}, dead_lettered_at : Nat \cup {None}]

Snapshot == [id : Messages, attempt_count : Nat]

(* _message_from_record's status, for a message that may not exist yet.    *)
Status(m) ==
    IF m \notin enqueued THEN "absent"
    ELSE IF row[m].published_at # None THEN "published"
    ELSE IF row[m].dead_lettered_at # None THEN "dead_lettered"
    ELSE "pending"

(* StepFunctionsApprovalWorkflow._execution_arn: a function of the action, *)
(* the same whether this start created the execution or found it there.    *)
ExecutionArn(m) == <<"execution", m>>

(* OutboxDispatcher._retry_delay; the exponent is capped at 20.            *)
RetryDelay(attempt_count) ==
    LET exponent == IF attempt_count < 20 THEN attempt_count ELSE 20
        delay    == RetryBase * 2^exponent
    IN  IF delay < RetryMax THEN delay ELSE RetryMax

(* Faults seeded in claim_batch: leases ignored, leases that expire one    *)
(* unit early, abandoned leases never recovered.                           *)
DueIgnoringLeases(t) ==
    {m \in enqueued : /\ row[m].published_at = None
                      /\ row[m].dead_lettered_at = None
                      /\ row[m].available_at <= t}
DueEarly(t) == {m \in DueIgnoringLeases(t) :
                  row[m].locked_at # None => row[m].locked_at <= t - LockTimeout + 1}
DueUnlocked(t) == {m \in DueIgnoringLeases(t) : row[m].locked_at = None}

(* claim_batch's WHERE clause, at clock reading t.                         *)
Due(t) ==
    {m \in enqueued :
        /\ row[m].published_at = None
        /\ row[m].dead_lettered_at = None
        /\ row[m].available_at <= t
        /\ row[m].locked_at # None => row[m].locked_at <= t - LockTimeout}

(* claim_batch's ORDER BY available_at, created_at; ties are left open.    *)
Before(m1, m2) ==
    \/ row[m1].available_at < row[m2].available_at
    \/ /\ row[m1].available_at = row[m2].available_at
       /\ row[m1].created_at < row[m2].created_at

(* The answers the SELECT ... ORDER BY ... LIMIT can give at reading t.    *)
IsBatch(batch, n, t) ==
    /\ \A i, j \in 1..n : i < j => batch[i] # batch[j] /\ ~Before(batch[j], batch[i])
    /\ LET rest == Due(t) \ {batch[i] : i \in 1..n}
       IN  /\ n < BatchSize => rest = {}
           /\ \A m \in rest, i \in 1..n : ~Before(m, batch[i])

(* Fault seeded in _require_lease: the check is missing.                   *)
HoldsLeaseUnchecked(w, m) == TRUE

(* _require_lease looks at the owner only, not at the lease's age.         *)
HoldsLease(w, m) == row[m].locked_by = w

(* Fault seeded in record_failure: one attempt too many.                   *)
ExhaustedLate(attempts) == attempts > MaxAttempts

(* record_failure's test for the dead-letter state.                        *)
Exhausted(attempts) == attempts >= MaxAttempts

(* The message of the batch the loop of dispatch_once is at.               *)
Current(w) == Head(messages[w]).id

-----------------------------------------------------------------------------

Init ==
    /\ now = 0
    /\ enqueued = {}
    /\ row = [m \in Messages |->
                [attempt_count |-> 0, available_at |-> 0, created_at |-> 0,
                 locked_at |-> None, locked_by |-> None,
                 published_at |-> None, dead_lettered_at |-> None]]
    /\ arn = [m \in Messages |-> None]
    /\ executions = {}
    /\ pc = [w \in Workers |-> "stopped"]
    /\ messages = [w \in Workers |-> <<>>]
    /\ current_time = [w \in Workers |-> 0]
    /\ faults = 0

(* Fault seeded in create_proposal: available_at is left NULL.             *)
EnqueueUndated(m) ==
    /\ m \notin enqueued
    /\ enqueued' = enqueued \cup {m}
    /\ row' = [row EXCEPT ![m].available_at = None, ![m].created_at = now]
    /\ UNCHANGED <<now, arn, executions, workerVars, faults>>

(* create_proposal commits the action, its audit event and this row.       *)
Enqueue(m) ==
    /\ m \notin enqueued
    /\ enqueued' = enqueued \cup {m}
    /\ row' = [row EXCEPT ![m].available_at = now, ![m].created_at = now]
    /\ UNCHANGED <<now, arn, executions, workerVars, faults>>

(* dispatch_once is over, normally or by an exception run_worker logs; its *)
(* locals go out of scope and the loop polls again.                        *)
Leave(w) ==
    /\ pc' = [pc EXCEPT ![w] = "idle"]
    /\ messages' = [messages EXCEPT ![w] = <<>>]
    /\ current_time' = [current_time EXCEPT ![w] = 0]

(* The for loop goes on to the next message of the batch, if there is one. *)
Advance(w) ==
    IF Len(messages[w]) = 1
    THEN Leave(w)
    ELSE /\ pc' = [pc EXCEPT ![w] = "deliver"]
         /\ messages' = [messages EXCEPT ![w] = Tail(@)]
         /\ UNCHANGED current_time

Start(w) ==
    /\ pc[w] = "stopped"
    /\ pc' = [pc EXCEPT ![w] = "idle"]
    /\ UNCHANGED <<now, dbVars, executions, messages, current_time, faults>>

(* dispatch_once reads the clock once, before it awaits the claim.         *)
Poll(w) ==
    /\ pc[w] = "idle"
    /\ pc' = [pc EXCEPT ![w] = "claim"]
    /\ current_time' = [current_time EXCEPT ![w] = now]
    /\ UNCHANGED <<now, dbVars, executions, messages, faults>>

(* The n rows of the batch are leased to w, which gets what they hold; an  *)
(* empty poll ends the call.                                               *)
Lease(w, batch, n) ==
    IF n = 0
    THEN UNCHANGED row /\ Leave(w)
    ELSE /\ row' = [m \in Messages |->
                     IF \E i \in 1..n : batch[i] = m
                     THEN [row[m] EXCEPT !.locked_at = current_time[w], !.locked_by = w]
                     ELSE row[m]]
         /\ messages' = [messages EXCEPT ![w] =
                [i \in 1..n |-> [id |-> batch[i],
                                 attempt_count |-> row[batch[i]].attempt_count]]]
         /\ pc' = [pc EXCEPT ![w] = "deliver"]
         /\ UNCHANGED current_time

(* claim_batch: select up to BatchSize due rows and lease them.            *)
ClaimBatch(w) ==
    /\ pc[w] = "claim"
    /\ \E n \in 0..BatchSize : \E batch \in [1..n -> Due(current_time[w])] :
          IsBatch(batch, n, current_time[w]) /\ Lease(w, batch, n)
    /\ UNCHANGED <<now, enqueued, arn, executions, faults>>

(* handler.handle returned a reference: this call started the execution,   *)
(* or StartExecution answered ExecutionAlreadyExists.                      *)
DeliverOk(w) ==
    /\ pc[w] = "deliver"
    /\ executions' = executions \cup {Current(w)}
    /\ pc' = [pc EXCEPT ![w] = "ack"]
    /\ UNCHANGED <<now, dbVars, messages, current_time, faults>>

(* Fault seeded in dispatch_once: the exception is swallowed.              *)
DeliverErrorSwallowed(w) ==
    /\ pc[w] = "deliver"
    /\ pc' = [pc EXCEPT ![w] = "ack"]
    /\ UNCHANGED <<now, dbVars, executions, messages, current_time, faults>>

(* handler.handle raised.  The execution may exist all the same: the error *)
(* can be a response that was lost.                                        *)
DeliverError(w) ==
    /\ pc[w] = "deliver"
    /\ \/ UNCHANGED executions
       \/ executions' = executions \cup {Current(w)}
    /\ pc' = [pc EXCEPT ![w] = "fail"]
    /\ UNCHANGED <<now, dbVars, messages, current_time, faults>>

(* mark_published finds the row published already and returns.             *)
AlreadyPublished(w) ==
    /\ pc[w] = "ack"
    /\ row[Current(w)].published_at # None
    /\ Advance(w)
    /\ UNCHANGED <<now, dbVars, executions, faults>>

(* mark_published stores the reference and the mark in one transaction.    *)
MarkPublished(w) ==
    LET m == Current(w) IN
    /\ pc[w] = "ack"
    /\ row[m].published_at = None
    /\ HoldsLease(w, m)
    /\ arn' = [arn EXCEPT ![m] = ExecutionArn(m)]
    /\ row' = [row EXCEPT ![m] = [@ EXCEPT !.published_at = current_time[w],
                                          !.locked_at = None,
                                          !.locked_by = None]]
    /\ Advance(w)
    /\ UNCHANGED <<now, enqueued, executions, faults>>

(* record_failure: count the attempt, release, retry later or give up.     *)
RecordFailure(w) ==
    LET m        == Current(w)
        attempts == row[m].attempt_count + 1
        released == [row[m] EXCEPT !.attempt_count = attempts,
                                   !.locked_at = None,
                                   !.locked_by = None]
        retry_at == current_time[w] + RetryDelay(Head(messages[w]).attempt_count)
    IN
    /\ pc[w] = "fail"
    /\ HoldsLease(w, m)
    /\ row' = [row EXCEPT ![m] =
                IF Exhausted(attempts)
                THEN [released EXCEPT !.dead_lettered_at = current_time[w]]
                ELSE [released EXCEPT !.available_at = retry_at]]
    /\ Advance(w)
    /\ UNCHANGED <<now, enqueued, arn, executions, faults>>

(* OutboxLeaseLostError leaves dispatch_once, so the messages of the batch *)
(* that were not handled yet stay leased until their leases expire.        *)
LeaseLost(w) ==
    /\ \/ pc[w] = "ack" /\ row[Current(w)].published_at = None
       \/ pc[w] = "fail"
    /\ ~HoldsLease(w, Current(w))
    /\ Leave(w)
    /\ UNCHANGED <<now, dbVars, executions, faults>>

(* A database error leaves dispatch_once.  Between two transactions it is  *)
(* a commit whose confirmation was lost.                                   *)
PollFailed(w) ==
    /\ pc[w] \notin {"stopped", "idle"}
    /\ faults < MaxFaults
    /\ faults' = faults + 1
    /\ Leave(w)
    /\ UNCHANGED <<now, dbVars, executions>>

(* The process ends, at any point; on SIGTERM it ends when idle.           *)
Crash(w) ==
    /\ pc[w] # "stopped"
    /\ faults < MaxFaults
    /\ faults' = faults + 1
    /\ pc' = [pc EXCEPT ![w] = "stopped"]
    /\ messages' = [messages EXCEPT ![w] = <<>>]
    /\ current_time' = [current_time EXCEPT ![w] = 0]
    /\ UNCHANGED <<now, dbVars, executions>>

Tick ==
    /\ now < MaxTime
    /\ now' = now + 1
    /\ UNCHANGED <<dbVars, executions, workerVars, faults>>

Step(w) ==
    \/ Poll(w) \/ ClaimBatch(w) \/ DeliverOk(w) \/ DeliverError(w)
    \/ AlreadyPublished(w) \/ MarkPublished(w) \/ RecordFailure(w)
    \/ LeaseLost(w)

WorkerNext(w) == Step(w) \/ Start(w) \/ PollFailed(w) \/ Crash(w)

Next ==
    \/ \E m \in Messages : Enqueue(m)
    \/ \E w \in Workers : WorkerNext(w)
    \/ Tick

Spec == Init /\ [][Next]_vars

-----------------------------------------------------------------------------
(* Properties.                                                             *)

TypeOK ==
    /\ now \in Nat
    /\ enqueued \subseteq Messages
    /\ row \in [Messages -> Row]
    /\ arn \in [Messages -> {None} \cup {ExecutionArn(m) : m \in Messages}]
    /\ executions \subseteq Messages
    /\ pc \in [Workers -> {"stopped", "idle", "claim", "deliver", "ack", "fail"}]
    /\ messages \in [Workers -> Seq(Snapshot)]
    /\ current_time \in [Workers -> Nat]
    /\ faults \in Nat

(* The lease of worker w's batch has not expired.                          *)
Unexpired(w) == now < current_time[w] + LockTimeout

(* The messages worker w has claimed and not finished with.                *)
Claimed(w) == {messages[w][i].id : i \in DOMAIN messages[w]}

(* A message marked published has a workflow execution, and the action     *)
(* carries its reference; no other action carries one (mark_published's    *)
(* transaction, whichever workers raced for the row).                      *)
PublishedImpliesStarted ==
    \A m \in Messages :
        IF row[m].published_at # None
        THEN m \in executions /\ arn[m] = ExecutionArn(m)
        ELSE arn[m] = None

(* Until a worker's lease expires, no other worker whose lease is alive    *)
(* works on the same message: two workers that share a message include one *)
(* that has overrun lock_timeout (claim_batch).                            *)
NoOverlappingDelivery ==
    \A w1, w2 \in Workers :
        w1 # w2 /\ Unexpired(w1) /\ Unexpired(w2) => Claimed(w1) \cap Claimed(w2) = {}

(* A worker that has not overrun its lease still owns every message of its *)
(* batch, so its acknowledgements cannot fail with OutboxLeaseLostError    *)
(* (_require_lease checks the owner only).                                 *)
LeaseKept ==
    \A w \in Workers : Unexpired(w) => \A m \in Claimed(w) : row[m].locked_by = w

(* No failed attempt is counted twice or by another worker: attempt_count  *)
(* moves by one, in a step of the worker that owns the row, from the very  *)
(* count the retry delay of that attempt is computed from.  A failure that *)
(* is reported after the lease was lost is not counted (record_failure).   *)
AttemptsCountedOnce ==
    [][\A m \in enqueued :
        row'[m].attempt_count # row[m].attempt_count =>
            \E w \in Workers :
                /\ row[m].locked_by = w /\ pc[w] = "fail" /\ Current(w) = m
                /\ row[m].attempt_count = Head(messages[w]).attempt_count
                /\ row'[m].attempt_count = row[m].attempt_count + 1]_vars

(* A message is given up after exactly MaxAttempts counted failures, never *)
(* before, and then for good; a published or dead row is owned by nobody   *)
(* (record_failure, mark_published).                                       *)
DeadLetterExact ==
    \A m \in Messages :
        /\ row[m].dead_lettered_at # None <=> row[m].attempt_count >= MaxAttempts
        /\ row[m].attempt_count <= MaxAttempts
        /\ row[m].dead_lettered_at # None =>
                row[m].published_at = None /\ row[m].locked_by = None
        /\ row[m].published_at # None => row[m].locked_by = None

(* The outbox implements its promise: no start without a committed         *)
(* proposal, publication only with a started workflow and its reference,   *)
(* and final states that no late worker undoes.                            *)
Promise == INSTANCE WorkflowStart WITH
    status    <- [m \in Messages |-> Status(m)],
    started   <- executions,
    stored    <- arn,
    Reference <- ExecutionArn

ImplementsPromise == Promise!Spec

(* A committed proposal does not lose its workflow start: its message is   *)
(* published or dead-lettered in the end, although workers crash, leases   *)
(* are abandoned and responses are lost (stale-lease recovery and retry).  *)
EventuallySettled ==
    \A m \in Messages :
        Status(m) = "pending" ~> Status(m) \in {"published", "dead_lettered"}

=============================================================================
