-------------------------- MODULE OutboxRefinement --------------------------
(***************************************************************************)
(* Outbox implements WorkflowStart: under the mapping of Outbox!Promise    *)
(* every step is a step of the abstract specification or changes nothing   *)
(* it can see.                                                             *)
(***************************************************************************)
EXTENDS OutboxProofs

(* Nothing the promise speaks of changes: no row appears or is settled, no *)
(* execution starts, no reference is stored.                               *)
Invisible ==
    /\ enqueued' = enqueued /\ executions' = executions /\ arn' = arn
    /\ \A m \in Messages :
          /\ row'[m].published_at = row[m].published_at
          /\ row'[m].dead_lettered_at = row[m].dead_lettered_at

(* An invisible step is a stutter of the promise.                          *)
LEMMA InvisibleStutters ==
    ASSUME Invisible
    PROVE  UNCHANGED Promise!vars
<1>1. \A m \in Messages : Status(m)' = Status(m)
    BY DEF Invisible, Status
<1> QED
    BY <1>1 DEF Promise!vars, Invisible

(* Before anything is committed the promise is in its initial state.       *)
LEMMA InitPromise == Init => Promise!Init
BY DEF Init, Promise!Init, Status

(* A message that is settled, or appears, by itself leaves the status of   *)
(* the others alone.                                                       *)
LEMMA OthersKeepStatus ==
    ASSUME NEW m \in Messages, NEW k \in Messages, k # m,
           k \in enqueued' <=> k \in enqueued, row'[k] = row[k]
    PROVE  Status(k)' = Status(k)
BY DEF Status

(* Committing a proposal is the promise's Commit.                          *)
LEMMA EnqueueCommits ==
    ASSUME IInv, NEW m \in Messages, Enqueue(m)
    PROVE  Promise!Commit(m)
<1>1. /\ enqueued' = enqueued \cup {m} /\ m \notin enqueued
      /\ executions' = executions /\ arn' = arn
    BY DEF Enqueue
<1>2. /\ \A k \in Messages : k # m => row'[k] = row[k]
      /\ row'[m].published_at = row[m].published_at
      /\ row'[m].dead_lettered_at = row[m].dead_lettered_at
    BY DEF Enqueue, IInv, TypeOK, Row
<1>3. Status(m) = "absent"
    BY <1>1 DEF Status
<1>4. Status(m)' = "pending"
    BY <1>1, <1>2 DEF Status, IInv, AbsentInv
<1>5. \A k \in Messages : k # m => Status(k)' = Status(k)
    BY <1>1, <1>2, OthersKeepStatus
<1> QED
    BY <1>1, <1>3, <1>4, <1>5 DEF Promise!Commit

(* A delivery that reaches Step Functions is the promise's Invoke.         *)
LEMMA DeliverInvokes ==
    ASSUME IInv, NEW w \in Workers, DeliverOk(w) \/ DeliverError(w)
    PROVE  Promise!Invoke(Current(w)) \/ UNCHANGED Promise!vars
<1>1. /\ enqueued' = enqueued /\ arn' = arn /\ row' = row /\ pc[w] = "deliver"
      /\ executions' = executions \/ executions' = executions \cup {Current(w)}
    BY DEF DeliverOk, DeliverError, dbVars
<1>2. Current(w) \in enqueued /\ Current(w) \in Messages
    BY <1>1, CurrentFacts
<1>3. CASE executions' = executions
    BY <1>1, <1>3, InvisibleStutters DEF Invisible
<1>4. CASE executions' = executions \cup {Current(w)}
  <2>1. \A k \in Messages : Status(k)' = Status(k)
    BY <1>1 DEF Status
  <2>2. Status(Current(w)) # "absent"
    BY <1>2 DEF Status
  <2> QED
    BY <1>1, <1>2, <1>4, <2>1, <2>2 DEF Promise!Invoke
<1> QED
    BY <1>1, <1>3, <1>4

(* An acknowledgement is the promise's Publish.                            *)
LEMMA MarkPublishes ==
    ASSUME IInv, NEW w \in Workers, MarkPublished(w)
    PROVE  Promise!Publish(Current(w))
<1>1. /\ enqueued' = enqueued /\ executions' = executions
      /\ pc[w] = "ack" /\ row[Current(w)].locked_by = w
      /\ arn' = [arn EXCEPT ![Current(w)] = ExecutionArn(Current(w))]
      /\ row' = [row EXCEPT ![Current(w)] =
                    [row[Current(w)] EXCEPT !.published_at = current_time[w],
                                            !.locked_at = None, !.locked_by = None]]
    BY DEF MarkPublished, HoldsLease
<1>2. PICK m \in Messages : m = Current(w)
    BY <1>1, CurrentFacts
<1>3. m \in enqueued /\ m \in executions
    BY <1>1, <1>2, CurrentFacts DEF IInv, AckInv
<1>4. row \in [Messages -> Row] /\ row[m] \in Row /\ current_time[w] \in Nat
    BY DEF IInv, TypeOK
<1>5. row'[m].published_at = current_time[w] /\ \A k \in Messages : k # m => row'[k] = row[k]
    BY <1>1, <1>2, <1>4 DEF Row
<1>6. row[m].published_at = None /\ row[m].dead_lettered_at = None
    BY <1>1, <1>2, OutboxAssumption DEF IInv, LockInv
<1>7. Status(m) = "pending"
    BY <1>3, <1>6 DEF Status
<1>8. Status(m)' = "published"
    BY <1>1, <1>3, <1>4, <1>5, OutboxAssumption DEF Status
<1>9. \A k \in Messages : k # m => Status(k)' = Status(k)
    BY <1>1, <1>5, OthersKeepStatus
<1>10. arn' = [arn EXCEPT ![m] = ExecutionArn(m)]
    BY <1>1, <1>2
<1>11. Promise!Publish(m)
    BY <1>1, <1>3, <1>7, <1>8, <1>9, <1>10 DEF Promise!Publish
<1> QED
    BY <1>2, <1>11

(* A recorded failure is the promise's DeadLetter, or invisible.           *)
LEMMA FailureDeadLetters ==
    ASSUME IInv, NEW w \in Workers, RecordFailure(w)
    PROVE  Promise!DeadLetter(Current(w)) \/ UNCHANGED Promise!vars
<1>1. /\ enqueued' = enqueued /\ executions' = executions /\ arn' = arn
      /\ pc[w] = "fail" /\ row[Current(w)].locked_by = w
    BY DEF RecordFailure, HoldsLease
<1>2. PICK m \in Messages : m = Current(w)
    BY <1>1, CurrentFacts
<1>3. m \in enqueued
    BY <1>1, <1>2, CurrentFacts
<1>4. row \in [Messages -> Row] /\ row[m] \in Row /\ current_time[w] \in Nat
    BY DEF IInv, TypeOK
<1>5. /\ \A k \in Messages : k # m => row'[k] = row[k]
      /\ row'[m].published_at = row[m].published_at
      /\ row'[m].dead_lettered_at \in {current_time[w], row[m].dead_lettered_at}
    BY <1>2, <1>4 DEF RecordFailure, Row
<1>6. row[m].published_at = None /\ row[m].dead_lettered_at = None
    BY <1>1, <1>2, OutboxAssumption DEF IInv, LockInv
<1>7. CASE row'[m].dead_lettered_at = None
  <2>1. Invisible
    BY <1>1, <1>5, <1>6, <1>7 DEF Invisible
  <2> QED
    BY <2>1, InvisibleStutters
<1>8. CASE row'[m].dead_lettered_at # None
  <2>1. Status(m) = "pending"
    BY <1>3, <1>6 DEF Status
  <2>2. Status(m)' = "dead_lettered"
    BY <1>1, <1>3, <1>5, <1>6, <1>8 DEF Status
  <2>3. \A k \in Messages : k # m => Status(k)' = Status(k)
    BY <1>1, <1>5, OthersKeepStatus
  <2>4. Promise!DeadLetter(m)
    BY <1>1, <2>1, <2>2, <2>3 DEF Promise!DeadLetter
  <2> QED
    BY <1>2, <2>4
<1> QED
    BY <1>7, <1>8

(* A claim is invisible.                                                   *)
LEMMA ClaimInvisible ==
    ASSUME IInv, NEW w \in Workers, ClaimBatch(w)
    PROVE  Invisible
<1>1. enqueued' = enqueued /\ executions' = executions /\ arn' = arn
    BY DEF ClaimBatch
<1>2. ASSUME NEW n \in Nat, NEW batch, Lease(w, batch, n), NEW m \in Messages
      PROVE  /\ row'[m].published_at = row[m].published_at
             /\ row'[m].dead_lettered_at = row[m].dead_lettered_at
  <2>1. row[m] \in Row
    BY DEF IInv, TypeOK
  <2>2. CASE n = 0
    BY <1>2, <2>2 DEF Lease
  <2>3. CASE n # 0
    <3>1. row'[m] = IF \E i \in 1..n : batch[i] = m
                    THEN [row[m] EXCEPT !.locked_at = current_time[w], !.locked_by = w]
                    ELSE row[m]
      BY <1>2, <2>3 DEF Lease
    <3> QED
      BY <2>1, <3>1 DEF Row
  <2> QED
    BY <2>2, <2>3
<1>3. \A m \in Messages : /\ row'[m].published_at = row[m].published_at
                          /\ row'[m].dead_lettered_at = row[m].dead_lettered_at
    BY <1>2, OutboxAssumption DEF ClaimBatch
<1> QED
    BY <1>1, <1>3 DEF Invisible

(* Every step implements a step of the promise.                            *)
LEMMA NextPromise == IInv /\ [Next]_vars => [Promise!Next]_(Promise!vars)
<1> SUFFICES ASSUME IInv, [Next]_vars
             PROVE  Promise!Next \/ UNCHANGED Promise!vars
    OBVIOUS
<1>1. ASSUME NEW m \in Messages, Enqueue(m) PROVE Promise!Next
    BY <1>1, EnqueueCommits DEF Promise!Next
<1>2. ASSUME NEW w \in Workers, WorkerNext(w) PROVE Promise!Next \/ UNCHANGED Promise!vars
  <2>1. CASE DeliverOk(w) \/ DeliverError(w)
    <3>1. Current(w) \in Messages
      BY <2>1, CurrentFacts DEF DeliverOk, DeliverError
    <3> QED
      BY <2>1, <3>1, DeliverInvokes DEF Promise!Next
  <2>2. CASE MarkPublished(w)
    <3>1. Current(w) \in Messages
      BY <2>2, CurrentFacts DEF MarkPublished
    <3> QED
      BY <2>2, <3>1, MarkPublishes DEF Promise!Next
  <2>3. CASE RecordFailure(w)
    <3>1. Current(w) \in Messages
      BY <2>3, CurrentFacts DEF RecordFailure
    <3> QED
      BY <2>3, <3>1, FailureDeadLetters DEF Promise!Next
  <2>4. CASE ClaimBatch(w)
    BY <2>4, ClaimInvisible, InvisibleStutters
  <2>5. CASE \/ Start(w) \/ Poll(w) \/ AlreadyPublished(w) \/ LeaseLost(w)
             \/ PollFailed(w) \/ Crash(w)
    <3>1. UNCHANGED <<enqueued, row, arn, executions>>
      BY <2>5 DEF Start, Poll, AlreadyPublished, LeaseLost, PollFailed, Crash, dbVars
    <3> QED
      BY <3>1, InvisibleStutters DEF Invisible
  <2> QED
    BY <1>2, <2>1, <2>2, <2>3, <2>4, <2>5 DEF WorkerNext, Step
<1>3. CASE Tick \/ UNCHANGED vars
  <2>1. UNCHANGED <<enqueued, row, arn, executions>>
    BY <1>3 DEF Tick, vars, dbVars
  <2> QED
    BY <2>1, InvisibleStutters DEF Invisible
<1> QED
    BY <1>1, <1>2, <1>3 DEF Next

(* The outbox implements its promise.                                      *)
THEOREM Refinement == Spec => ImplementsPromise
<1>1. Init => Promise!Init
    BY InitPromise
<1>2. IInv /\ [Next]_vars => [Promise!Next]_(Promise!vars)
    BY NextPromise
<1> QED
    BY <1>1, <1>2, Invariance, PTL DEF Spec, ImplementsPromise, Promise!Spec

=============================================================================
