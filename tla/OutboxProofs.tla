---------------------------- MODULE OutboxProofs ----------------------------
(***************************************************************************)
(* Proofs about module Outbox, for any numbers of messages and workers and *)
(* any settings.  The inductive invariant IInv says what a worker in the   *)
(* middle of its batch may rely on: while it owns a row, the row is as it  *)
(* left it at the claim; until the lease expires, it owns the row.         *)
(***************************************************************************)
EXTENDS Outbox, TLAPS

(* No worker's clock reading lies in the future.                           *)
ClockInv == \A w \in Workers : current_time[w] <= now

(* A row that is owned is leased, and is neither published nor dead.       *)
LockInv ==
    \A m \in Messages :
        /\ row[m].locked_at = None <=> row[m].locked_by = None
        /\ row[m].locked_by # None =>
              row[m].published_at = None /\ row[m].dead_lettered_at = None

(* A worker is in its batch exactly when it has messages left, all of them *)
(* committed and no two the same.                                          *)
BatchInv ==
    \A w \in Workers :
        /\ pc[w] \in {"deliver", "ack", "fail"} <=> Len(messages[w]) > 0
        /\ \A i \in 1..Len(messages[w]) : messages[w][i].id \in enqueued
        /\ \A i, j \in 1..Len(messages[w]) : messages[w][i].id = messages[w][j].id => i = j

(* What a worker knows of the messages it still has to deliver.            *)
OwnerInv ==
    \A w \in Workers : \A i \in 1..Len(messages[w]) :
        LET s == messages[w][i] IN
        /\ Unexpired(w) => row[s.id].locked_by = w
        /\ row[s.id].locked_by = w =>
              /\ row[s.id].locked_at = current_time[w]
              /\ row[s.id].attempt_count = s.attempt_count

(* A worker acknowledges only what it has started.                         *)
AckInv == \A w \in Workers : pc[w] = "ack" => Current(w) \in executions

(* Nothing has happened to a message before its proposal commits.          *)
AbsentInv ==
    /\ executions \subseteq enqueued
    /\ \A m \in Messages \ enqueued :
          /\ row[m].published_at = None
          /\ row[m].dead_lettered_at = None
          /\ row[m].locked_by = None

IInv ==
    /\ TypeOK
    /\ ClockInv
    /\ LockInv
    /\ BatchInv
    /\ OwnerInv
    /\ AckInv
    /\ AbsentInv
    /\ PublishedImpliesStarted
    /\ DeadLetterExact

-----------------------------------------------------------------------------

(* The retry delay is a number, whatever the attempt count.                *)
LEMMA RetryDelayType ==
    ASSUME NEW n \in Nat
    PROVE  RetryDelay(n) \in Int
<1> DEFINE exponent == IF n < 20 THEN n ELSE 20
<1>1. exponent \in Nat
    OBVIOUS
<1>2. 2^exponent \in Int
    BY <1>1
<1> HIDE DEF exponent
<1>3. RetryBase * 2^exponent \in Int
    BY <1>2, OutboxAssumption
<1>4. RetryMax \in Int
    BY OutboxAssumption
<1> QED
    BY <1>3, <1>4 DEF RetryDelay, exponent

(* Setting the dates of a row leads to a row.                              *)
LEMMA RowDated ==
    ASSUME NEW r \in Row, NEW t \in Nat, NEW u \in Int
    PROVE  [r EXCEPT !.available_at = u, !.created_at = t] \in Row
BY DEF Row

(* So does leasing it.                                                     *)
LEMMA RowLeased ==
    ASSUME NEW r \in Row, NEW t \in Nat, NEW w \in Workers
    PROVE  [r EXCEPT !.locked_at = t, !.locked_by = w] \in Row
BY DEF Row

(* So does publishing it.                                                  *)
LEMMA RowPublished ==
    ASSUME NEW r \in Row, NEW t \in Nat
    PROVE  [r EXCEPT !.published_at = t, !.locked_at = None, !.locked_by = None] \in Row
BY DEF Row

(* So does releasing it after a failure, in both cases.                    *)
LEMMA RowFailed ==
    ASSUME NEW r \in Row, NEW t \in Nat, NEW n \in Nat, NEW u \in Int
    PROVE  LET q == [r EXCEPT !.attempt_count = n, !.locked_at = None, !.locked_by = None]
           IN  /\ [q EXCEPT !.dead_lettered_at = t] \in Row
               /\ [q EXCEPT !.available_at = u] \in Row
BY DEF Row

(* The batch of a worker has a length and holds snapshots.                 *)
LEMMA BatchType ==
    ASSUME TypeOK, NEW w \in Workers
    PROVE  /\ messages[w] \in Seq(Snapshot)
           /\ Len(messages[w]) \in Nat
           /\ \A i \in 1..Len(messages[w]) : messages[w][i] \in Snapshot
           /\ Len(messages[w]) > 0 => Head(messages[w]) = messages[w][1]
BY DEF TypeOK

(* A worker drops the first message of its batch, or all of it; nothing    *)
(* else changes for it or for the other workers.                           *)
Shrinks(w) ==
    /\ pc' \in [Workers -> {"stopped", "idle", "claim", "deliver", "ack", "fail"}]
    /\ messages' \in [Workers -> Seq(Snapshot)]
    /\ current_time' \in [Workers -> Nat]
    /\ \A v \in Workers : v # w => /\ pc'[v] = pc[v]
                                  /\ messages'[v] = messages[v]
                                  /\ current_time'[v] = current_time[v]
    /\ \A i \in 1..Len(messages'[w]) : /\ i + 1 \in 1..Len(messages[w])
                                       /\ messages'[w][i] = messages[w][i + 1]
                                       /\ current_time'[w] = current_time[w]
    /\ pc'[w] \in {"deliver", "ack", "fail"} <=> Len(messages'[w]) > 0
    /\ pc'[w] # "ack"
    /\ current_time'[w] \in {0, current_time[w]}

(* Leaving dispatch_once drops the batch.                                  *)
LEMMA LeaveShrinks ==
    ASSUME TypeOK, NEW w \in Workers, Leave(w)
    PROVE  Shrinks(w)
BY DEF TypeOK, Leave, Shrinks

(* A crash drops the batch.                                                *)
LEMMA CrashShrinks ==
    ASSUME TypeOK, NEW w \in Workers, Crash(w)
    PROVE  Shrinks(w)
BY DEF TypeOK, Crash, Shrinks

(* Going on to the next message drops the first one.                       *)
LEMMA AdvanceShrinks ==
    ASSUME TypeOK, NEW w \in Workers, Len(messages[w]) > 0, Advance(w)
    PROVE  Shrinks(w)
<1>1. CASE Len(messages[w]) = 1
    BY <1>1, LeaveShrinks DEF Advance
<1>2. CASE Len(messages[w]) # 1
  <2>1. messages[w] \in Seq(Snapshot) /\ Len(messages[w]) \in Nat
    BY BatchType
  <2>2. /\ Tail(messages[w]) \in Seq(Snapshot)
        /\ Len(Tail(messages[w])) = Len(messages[w]) - 1
        /\ \A i \in 1..Len(Tail(messages[w])) : Tail(messages[w])[i] = messages[w][i + 1]
    BY <2>1, <1>2
  <2>3. /\ pc' = [pc EXCEPT ![w] = "deliver"]
        /\ messages' = [messages EXCEPT ![w] = Tail(messages[w])]
        /\ current_time' = current_time
    BY <1>2 DEF Advance
  <2> QED
    BY <2>1, <2>2, <2>3, <1>2 DEF TypeOK, Shrinks
<1> QED
    BY <1>1, <1>2

-----------------------------------------------------------------------------

(* When a worker drops messages, and has released at most the row of the   *)
(* first one, which it owned, what every worker knows stays true.          *)
LEMMA ShrinkKeeps ==
    ASSUME IInv, NEW w \in Workers, Shrinks(w),
           now' = now, enqueued' = enqueued, executions' = executions,
           \A m \in Messages :
              row'[m] # row[m] => /\ row[m].locked_by = w
                                  /\ row'[m].locked_by = None
                                  /\ Len(messages[w]) > 0
                                  /\ m = messages[w][1].id
    PROVE  ClockInv' /\ BatchInv' /\ OwnerInv' /\ AckInv'
<1>1. ClockInv'
  <2> SUFFICES ASSUME NEW v \in Workers
               PROVE  current_time'[v] <= now
    BY DEF ClockInv
  <2>1. current_time[v] <= now /\ 0 <= now
    BY DEF IInv, TypeOK, ClockInv
  <2>2. current_time'[v] \in {0, current_time[v]}
    BY DEF Shrinks
  <2> QED
    BY <2>1, <2>2
<1>2. BatchInv'
  <2> SUFFICES ASSUME NEW v \in Workers
               PROVE  /\ pc'[v] \in {"deliver", "ack", "fail"} <=> Len(messages'[v]) > 0
                      /\ \A i \in 1..Len(messages'[v]) : messages'[v][i].id \in enqueued
                      /\ \A i, j \in 1..Len(messages'[v]) :
                            messages'[v][i].id = messages'[v][j].id => i = j
    BY DEF BatchInv
  <2>1. CASE v # w
    <3>1. pc'[v] = pc[v] /\ messages'[v] = messages[v]
      BY <2>1 DEF Shrinks
    <3> QED
      BY <3>1 DEF IInv, BatchInv
  <2>2. CASE v = w
    <3>1. pc'[v] \in {"deliver", "ack", "fail"} <=> Len(messages'[v]) > 0
      BY <2>2 DEF Shrinks
    <3>2. \A i \in 1..Len(messages'[v]) : /\ i + 1 \in 1..Len(messages[v])
                                          /\ messages'[v][i] = messages[v][i + 1]
      BY <2>2 DEF Shrinks
    <3>3. /\ \A i \in 1..Len(messages[v]) : messages[v][i].id \in enqueued
          /\ \A i, j \in 1..Len(messages[v]) : messages[v][i].id = messages[v][j].id => i = j
      BY DEF IInv, BatchInv
    <3>4. Len(messages'[v]) \in Nat /\ Len(messages[v]) \in Nat
      BY BatchType DEF Shrinks, IInv
    <3>5. ASSUME NEW i \in 1..Len(messages'[v]), NEW j \in 1..Len(messages'[v]),
                 messages'[v][i].id = messages'[v][j].id
          PROVE  i = j
      <4>1. i \in Int /\ j \in Int
        BY <3>4
      <4> DEFINE p == i + 1
                 q == j + 1
      <4>2. /\ p \in 1..Len(messages[v]) /\ messages'[v][i] = messages[v][p]
            /\ q \in 1..Len(messages[v]) /\ messages'[v][j] = messages[v][q]
        BY <3>2
      <4> HIDE DEF p, q
      <4>3. p = q
        BY <3>3, <3>5, <4>2
      <4> QED
        BY <4>1, <4>3 DEF p, q
    <3> QED
      BY <3>1, <3>2, <3>3, <3>5
  <2> QED
    BY <2>1, <2>2
<1>3. OwnerInv'
  <2> SUFFICES ASSUME NEW v \in Workers, NEW i \in 1..Len(messages'[v])
               PROVE  LET t == messages'[v][i] IN
                      /\ now < current_time'[v] + LockTimeout => row'[t.id].locked_by = v
                      /\ row'[t.id].locked_by = v =>
                            /\ row'[t.id].locked_at = current_time'[v]
                            /\ row'[t.id].attempt_count = t.attempt_count
    BY DEF OwnerInv, Unexpired
  <2>1. CASE v # w
    <3> DEFINE t == messages[v][i]
    <3>1. messages'[v][i] = t /\ current_time'[v] = current_time[v] /\ i \in 1..Len(messages[v])
      BY <2>1 DEF Shrinks
    <3>2. t.id \in Messages
      BY <3>1, BatchType DEF IInv, Snapshot
    <3>3. /\ now < current_time[v] + LockTimeout => row[t.id].locked_by = v
          /\ row[t.id].locked_by = v => /\ row[t.id].locked_at = current_time[v]
                                        /\ row[t.id].attempt_count = t.attempt_count
      BY <3>1 DEF IInv, OwnerInv, Unexpired
    <3>4. CASE row'[t.id] = row[t.id]
      BY <3>1, <3>3, <3>4
    <3>5. CASE row'[t.id] # row[t.id]
      <4>1. row[t.id].locked_by = w
        BY <3>2, <3>5
      <4>2. ~(now < current_time[v] + LockTimeout)
        BY <4>1, <3>3, <2>1
      <4>3. row'[t.id].locked_by # v
        BY <3>2, <3>5, OutboxAssumption
      <4> QED
        BY <3>1, <4>2, <4>3
    <3> QED
      BY <3>4, <3>5
  <2>2. CASE v = w
    <3> DEFINE t == messages[w][i + 1]
    <3>1. messages'[v][i] = t /\ current_time'[v] = current_time[v] /\ i + 1 \in 1..Len(messages[w])
      BY <2>2 DEF Shrinks
    <3>2. t.id \in Messages
      BY <3>1, BatchType DEF IInv, Snapshot
    <3>3. t.id # messages[w][1].id
      BY <3>1, BatchType DEF IInv, BatchInv
    <3>4. row'[t.id] = row[t.id]
      BY <3>2, <3>3
    <3> QED
      BY <3>1, <3>4, <2>2 DEF IInv, OwnerInv, Unexpired
  <2> QED
    BY <2>1, <2>2
<1>4. AckInv'
  <2> SUFFICES ASSUME NEW v \in Workers, pc'[v] = "ack"
               PROVE  Head(messages'[v]).id \in executions
    BY DEF AckInv, Current
  <2>1. v # w
    BY DEF Shrinks
  <2> QED
    BY <2>1 DEF Shrinks, IInv, AckInv, Current
<1> QED
    BY <1>1, <1>2, <1>3, <1>4

-----------------------------------------------------------------------------

(* The invariant holds before anything is committed.                       *)
LEMMA InitIInv == Init => IInv
<1> SUFFICES ASSUME Init PROVE IInv
    OBVIOUS
<1> USE OutboxAssumption
<1>1. TypeOK
    BY DEF Init, TypeOK, Row
<1>2. ClockInv
    BY DEF Init, ClockInv
<1>3. LockInv
    BY DEF Init, LockInv
<1>4. BatchInv /\ OwnerInv
    BY DEF Init, BatchInv, OwnerInv
<1>5. AckInv
    BY DEF Init, AckInv
<1>6. AbsentInv
    BY DEF Init, AbsentInv
<1>7. PublishedImpliesStarted
    BY DEF Init, PublishedImpliesStarted
<1>8. DeadLetterExact
    BY DEF Init, DeadLetterExact
<1> QED
    BY <1>1, <1>2, <1>3, <1>4, <1>5, <1>6, <1>7, <1>8 DEF IInv

(* A proposal commits: only the dates of a row nobody knows are set.       *)
LEMMA EnqueueStep ==
    ASSUME IInv, NEW m \in Messages, Enqueue(m)
    PROVE  IInv'
<1> USE OutboxAssumption
<1>1. /\ now' = now /\ arn' = arn /\ executions' = executions /\ faults' = faults
      /\ pc' = pc /\ messages' = messages /\ current_time' = current_time
      /\ enqueued' = enqueued \cup {m}
    BY DEF Enqueue, workerVars
<1>2. TypeOK'
  <2>1. row[m] \in Row /\ now \in Nat /\ now \in Int /\ row \in [Messages -> Row]
    BY DEF IInv, TypeOK
  <2>2. row' = [row EXCEPT ![m] = [row[m] EXCEPT !.available_at = now, !.created_at = now]]
    BY <2>1 DEF Enqueue, Row
  <2>3. [row[m] EXCEPT !.available_at = now, !.created_at = now] \in Row
    BY <2>1, RowDated
  <2>4. row' \in [Messages -> Row]
    BY <2>1, <2>2, <2>3
  <2> QED
    BY <1>1, <2>4 DEF IInv, TypeOK
<1>3. \A k \in Messages :
        /\ row'[k].attempt_count = row[k].attempt_count
        /\ row'[k].locked_at = row[k].locked_at
        /\ row'[k].locked_by = row[k].locked_by
        /\ row'[k].published_at = row[k].published_at
        /\ row'[k].dead_lettered_at = row[k].dead_lettered_at
    BY DEF IInv, TypeOK, Enqueue, Row
<1>4. ClockInv'
    BY <1>1 DEF IInv, ClockInv
<1>5. LockInv'
    BY <1>3 DEF IInv, LockInv
<1>6. BatchInv'
    BY <1>1 DEF IInv, BatchInv
<1>7. OwnerInv'
  <2>1. \A w \in Workers : \A i \in 1..Len(messages[w]) : messages[w][i].id \in Messages
    BY BatchType DEF IInv, Snapshot
  <2>2. ASSUME NEW w \in Workers, NEW i \in 1..Len(messages[w])
        PROVE  LET t == messages[w][i] IN
               /\ Unexpired(w) => row'[t.id].locked_by = w
               /\ row'[t.id].locked_by = w =>
                     /\ row'[t.id].locked_at = current_time[w]
                     /\ row'[t.id].attempt_count = t.attempt_count
    BY <1>3, <2>1 DEF IInv, OwnerInv
  <2> QED
    BY <1>1, <2>2 DEF OwnerInv, Unexpired
<1>8. AckInv'
    BY <1>1 DEF IInv, AckInv, Current
<1>9. AbsentInv'
    BY <1>1, <1>3 DEF IInv, AbsentInv
<1>10. PublishedImpliesStarted'
    BY <1>1, <1>3 DEF IInv, PublishedImpliesStarted
<1>11. DeadLetterExact'
    BY <1>1, <1>3 DEF IInv, DeadLetterExact
<1> QED
    BY <1>2, <1>4, <1>5, <1>6, <1>7, <1>8, <1>9, <1>10, <1>11 DEF IInv

(* Starting a worker or reading the clock does not touch any batch.        *)
LEMMA StartPollStep ==
    ASSUME IInv, NEW w \in Workers, Start(w) \/ Poll(w)
    PROVE  IInv'
<1> USE OutboxAssumption
<1>1. /\ now' = now /\ arn' = arn /\ executions' = executions /\ faults' = faults
      /\ row' = row /\ enqueued' = enqueued /\ messages' = messages
    BY DEF Start, Poll, dbVars
<1>2. /\ pc[w] \in {"stopped", "idle"} /\ pc'[w] \in {"idle", "claim"}
      /\ pc' \in [Workers -> {"stopped", "idle", "claim", "deliver", "ack", "fail"}]
      /\ current_time' \in [Workers -> Nat]
      /\ \A v \in Workers : v # w => pc'[v] = pc[v] /\ current_time'[v] = current_time[v]
      /\ current_time'[w] \in {now, current_time[w]}
  <2>1. CASE Start(w)
    BY <2>1 DEF Start, IInv, TypeOK
  <2>2. CASE Poll(w)
    BY <2>2 DEF Poll, IInv, TypeOK
  <2> QED
    BY <2>1, <2>2
<1>3. TypeOK'
    BY <1>1, <1>2 DEF IInv, TypeOK
<1>4. ClockInv'
  <2> SUFFICES ASSUME NEW v \in Workers PROVE current_time'[v] <= now
    BY <1>1 DEF ClockInv
  <2>1. current_time[v] <= now /\ now <= now
    BY DEF IInv, TypeOK, ClockInv
  <2> QED
    BY <1>2, <2>1
<1>5. ~(Len(messages[w]) > 0)
    BY <1>2 DEF IInv, BatchInv
<1>6. BatchInv'
    BY <1>1, <1>2, <1>5 DEF IInv, TypeOK, BatchInv
<1>7. OwnerInv'
  <2> SUFFICES ASSUME NEW v \in Workers, NEW i \in 1..Len(messages[v])
               PROVE  current_time'[v] = current_time[v]
    BY <1>1 DEF IInv, OwnerInv, Unexpired
  <2>1. v # w
    BY <1>5, BatchType DEF IInv
  <2> QED
    BY <1>2, <2>1 DEF IInv, TypeOK
<1>8. AckInv'
    BY <1>1, <1>2 DEF IInv, TypeOK, AckInv, Current
<1> QED
    BY <1>1, <1>3, <1>4, <1>6, <1>7, <1>8
    DEF IInv, LockInv, AbsentInv, PublishedImpliesStarted, DeadLetterExact

(* A worker that drops messages without writing to the database: nothing   *)
(* was claimed, the row was published already, the lease was lost, the     *)
(* database failed, the process died.                                      *)
LEMMA DropStep ==
    ASSUME IInv, NEW w \in Workers, Shrinks(w), UNCHANGED <<now, dbVars, executions>>,
           faults' \in Nat
    PROVE  IInv'
<1>1. /\ now' = now /\ arn' = arn /\ executions' = executions
      /\ row' = row /\ enqueued' = enqueued
    BY DEF dbVars
<1>2. TypeOK'
    BY <1>1 DEF IInv, TypeOK, Shrinks
<1>3. ClockInv' /\ BatchInv' /\ OwnerInv' /\ AckInv'
    BY <1>1, ShrinkKeeps
<1> QED
    BY <1>1, <1>2, <1>3
    DEF IInv, LockInv, AbsentInv, PublishedImpliesStarted, DeadLetterExact

(* A claim: the rows it takes were free or their leases had expired, so it *)
(* takes none from a worker whose lease is alive.                          *)
LEMMA ClaimStep ==
    ASSUME IInv, NEW w \in Workers, ClaimBatch(w)
    PROVE  IInv'
<1> USE OutboxAssumption
<1> DEFINE t == current_time[w]
<1>1. PICK n \in 0..BatchSize : \E batch \in [1..n -> Due(t)] :
        IsBatch(batch, n, t) /\ Lease(w, batch, n)
    BY DEF ClaimBatch
<1>2. PICK batch \in [1..n -> Due(t)] : IsBatch(batch, n, t) /\ Lease(w, batch, n)
    BY <1>1
<1>3. /\ now' = now /\ arn' = arn /\ executions' = executions /\ faults' = faults
      /\ enqueued' = enqueued /\ pc[w] = "claim"
    BY DEF ClaimBatch
<1>4. n \in Nat /\ t \in Nat /\ t <= now /\ now \in Nat
    BY DEF IInv, TypeOK, ClockInv
<1>5. CASE n = 0
  <2>1. Shrinks(w) /\ row' = row
    BY <1>2, <1>5, LeaveShrinks DEF IInv, Lease
  <2> QED
    BY <1>3, <2>1, DropStep DEF dbVars, IInv, TypeOK
<1>6. CASE n # 0
  <2> DEFINE taken == {batch[i] : i \in 1..n}
  <2>1. /\ messages' = [messages EXCEPT ![w] =
                [i \in 1..n |-> [id |-> batch[i],
                                 attempt_count |-> row[batch[i]].attempt_count]]]
        /\ pc' = [pc EXCEPT ![w] = "deliver"]
        /\ current_time' = current_time
        /\ row' = [m \in Messages |->
                     IF \E i \in 1..n : batch[i] = m
                     THEN [row[m] EXCEPT !.locked_at = t, !.locked_by = w]
                     ELSE row[m]]
    BY <1>2, <1>6 DEF Lease
  <2>2. \A i \in 1..n :
          /\ batch[i] \in enqueued /\ batch[i] \in Messages
          /\ row[batch[i]].published_at = None
          /\ row[batch[i]].dead_lettered_at = None
          /\ row[batch[i]].locked_at # None => row[batch[i]].locked_at <= t - LockTimeout
    BY DEF Due, IInv, TypeOK
  <2>3. \A i, j \in 1..n : batch[i] = batch[j] => i = j
    <3>1. \A i, j \in 1..n : i < j => batch[i] # batch[j]
      BY <1>2 DEF IsBatch
    <3> QED
      BY <3>1, <1>4
  <2>4. \A m \in Messages :
          /\ row[m] \in Row
          /\ row'[m] \in Row
          /\ row'[m].attempt_count = row[m].attempt_count
          /\ row'[m].published_at = row[m].published_at
          /\ row'[m].dead_lettered_at = row[m].dead_lettered_at
          /\ m \in taken => row'[m].locked_at = t /\ row'[m].locked_by = w
          /\ m \notin taken => row'[m] = row[m]
    <3> SUFFICES ASSUME NEW m \in Messages
                 PROVE  /\ row[m] \in Row
                        /\ row'[m] \in Row
                        /\ row'[m].attempt_count = row[m].attempt_count
                        /\ row'[m].published_at = row[m].published_at
                        /\ row'[m].dead_lettered_at = row[m].dead_lettered_at
                        /\ m \in taken => row'[m].locked_at = t /\ row'[m].locked_by = w
                        /\ m \notin taken => row'[m] = row[m]
      OBVIOUS
    <3>1. row[m] \in Row
      BY DEF IInv, TypeOK
    <3>2. CASE m \in taken
      <4>1. row'[m] = [row[m] EXCEPT !.locked_at = t, !.locked_by = w]
        BY <2>1, <3>2
      <4>2. [row[m] EXCEPT !.locked_at = t, !.locked_by = w] \in Row
        BY <3>1, <1>4, RowLeased
      <4> QED
        BY <4>1, <4>2, <3>1, <3>2 DEF Row
    <3>3. CASE m \notin taken
      <4>1. row'[m] = row[m]
        BY <2>1, <3>3
      <4> QED
        BY <4>1, <3>1, <3>3
    <3> QED
      BY <3>2, <3>3
  <2>5. /\ messages'[w] \in Seq(Snapshot) /\ Len(messages'[w]) = n
        /\ \A i \in 1..n : /\ messages'[w][i].id = batch[i]
                            /\ messages'[w][i].attempt_count = row[batch[i]].attempt_count
        /\ \A v \in Workers : v # w => messages'[v] = messages[v] /\ pc'[v] = pc[v]
        /\ pc'[w] = "deliver"
        /\ messages' \in [Workers -> Seq(Snapshot)]
    <3>1. messages \in [Workers -> Seq(Snapshot)] /\ pc \in [Workers -> {"stopped", "idle", "claim", "deliver", "ack", "fail"}]
      BY DEF IInv, TypeOK
    <3>2. \A i \in 1..n : [id |-> batch[i], attempt_count |-> row[batch[i]].attempt_count] \in Snapshot
      BY <2>2, <2>4 DEF Snapshot, Row
    <3>3. [i \in 1..n |-> [id |-> batch[i], attempt_count |-> row[batch[i]].attempt_count]] \in Seq(Snapshot)
      BY <3>2, <1>4
    <3> DEFINE b == [i \in 1..n |-> [id |-> batch[i],
                                      attempt_count |-> row[batch[i]].attempt_count]]
    <3>4. messages' = [messages EXCEPT ![w] = b]
      BY <2>1
    <3>5. /\ Len(b) = n
          /\ \A i \in 1..n : /\ b[i].id = batch[i]
                              /\ b[i].attempt_count = row[batch[i]].attempt_count
      BY <1>4
    <3> HIDE DEF b
    <3>6. b \in Seq(Snapshot)
      BY <3>3 DEF b
    <3>7. messages'[w] = b /\ messages' \in [Workers -> Seq(Snapshot)]
          /\ \A v \in Workers : v # w => messages'[v] = messages[v]
      BY <3>1, <3>4, <3>6
    <3>8. pc'[w] = "deliver" /\ \A v \in Workers : v # w => pc'[v] = pc[v]
      BY <2>1, <3>1
    <3> QED
      BY <3>5, <3>6, <3>7, <3>8
  <2>6. TypeOK'
    <3>1. row' \in [Messages -> Row]
      BY <2>1, <2>4
    <3>2. pc' \in [Workers -> {"stopped", "idle", "claim", "deliver", "ack", "fail"}]
      BY <2>1 DEF IInv, TypeOK
    <3> QED
      BY <1>3, <2>1, <2>5, <3>1, <3>2 DEF IInv, TypeOK
  <2>7. ClockInv'
    BY <1>3, <2>1 DEF IInv, ClockInv
  <2>8. LockInv'
    <3> SUFFICES ASSUME NEW m \in Messages
                 PROVE  /\ row'[m].locked_at = None <=> row'[m].locked_by = None
                        /\ row'[m].locked_by # None =>
                              row'[m].published_at = None /\ row'[m].dead_lettered_at = None
      BY DEF LockInv
    <3>1. CASE m \in taken
      <4>1. t # None /\ w # None
        BY <1>4
      <4> QED
        BY <3>1, <2>2, <2>4, <4>1
    <3>2. CASE m \notin taken
      BY <3>2, <2>4 DEF IInv, LockInv
    <3> QED
      BY <3>1, <3>2
  <2>9. BatchInv'
    <3> SUFFICES ASSUME NEW v \in Workers
                 PROVE  /\ pc'[v] \in {"deliver", "ack", "fail"} <=> Len(messages'[v]) > 0
                        /\ \A i \in 1..Len(messages'[v]) : messages'[v][i].id \in enqueued
                        /\ \A i, j \in 1..Len(messages'[v]) :
                              messages'[v][i].id = messages'[v][j].id => i = j
      BY <1>3 DEF BatchInv
    <3>1. CASE v = w
      BY <3>1, <1>4, <1>6, <2>2, <2>3, <2>5
    <3>2. CASE v # w
      BY <3>2, <2>5 DEF IInv, BatchInv
    <3> QED
      BY <3>1, <3>2
  <2>10. OwnerInv'
    <3> SUFFICES ASSUME NEW v \in Workers, NEW i \in 1..Len(messages'[v])
                 PROVE  LET s == messages'[v][i] IN
                        /\ now' < current_time'[v] + LockTimeout => row'[s.id].locked_by = v
                        /\ row'[s.id].locked_by = v =>
                              /\ row'[s.id].locked_at = current_time'[v]
                              /\ row'[s.id].attempt_count = s.attempt_count
      BY DEF OwnerInv, Unexpired
    <3>0. now' = now /\ current_time' = current_time
      BY <1>3, <2>1
    <3>1. CASE v = w
      <4>1. i \in 1..n
        BY <3>1, <2>5
      <4>2. batch[i] \in taken /\ batch[i] \in Messages
        BY <4>1, <2>2
      <4>3. /\ messages'[v][i].id = batch[i]
            /\ messages'[v][i].attempt_count = row[batch[i]].attempt_count
        BY <3>1, <4>1, <2>5
      <4>4. /\ row'[batch[i]].locked_by = w /\ row'[batch[i]].locked_at = t
            /\ row'[batch[i]].attempt_count = row[batch[i]].attempt_count
        BY <4>2, <2>4
      <4> QED
        BY <3>0, <3>1, <4>3, <4>4
    <3>2. CASE v # w
      <4> DEFINE s == messages[v][i]
      <4>1. messages'[v][i] = s /\ i \in 1..Len(messages[v])
        BY <3>2, <2>5
      <4>2. s.id \in Messages
        BY <4>1, BatchType DEF IInv, Snapshot
      <4>3. /\ now < current_time[v] + LockTimeout => row[s.id].locked_by = v
            /\ row[s.id].locked_by = v => /\ row[s.id].locked_at = current_time[v]
                                          /\ row[s.id].attempt_count = s.attempt_count
        BY <4>1 DEF IInv, OwnerInv, Unexpired
      <4>4. CASE s.id \in taken
        <5>1. current_time[v] \in Nat /\ LockTimeout \in Nat
          BY DEF IInv, TypeOK
        <5>2. row[s.id].locked_at # None => row[s.id].locked_at <= t - LockTimeout
          BY <4>4, <2>2
        <5>3. ~(now < current_time[v] + LockTimeout)
          BY <4>3, <5>1, <5>2, <1>4
        <5>4. row'[s.id].locked_by = w
          BY <4>2, <4>4, <2>4
        <5> QED
          BY <3>0, <4>1, <5>3, <5>4, <3>2
      <4>5. CASE s.id \notin taken
        <5>1. row'[s.id] = row[s.id]
          BY <4>2, <4>5, <2>4
        <5> QED
          BY <3>0, <4>1, <4>3, <5>1
      <4> QED
        BY <4>4, <4>5
    <3> QED
      BY <3>1, <3>2
  <2>11. AckInv'
    <3> SUFFICES ASSUME NEW v \in Workers, pc'[v] = "ack"
                 PROVE  Head(messages'[v]).id \in executions
      BY <1>3 DEF AckInv, Current
    <3>1. v # w
      BY <2>5
    <3> QED
      BY <3>1, <2>5 DEF IInv, AckInv, Current
  <2>12. AbsentInv'
    <3>1. \A m \in Messages : m \notin enqueued => m \notin taken
      BY <2>2
    <3> QED
      BY <1>3, <2>4, <3>1 DEF IInv, AbsentInv
  <2>13. PublishedImpliesStarted'
    BY <1>3, <2>4 DEF IInv, PublishedImpliesStarted
  <2>14. DeadLetterExact'
    <3> SUFFICES ASSUME NEW m \in Messages
                 PROVE  /\ row'[m].dead_lettered_at # None <=> row'[m].attempt_count >= MaxAttempts
                        /\ row'[m].attempt_count <= MaxAttempts
                        /\ row'[m].dead_lettered_at # None =>
                                row'[m].published_at = None /\ row'[m].locked_by = None
                        /\ row'[m].published_at # None => row'[m].locked_by = None
      BY DEF DeadLetterExact
    <3>1. CASE m \in taken
      BY <3>1, <2>2, <2>4 DEF IInv, DeadLetterExact
    <3>2. CASE m \notin taken
      BY <3>2, <2>4 DEF IInv, DeadLetterExact
    <3> QED
      BY <3>1, <3>2
  <2> QED
    BY <2>6, <2>7, <2>8, <2>9, <2>10, <2>11, <2>12, <2>13, <2>14 DEF IInv
<1> QED
    BY <1>5, <1>6

(* A worker in its batch is at the batch's first message.                  *)
LEMMA CurrentFacts ==
    ASSUME IInv, NEW w \in Workers, pc[w] \in {"deliver", "ack", "fail"}
    PROVE  /\ Len(messages[w]) > 0
           /\ Head(messages[w]) = messages[w][1]
           /\ Current(w) = messages[w][1].id
           /\ Current(w) \in enqueued
           /\ Current(w) \in Messages
           /\ messages[w][1].attempt_count \in Nat
           /\ row[Current(w)].locked_by = w =>
                 row[Current(w)].attempt_count = messages[w][1].attempt_count
<1>1. Len(messages[w]) > 0 /\ Len(messages[w]) \in Nat
    BY BatchType DEF IInv, BatchInv
<1>2. 1 \in 1..Len(messages[w]) /\ Head(messages[w]) = messages[w][1]
      /\ messages[w][1] \in Snapshot
    BY <1>1, BatchType DEF IInv
<1>3. messages[w][1].id \in enqueued /\ messages[w][1].id \in Messages
    BY <1>2 DEF IInv, BatchInv, Snapshot
<1>4. row[messages[w][1].id].locked_by = w =>
        row[messages[w][1].id].attempt_count = messages[w][1].attempt_count
    BY <1>2 DEF IInv, OwnerInv
<1> QED
    BY <1>1, <1>2, <1>3, <1>4 DEF Current, Snapshot

(* A delivery, successful or not: executions only grow, by a committed     *)
(* message, and a successful one has started what it will acknowledge.     *)
LEMMA DeliverStep ==
    ASSUME IInv, NEW w \in Workers, DeliverOk(w) \/ DeliverError(w)
    PROVE  IInv'
<1>1. /\ now' = now /\ arn' = arn /\ faults' = faults
      /\ row' = row /\ enqueued' = enqueued /\ messages' = messages
      /\ current_time' = current_time /\ pc[w] = "deliver"
    BY DEF DeliverOk, DeliverError, dbVars
<1>2. /\ pc' \in [Workers -> {"stopped", "idle", "claim", "deliver", "ack", "fail"}]
      /\ \A v \in Workers : v # w => pc'[v] = pc[v]
      /\ pc'[w] \in {"ack", "fail"}
      /\ executions \subseteq executions'
      /\ executions' \subseteq executions \cup {Current(w)}
      /\ pc'[w] = "ack" => Current(w) \in executions'
  <2>1. CASE DeliverOk(w)
    BY <2>1 DEF DeliverOk, IInv, TypeOK
  <2>2. CASE DeliverError(w)
    BY <2>2 DEF DeliverError, IInv, TypeOK
  <2> QED
    BY <2>1, <2>2
<1>3. Current(w) \in enqueued /\ Current(w) \in Messages
    BY <1>1, CurrentFacts
<1>4. TypeOK'
    BY <1>1, <1>2, <1>3 DEF IInv, TypeOK
<1>5. BatchInv'
    BY <1>1, <1>2 DEF IInv, BatchInv
<1>6. AckInv'
    BY <1>1, <1>2 DEF IInv, AckInv, Current
<1>7. AbsentInv'
    BY <1>1, <1>2, <1>3 DEF IInv, AbsentInv
<1>8. PublishedImpliesStarted'
    BY <1>1, <1>2 DEF IInv, PublishedImpliesStarted
<1>9. OwnerInv'
    BY <1>1 DEF IInv, OwnerInv, Unexpired
<1> QED
    BY <1>1, <1>4, <1>5, <1>6, <1>7, <1>8, <1>9
    DEF IInv, ClockInv, LockInv, DeadLetterExact

(* The clock moves: leases can only expire by it.                          *)
LEMMA TickStep ==
    ASSUME IInv, Tick
    PROVE  IInv'
<1>1. /\ now' = now + 1 /\ arn' = arn /\ executions' = executions /\ faults' = faults
      /\ row' = row /\ enqueued' = enqueued /\ messages' = messages
      /\ current_time' = current_time /\ pc' = pc /\ now \in Nat
    BY DEF Tick, dbVars, workerVars, IInv, TypeOK
<1>2. TypeOK'
    BY <1>1 DEF IInv, TypeOK
<1>3. ClockInv'
    BY <1>1 DEF IInv, TypeOK, ClockInv
<1>4. OwnerInv'
  <2>1. \A w \in Workers : now + 1 < current_time[w] + LockTimeout => now < current_time[w] + LockTimeout
    BY <1>1, OutboxAssumption DEF IInv, TypeOK
  <2> QED
    BY <1>1, <2>1 DEF IInv, OwnerInv, Unexpired
<1> QED
    BY <1>1, <1>2, <1>3, <1>4
    DEF IInv, LockInv, BatchInv, AckInv, Current, AbsentInv, PublishedImpliesStarted, DeadLetterExact

(* The owner of a row settles or releases it: LockInv, AbsentInv,          *)
(* PublishedImpliesStarted and DeadLetterExact are about the row alone.    *)
LEMMA PublishStep ==
    ASSUME IInv, NEW w \in Workers, MarkPublished(w)
    PROVE  IInv'
<1> USE OutboxAssumption
<1> DEFINE m == Current(w)
           r == [row[m] EXCEPT !.published_at = current_time[w],
                               !.locked_at = None, !.locked_by = None]
<1>1. /\ now' = now /\ executions' = executions /\ faults' = faults /\ enqueued' = enqueued
      /\ pc[w] = "ack" /\ row[m].locked_by = w
      /\ arn' = [arn EXCEPT ![m] = ExecutionArn(m)]
      /\ row' = [row EXCEPT ![m] = r]
      /\ Advance(w)
    BY DEF MarkPublished, HoldsLease
<1>2. /\ m \in Messages /\ m \in enqueued /\ m = messages[w][1].id /\ Len(messages[w]) > 0
      /\ m \in executions
    BY <1>1, CurrentFacts DEF IInv, AckInv
<1>3. row \in [Messages -> Row] /\ row[m] \in Row /\ current_time[w] \in Nat
      /\ arn \in [Messages -> {None} \cup {ExecutionArn(k) : k \in Messages}]
    BY <1>2 DEF IInv, TypeOK
<1>4. r \in Row
    BY <1>3, RowPublished
<1>5. /\ r.published_at # None /\ r.locked_at = None /\ r.locked_by = None
      /\ r.dead_lettered_at = row[m].dead_lettered_at
      /\ r.attempt_count = row[m].attempt_count
    BY <1>3 DEF Row
<1> HIDE DEF r, m
<1>6. row'[m] = r /\ \A k \in Messages : k # m => row'[k] = row[k] /\ arn'[k] = arn[k]
    BY <1>1, <1>2, <1>3
<1>7. arn'[m] = ExecutionArn(m)
    BY <1>1, <1>2, <1>3
<1>8. Shrinks(w)
    BY <1>1, <1>2, AdvanceShrinks DEF IInv
<1>9. ClockInv' /\ BatchInv' /\ OwnerInv' /\ AckInv'
    BY <1>1, <1>2, <1>5, <1>6, <1>8, ShrinkKeeps
<1>10. TypeOK'
  <2>1. row' \in [Messages -> Row]
    BY <1>1, <1>3, <1>4
  <2>2. arn' \in [Messages -> {None} \cup {ExecutionArn(k) : k \in Messages}]
    BY <1>1, <1>2, <1>3
  <2> QED
    BY <1>1, <1>8, <2>1, <2>2 DEF IInv, TypeOK, Shrinks
<1>11. LockInv'
    BY <1>5, <1>6 DEF IInv, LockInv
<1>12. AbsentInv'
    BY <1>1, <1>2, <1>6 DEF IInv, AbsentInv
<1>13. PublishedImpliesStarted'
    BY <1>1, <1>2, <1>5, <1>6, <1>7 DEF IInv, PublishedImpliesStarted
<1>14. DeadLetterExact'
  <2>1. row[m].dead_lettered_at = None
    BY <1>1, <1>2 DEF IInv, LockInv, m
  <2> QED
    BY <1>2, <1>5, <1>6, <2>1 DEF IInv, DeadLetterExact
<1> QED
    BY <1>9, <1>10, <1>11, <1>12, <1>13, <1>14 DEF IInv

(* The owner of a row counts a failure: the row is released or given up,  *)
(* and nobody else knew it as owned.                                       *)
LEMMA FailStep ==
    ASSUME IInv, NEW w \in Workers, RecordFailure(w)
    PROVE  IInv'
<1> USE OutboxAssumption
<1> DEFINE m == Current(w)
           n == row[m].attempt_count + 1
           q == [row[m] EXCEPT !.attempt_count = n, !.locked_at = None, !.locked_by = None]
           u == current_time[w] + RetryDelay(Head(messages[w]).attempt_count)
           r == IF Exhausted(n) THEN [q EXCEPT !.dead_lettered_at = current_time[w]]
                                ELSE [q EXCEPT !.available_at = u]
<1>1. /\ now' = now /\ executions' = executions /\ faults' = faults /\ enqueued' = enqueued
      /\ pc[w] = "fail" /\ row[m].locked_by = w /\ arn' = arn
      /\ row' = [row EXCEPT ![m] = r]
      /\ Advance(w)
    BY DEF RecordFailure, HoldsLease
<1>2. /\ m \in Messages /\ m \in enqueued /\ m = messages[w][1].id /\ Len(messages[w]) > 0
      /\ Head(messages[w]).attempt_count \in Nat
    BY <1>1, CurrentFacts
<1>3. row \in [Messages -> Row] /\ row[m] \in Row /\ current_time[w] \in Nat
    BY <1>2 DEF IInv, TypeOK
<1>4. n \in Nat
    BY <1>3 DEF Row
<1>5. u \in Int
    BY <1>2, <1>3, RetryDelayType
<1>6. r \in Row
  <2> HIDE DEF n, u
  <2>1. [q EXCEPT !.dead_lettered_at = current_time[w]] \in Row /\ [q EXCEPT !.available_at = u] \in Row
    BY <1>3, <1>4, <1>5, RowFailed
  <2> QED
    BY <2>1
<1>7. /\ r.locked_at = None /\ r.locked_by = None /\ r.attempt_count = n
      /\ r.published_at = row[m].published_at
      /\ r.dead_lettered_at # None <=> \/ n >= MaxAttempts
                                       \/ row[m].dead_lettered_at # None
  <2> HIDE DEF n, u
  <2> QED
    BY <1>3, <1>4, <1>5 DEF Row, Exhausted
<1> HIDE DEF r, m
<1>8. row'[m] = r /\ \A k \in Messages : k # m => row'[k] = row[k]
    BY <1>1, <1>2, <1>3
<1>9. Shrinks(w)
    BY <1>1, <1>2, AdvanceShrinks DEF IInv
<1>10. ClockInv' /\ BatchInv' /\ OwnerInv' /\ AckInv'
    BY <1>1, <1>2, <1>7, <1>8, <1>9, ShrinkKeeps
<1>11. TypeOK'
  <2>1. row' \in [Messages -> Row]
    BY <1>1, <1>3, <1>6
  <2> QED
    BY <1>1, <1>9, <2>1 DEF IInv, TypeOK, Shrinks
<1>12. row[m].dead_lettered_at = None /\ row[m].published_at = None
    BY <1>1, <1>2 DEF IInv, LockInv, m
<1>13. LockInv'
    BY <1>7, <1>8 DEF IInv, LockInv
<1>14. AbsentInv'
    BY <1>1, <1>2, <1>8 DEF IInv, AbsentInv
<1>15. PublishedImpliesStarted'
    BY <1>1, <1>2, <1>7, <1>8 DEF IInv, PublishedImpliesStarted
<1>16. DeadLetterExact'
  <2>1. n <= MaxAttempts
    BY <1>2, <1>3, <1>12 DEF IInv, DeadLetterExact, Row
  <2> QED
    BY <1>2, <1>4, <1>7, <1>8, <1>12, <2>1 DEF IInv, DeadLetterExact
<1> QED
    BY <1>10, <1>11, <1>13, <1>14, <1>15, <1>16 DEF IInv

-----------------------------------------------------------------------------

(* Every step of the system preserves the invariant.                       *)
LEMMA NextIInv == IInv /\ [Next]_vars => IInv'
<1> SUFFICES ASSUME IInv, [Next]_vars
             PROVE  IInv'
    OBVIOUS
<1>1. ASSUME NEW m \in Messages, Enqueue(m) PROVE IInv'
    BY <1>1, EnqueueStep
<1>2. ASSUME NEW w \in Workers, WorkerNext(w) PROVE IInv'
  <2>1. CASE Start(w) \/ Poll(w)
    BY <2>1, StartPollStep
  <2>2. CASE ClaimBatch(w)
    BY <2>2, ClaimStep
  <2>3. CASE DeliverOk(w) \/ DeliverError(w)
    BY <2>3, DeliverStep
  <2>4. CASE MarkPublished(w)
    BY <2>4, PublishStep
  <2>5. CASE RecordFailure(w)
    BY <2>5, FailStep
  <2>6. CASE AlreadyPublished(w)
    <3>1. Len(messages[w]) > 0
      BY <2>6, CurrentFacts DEF AlreadyPublished
    <3>2. Shrinks(w)
      BY <2>6, <3>1, AdvanceShrinks DEF AlreadyPublished, IInv
    <3> QED
      BY <2>6, <3>2, DropStep DEF AlreadyPublished, IInv, TypeOK
  <2>7. CASE LeaseLost(w)
    <3>1. Shrinks(w)
      BY <2>7, LeaveShrinks DEF LeaseLost, IInv
    <3> QED
      BY <2>7, <3>1, DropStep DEF LeaseLost, IInv, TypeOK
  <2>8. CASE PollFailed(w)
    <3>1. Shrinks(w)
      BY <2>8, LeaveShrinks DEF PollFailed, IInv
    <3>2. faults' \in Nat
      BY <2>8 DEF PollFailed, IInv, TypeOK
    <3> QED
      BY <2>8, <3>1, <3>2, DropStep DEF PollFailed
  <2>9. CASE Crash(w)
    <3>1. Shrinks(w)
      BY <2>9, CrashShrinks DEF IInv
    <3>2. faults' \in Nat
      BY <2>9 DEF Crash, IInv, TypeOK
    <3> QED
      BY <2>9, <3>1, <3>2, DropStep DEF Crash
  <2> QED
    BY <1>2, <2>1, <2>2, <2>3, <2>4, <2>5, <2>6, <2>7, <2>8, <2>9 DEF WorkerNext, Step
<1>3. CASE Tick
    BY <1>3, TickStep
<1>4. CASE UNCHANGED vars
    BY <1>4 DEF vars, dbVars, workerVars, IInv, TypeOK, ClockInv, LockInv, BatchInv,
                OwnerInv, Unexpired, AckInv, Current, AbsentInv,
                PublishedImpliesStarted, DeadLetterExact
<1> QED
    BY <1>1, <1>2, <1>3, <1>4 DEF Next

(* The inductive invariant holds in every reachable state.                 *)
THEOREM Invariance == Spec => []IInv
<1>1. Init => IInv
    BY InitIInv
<1>2. IInv /\ [Next]_vars => IInv'
    BY NextIInv
<1> QED
    BY <1>1, <1>2, PTL DEF Spec

(* The outbox keeps its types.                                             *)
THEOREM TypeCorrect == Spec => []TypeOK
<1>1. IInv => TypeOK
    BY DEF IInv
<1> QED
    BY <1>1, Invariance, PTL

(* Publication implies a started workflow whose reference is stored with   *)
(* the action, for all interleavings of any number of workers.             *)
THEOREM PublishedStarted == Spec => []PublishedImpliesStarted
<1>1. IInv => PublishedImpliesStarted
    BY DEF IInv
<1> QED
    BY <1>1, Invariance, PTL

(* A message is dead-lettered after exactly MaxAttempts counted failures,  *)
(* and a settled row belongs to nobody.                                    *)
THEOREM DeadLettering == Spec => []DeadLetterExact
<1>1. IInv => DeadLetterExact
    BY DEF IInv
<1> QED
    BY <1>1, Invariance, PTL

(* A worker that has not overrun lock_timeout owns its whole batch.        *)
THEOREM Leases == Spec => []LeaseKept
<1>1. IInv => LeaseKept
  <2> SUFFICES ASSUME IInv, NEW w \in Workers, Unexpired(w), NEW m \in Claimed(w)
               PROVE  row[m].locked_by = w
    BY DEF LeaseKept
  <2>1. PICK i \in 1..Len(messages[w]) : m = messages[w][i].id
    BY BatchType DEF Claimed, IInv
  <2> QED
    BY <2>1 DEF IInv, OwnerInv
<1> QED
    BY <1>1, Invariance, PTL

(* Two workers never deliver one message while both leases are alive.      *)
THEOREM Exclusion == Spec => []NoOverlappingDelivery
<1>1. LeaseKept => NoOverlappingDelivery
    BY DEF LeaseKept, NoOverlappingDelivery
<1> QED
    BY <1>1, Leases, PTL

-----------------------------------------------------------------------------

(* An attempt is counted by the owner of the row, once, from the count it  *)
(* read at the claim.                                                      *)
LEMMA CountedOnce ==
    ASSUME IInv, [Next]_vars, NEW m \in enqueued,
           row'[m].attempt_count # row[m].attempt_count
    PROVE  \E w \in Workers :
              /\ row[m].locked_by = w /\ pc[w] = "fail" /\ Current(w) = m
              /\ row[m].attempt_count = Head(messages[w]).attempt_count
              /\ row'[m].attempt_count = row[m].attempt_count + 1
<1>1. m \in Messages /\ row \in [Messages -> Row] /\ row[m] \in Row
    BY DEF IInv, TypeOK
<1>2. row' # row
    OBVIOUS
<1>3. ~Tick /\ ~UNCHANGED vars
    BY <1>2 DEF Tick, vars, dbVars
<1>4. ASSUME NEW k \in Messages, Enqueue(k) PROVE FALSE
    BY <1>1, <1>4 DEF Enqueue, Row
<1>5. PICK w \in Workers : WorkerNext(w)
    BY <1>3, <1>4 DEF Next
<1>6. ~(Start(w) \/ Poll(w) \/ DeliverOk(w) \/ DeliverError(w) \/ AlreadyPublished(w)
        \/ LeaseLost(w) \/ PollFailed(w) \/ Crash(w))
    BY <1>2 DEF Start, Poll, DeliverOk, DeliverError, AlreadyPublished, LeaseLost,
                PollFailed, Crash, dbVars
<1>7. ~ClaimBatch(w)
  <2> SUFFICES ASSUME NEW n \in Nat, NEW batch, Lease(w, batch, n)
               PROVE  FALSE
    BY OutboxAssumption DEF ClaimBatch
  <2>1. n # 0
    BY <1>2 DEF Lease
  <2>2. row'[m] = IF \E i \in 1..n : batch[i] = m
                  THEN [row[m] EXCEPT !.locked_at = current_time[w], !.locked_by = w]
                  ELSE row[m]
    BY <1>1, <2>1 DEF Lease
  <2> QED
    BY <1>1, <2>2 DEF Row
<1>8. ~MarkPublished(w)
  <2> SUFFICES ASSUME MarkPublished(w)
               PROVE  row'[m].attempt_count = row[m].attempt_count
    OBVIOUS
  <2> DEFINE c == Current(w)
             r == [row[c] EXCEPT !.published_at = current_time[w],
                                 !.locked_at = None, !.locked_by = None]
  <2>1. row' = [row EXCEPT ![c] = r] /\ c \in Messages
    BY CurrentFacts DEF MarkPublished
  <2>2. r.attempt_count = row[c].attempt_count
    BY <1>1, <2>1 DEF Row
  <2> QED
    BY <1>1, <2>1, <2>2
<1>9. RecordFailure(w)
    BY <1>5, <1>6, <1>7, <1>8 DEF WorkerNext, Step
<1>10. /\ pc[w] = "fail" /\ row[Current(w)].locked_by = w
       /\ \A k \in Messages : k # Current(w) => row'[k] = row[k]
       /\ Current(w) \in Messages
       /\ row[Current(w)].attempt_count = Head(messages[w]).attempt_count
    BY <1>1, <1>9, CurrentFacts DEF RecordFailure, HoldsLease
<1>11. Current(w) = m
    BY <1>1, <1>10
<1>12. row'[m].attempt_count = row[m].attempt_count + 1
    BY <1>1, <1>9, <1>11 DEF RecordFailure, Row
<1> QED
    BY <1>10, <1>11, <1>12

(* No failed attempt is lost or counted twice.                             *)
THEOREM Attempts == Spec => AttemptsCountedOnce
<1>1. IInv /\ [Next]_vars =>
        [\A m \in enqueued :
            row'[m].attempt_count # row[m].attempt_count =>
                \E w \in Workers :
                    /\ row[m].locked_by = w /\ pc[w] = "fail" /\ Current(w) = m
                    /\ row[m].attempt_count = Head(messages[w]).attempt_count
                    /\ row'[m].attempt_count = row[m].attempt_count + 1]_vars
    BY CountedOnce
<1> QED
    BY <1>1, Invariance, PTL DEF Spec, AttemptsCountedOnce

=============================================================================
