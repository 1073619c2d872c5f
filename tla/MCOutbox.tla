------------------------------ MODULE MCOutbox ------------------------------
(***************************************************************************)
(* Outbox for TLC.  The safety runs explore Spec up to MaxTime with        *)
(* symmetric messages and workers.  The liveness run explores TimelySpec,  *)
(* whose clock never stops.                                                *)
(***************************************************************************)
EXTENDS Outbox, TLC

Symmetry == Permutations(Messages) \cup Permutations(Workers)

-----------------------------------------------------------------------------
(* A clock without an end in finitely many states: at MaxTime the origin   *)
(* of time moves instead.  All comparisons in the code are between times,  *)
(* and one that falls before the origin is older than every timeout.       *)

Earlier(t) == IF t = None \/ t = 0 THEN t ELSE t - 1

MoveOrigin ==
    /\ now = MaxTime
    /\ row' = [m \in Messages |-> [row[m] EXCEPT !.available_at = Earlier(@),
                                                !.created_at = Earlier(@),
                                                !.locked_at = Earlier(@)]]
    /\ current_time' = [w \in Workers |-> Earlier(current_time[w])]
    /\ UNCHANGED <<now, enqueued, arn, executions, pc, messages, faults>>

(* Timeliness: a batch is finished before its lease expires, a due message *)
(* is polled within a clock unit and the last dead worker is replaced.     *)
Busy(w) == pc[w] \notin {"stopped", "idle"}

TimelyTick ==
    /\ \A w \in Workers : Busy(w) => now + 1 < current_time[w] + LockTimeout
    /\ \E w \in Workers : pc[w] # "stopped"
    /\ (\E w \in Workers : pc[w] = "idle") => Due(now) = {}
    /\ Tick \/ MoveOrigin

TimelyNext ==
    \/ \E m \in Messages : Enqueue(m)
    \/ \E w \in Workers : WorkerNext(w)
    \/ TimelyTick

Fairness ==
    /\ \A w \in Workers : WF_vars(Step(w)) /\ WF_vars(Start(w))
    /\ WF_vars(TimelyTick)

TimelySpec == Init /\ [][TimelyNext]_vars /\ Fairness

=============================================================================
