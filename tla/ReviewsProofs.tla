--------------------------- MODULE ReviewsProofs ----------------------------
(***************************************************************************)
(* Proofs about module Reviews, for any cases, executions, documents and   *)
(* recommendations and any number of requests that run the same thread at  *)
(* the same time.  The inductive invariant IInv says which graph states    *)
(* there are, in checkpoints, in stored reviews and in the memory of a     *)
(* request that may have been overtaken by others.                         *)
(***************************************************************************)
EXTENDS OfflineReviews, WellFoundedInduction, TLAPS

PCs == Nodes \cup
        {"idle", "get_execution", "mark_in_review", "log_started", "start", "invoke",
         "resume", "invoke_resume", "end", "mark_failed", "log_failed",
         "log_awaiting_input", "log_resumed", "mark_new", "log_cancelled",
         "get_review", "find_review", "insert_review", "integrity_error",
         "mark_pending", "log_completed"}

(* The states the graph can be in: the gate lies before synthesize, and    *)
(* only synthesize recommends.                                             *)
GraphOK(s) ==
    /\ s.recommendation # None => s.next = "end"
    /\ s.next = "end" => s.cancelled \/ s.recommendation # None
    /\ s.next # "specialists" => s.findings > 0
    /\ s.recommendation # None \/ s.next # "end" => ~s.cancelled
    /\ s.recommendation # None \/ s.next = "synthesize" =>
            (s.require => s.confirmation = "confirm")
    /\ s.interrupted => s.require /\ s.next = "evidence_confirmation"

(* A recommendation is one the backend gives on the documents of the case. *)
Given(e, s) ==
    s.recommendation # None => s.recommendation \in Recommendations(documents[CaseOf[e]])

StateOK(e, s) == s \in State /\ GraphOK(s) /\ Given(e, s)

ThreadsOK == \A e \in Executions : thread[e] # None => StateOK(e, thread[e])

ReviewsOK ==
    \A e \in Executions :
        reviews[e] # None => StateOK(e, reviews[e]) /\ reviews[e].recommendation # None

Saving == {"get_review", "find_review", "insert_review"}

RequestOK(r) ==
    /\ pc[r] # "idle" => local[r] \in Local
    /\ pc[r] = "get_execution" => local[r].kind # "review"
    /\ pc[r] \in Nodes \cup {"resume", "invoke_resume", "end"} => thread[Execution(r)] # None
    /\ pc[r] \in Nodes \cup Saving \cup {"log_resumed"} => StateOK(Execution(r), local[r].state)
    /\ pc[r] \in Nodes => local[r].state.next = pc[r]
    /\ pc[r] \in Saving => local[r].state.recommendation # None
    /\ pc[r] \in {"mark_pending", "log_completed"} => reviews[Execution(r)] # None

RequestsOK == \A r \in Requests : RequestOK(r)

IInv == TypeOK /\ ThreadsOK /\ ReviewsOK /\ RequestsOK /\ PendingApprovalHasReview
-----------------------------------------------------------------------------
(* Facts about the operators.                                              *)

(* A state's status says whether it carries a recommendation.              *)
LEMMA StatusFacts ==
    ASSUME NEW s \in State
    PROVE  /\ ExecutionStatus(s) \in {"running", "awaiting_input", "completed", "cancelled"}
           /\ ExecutionStatus(s) = "completed" <=> ~s.cancelled /\ s.recommendation # None
BY DEF ExecutionStatus, State

(* A thread that starts, on whatever findings it keeps, is a state of the  *)
(* graph.                                                                  *)
LEMMA FreshOK ==
    ASSUME NEW require \in BOOLEAN, NEW n \in Nat, NEW e \in Executions
    PROVE  StateOK(e, [Fresh(require) EXCEPT !.findings = n])
BY DEF Fresh, StateOK, State, GraphOK, Given, Nodes

(* Where the handlers settle; only a completed execution is saved.         *)
LEMMA SettleFacts ==
    ASSUME NEW l \in Local, NEW status
    PROVE  /\ Settle(l, status) \in {"get_review", "mark_failed", "mark_new",
                                     "log_awaiting_input", "idle"}
           /\ Settle(l, status) = "get_review" <=> status = "completed"
BY DEF Settle

(* What a request carries on with from an execution it has read.           *)
LEMMA ObtainFacts ==
    ASSUME TypeOK, NEW r \in Requests, NEW l \in Local, NEW s \in State, Obtain(r, l, s)
    PROVE  /\ pc' \in [Requests -> PCs]
           /\ local' \in [Requests -> Local \cup {None}]
           /\ \A q \in Requests \ {r} : pc'[q] = pc[q] /\ local'[q] = local[q]
           /\ pc'[r] \in {"log_resumed", "get_review", "mark_failed", "mark_new",
                          "log_awaiting_input", "idle"}
           /\ pc'[r] # "idle" => local'[r] = [l EXCEPT !.state = s] /\ local'[r] \in Local
           /\ pc'[r] = "get_review" => s.recommendation # None
<1>1. [l EXCEPT !.state = s] \in Local
  BY DEF Local
<1>2. PICK l2 \in Local : l2 = [l EXCEPT !.state = s]
  BY <1>1
<1>3. PICK w \in PCs :
        /\ w = IF l.kind = "resume" /\ l.current = "awaiting_input"
               THEN "log_resumed" ELSE Settle(l, ExecutionStatus(s))
        /\ w \in {"log_resumed", "get_review", "mark_failed", "mark_new",
                  "log_awaiting_input", "idle"}
        /\ w = "get_review" => s.recommendation # None
  BY SettleFacts, StatusFacts DEF PCs
<1>4. \/ w = "idle" /\ pc' = [pc EXCEPT ![r] = "idle"] /\ local' = [local EXCEPT ![r] = None]
      \/ w # "idle" /\ pc' = [pc EXCEPT ![r] = w] /\ local' = [local EXCEPT ![r] = l2]
  BY <1>2, <1>3 DEF Obtain, Respond, Goto
<1>5. pc \in [Requests -> PCs] /\ local \in [Requests -> Local \cup {None}] /\ "idle" \in PCs
  BY DEF TypeOK, PCs
<1> QED  BY <1>2, <1>3, <1>4, <1>5

(* A request that answers, or goes on, forgets or keeps its locals.        *)
LEMMA ContinueFacts ==
    ASSUME TypeOK, NEW r \in Requests, NEW where \in PCs, Continue(r, where)
    PROVE  /\ pc' \in [Requests -> PCs]
           /\ local' \in [Requests -> Local \cup {None}]
           /\ \A q \in Requests \ {r} : pc'[q] = pc[q] /\ local'[q] = local[q]
           /\ pc'[r] = where
           /\ where # "idle" => local'[r] = local[r]
BY DEF TypeOK, PCs, Continue, Respond, Goto

(* What a request may rely on is not taken away by others: checkpoints and *)
(* reviews are replaced or kept, never removed while it lives.             *)
LEMMA OthersKept ==
    ASSUME RequestsOK, NEW r \in Requests, documents' = documents,
           \A q \in Requests \ {r} : pc'[q] = pc[q] /\ local'[q] = local[q],
           \A e \in Executions : thread[e] # None => thread'[e] # None,
           \A e \in Executions : reviews[e] # None => reviews'[e] # None
    PROVE  \A q \in Requests \ {r} : RequestOK(q)'
<1> SUFFICES ASSUME NEW q \in Requests \ {r} PROVE RequestOK(q)'
  OBVIOUS
<1>1. RequestOK(q) /\ pc'[q] = pc[q] /\ local'[q] = local[q]
  BY DEF RequestsOK
<1>2. pc[q] # "idle" => Execution(q) \in Executions
  BY <1>1 DEF RequestOK, Execution, Local
<1> QED  BY <1>1, <1>2 DEF RequestOK, Execution, StateOK, Given, Nodes, Saving

-----------------------------------------------------------------------------
(* One step of a request.                                                  *)

(* Steps that leave the database and the checkpoints alone.                *)
LEMMA LocalStep ==
    ASSUME IInv, NEW r \in Requests,
           UNCHANGED <<dbVars, ran, checkpointer, documents, restarts>>,
           served' \in Nat, lost' \subseteq Executions /\ raised' \subseteq Executions,
           pc' \in [Requests -> PCs], local' \in [Requests -> Local \cup {None}],
           \A q \in Requests \ {r} : pc'[q] = pc[q] /\ local'[q] = local[q],
           RequestOK(r)'
    PROVE  IInv'
<1>1. TypeOK'
  BY DEF IInv, TypeOK, dbVars, PCs
<1>2. ThreadsOK' /\ ReviewsOK'
  BY DEF IInv, ThreadsOK, ReviewsOK, StateOK, Given, dbVars
<1>3. RequestsOK'
  BY OthersKept DEF IInv, RequestsOK, dbVars
<1>4. PendingApprovalHasReview'
  BY DEF IInv, PendingApprovalHasReview, dbVars
<1> QED  BY <1>1, <1>2, <1>3, <1>4 DEF IInv

(* Answering a request.                                                    *)
LEMMA RespondStep ==
    ASSUME IInv, NEW r \in Requests, Respond(r),
           UNCHANGED <<dbVars, ran, checkpointer, documents, restarts, served>>,
           lost' \subseteq Executions /\ raised' \subseteq Executions
    PROVE  IInv'
<1>1. /\ pc' \in [Requests -> PCs] /\ local' \in [Requests -> Local \cup {None}]
      /\ \A q \in Requests \ {r} : pc'[q] = pc[q] /\ local'[q] = local[q]
      /\ pc'[r] = "idle"
  BY DEF IInv, TypeOK, PCs, Respond, Goto
<1>2. RequestOK(r)'
  BY <1>1 DEF RequestOK, Nodes, Saving
<1>3. served' \in Nat
  BY DEF IInv, TypeOK
<1> QED  BY <1>1, <1>2, <1>3, LocalStep

(* A request arrives at one of the three handlers.                         *)
LEMMA ArriveStep ==
    ASSUME IInv, NEW r \in Requests, Arrive(r)
    PROVE  IInv'
<1>1. PICK e \in Executions, kind \in {"review", "start", "resume"}, require \in BOOLEAN,
           decision \in {"confirm", "reject", None}, where \in {"mark_in_review", "get_execution"} :
        /\ Accept(r, e, kind, require, decision)
        /\ Goto(r, where)
        /\ where = "get_execution" => kind # "review"
  <2>1. PICK e \in Executions :
        \/ ReviewCase(r, e)
        \/ \E require \in BOOLEAN : StartReviewExecution(r, e, require)
        \/ \E decision \in {"confirm", "reject"} : ResumeReviewExecution(r, e, decision)
    BY DEF Arrive
  <2>2. CASE ReviewCase(r, e)
    BY <2>2, Zenon DEF ReviewCase
  <2>3. CASE \E require \in BOOLEAN : StartReviewExecution(r, e, require)
    BY <2>3 DEF StartReviewExecution
  <2>4. CASE \E decision \in {"confirm", "reject"} : ResumeReviewExecution(r, e, decision)
    BY <2>4 DEF ResumeReviewExecution
  <2> QED  BY <2>1, <2>2, <2>3, <2>4
<1>2. PICK l \in Local :
        /\ l = [kind |-> kind, execution |-> e, require |-> require, decision |-> decision,
                supplier_case |-> case_status[CaseOf[e]], current |-> None, state |-> None]
        /\ l.kind = kind
  <2>1. case_status[CaseOf[e]] \in {"new", "in_review", "pending_approval", "review_failed"}
    BY ReviewsAssumption DEF IInv, TypeOK
  <2>2. [kind |-> kind, execution |-> e, require |-> require, decision |-> decision,
         supplier_case |-> case_status[CaseOf[e]], current |-> None, state |-> None] \in Local
    BY <2>1 DEF Local
  <2> QED  BY <2>2
<1>3. local' = [local EXCEPT ![r] = l] /\ pc' = [pc EXCEPT ![r] = where]
  BY <1>1, <1>2 DEF Accept, Goto
<1>4. /\ pc' \in [Requests -> PCs] /\ local' \in [Requests -> Local \cup {None}]
      /\ \A q \in Requests \ {r} : pc'[q] = pc[q] /\ local'[q] = local[q]
      /\ pc'[r] = where /\ local'[r] = l
  BY <1>3 DEF IInv, TypeOK, PCs
<1>5. RequestOK(r)'
  BY <1>1, <1>2, <1>4 DEF RequestOK, Nodes, Saving
<1>6. /\ served' \in Nat /\ lost' \subseteq Executions /\ raised' \subseteq Executions
      /\ UNCHANGED <<dbVars, ran, checkpointer, documents, restarts>>
  BY <1>1 DEF Accept, IInv, TypeOK, restVars
<1> QED  BY <1>4, <1>5, <1>6, LocalStep

(* The steps that read an execution and settle what to do about it.        *)
LEMMA ObtainStep ==
    ASSUME IInv, NEW r \in Requests, NEW l \in Local, NEW s,
           l.execution = Execution(r), StateOK(Execution(r), s), Obtain(r, l, s),
           UNCHANGED <<dbVars, ran, served, restVars>>
    PROVE  IInv'
<1>1. TypeOK /\ s \in State
  BY DEF IInv, StateOK
<1>2. /\ pc' \in [Requests -> PCs]
      /\ local' \in [Requests -> Local \cup {None}]
      /\ \A q \in Requests \ {r} : pc'[q] = pc[q] /\ local'[q] = local[q]
      /\ pc'[r] \in {"log_resumed", "get_review", "mark_failed", "mark_new",
                     "log_awaiting_input", "idle"}
      /\ pc'[r] # "idle" => local'[r] = [l EXCEPT !.state = s] /\ local'[r] \in Local
      /\ pc'[r] = "get_review" => s.recommendation # None
  BY <1>1, ObtainFacts
<1>3. pc'[r] # "idle" => local'[r].execution = Execution(r) /\ local'[r].state = s
  BY <1>2 DEF Local
<1>4. RequestOK(r)'
  BY <1>2, <1>3 DEF RequestOK, Nodes, Saving, Execution, StateOK, Given, restVars
<1>5. /\ served' \in Nat /\ lost' \subseteq Executions /\ raised' \subseteq Executions
      /\ UNCHANGED <<dbVars, ran, checkpointer, documents, restarts>>
  BY DEF IInv, TypeOK, restVars
<1> QED  BY <1>2, <1>4, <1>5, LocalStep

(* A super-step's checkpoint becomes the thread's state.                   *)
LEMMA CheckpointStep ==
    ASSUME IInv, NEW r \in Requests, pc[r] # "idle", NEW s,
           StateOK(Execution(r), s), Checkpoint(r, s),
           ran' \in [Executions -> [Nodes -> Nat]]
    PROVE  IInv'
<1> DEFINE e == Execution(r)
<1>1. local[r] \in Local /\ e \in Executions /\ s \in State /\ s # None
  BY NoneAssumption DEF IInv, RequestsOK, RequestOK, Execution, Local, StateOK
<1>2. [local[r] EXCEPT !.state = s] \in Local
  BY <1>1 DEF Local
<1>3. PICK l \in Local : l = [local[r] EXCEPT !.state = s]
  BY <1>2
<1>4. l.state = s /\ l.execution = e
  BY <1>1, <1>3 DEF Local, Execution
<1>5. local' = [local EXCEPT ![r] = l]
  BY <1>1, <1>3 DEF Checkpoint, IInv, TypeOK
<1>6. PICK w : w = IF s.interrupted THEN "end" ELSE s.next
  OBVIOUS
<1>7. w \in Nodes \cup {"end"} /\ (w \in Nodes => w = s.next)
  BY <1>1, <1>6 DEF State, Nodes
<1>8. pc' = [pc EXCEPT ![r] = w]
  BY <1>6 DEF Checkpoint, Goto
<1>9. /\ pc' \in [Requests -> PCs] /\ local' \in [Requests -> Local \cup {None}]
      /\ \A q \in Requests \ {r} : pc'[q] = pc[q] /\ local'[q] = local[q]
      /\ pc'[r] = w /\ local'[r] = l
  BY <1>5, <1>7, <1>8 DEF IInv, TypeOK, PCs
<1>10. /\ thread' = [thread EXCEPT ![e] = s]
       /\ UNCHANGED <<case_status, reviews, audit, served, checkpointer, documents, lost, raised, restarts>>
  BY DEF Checkpoint, restVars
<1>11. thread' \in [Executions -> State \cup {None}] /\ thread'[e] = s
  BY <1>1, <1>10 DEF IInv, TypeOK
<1>12. TypeOK'
  BY <1>9, <1>10, <1>11 DEF IInv, TypeOK, PCs
<1>13. ThreadsOK'
  BY <1>1, <1>10, <1>11 DEF IInv, TypeOK, ThreadsOK, StateOK, Given
<1>14. ReviewsOK' /\ PendingApprovalHasReview'
  BY <1>10 DEF IInv, ReviewsOK, PendingApprovalHasReview, StateOK, Given
<1>15. \A x \in Executions : thread[x] # None => thread'[x] # None
  BY <1>1, <1>10 DEF IInv, TypeOK
<1>16. Execution(r)' = e
  BY <1>4, <1>9 DEF Execution
<1>17. RequestOK(r)'
  BY <1>1, <1>4, <1>7, <1>9, <1>10, <1>11, <1>16
  DEF RequestOK, Nodes, Saving, StateOK, Given
<1>18. RequestsOK'
  BY <1>9, <1>10, <1>15, <1>17, OthersKept DEF IInv, RequestsOK
<1> QED  BY <1>12, <1>13, <1>14, <1>18 DEF IInv

(* set_status: only a request whose review is stored moves the case on.    *)
LEMMA SetStatusStep ==
    ASSUME IInv, NEW r \in Requests, NEW at \in PCs \ {"idle"}, NEW where \in PCs,
           NEW status \in {"new", "in_review", "pending_approval", "review_failed"},
           SetStatus(r, at, status, where),
           status = "pending_approval" => reviews[Execution(r)] # None,
           RequestOK(r)'
    PROVE  IInv'
<1>1. local[r] \in Local /\ Execution(r) \in Executions
  BY DEF IInv, RequestsOK, RequestOK, SetStatus, Execution, Local
<1>2. /\ pc' = [pc EXCEPT ![r] = where]
      /\ case_status' = [case_status EXCEPT ![CaseOf[Execution(r)]] = status]
      /\ UNCHANGED <<thread, reviews, audit, local, ran, served, checkpointer, documents,
                     lost, raised, restarts>>
  BY DEF SetStatus, Goto, restVars
<1>3. pc' \in [Requests -> PCs] /\ \A q \in Requests \ {r} : pc'[q] = pc[q]
  BY <1>2 DEF IInv, TypeOK, PCs
<1>4. TypeOK'
  BY <1>2, <1>3 DEF IInv, TypeOK, PCs
<1>5. ThreadsOK' /\ ReviewsOK'
  BY <1>2 DEF IInv, ThreadsOK, ReviewsOK, StateOK, Given
<1>6. RequestsOK'
  BY <1>2, <1>3, OthersKept DEF IInv, RequestsOK
<1>7. PendingApprovalHasReview'
  BY <1>1, <1>2 DEF IInv, TypeOK, PendingApprovalHasReview
<1> QED  BY <1>4, <1>5, <1>6, <1>7 DEF IInv

(* append_audit_event                                                      *)
LEMMA AppendAuditStep ==
    ASSUME IInv, NEW r \in Requests, NEW at \in PCs \ {"idle"}, NEW event \in Events,
           NEW where \in PCs, AppendAuditEvent(r, at, event, where),
           RequestOK(r)'
    PROVE  IInv'
<1>1. local[r] \in Local /\ Execution(r) \in Executions
  BY DEF IInv, RequestsOK, RequestOK, AppendAuditEvent, Execution, Local
<1>2. /\ audit' = [audit EXCEPT ![Execution(r)][event] = @ + 1]
      /\ UNCHANGED <<case_status, thread, reviews, ran, served, checkpointer, documents,
                     lost, raised, restarts>>
  BY DEF AppendAuditEvent, restVars
<1>3. /\ pc' \in [Requests -> PCs] /\ local' \in [Requests -> Local \cup {None}]
      /\ \A q \in Requests \ {r} : pc'[q] = pc[q] /\ local'[q] = local[q]
  BY ContinueFacts DEF AppendAuditEvent, IInv
<1>4. audit' \in [Executions -> [Events -> Nat]]
  BY <1>1, <1>2 DEF IInv, TypeOK
<1>5. TypeOK'
  BY <1>2, <1>3, <1>4 DEF IInv, TypeOK, PCs
<1>6. ThreadsOK' /\ ReviewsOK' /\ PendingApprovalHasReview'
  BY <1>2 DEF IInv, ThreadsOK, ReviewsOK, StateOK, Given, PendingApprovalHasReview
<1>7. RequestsOK'
  BY <1>2, <1>3, OthersKept DEF IInv, RequestsOK
<1> QED  BY <1>5, <1>6, <1>7 DEF IInv

-----------------------------------------------------------------------------
(* The actions of the graph.                                               *)

(* A request that is not idle has locals and works on an execution.        *)
LEMMA Working ==
    ASSUME IInv, NEW r \in Requests, pc[r] # "idle"
    PROVE  /\ local[r] \in Local /\ Execution(r) \in Executions
           /\ Execution(r) = local[r].execution
           /\ thread[Execution(r)] # None => StateOK(Execution(r), thread[Execution(r)])
           /\ RequestOK(r) /\ TypeOK
BY DEF IInv, RequestsOK, RequestOK, Execution, Local, ThreadsOK

(* Moving on with the same locals.                                         *)
LEMMA GotoStep ==
    ASSUME IInv, NEW r \in Requests, pc[r] # "idle", NEW where \in PCs, Goto(r, where),
           UNCHANGED <<dbVars, local, ran, served, restVars>>,
           RequestOK(r)'
    PROVE  IInv'
<1>1. /\ pc' \in [Requests -> PCs] /\ local' \in [Requests -> Local \cup {None}]
      /\ \A q \in Requests \ {r} : pc'[q] = pc[q] /\ local'[q] = local[q]
  BY DEF IInv, TypeOK, PCs, Goto
<1>2. /\ served' \in Nat /\ lost' \subseteq Executions /\ raised' \subseteq Executions
      /\ UNCHANGED <<dbVars, ran, checkpointer, documents, restarts>>
  BY DEF IInv, TypeOK, restVars
<1> QED  BY <1>1, <1>2, LocalStep

(* start: an execution that exists is read, any other is created.          *)
LEMMA StartStep ==
    ASSUME IInv, NEW r \in Requests, Start(r)
    PROVE  IInv'
<1>1. pc[r] = "start" /\ UNCHANGED <<dbVars, ran, served, restVars>>
  BY DEF Start
<1>2. CASE Exists(Execution(r))
  <2>1. PICK l, s : l \in Local /\ l = local[r] /\ s = thread[Execution(r)]
    BY <1>1, Working
  <2>2. Obtain(r, l, s) /\ StateOK(Execution(r), s) /\ l.execution = Execution(r)
    BY <1>1, <1>2, <2>1, Working DEF Start, Exists
  <2> QED  BY <1>1, <2>1, <2>2, ObtainStep
<1>3. CASE ~Exists(Execution(r))
  <2>1. Goto(r, "invoke") /\ UNCHANGED local
    BY <1>3 DEF Start
  <2>2. RequestOK(r)'
    BY <1>1, <2>1, Working DEF RequestOK, Goto, TypeOK, Nodes, Saving
  <2> QED  BY <1>1, <2>1, <2>2, GotoStep DEF PCs
<1> QED  BY <1>2, <1>3

(* The input of a start resets a thread, which another request may have    *)
(* created meanwhile.                                                      *)
LEMMA InvokeStep ==
    ASSUME IInv, NEW r \in Requests, Invoke(r)
    PROVE  IInv'
<1>1. pc[r] = "invoke" /\ local[r].require \in BOOLEAN /\ Execution(r) \in Executions
  BY Working DEF Invoke, Local
<1>2. PICK n : n = IF thread[Execution(r)] = None THEN 0 ELSE thread[Execution(r)].findings
  OBVIOUS
<1>3. n \in Nat
  BY <1>1, <1>2, Working DEF StateOK, State
<1>4. PICK s : s = [Fresh(local[r].require) EXCEPT !.findings = n]
  OBVIOUS
<1>5. StateOK(Execution(r), s)
  BY <1>1, <1>3, <1>4, FreshOK
<1>6. Checkpoint(r, s)
  BY <1>2, <1>4 DEF Invoke
<1>7. ran' \in [Executions -> [Nodes -> Nat]]
  BY DEF Invoke, IInv, TypeOK
<1> QED  BY <1>1, <1>5, <1>6, <1>7, CheckpointStep

(* resume: an execution that does not wait for input is only read.         *)
LEMMA ResumeStep ==
    ASSUME IInv, NEW r \in Requests, Resume(r)
    PROVE  IInv'
<1>1. pc[r] = "resume" /\ UNCHANGED <<dbVars, ran, served, restVars>>
  BY DEF Resume
<1>2. PICK l, s : l \in Local /\ l = local[r] /\ s = thread[Execution(r)]
  BY <1>1, Working
<1>3. StateOK(Execution(r), s) /\ l.execution = Execution(r) /\ s \in State
  BY <1>1, <1>2, Working DEF RequestOK, StateOK
<1>4. CASE ExecutionStatus(s) \in Terminal
  <2>1. Obtain(r, l, s)
    BY <1>2, <1>4 DEF Resume, Terminal
  <2> QED  BY <1>1, <1>2, <1>3, <2>1, ObtainStep
<1>5. CASE ExecutionStatus(s) = "running"
  <2>1. Respond(r)
    BY <1>2, <1>5 DEF Resume, Terminal
  <2>2. lost' \subseteq Executions /\ raised' \subseteq Executions /\ UNCHANGED <<checkpointer, documents, restarts>>
    BY <1>1 DEF restVars, IInv, TypeOK
  <2> QED  BY <1>1, <2>1, <2>2, RespondStep
<1>6. CASE ExecutionStatus(s) = "awaiting_input"
  <2>1. Goto(r, "invoke_resume") /\ UNCHANGED local
    BY <1>2, <1>6 DEF Resume, Terminal
  <2>2. RequestOK(r)'
    BY <1>1, <2>1, Working DEF RequestOK, Goto, TypeOK, Nodes, Saving, dbVars, Execution
  <2> QED  BY <1>1, <2>1, <2>2, GotoStep DEF PCs
<1> QED  BY <1>3, <1>4, <1>5, <1>6, StatusFacts DEF Terminal

(* The decision is given to the thread as it is now, not as the handler    *)
(* read it.                                                                *)
LEMMA InvokeResumeStep ==
    ASSUME IInv, NEW r \in Requests, InvokeResume(r)
    PROVE  IInv'
<1>1. pc[r] = "invoke_resume" /\ UNCHANGED <<dbVars, ran, served, restVars>>
  BY DEF InvokeResume
<1>2. PICK s : s = thread[Execution(r)]
  OBVIOUS
<1>3. StateOK(Execution(r), s) /\ s # None /\ s \in State /\ local[r] \in Local
  BY <1>1, <1>2, Working DEF RequestOK, StateOK
<1>4. [local[r] EXCEPT !.state = s] \in Local
  BY <1>3 DEF Local
<1>5. PICK l \in Local : l = [local[r] EXCEPT !.state = s]
  BY <1>4
<1>6. l.state = s /\ l.execution = Execution(r)
  BY <1>3, <1>5 DEF Local, Execution
<1>7. local' = [local EXCEPT ![r] = l] /\ pc' = [pc EXCEPT ![r] = s.next]
  BY <1>2, <1>5 DEF InvokeResume, Goto, IInv, TypeOK
<1>8. s.next \in Nodes \cup {"end"}
  BY <1>3 DEF State
<1>9. /\ pc' \in [Requests -> PCs] /\ local' \in [Requests -> Local \cup {None}]
      /\ \A q \in Requests \ {r} : pc'[q] = pc[q] /\ local'[q] = local[q]
      /\ pc'[r] = s.next /\ local'[r] = l
  BY <1>7, <1>8 DEF IInv, TypeOK, PCs
<1>10. /\ served' \in Nat /\ lost' \subseteq Executions /\ raised' \subseteq Executions
       /\ UNCHANGED <<dbVars, ran, checkpointer, documents, restarts>>
  BY <1>1 DEF IInv, TypeOK, restVars
<1>11. Execution(r)' = Execution(r)
  BY <1>6, <1>9 DEF Execution
<1>12. RequestOK(r)'
  BY <1>1, <1>2, <1>3, <1>6, <1>8, <1>9, <1>10, <1>11
  DEF RequestOK, Nodes, Saving, StateOK, Given, dbVars
<1> QED  BY <1>9, <1>10, <1>12, LocalStep

(* A request in a node of the graph has the node's input.                  *)
LEMMA InNode ==
    ASSUME IInv, NEW r \in Requests, pc[r] \in Nodes
    PROVE  /\ pc[r] # "idle"
           /\ StateOK(Execution(r), local[r].state) /\ local[r].state.next = pc[r]
           /\ local[r] \in Local /\ Execution(r) \in Executions
BY Working DEF Nodes, RequestOK

(* Completing a node is counted.                                           *)
LEMMA CompletedType ==
    ASSUME IInv, NEW r \in Requests, Execution(r) \in Executions, NEW node \in Nodes,
           Completed(r, node)
    PROVE  ran' \in [Executions -> [Nodes -> Nat]]
BY DEF Completed, IInv, TypeOK

(* The specialists add findings and recommend nothing.                     *)
LEMMA SpecialistsStep ==
    ASSUME IInv, NEW r \in Requests, SpecialistReviews(r)
    PROVE  IInv'
<1>1. PICK s : s = local[r].state
  OBVIOUS
<1>2. StateOK(Execution(r), s) /\ s.next = "specialists" /\ pc[r] # "idle"
      /\ Execution(r) \in Executions
  BY <1>1, InNode DEF SpecialistReviews, Nodes
<1>3. PICK t : t = [s EXCEPT !.findings = @ + 1, !.next = "evidence_confirmation"]
  OBVIOUS
<1>4. StateOK(Execution(r), t)
  <2>1. PICK n \in Nat : n = s.findings + 1 /\ n > 0
    BY <1>2 DEF StateOK, State
  <2>2. t = [s EXCEPT !.findings = n, !.next = "evidence_confirmation"]
    BY <1>3, <2>1
  <2> QED  BY <1>2, <2>1, <2>2 DEF StateOK, State, GraphOK, Given, Nodes
<1>5. Checkpoint(r, t) /\ Completed(r, "specialists")
  BY <1>1, <1>3 DEF SpecialistReviews
<1> QED  BY <1>2, <1>4, <1>5, CheckpointStep, CompletedType DEF Nodes

(* The gate interrupts, cancels, or passes a confirmed thread on.          *)
LEMMA ConfirmationStep ==
    ASSUME IInv, NEW r \in Requests, EvidenceConfirmation(r)
    PROVE  IInv'
<1>1. PICK s, d : s = local[r].state /\ d = local[r].decision
  OBVIOUS
<1>2. /\ StateOK(Execution(r), s) /\ s.next = "evidence_confirmation" /\ pc[r] # "idle"
      /\ Execution(r) \in Executions /\ d \in {"confirm", "reject", None}
  BY <1>1, InNode DEF EvidenceConfirmation, Nodes, Local
<1>3. CASE /\ ~s.require
           /\ Checkpoint(r, [s EXCEPT !.next = AfterEvidenceConfirmation(s.cancelled)])
           /\ Completed(r, "evidence_confirmation")
  <2>1. PICK t : t = [s EXCEPT !.next = AfterEvidenceConfirmation(s.cancelled)]
    OBVIOUS
  <2>2. StateOK(Execution(r), t)
    BY <1>2, <1>3, <2>1 DEF StateOK, State, GraphOK, Given, Nodes, AfterEvidenceConfirmation
  <2> QED  BY <1>2, <1>3, <2>1, <2>2, CheckpointStep, CompletedType DEF Nodes
<1>4. CASE /\ s.require /\ d = None
           /\ Checkpoint(r, [s EXCEPT !.interrupted = TRUE])
           /\ UNCHANGED ran
  <2>1. PICK t : t = [s EXCEPT !.interrupted = TRUE]
    OBVIOUS
  <2>2. StateOK(Execution(r), t)
    BY <1>2, <1>4, <2>1 DEF StateOK, State, GraphOK, Given, Nodes
  <2>3. ran' \in [Executions -> [Nodes -> Nat]]
    BY <1>4 DEF IInv, TypeOK
  <2> QED  BY <1>2, <1>4, <2>1, <2>2, <2>3, CheckpointStep
<1>5. CASE /\ s.require /\ d # None
           /\ Checkpoint(r, [s EXCEPT !.interrupted = FALSE, !.confirmation = d,
                                      !.cancelled = (d = "reject"),
                                      !.next = AfterEvidenceConfirmation(d = "reject")])
           /\ Completed(r, "evidence_confirmation")
  <2>1. PICK t : t = [s EXCEPT !.interrupted = FALSE, !.confirmation = d,
                               !.cancelled = (d = "reject"),
                               !.next = AfterEvidenceConfirmation(d = "reject")]
    OBVIOUS
  <2>2. StateOK(Execution(r), t)
    BY <1>2, <1>5, <2>1 DEF StateOK, State, GraphOK, Given, Nodes, AfterEvidenceConfirmation
  <2> QED  BY <1>2, <1>5, <2>1, <2>2, CheckpointStep, CompletedType DEF Nodes
<1> QED  BY <1>1, <1>3, <1>4, <1>5 DEF EvidenceConfirmation

(* synthesize recommends only what lies past the gate.                     *)
LEMMA SynthesizeStep ==
    ASSUME IInv, NEW r \in Requests, Synthesize(r)
    PROVE  IInv'
<1>1. PICK s : s = local[r].state
  OBVIOUS
<1>2. StateOK(Execution(r), s) /\ s.next = "synthesize" /\ pc[r] # "idle"
      /\ Execution(r) \in Executions
  BY <1>1, InNode DEF Synthesize, Nodes
<1>3. PICK decision \in Recommendations(documents[CaseOf[Execution(r)]]) :
        Checkpoint(r, [s EXCEPT !.recommendation = decision, !.next = "end"])
  BY <1>1 DEF Synthesize
<1>4. decision \in Decisions /\ decision # None
  BY <1>2, ReviewsAssumption DEF IInv, TypeOK
<1>5. PICK t : t = [s EXCEPT !.recommendation = decision, !.next = "end"]
  OBVIOUS
<1>6. StateOK(Execution(r), t)
  BY <1>2, <1>3, <1>4, <1>5 DEF StateOK, State, GraphOK, Given, Nodes
<1>7. Checkpoint(r, t) /\ Completed(r, "synthesize")
  BY <1>3, <1>5 DEF Synthesize
<1> QED  BY <1>2, <1>6, <1>7, CheckpointStep, CompletedType DEF Nodes

(* A finished run reads the latest checkpoint of the thread, whoever wrote *)
(* it.                                                                     *)
LEMMA ReadSnapshotStep ==
    ASSUME IInv, NEW r \in Requests, ReadSnapshot(r)
    PROVE  IInv'
<1>1. pc[r] = "end" /\ UNCHANGED <<dbVars, ran, served, restVars>>
  BY DEF ReadSnapshot
<1>2. PICK l, s : l \in Local /\ l = local[r] /\ s = thread[Execution(r)]
  BY <1>1, Working
<1>3. Obtain(r, l, s) /\ StateOK(Execution(r), s) /\ l.execution = Execution(r)
  BY <1>1, <1>2, Working DEF ReadSnapshot, RequestOK
<1> QED  BY <1>1, <1>2, <1>3, ObtainStep

(* A run that raises goes on to record the failure.                        *)
LEMMA RunFailsStep ==
    ASSUME IInv, NEW r \in Requests, RunFails(r)
    PROVE  IInv'
<1>1. pc[r] # "idle" /\ Goto(r, "mark_failed") /\ UNCHANGED <<dbVars, local, ran, served, restVars>>
  BY DEF RunFails, Nodes
<1>2. RequestOK(r)'
  BY <1>1, Working DEF RequestOK, Goto, TypeOK, Nodes, Saving
<1> QED  BY <1>1, <1>2, GotoStep DEF PCs

-----------------------------------------------------------------------------
(* The actions of the handlers.                                            *)

(* The handlers read the execution before anything else.                   *)
LEMMA GetExecutionStep ==
    ASSUME IInv, NEW r \in Requests, GetExecution(r)
    PROVE  IInv'
<1>1. /\ pc[r] = "get_execution" /\ UNCHANGED <<dbVars, ran, served, restVars>>
      /\ local[r] \in Local /\ local[r].kind \in {"start", "resume"} /\ TypeOK
  BY Working DEF GetExecution, RequestOK, Local
<1>2. PICK s : s = thread[Execution(r)]
  OBVIOUS
<1>3. CASE Exists(Execution(r))
  <2>1. StateOK(Execution(r), s) /\ s \in State
    BY <1>1, <1>2, <1>3, Working DEF Exists, StateOK
  <2>2. [local[r] EXCEPT !.current = ExecutionStatus(s)] \in Local
    BY <1>1, <2>1, StatusFacts DEF Local
  <2>3. PICK l \in Local : l = [local[r] EXCEPT !.current = ExecutionStatus(s)]
    BY <2>2
  <2>4. l.kind = local[r].kind /\ l.execution = Execution(r)
    BY <1>1, <2>3 DEF Local, Execution
  <2>5. CASE l.kind = "start"
    <3>1. Obtain(r, l, s)
      BY <1>2, <1>3, <2>3, <2>5 DEF GetExecution
    <3> QED  BY <1>1, <2>1, <2>4, <3>1, ObtainStep
  <2>6. CASE l.kind = "resume"
    <3>1. pc' = [pc EXCEPT ![r] = "resume"] /\ local' = [local EXCEPT ![r] = l]
      BY <1>2, <1>3, <2>3, <2>6 DEF GetExecution, Goto
    <3>2. /\ pc' \in [Requests -> PCs] /\ local' \in [Requests -> Local \cup {None}]
          /\ \A q \in Requests \ {r} : pc'[q] = pc[q] /\ local'[q] = local[q]
          /\ pc'[r] = "resume" /\ local'[r] = l
      BY <3>1 DEF IInv, TypeOK, PCs
    <3>3. Execution(r)' = Execution(r)
      BY <2>4, <3>2 DEF Execution
    <3>4. RequestOK(r)'
      BY <1>1, <1>2, <1>3, <3>2, <3>3 DEF RequestOK, Nodes, Saving, Exists, dbVars
    <3>5. /\ served' \in Nat /\ lost' \subseteq Executions /\ raised' \subseteq Executions
          /\ UNCHANGED <<dbVars, ran, checkpointer, documents, restarts>>
      BY <1>1 DEF TypeOK, restVars
    <3> QED  BY <3>2, <3>4, <3>5, LocalStep
  <2> QED  BY <1>1, <2>4, <2>5, <2>6
<1>4. CASE ~Exists(Execution(r))
  <2>1. PICK where \in {"mark_in_review", "idle"} : Continue(r, where)
    BY <1>4 DEF GetExecution
  <2>2. where \in PCs
    BY DEF PCs
  <2>3. /\ pc' \in [Requests -> PCs] /\ local' \in [Requests -> Local \cup {None}]
        /\ \A q \in Requests \ {r} : pc'[q] = pc[q] /\ local'[q] = local[q]
        /\ pc'[r] = where
        /\ where # "idle" => local'[r] = local[r]
    BY <1>1, <2>1, <2>2, ContinueFacts
  <2>4. RequestOK(r)'
    BY <1>1, <2>3 DEF RequestOK, Nodes, Saving
  <2>5. /\ served' \in Nat /\ lost' \subseteq Executions /\ raised' \subseteq Executions
        /\ UNCHANGED <<dbVars, ran, checkpointer, documents, restarts>>
    BY <1>1 DEF TypeOK, restVars
  <2> QED  BY <2>3, <2>4, <2>5, LocalStep
<1> QED  BY <1>3, <1>4

(* The handlers' status changes.                                           *)
LEMMA MarkStep ==
    ASSUME IInv, NEW r \in Requests,
           MarkInReview(r) \/ MarkFailed(r) \/ MarkNew(r) \/ MarkPending(r)
    PROVE  IInv'
<1>1. PICK at \in {"mark_in_review", "mark_failed", "mark_new", "mark_pending"},
           where \in {"log_started", "log_failed", "log_cancelled", "log_completed"},
           status \in {"new", "in_review", "pending_approval", "review_failed"} :
        /\ SetStatus(r, at, status, where)
        /\ status = "pending_approval" => at = "mark_pending"
        /\ where = "log_completed" => at = "mark_pending"
  BY DEF MarkInReview, MarkFailed, MarkNew, MarkPending
<1>2. pc[r] = at /\ pc[r] # "idle" /\ at \in PCs \ {"idle"} /\ where \in PCs
  BY <1>1 DEF SetStatus, PCs
<1>3. at = "mark_pending" => reviews[Execution(r)] # None
  BY <1>2, Working DEF RequestOK
<1>4. pc'[r] = where /\ UNCHANGED <<local, reviews>>
  BY <1>1, <1>2, Working DEF SetStatus, Goto, TypeOK
<1>5. RequestOK(r)'
  BY <1>1, <1>2, <1>3, <1>4, Working DEF RequestOK, Nodes, Saving, Execution
<1> QED  BY <1>1, <1>2, <1>3, <1>5, SetStatusStep

(* The handlers' audit events, with which most of them answer.             *)
LEMMA LogStep ==
    ASSUME IInv, NEW r \in Requests,
           \/ LogStarted(r) \/ LogFailed(r) \/ LogAwaitingInput(r) \/ LogCancelled(r)
           \/ LogCompleted(r)
    PROVE  IInv'
<1>1. PICK at \in {"log_started", "log_failed", "log_awaiting_input", "log_cancelled",
                   "log_completed"},
           event \in Events, where \in {"start", "idle"} :
        AppendAuditEvent(r, at, event, where)
  BY DEF LogStarted, LogFailed, LogAwaitingInput, LogCancelled, LogCompleted, Events
<1>2. pc[r] = at /\ pc[r] # "idle" /\ at \in PCs \ {"idle"} /\ where \in PCs
      /\ Continue(r, where)
  BY <1>1 DEF AppendAuditEvent, PCs
<1>3. pc'[r] = where /\ (where # "idle" => local'[r] = local[r])
  BY <1>2, Working, ContinueFacts
<1>4. RequestOK(r)'
  BY <1>2, <1>3, Working DEF RequestOK, Nodes, Saving
<1> QED  BY <1>1, <1>2, <1>4, AppendAuditStep

(* The event of a resume is written before its result is settled.          *)
LEMMA LogResumedStep ==
    ASSUME IInv, NEW r \in Requests, LogResumed(r)
    PROVE  IInv'
<1>1. pc[r] = "log_resumed"
  BY DEF LogResumed, AppendAuditEvent
<1>2. local[r] \in Local /\ StateOK(Execution(r), local[r].state) /\ local[r].state \in State
  BY <1>1, Working DEF RequestOK, StateOK
<1>3. PICK where : where = Settle(local[r], ExecutionStatus(local[r].state))
  OBVIOUS
<1>4. /\ where \in {"get_review", "mark_failed", "mark_new", "log_awaiting_input", "idle"}
      /\ where = "get_review" => local[r].state.recommendation # None
  BY <1>2, <1>3, SettleFacts, StatusFacts
<1>5. AppendAuditEvent(r, "log_resumed", "resumed", where) /\ where \in PCs
  BY <1>3, <1>4 DEF LogResumed, PCs
<1>6. Continue(r, where) /\ UNCHANGED documents
  BY <1>5 DEF AppendAuditEvent, restVars
<1>7. pc'[r] = where /\ (where # "idle" => local'[r] = local[r])
  BY <1>1, <1>5, <1>6, Working, ContinueFacts
<1>8. RequestOK(r)'
  BY <1>2, <1>4, <1>6, <1>7 DEF RequestOK, Nodes, Saving, StateOK, Given, Execution
<1> QED  BY <1>5, <1>8, AppendAuditStep DEF PCs, Events

(* persist_completed_review looks for a stored review first.               *)
LEMMA GetReviewStep ==
    ASSUME IInv, NEW r \in Requests, GetReview(r)
    PROVE  IInv'
<1>1. pc[r] = "get_review" /\ UNCHANGED <<dbVars, ran, served, restVars>>
  BY DEF GetReview
<1>2. PICK where \in {"idle", "find_review"} : Continue(r, where)
  BY DEF GetReview
<1>3. where \in PCs /\ TypeOK /\ RequestOK(r)
  BY <1>1, Working DEF PCs
<1>4. /\ pc' \in [Requests -> PCs] /\ local' \in [Requests -> Local \cup {None}]
      /\ \A q \in Requests \ {r} : pc'[q] = pc[q] /\ local'[q] = local[q]
      /\ pc'[r] = where
      /\ where # "idle" => local'[r] = local[r]
  BY <1>2, <1>3, ContinueFacts
<1>5. RequestOK(r)'
  BY <1>1, <1>3, <1>4 DEF RequestOK, Nodes, Saving, StateOK, Given, Execution, restVars
<1>6. /\ served' \in Nat /\ lost' \subseteq Executions /\ raised' \subseteq Executions
      /\ UNCHANGED <<dbVars, ran, checkpointer, documents, restarts>>
  BY <1>1, <1>3 DEF TypeOK, restVars
<1> QED  BY <1>4, <1>5, <1>6, LocalStep

(* save_review looks again, in its own transaction.                        *)
LEMMA FindReviewStep ==
    ASSUME IInv, NEW r \in Requests, FindReview(r)
    PROVE  IInv'
<1>1. pc[r] = "find_review" /\ UNCHANGED <<dbVars, local, ran, served, restVars>>
  BY DEF FindReview
<1>2. PICK where \in {"mark_pending", "insert_review"} :
        /\ Goto(r, where)
        /\ where = "mark_pending" => reviews[Execution(r)] # None
  BY DEF FindReview
<1>3. RequestOK(r)'
  BY <1>1, <1>2, Working
  DEF RequestOK, Goto, TypeOK, Nodes, Saving, StateOK, Given, Execution, restVars, dbVars
<1> QED  BY <1>1, <1>2, <1>3, GotoStep DEF PCs

(* Only a state that carries a recommendation is ever stored.              *)
LEMMA InsertReviewStep ==
    ASSUME IInv, NEW r \in Requests, InsertReview(r)
    PROVE  IInv'
<1> DEFINE e == Execution(r)
<1>1. /\ pc[r] = "insert_review" /\ e \in Executions /\ TypeOK /\ local[r] \in Local
      /\ UNCHANGED <<case_status, thread, audit, ran, served, restVars>>
  BY Working DEF InsertReview
<1>2. CASE Goto(r, "integrity_error") /\ UNCHANGED <<reviews, local>>
  <2>1. RequestOK(r)'
    BY <1>1, <1>2 DEF RequestOK, Goto, TypeOK, Nodes, Saving
  <2> QED  BY <1>1, <1>2, <2>1, GotoStep DEF PCs, dbVars
<1>3. CASE Respond(r) /\ UNCHANGED reviews
  BY <1>1, <1>3, RespondStep DEF dbVars, restVars, TypeOK
<1>4. CASE /\ reviews[e] = None
           /\ reviews' = [reviews EXCEPT ![e] = local[r].state]
           /\ Goto(r, "mark_pending")
           /\ UNCHANGED local
  <2>1. PICK s : s = local[r].state
    OBVIOUS
  <2>2. StateOK(e, s) /\ s \in State /\ s # None /\ s.recommendation # None
    BY <1>1, <2>1, Working, NoneAssumption DEF RequestOK, Saving, StateOK
  <2>3. /\ pc' \in [Requests -> PCs] /\ \A q \in Requests \ {r} : pc'[q] = pc[q]
        /\ pc'[r] = "mark_pending"
    BY <1>1, <1>4 DEF Goto, TypeOK, PCs
  <2>4. reviews' \in [Executions -> State \cup {None}] /\ reviews'[e] = s
        /\ \A x \in Executions \ {e} : reviews'[x] = reviews[x]
    BY <1>1, <1>4, <2>1, <2>2 DEF TypeOK
  <2>5. TypeOK'
    BY <1>1, <1>4, <2>3, <2>4 DEF TypeOK, PCs, restVars
  <2>6. ThreadsOK'
    BY <1>1 DEF IInv, ThreadsOK, StateOK, Given, restVars
  <2>7. ReviewsOK'
    BY <1>1, <2>2, <2>4 DEF IInv, ReviewsOK, StateOK, Given, restVars
  <2>8. \A x \in Executions : reviews[x] # None => reviews'[x] # None
    BY <2>2, <2>4
  <2>9. PendingApprovalHasReview'
    BY <1>1, <2>8 DEF IInv, PendingApprovalHasReview
  <2>10. RequestOK(r)'
    BY <1>1, <1>4, <2>2, <2>3, <2>4 DEF RequestOK, Nodes, Saving, Execution
  <2>11. RequestsOK'
    BY <1>1, <1>4, <2>3, <2>8, <2>10, OthersKept DEF IInv, RequestsOK, restVars
  <2> QED  BY <2>5, <2>6, <2>7, <2>9, <2>11 DEF IInv
<1> QED  BY <1>2, <1>3, <1>4 DEF InsertReview

(* A request that raises or is cut off leaves the stored data as they are. *)
LEMMA EndStep ==
    ASSUME IInv, NEW r \in Requests, IntegrityError(r) \/ ResumeFails(r) \/ Abandon(r)
    PROVE  IInv'
<1>1. pc[r] # "idle" /\ Respond(r)
      /\ UNCHANGED <<dbVars, ran, checkpointer, documents, restarts, served>>
  BY DEF IntegrityError, ResumeFails, Abandon, Nodes, restVars
<1>2. lost' \subseteq Executions /\ raised' \subseteq Executions
  BY <1>1, Working DEF IntegrityError, ResumeFails, Abandon, restVars, TypeOK
<1> QED  BY <1>1, <1>2, RespondStep

(* A restart forgets requests and, with checkpoints in memory, all         *)
(* threads.                                                                *)
LEMMA RestartStep ==
    ASSUME IInv, RestartApi
    PROVE  IInv'
<1>1. /\ pc' = [r \in Requests |-> "idle"] /\ local' = [r \in Requests |-> None]
      /\ thread' = [e \in Executions |-> None] \/ thread' = thread
      /\ UNCHANGED <<case_status, reviews, audit, ran, served, checkpointer, documents, raised>>
  BY DEF RestartApi
<1>2. lost' \subseteq Executions /\ raised' \subseteq Executions
  <2>1. \A r \in Requests : pc[r] # "idle" => Execution(r) \in Executions
    BY Working
  <2> QED  BY <2>1 DEF RestartApi, IInv, TypeOK
<1>3. restarts' \in 0..MaxRestarts
  BY ReviewsAssumption DEF RestartApi, IInv, TypeOK
<1>4. pc' \in [Requests -> PCs] /\ local' \in [Requests -> Local \cup {None}]
  BY <1>1 DEF PCs
<1>5. TypeOK'
  BY <1>1, <1>2, <1>3, <1>4 DEF IInv, TypeOK, PCs
<1>6. ThreadsOK' /\ ReviewsOK' /\ PendingApprovalHasReview'
  BY <1>1 DEF IInv, ThreadsOK, ReviewsOK, StateOK, Given, PendingApprovalHasReview
<1>7. RequestsOK'
  BY <1>1 DEF RequestsOK, RequestOK, Nodes, Saving
<1> QED  BY <1>5, <1>6, <1>7 DEF IInv

-----------------------------------------------------------------------------

(* No execution, review or request exists at first.                        *)
LEMMA InitIInv == Init => IInv
<1> SUFFICES ASSUME Init PROVE IInv
  OBVIOUS
<1>1. TypeOK
  BY ReviewsAssumption DEF Init, TypeOK, Nodes
<1>2. ThreadsOK /\ ReviewsOK /\ RequestsOK /\ PendingApprovalHasReview
  BY ReviewsAssumption
  DEF Init, ThreadsOK, ReviewsOK, RequestsOK, RequestOK, Nodes, Saving, PendingApprovalHasReview
<1> QED  BY <1>1, <1>2 DEF IInv

(* A step that changes no variable keeps the invariant.                    *)
LEMMA StutterStep ==
    ASSUME IInv, UNCHANGED vars
    PROVE  IInv'
<1>1. TypeOK' /\ PendingApprovalHasReview'
  BY DEF IInv, TypeOK, PendingApprovalHasReview, vars, dbVars, restVars
<1>2. ThreadsOK' /\ ReviewsOK' /\ RequestsOK'
  BY DEF IInv, ThreadsOK, ReviewsOK, RequestsOK, RequestOK, Execution, StateOK, Given,
         vars, dbVars, restVars
<1> QED  BY <1>1, <1>2 DEF IInv

(* Every handler step, node, cut-off and restart keeps the invariant.      *)
LEMMA NextIInv == IInv /\ [Next]_vars => IInv'
<1> SUFFICES ASSUME IInv, [Next]_vars PROVE IInv'
  OBVIOUS
<1>1. CASE UNCHANGED vars
  BY <1>1, StutterStep
<1>2. CASE RestartApi
  BY <1>2, RestartStep
<1>3. ASSUME NEW r \in Requests, Arrive(r)
      PROVE  IInv'
  BY <1>3, ArriveStep
<1>4. ASSUME NEW r \in Requests, Graph(r)
      PROVE  IInv'
  BY <1>4, StartStep, InvokeStep, ResumeStep, InvokeResumeStep, SpecialistsStep,
     ConfirmationStep, SynthesizeStep, ReadSnapshotStep, RunFailsStep, EndStep
  DEF Graph
<1>5. ASSUME NEW r \in Requests, Handler(r)
      PROVE  IInv'
  BY <1>5, GetExecutionStep, MarkStep, LogStep, LogResumedStep, GetReviewStep,
     FindReviewStep, InsertReviewStep, EndStep
  DEF Handler
<1> QED  BY <1>1, <1>2, <1>3, <1>4, <1>5 DEF Next

(* IInv is an inductive invariant of the reviews.                          *)
THEOREM Invariance == Spec => []IInv
<1>1. IInv /\ [Next]_vars => IInv'
  BY NextIInv
<1> QED  BY InitIInv, <1>1, PTL DEF Spec

(* The type invariant of the reviews.                                      *)
THEOREM TypeCorrect == Spec => []TypeOK
<1>1. IInv => TypeOK
  BY DEF IInv
<1> QED  BY Invariance, <1>1, PTL

(* No recommendation is stored or checkpointed past the evidence gate,     *)
(* however many requests run the thread at the same time.                  *)
THEOREM GateKept == Spec => []GateRespected
<1>1. IInv => GateRespected
  <2> SUFFICES ASSUME IInv, NEW e \in Executions, NEW s \in {thread[e], reviews[e]} \ {None}
               PROVE  /\ s.recommendation # None /\ s.require => s.confirmation = "confirm"
                      /\ s.recommendation # None => s.findings > 0 /\ ~s.cancelled
                      /\ s = reviews[e] => s.recommendation # None
    BY DEF GateRespected
  <2>1. StateOK(e, s) /\ (s = reviews[e] => s.recommendation # None)
    BY DEF IInv, ThreadsOK, ReviewsOK
  <2> QED  BY <2>1 DEF StateOK, GraphOK
<1> QED  BY Invariance, <1>1, PTL

(* A case that waits for approval has a stored review.                     *)
THEOREM PendingReviewed == Spec => []PendingApprovalHasReview
<1>1. IInv => PendingApprovalHasReview
  BY DEF IInv
<1> QED  BY Invariance, <1>1, PTL

(* Only save_review writes reviews, and only where there is none.          *)
LEMMA NextReviews ==
    ASSUME TypeOK, [Next]_vars
    PROVE  \A e \in Executions : reviews[e] # None => reviews'[e] = reviews[e]
<1>1. CASE reviews' = reviews
  BY <1>1
<1>2. ASSUME NEW r \in Requests, InsertReview(r)
      PROVE  \A e \in Executions : reviews[e] # None => reviews'[e] = reviews[e]
  BY <1>2 DEF InsertReview, TypeOK
<1>3. ASSUME NEW r \in Requests, Arrive(r) PROVE reviews' = reviews
  BY <1>3 DEF Arrive, ReviewCase, StartReviewExecution, ResumeReviewExecution, Accept, dbVars
<1>4. ASSUME NEW r \in Requests, Graph(r) PROVE reviews' = reviews
  BY <1>4 DEF Graph, Start, Invoke, Resume, InvokeResume, SpecialistReviews,
     EvidenceConfirmation, Synthesize, ReadSnapshot, RunFails, ResumeFails, Checkpoint,
     dbVars
<1>5. ASSUME NEW r \in Requests, Handler(r) PROVE reviews' = reviews \/ InsertReview(r)
  BY <1>5 DEF Handler, GetExecution, MarkInReview, LogStarted, MarkFailed, LogFailed,
     LogAwaitingInput, LogResumed, MarkNew, LogCancelled, GetReview, FindReview,
     IntegrityError, MarkPending, LogCompleted, Abandon, SetStatus, AppendAuditEvent, dbVars
<1>6. RestartApi => reviews' = reviews
  BY DEF RestartApi
<1>7. UNCHANGED vars => reviews' = reviews
  BY DEF vars, dbVars
<1> QED  BY <1>1, <1>2, <1>3, <1>4, <1>5, <1>6, <1>7 DEF Next

(* A stored review never changes.                                          *)
THEOREM ReviewsFixed == Spec => StoredReviewsFixed
<1>1. TypeOK /\ [Next]_vars =>
        [\A e \in Executions : reviews[e] # None => reviews'[e] = reviews[e]]_vars
  BY NextReviews
<1> QED  BY TypeCorrect, <1>1, PTL DEF Spec, StoredReviewsFixed

-----------------------------------------------------------------------------
(* The deterministic backend against the reference definition.             *)

(* Every non-empty set of natural numbers has a least element.             *)
LEMMA LeastNat ==
    ASSUME NEW T, T \subseteq Nat, T # {}
    PROVE  \E x \in T : \A y \in T : x <= y
<1>1. PICK R : R = {ss \in Nat \X Nat : ss[1] < ss[2]}
  OBVIOUS
<1>2. IsWellFoundedOn(R, Nat)
  BY <1>1, NatLessThanWellFounded DEF OpToRel
<1>3. PICK x \in T : \A y \in T : ~(<<y, x>> \in R)
  BY <1>2, WFMin
<1>4. \A y \in T : <<y, x>> \in R <=> y < x
  BY <1>1
<1>5. \A y \in T : ~(y < x)
  BY <1>3, <1>4
<1> QED  BY <1>5

(* The rules of the specialists, one by one.                               *)
Shared == Rule("security", <<"shared credentials", "shared password">>, FALSE, "critical", "shared")
Assurance == Rule("security", <<"soc 2", "iso 27001">>, TRUE, "medium", "assurance")
Liability == Rule("legal", <<"unlimited liability">>, FALSE, "high", "liability")
Renewal == Rule("legal", <<"automatic renewal", "auto-renewal">>, FALSE, "medium", "renewal")
Continuity ==
    Rule("financial", <<"going concern", "negative cash flow">>, FALSE, "high", "continuity")

(* The rules by name, so that a proof can treat them one at a time.        *)
LEMMA RulesOneByOne == Rules = {Shared, Assurance, Liability, Renewal, Continuity}
BY Zenon DEF Rules, Shared, Assurance, Liability, Renewal, Continuity

(* The terms of a rule, which are one or two.                              *)
Listed(rule, a, b) ==
    /\ rule.terms[1] = a
    /\ \/ DOMAIN rule.terms = {1} /\ a = b
       \/ DOMAIN rule.terms = {1, 2} /\ rule.terms[2] = b

(* A rule with one or two terms matches what the dossier mentions: the     *)
(* order in which its terms are tried makes no difference to that.         *)
LEMMA MatchedMentions ==
    ASSUME NEW dossier, NEW rule, NEW a, NEW b,
           Listed(rule, a, b)
    PROVE  /\ Terms(rule) = {a, b}
           /\ Matched(rule, dossier) \subseteq {a, b} \cap Combined(dossier)
           /\ Matched(rule, dossier) # {} <=> Mentions(dossier, {a, b})
           /\ Terms(rule) \cap Combined(dossier) = {} <=> ~Mentions(dossier, {a, b})
<1>1. \A t : t \in Combined(dossier) <=> \E i \in DOMAIN dossier : t \in dossier[i]
  BY DEF Combined
<1>2. Mentions(dossier, {a, b}) <=> a \in Combined(dossier) \/ b \in Combined(dossier)
  BY <1>1 DEF Mentions
<1>3. CASE DOMAIN rule.terms = {1} /\ a = b
  <2>1. rule.terms[1] = a
    BY DEF Listed
  <2>2. \A t : t \in Matched(rule, dossier) <=> t = a /\ a \in Combined(dossier)
    BY <1>3, <2>1 DEF Matched
  <2> QED  BY <1>2, <1>3, <2>1, <2>2 DEF Terms
<1>4. CASE DOMAIN rule.terms = {1, 2} /\ rule.terms[2] = b
  <2>1. rule.terms[1] = a
    BY DEF Listed
  <2>2. \A t : t \in Matched(rule, dossier) <=>
            \/ t = a /\ a \in Combined(dossier)
            \/ t = b /\ b \in Combined(dossier) /\ a \notin Combined(dossier)
    BY <1>4, <2>1 DEF Matched
  <2> QED  BY <1>2, <1>4, <2>1, <2>2 DEF Terms
<1> QED  BY <1>3, <1>4 DEF Listed

(* There is evidence for a matched term: some document is the first one    *)
(* that has it.                                                            *)
LEMMA EvidenceFound ==
    ASSUME NEW S, NEW dossier \in Seq(S), NEW matched, matched \subseteq Combined(dossier)
    PROVE  FindEvidence(dossier, matched) # {} <=> matched # {}
<1>1. CASE matched = {}
  BY <1>1 DEF FindEvidence
<1>2. CASE matched # {}
  <2>1. PICK T : T = {i \in DOMAIN dossier : dossier[i] \cap matched # {}}
    OBVIOUS
  <2>2. T \subseteq Nat /\ T # {}
    BY <1>2, <2>1 DEF Combined
  <2>3. PICK x \in T : \A y \in T : x <= y
    BY <2>2, LeastNat
  <2>4. \A j \in 1..(x - 1) : j \in DOMAIN dossier /\ ~(x <= j)
    BY <2>1, <2>2
  <2>5. x \in FindEvidence(dossier, matched)
    BY <2>1, <2>3, <2>4 DEF FindEvidence
  <2> QED  BY <1>2, <2>5
<1> QED  BY <1>1, <1>2

(* What _review makes of a rule.                                           *)
FindingOf(rule, dossier) ==
    LET evidence == FindEvidence(dossier, Matched(rule, dossier)) IN
    [category |-> rule.category, severity |-> rule.severity, title |-> rule.title,
     evidence |-> evidence, confidence |-> IF evidence # {} THEN 96 ELSE 82]

(* The findings are those of the rules that apply, whichever specialist    *)
(* has them.                                                               *)
LEMMA FindingsOfRules ==
    ASSUME NEW dossier
    PROVE  \A f : f \in Findings(dossier) <=>
                \E rule \in Rules : Applies(rule, dossier) /\ f = FindingOf(rule, dossier)
<1>1. \A rule \in Rules : rule.category \in {"security", "legal", "financial"}
  <2>1. /\ Shared.category = "security" /\ Assurance.category = "security"
        /\ Liability.category = "legal" /\ Renewal.category = "legal"
        /\ Continuity.category = "financial"
    BY DEF Shared, Assurance, Liability, Renewal, Continuity, Rule
  <2> QED  BY <2>1, RulesOneByOne
<1>2. ASSUME NEW category, NEW f
      PROVE  f \in Review(category, dossier) <=>
                \E rule \in Rules : /\ rule.category = category
                                   /\ Applies(rule, dossier)
                                   /\ f = FindingOf(rule, dossier)
  <2>1. f \in Review(category, dossier) <=>
            \E rule \in {r \in Rules : r.category = category /\ Applies(r, dossier)} :
                f = LET evidence == FindEvidence(dossier, Matched(rule, dossier)) IN
                    [category |-> category, severity |-> rule.severity, title |-> rule.title,
                     evidence |-> evidence, confidence |-> IF evidence # {} THEN 96 ELSE 82]
    BY Zenon DEF Review
  <2> QED  BY <2>1, Zenon DEF FindingOf
<1>3. ASSUME NEW f
      PROVE  f \in Findings(dossier) <=>
                \E category \in {"security", "legal", "financial"} : f \in Review(category, dossier)
  BY Zenon DEF Findings
<1> QED  BY <1>1, <1>2, <1>3

(* When each rule applies, and the severity, title and confidence of what  *)
(* it then finds.                                                          *)
LEMMA FindingFacts ==
    ASSUME NEW S, NEW dossier \in Seq(S)
    PROVE  /\ Applies(Shared, dossier) <=> SharedAccounts(dossier)
           /\ Applies(Assurance, dossier) <=> ~Assured(dossier)
           /\ Burdened(dossier) <=> \/ Applies(Liability, dossier)
                                      \/ Applies(Renewal, dossier)
                                      \/ Applies(Continuity, dossier)
           /\ Applies(Assurance, dossier) => FindingOf(Assurance, dossier).confidence = 82
           /\ \A rule \in Rules \ {Assurance} : Applies(rule, dossier) =>
                    FindingOf(rule, dossier).confidence = 96
<1>1. /\ Shared.terms = <<"shared credentials", "shared password">> /\ ~Shared.absence
      /\ Assurance.terms = <<"soc 2", "iso 27001">> /\ Assurance.absence
      /\ Liability.terms = <<"unlimited liability">> /\ ~Liability.absence
      /\ Renewal.terms = <<"automatic renewal", "auto-renewal">> /\ ~Renewal.absence
      /\ Continuity.terms = <<"going concern", "negative cash flow">> /\ ~Continuity.absence
  BY DEF Shared, Assurance, Liability, Renewal, Continuity, Rule
<1>2. /\ Matched(Shared, dossier) # {} <=>
            Mentions(dossier, {"shared credentials", "shared password"})
      /\ Matched(Shared, dossier) \subseteq Combined(dossier)
  <2>1. Listed(Shared, "shared credentials", "shared password")
    BY DEF Listed, Shared, Rule
  <2> QED  BY <2>1, MatchedMentions, Zenon
<1>3. /\ Matched(Assurance, dossier) # {} <=> Mentions(dossier, {"soc 2", "iso 27001"})
      /\ Matched(Assurance, dossier) \subseteq Combined(dossier)
      /\ Terms(Assurance) \cap Combined(dossier) = {} <=>
            ~Mentions(dossier, {"soc 2", "iso 27001"})
  <2>1. Listed(Assurance, "soc 2", "iso 27001")
    BY DEF Listed, Assurance, Rule
  <2> QED  BY <2>1, MatchedMentions, Zenon
<1>4. /\ Matched(Liability, dossier) # {} <=>
            Mentions(dossier, {"unlimited liability", "unlimited liability"})
      /\ Matched(Liability, dossier) \subseteq Combined(dossier)
  <2>1. Listed(Liability, "unlimited liability", "unlimited liability")
    <3>1. DOMAIN Liability.terms = {1}
      BY DEF Liability, Rule
    <3>2. Liability.terms[1] = "unlimited liability"
      BY DEF Liability, Rule
    <3> QED  BY <3>1, <3>2 DEF Listed
  <2> QED  BY <2>1, MatchedMentions, Zenon
<1>5. /\ Matched(Renewal, dossier) # {} <=>
            Mentions(dossier, {"automatic renewal", "auto-renewal"})
      /\ Matched(Renewal, dossier) \subseteq Combined(dossier)
  <2>1. Listed(Renewal, "automatic renewal", "auto-renewal")
    BY DEF Listed, Renewal, Rule
  <2> QED  BY <2>1, MatchedMentions, Zenon
<1>6. /\ Matched(Continuity, dossier) # {} <=>
            Mentions(dossier, {"going concern", "negative cash flow"})
      /\ Matched(Continuity, dossier) \subseteq Combined(dossier)
  <2>1. Listed(Continuity, "going concern", "negative cash flow")
    BY DEF Listed, Continuity, Rule
  <2> QED  BY <2>1, MatchedMentions, Zenon
<1>7. /\ Applies(Shared, dossier) <=> Matched(Shared, dossier) # {}
      /\ Applies(Assurance, dossier) <=> Terms(Assurance) \cap Combined(dossier) = {}
      /\ Applies(Liability, dossier) <=> Matched(Liability, dossier) # {}
      /\ Applies(Renewal, dossier) <=> Matched(Renewal, dossier) # {}
      /\ Applies(Continuity, dossier) <=> Matched(Continuity, dossier) # {}
  BY <1>1 DEF Applies
<1>8. Burdened(dossier) <=>
            \/ Mentions(dossier, {"unlimited liability", "unlimited liability"})
            \/ Mentions(dossier, {"automatic renewal", "auto-renewal"})
            \/ Mentions(dossier, {"going concern", "negative cash flow"})
  BY DEF Burdened, Mentions
<1>9. \A rule : FindingOf(rule, dossier).confidence =
            IF FindEvidence(dossier, Matched(rule, dossier)) # {} THEN 96 ELSE 82
  BY DEF FindingOf
<1>10. Applies(Assurance, dossier) => FindingOf(Assurance, dossier).confidence = 82
  <2>1. Applies(Assurance, dossier) => FindEvidence(dossier, Matched(Assurance, dossier)) = {}
    BY <1>3, <1>7, EvidenceFound
  <2> QED  BY <1>9, <2>1
<1>11. ASSUME NEW rule \in {Shared, Liability, Renewal, Continuity}, Applies(rule, dossier)
       PROVE  FindingOf(rule, dossier).confidence = 96
  <2>1. Matched(rule, dossier) # {} /\ Matched(rule, dossier) \subseteq Combined(dossier)
    BY <1>2, <1>4, <1>5, <1>6, <1>7, <1>11
  <2>2. FindEvidence(dossier, Matched(rule, dossier)) # {}
    BY <2>1, EvidenceFound
  <2> QED  BY <1>9, <2>2
<1>12. \A rule \in Rules \ {Assurance} : rule \in {Shared, Liability, Renewal, Continuity}
  BY RulesOneByOne
<1>13. Applies(Shared, dossier) <=> SharedAccounts(dossier)
  BY <1>2, <1>7 DEF SharedAccounts
<1>14. Applies(Assurance, dossier) <=> ~Assured(dossier)
  BY <1>3, <1>7 DEF Assured
<1>15. Burdened(dossier) <=> \/ Applies(Liability, dossier)
                            \/ Applies(Renewal, dossier)
                            \/ Applies(Continuity, dossier)
  BY <1>4, <1>5, <1>6, <1>7, <1>8
<1> QED  BY <1>10, <1>11, <1>12, <1>13, <1>14, <1>15

(* The recommendation that the deterministic backend synthesises from its  *)
(* own findings is the one the reference definition demands, whatever the  *)
(* documents of the case are (_review, _synthesize).                       *)
THEOREM BackendJustified ==
    ASSUME NEW S, NEW dossier \in Seq(S)
    PROVE  Justified(dossier, SynthesizeFindings(Findings(dossier)))
<1> DEFINE F == Findings(dossier)
           R == SynthesizeFindings(F)
<1>1. /\ Shared.severity = "critical" /\ Shared.title = "shared"
      /\ Assurance.severity = "medium" /\ Assurance.title = "assurance"
      /\ Liability.severity = "high" /\ Liability.title = "liability"
      /\ Renewal.severity = "medium" /\ Renewal.title = "renewal"
      /\ Continuity.severity = "high" /\ Continuity.title = "continuity"
  BY DEF Shared, Assurance, Liability, Renewal, Continuity, Rule
<1>2. \A rule : /\ FindingOf(rule, dossier).severity = rule.severity
                /\ FindingOf(rule, dossier).title = rule.title
  BY DEF FindingOf
<1>3. \A f : f \in F <=> \E rule \in {Shared, Assurance, Liability, Renewal, Continuity} :
                            Applies(rule, dossier) /\ f = FindingOf(rule, dossier)
  BY FindingsOfRules, RulesOneByOne
<1>4. "critical" \in {f.severity : f \in F} <=> SharedAccounts(dossier)
  BY <1>1, <1>2, <1>3, FindingFacts
<1>5. {f.severity : f \in F} \cap {"high", "medium"} # {} <=>
            ~Assured(dossier) \/ Burdened(dossier)
  <2>1. \A f \in F : f.severity \in {"high", "medium"} => ~Assured(dossier) \/ Burdened(dossier)
    BY <1>1, <1>2, <1>3, FindingFacts
  <2>2. ~Assured(dossier) \/ Burdened(dossier) => \E f \in F : f.severity \in {"high", "medium"}
    BY <1>1, <1>2, <1>3, FindingFacts
  <2> QED  BY <2>1, <2>2
<1>6. "assurance" \in {f.title : f \in F} <=> ~Assured(dossier)
  BY <1>1, <1>2, <1>3, FindingFacts
<1>7. F = {} <=> Assured(dossier) /\ ~SharedAccounts(dossier) /\ ~Burdened(dossier)
  BY <1>3, FindingFacts
<1>8. Confidence(F) < 90 <=> ~Assured(dossier)
  <2>1. CASE F = {}
    BY <1>7, <2>1 DEF Confidence
  <2>2. CASE F # {}
    <3>1. \A f \in F : f.confidence = 82 \/ (f.confidence = 96 /\ f.confidence # 82)
      BY <1>3, FindingFacts, RulesOneByOne
    <3>2. (\E f \in F : f.confidence = 82) <=> ~Assured(dossier)
      BY <1>3, FindingFacts, RulesOneByOne
    <3>3. \E c \in {f.confidence : f \in F} : \A f \in F : c <= f.confidence
      <4>1. CASE \E f \in F : f.confidence = 82
        <5>1. PICK g \in F : g.confidence = 82
          BY <4>1
        <5>2. \A f \in F : 82 <= f.confidence
          BY <3>1
        <5> WITNESS g.confidence \in {f.confidence : f \in F}
        <5> QED  BY <5>1, <5>2
      <4>2. CASE \A f \in F : f.confidence # 82
        <5>1. PICK g \in F : TRUE
          BY <2>2
        <5>2. \A f \in F : f.confidence = 96
          BY <3>1, <4>2
        <5> WITNESS g.confidence \in {f.confidence : f \in F}
        <5> QED  BY <5>1, <5>2
      <4> QED  BY <4>1, <4>2
    <3>4. Confidence(F) \in {f.confidence : f \in F} /\ \A f \in F : Confidence(F) <= f.confidence
      BY <2>2, <3>3 DEF Confidence
    <3> QED  BY <3>1, <3>2, <3>4
  <2> QED  BY <2>1, <2>2
<1>9. /\ R.decision = DecisionOf({f.severity : f \in F})
      /\ R.required_actions = {f.title : f \in F}
      /\ R.confidence = Confidence(F)
  BY DEF SynthesizeFindings
<1>10. /\ R.decision = "escalate" <=> SharedAccounts(dossier)
       /\ R.decision = "approve" <=>
            Assured(dossier) /\ ~SharedAccounts(dossier) /\ ~Burdened(dossier)
  BY <1>4, <1>5, <1>9 DEF DecisionOf
<1>11. R.required_actions = {} <=> F = {}
  BY <1>9
<1> QED  BY <1>6, <1>7, <1>8, <1>9, <1>10, <1>11 DEF Justified

(* What is stored and proposed from is justified by the case's documents,  *)
(* with the deterministic backend and for any documents.                   *)
THEOREM ReviewsJustified ==
    ASSUME NEW S, Dossiers \subseteq Seq(S),
           \A d \in Dossiers : Recommendations(d) \subseteq DeterministicBackend(d)
    PROVE  Spec => []RecommendationJustified
<1>1. IInv => RecommendationJustified
  <2> SUFFICES ASSUME IInv, NEW e \in Executions, reviews[e] # None
               PROVE  Justified(documents[CaseOf[e]], reviews[e].recommendation)
    BY DEF RecommendationJustified
  <2>1. PICK d \in Dossiers : d = documents[CaseOf[e]]
    BY ReviewsAssumption DEF IInv, TypeOK
  <2>2. reviews[e].recommendation \in Recommendations(d)
    BY <2>1 DEF IInv, ReviewsOK, StateOK, Given
  <2>3. reviews[e].recommendation = SynthesizeFindings(Findings(d))
    BY <2>2 DEF DeterministicBackend
  <2>4. Justified(d, SynthesizeFindings(Findings(d)))
    BY BackendJustified
  <2> QED  BY <2>1, <2>3, <2>4
<1> QED  BY Invariance, <1>1, PTL

-----------------------------------------------------------------------------
(* One request at a time, on checkpoints that survive a restart.  These    *)
(* are the conditions under which the README's promises about repeated     *)
(* starts and resumes hold; r is the one request slot.                     *)

(* What a state of the graph says about the nodes that have run.           *)
Passed(s, n) ==
    \/ n = "specialists" /\ s.next # "specialists"
    \/ n = "evidence_confirmation" /\ s.next \in {"synthesize", "end"}
    \/ n = "synthesize" /\ s.next = "end"

RunsOK ==
    \A e \in Executions, n \in Nodes :
        ran[e][n] <= IF thread[e] # None /\ Passed(thread[e], n) THEN 1 ELSE 0

(* No findings twice, and what is stored is what the thread ended with.    *)
ThreadsOnce ==
    \A e \in Executions :
        /\ thread[e] # None =>
              /\ thread[e].findings <= IF thread[e].next = "specialists" THEN 0 ELSE 1
              /\ audit[e]["started"] > 0
        /\ reviews[e] # None => thread[e] = reviews[e]

(* What the request has read stays true while it works.                    *)
AloneOK(r) ==
    LET l == local[r]
        s == thread[Execution(r)]
    IN
    /\ pc[r] \in Nodes \cup Saving \cup {"log_resumed"} => l.state = s
    /\ pc[r] \in {"mark_in_review", "log_started", "start", "invoke"} =>
            s = None /\ l.kind # "resume" /\ l.current = None /\ l.decision = None
    /\ pc[r] \in {"start", "invoke"} => audit[Execution(r)]["started"] > 0
    /\ pc[r] = "get_execution" /\ l.kind = "start" => l.current = None /\ l.decision = None
    /\ pc[r] \in {"resume", "invoke_resume"} =>
            l.kind = "resume" /\ l.current = ExecutionStatus(s)
    /\ pc[r] = "invoke_resume" => ExecutionStatus(s) = "awaiting_input"
    /\ pc[r] \in {"end", "log_resumed"} =>
            ExecutionStatus(s) # "running" /\ reviews[Execution(r)] = None
    /\ pc[r] \in Nodes \cup {"end"} =>
            IF l.kind = "resume" THEN l.current = "awaiting_input"
            ELSE l.current = None /\ l.decision = None /\ ~s.cancelled
    /\ pc[r] = "log_resumed" => l.kind = "resume" /\ l.current = "awaiting_input"
    /\ pc[r] \in {"find_review", "insert_review"} => reviews[Execution(r)] = None
    /\ pc[r] \in {"mark_pending", "log_completed"} => audit[Execution(r)]["completed"] = 0

(* The request is about to change the status of the case it works on.      *)
Committed(r) ==
    \/ pc[r] \in Nodes \cup
            {"log_started", "start", "invoke", "end", "log_resumed", "find_review",
             "insert_review", "mark_pending", "mark_new", "mark_failed"}
    \/ pc[r] = "get_review" /\ reviews[Execution(r)] = None

(* The execution is a reason for its case to be in_review.                 *)
Open(e) ==
    /\ thread[e] # None
    /\ \/ ExecutionStatus(thread[e]) = "awaiting_input"
       \/ e \in raised /\ reviews[e] = None

(* The execution is running although no resume of it has raised.           *)
RunningThread(e) ==
    thread[e] # None /\ ExecutionStatus(thread[e]) = "running" /\ e \notin raised

(* The reasons of StatusExplained, and those that the request still owes.  *)
StatusOK(r) ==
    \A c \in Cases : (\A e \in lost : CaseOf[e] # c) =>
        /\ case_status[c] = "in_review" =>
              \/ \E e \in Executions : CaseOf[e] = c /\ Open(e)
              \/ pc[r] # "idle" /\ CaseOf[Execution(r)] = c /\ Committed(r)
        /\ case_status[c] = "review_failed" =>
              \/ \E e \in Executions : CaseOf[e] = c /\ audit[e]["failed"] > 0
              \/ pc[r] = "log_failed" /\ CaseOf[Execution(r)] = c
        /\ \A e \in Executions :
              CaseOf[e] = c /\ RunningThread(e) =>
                  \/ audit[e]["failed"] > 0
                  \/ pc[r] \in Nodes \cup {"mark_failed", "log_failed"} /\ Execution(r) = e

OnceInv(r) ==
    RunsOK /\ ThreadsOnce /\ AloneOK(r) /\ CompletionAnnouncedOnce /\ StatusOK(r)

(* The request does not change what is stored.                             *)
LEMMA OnceKept ==
    ASSUME RunsOK, ThreadsOnce, CompletionAnnouncedOnce,
           UNCHANGED <<thread, reviews, audit, ran>>
    PROVE  RunsOK' /\ ThreadsOnce' /\ CompletionAnnouncedOnce'
BY DEF RunsOK, ThreadsOnce, CompletionAnnouncedOnce

(* A step of the request that leaves database and checkpoints alone still  *)
(* owes the case what it owed before.                                      *)
LEMMA StatusKept ==
    ASSUME NEW r \in Requests, IInv, StatusOK(r), pc[r] # "idle",
           UNCHANGED <<case_status, thread, reviews, audit, lost, raised>>,
           pc'[r] # "idle" => Execution(r)' = Execution(r),
           pc[r] # "log_failed",
           Committed(r) => (pc'[r] # "idle" /\ Committed(r)') \/ Open(Execution(r)),
           RunningThread(Execution(r)) /\ pc[r] \in Nodes \cup {"mark_failed", "log_failed"} =>
                pc'[r] \in Nodes \cup {"mark_failed", "log_failed"}
    PROVE  StatusOK(r)'
<1>1. Execution(r) \in Executions
  BY Working
<1>2. \A e \in Executions : (Open(e)' <=> Open(e)) /\ (RunningThread(e)' <=> RunningThread(e))
  BY DEF Open, RunningThread
<1>3. pc'[r] \in Nodes \cup {"mark_failed", "log_failed"} => pc'[r] # "idle"
  BY DEF Nodes
<1> SUFFICES ASSUME NEW c \in Cases, \A e \in lost : CaseOf[e] # c
             PROVE  /\ case_status[c] = "in_review" =>
                          \/ \E e \in Executions : CaseOf[e] = c /\ Open(e)
                          \/ pc'[r] # "idle" /\ CaseOf[Execution(r)'] = c /\ Committed(r)'
                    /\ case_status[c] = "review_failed" =>
                          \/ \E e \in Executions : CaseOf[e] = c /\ audit[e]["failed"] > 0
                          \/ pc'[r] = "log_failed" /\ CaseOf[Execution(r)'] = c
                    /\ \A e \in Executions :
                          CaseOf[e] = c /\ RunningThread(e) =>
                              \/ audit[e]["failed"] > 0
                              \/ /\ pc'[r] \in Nodes \cup {"mark_failed", "log_failed"}
                                 /\ Execution(r)' = e
  BY <1>2 DEF StatusOK
<1>4. case_status[c] = "in_review" =>
            \/ \E e \in Executions : CaseOf[e] = c /\ Open(e)
            \/ pc'[r] # "idle" /\ CaseOf[Execution(r)'] = c /\ Committed(r)'
  BY <1>1 DEF StatusOK
<1>5. case_status[c] = "review_failed" =>
            \E e \in Executions : CaseOf[e] = c /\ audit[e]["failed"] > 0
  BY DEF StatusOK
<1>6. ASSUME NEW e \in Executions, CaseOf[e] = c, RunningThread(e)
      PROVE  \/ audit[e]["failed"] > 0
             \/ /\ pc'[r] \in Nodes \cup {"mark_failed", "log_failed"}
                /\ Execution(r)' = e
  BY <1>3, <1>6 DEF StatusOK
<1> QED  BY <1>4, <1>5, <1>6

(* Where a request goes with an execution that it has read.                *)
LEMMA ObtainWhere ==
    ASSUME NEW r \in Requests, NEW l \in Local, NEW s \in State, Obtain(r, l, s), TypeOK
    PROVE  LET where == IF l.kind = "resume" /\ l.current = "awaiting_input"
                        THEN "log_resumed" ELSE Settle(l, ExecutionStatus(s))
           IN  pc'[r] = where
BY DEF Obtain, Respond, Goto, TypeOK

(* Settling an execution that was read changes nothing that was done       *)
(* before.                                                                 *)
LEMMA ObtainOnce ==
    ASSUME IInv, NEW r \in Requests, OnceInv(r), NEW l \in Local, NEW s,
           pc[r] \in {"get_execution", "resume", "end"},
           l.execution = Execution(r), s = thread[Execution(r)], s # None, Obtain(r, l, s),
           UNCHANGED <<dbVars, ran, served, restVars>>,
           pc[r] = "end" => l = local[r],
           l.kind = "resume" /\ l.current = "awaiting_input" => pc[r] = "end"
    PROVE  OnceInv(r)'
<1>1. /\ TypeOK /\ s \in State /\ AloneOK(r) /\ UNCHANGED <<case_status, thread, reviews, audit, lost, raised>>
      /\ pc[r] # "idle"
  BY Working DEF StateOK, OnceInv, dbVars, restVars
<1>2. /\ pc'[r] \in {"log_resumed", "get_review", "mark_failed", "mark_new",
                     "log_awaiting_input", "idle"}
      /\ pc'[r] # "idle" => local'[r] = [l EXCEPT !.state = s]
  BY <1>1, ObtainFacts
<1>3. pc'[r] # "idle" => /\ local'[r].execution = Execution(r) /\ local'[r].state = s
                        /\ local'[r].kind = l.kind /\ local'[r].current = l.current
  BY <1>2 DEF Local
<1>4. pc'[r] # "idle" => Execution(r)' = Execution(r)
  BY <1>3 DEF Execution
<1>5. pc'[r] = IF l.kind = "resume" /\ l.current = "awaiting_input"
               THEN "log_resumed" ELSE Settle(l, ExecutionStatus(s))
  BY <1>1, ObtainWhere
<1>6. pc'[r] = "log_resumed" => l.kind = "resume" /\ l.current = "awaiting_input" /\ pc[r] = "end"
  BY <1>1, <1>5, SettleFacts
<1>7. AloneOK(r)'
  BY <1>1, <1>2, <1>3, <1>4, <1>6 DEF AloneOK, Nodes, Saving
<1>8. Committed(r) => (pc'[r] # "idle" /\ Committed(r)') \/ Open(Execution(r))
  <2> SUFFICES ASSUME pc[r] = "end", ~Open(Execution(r))
               PROVE  pc'[r] # "idle" /\ Committed(r)'
    BY DEF Committed, Nodes
  <2>1. ExecutionStatus(s) \in {"completed", "cancelled"} /\ reviews[Execution(r)] = None
    BY <1>1, StatusFacts DEF AloneOK, Open
  <2>2. l.kind # "resume" => ~s.cancelled
    BY <1>1 DEF AloneOK, Nodes
  <2>3. ExecutionStatus(s) = "cancelled" => s.cancelled
    BY <1>1 DEF ExecutionStatus, State
  <2>4. l.kind # "resume" => ExecutionStatus(s) = "completed"
    BY <2>1, <2>2, <2>3
  <2>5. l.kind = "resume" => l.current = "awaiting_input"
    BY <1>1 DEF AloneOK, Nodes
  <2>6. pc'[r] \in {"log_resumed", "get_review"}
    BY <1>5, <2>4, <2>5, SettleFacts
  <2> QED  BY <1>1, <1>4, <2>1, <2>6 DEF Committed
<1>9. StatusOK(r)'
  BY <1>1, <1>4, <1>8, StatusKept DEF OnceInv, Nodes
<1>10. RunsOK' /\ ThreadsOnce' /\ CompletionAnnouncedOnce'
  BY <1>1, OnceKept DEF OnceInv
<1> QED  BY <1>7, <1>9, <1>10 DEF OnceInv

(* Answering without a change, where nothing is owed.                      *)
LEMMA RespondOnce ==
    ASSUME IInv, NEW r \in Requests, OnceInv(r), pc[r] # "idle", pc[r] # "log_failed",
           ~Committed(r), Respond(r),
           UNCHANGED <<dbVars, ran, served, restVars>>
    PROVE  OnceInv(r)'
<1>1. pc'[r] = "idle" /\ UNCHANGED <<case_status, thread, reviews, audit, lost, raised, ran>>
  BY DEF Respond, Goto, IInv, TypeOK, dbVars, restVars
<1>2. AloneOK(r)'
  BY <1>1 DEF AloneOK, Nodes, Saving
<1>3. StatusOK(r)'
  BY <1>1, StatusKept DEF OnceInv, Committed, Nodes
<1> QED  BY <1>1, <1>2, <1>3, OnceKept DEF OnceInv

(* Moving on with the same locals.                                         *)
LEMMA GotoOnce ==
    ASSUME IInv, NEW r \in Requests, OnceInv(r), pc[r] # "idle", pc[r] # "log_failed",
           NEW where \in PCs \ {"idle"}, Goto(r, where),
           UNCHANGED <<dbVars, local, ran, served, restVars>>,
           AloneOK(r)',
           Committed(r) => Committed(r)',
           pc[r] \in Nodes \cup {"mark_failed"} => where \in Nodes \cup {"mark_failed"}
    PROVE  OnceInv(r)'
<1>1. pc'[r] = where /\ Execution(r)' = Execution(r)
      /\ UNCHANGED <<case_status, thread, reviews, audit, lost, raised, ran>>
  BY DEF Goto, IInv, TypeOK, dbVars, restVars, Execution
<1>2. StatusOK(r)'
  BY <1>1, StatusKept DEF OnceInv
<1> QED  BY <1>1, <1>2, OnceKept DEF OnceInv

(* A request that arrives has read nothing yet.                            *)
LEMMA ArriveOnce ==
    ASSUME IInv, NEW r \in Requests, OnceInv(r), Arrive(r)
    PROVE  OnceInv(r)'
<1>1. PICK e \in Executions :
        \/ ReviewCase(r, e)
        \/ \E require \in BOOLEAN : StartReviewExecution(r, e, require)
        \/ \E decision \in {"confirm", "reject"} : ResumeReviewExecution(r, e, decision)
  BY DEF Arrive
<1>2. PICK kind \in {"review", "start", "resume"}, require \in BOOLEAN,
           decision \in {"confirm", "reject", None}, where \in {"mark_in_review", "get_execution"} :
        /\ Accept(r, e, kind, require, decision)
        /\ Goto(r, where)
        /\ kind = "review" => decision = None /\ audit[e]["started"] = 0
        /\ kind = "start" => decision = None
        /\ where = "mark_in_review" => kind = "review"
  <2>1. CASE ReviewCase(r, e)
    BY <2>1, Zenon DEF ReviewCase
  <2>2. CASE \E require \in BOOLEAN : StartReviewExecution(r, e, require)
    BY <2>2 DEF StartReviewExecution
  <2>3. CASE \E decision \in {"confirm", "reject"} : ResumeReviewExecution(r, e, decision)
    BY <2>3 DEF ResumeReviewExecution
  <2> QED  BY <1>1, <2>1, <2>2, <2>3
<1>3. PICK l :
        l = [kind |-> kind, execution |-> e, require |-> require, decision |-> decision,
             supplier_case |-> case_status[CaseOf[e]], current |-> None, state |-> None]
  OBVIOUS
<1>4. l.kind = kind /\ l.execution = e /\ l.decision = decision /\ l.current = None
  BY <1>3
<1>5. /\ pc[r] = "idle" /\ pc'[r] = where /\ local'[r] = l
      /\ UNCHANGED <<case_status, thread, reviews, audit, lost, raised, ran>>
  BY <1>2, <1>3 DEF Accept, Goto, IInv, TypeOK, dbVars, restVars
<1>6. Execution(r)' = e
  BY <1>4, <1>5 DEF Execution
<1>7. kind = "review" => thread[e] = None
  BY <1>2 DEF OnceInv, ThreadsOnce
<1>8. AloneOK(r)'
  BY <1>2, <1>4, <1>5, <1>6, <1>7 DEF AloneOK, Nodes, Saving
<1>9. \A x \in Executions : (Open(x)' <=> Open(x)) /\ (RunningThread(x)' <=> RunningThread(x))
  BY <1>5 DEF Open, RunningThread
<1>10. StatusOK(r)'
  BY <1>5, <1>9 DEF OnceInv, StatusOK, Nodes
<1> QED  BY <1>5, <1>8, <1>10, OnceKept DEF OnceInv

(* A node completes once: afterwards the thread has passed it.             *)
LEMMA CompletedOnce ==
    ASSUME IInv, RunsOK, NEW r \in Requests, Execution(r) \in Executions, NEW node \in Nodes,
           NEW s, s # None, thread' = [thread EXCEPT ![Execution(r)] = s],
           Completed(r, node), ~Passed(thread[Execution(r)], node), Passed(s, node),
           \A n \in Nodes : Passed(thread[Execution(r)], n) => Passed(s, n)
    PROVE  RunsOK'
<1> DEFINE e == Execution(r)
<1> SUFFICES ASSUME NEW x \in Executions, NEW n \in Nodes
             PROVE  ran'[x][n] <= IF thread'[x] # None /\ Passed(thread'[x], n) THEN 1 ELSE 0
  BY DEF RunsOK
<1>1. ran[x][n] \in Nat /\ ran[e][n] \in Nat /\ ran[e][node] \in Nat
  BY DEF IInv, TypeOK
<1>2. ran[x][n] <= IF thread[x] # None /\ Passed(thread[x], n) THEN 1 ELSE 0
  BY DEF RunsOK
<1>3. thread'[x] = IF x = e THEN s ELSE thread[x]
  BY DEF IInv, TypeOK
<1>4. ran'[x][n] = IF x = e /\ n = node THEN ran[e][node] + 1 ELSE ran[x][n]
  BY DEF Completed, IInv, TypeOK
<1>5. CASE x = e /\ n = node
  <2>1. ran[e][node] <= 0
    BY <1>2, <1>5
  <2>2. ran'[x][n] = ran[e][node] + 1
    BY <1>4, <1>5
  <2>3. thread'[x] # None /\ Passed(thread'[x], n)
    BY <1>3, <1>5
  <2> QED  BY <1>1, <2>1, <2>2, <2>3
<1>6. CASE x = e /\ n # node
  <2>1. thread'[x] = s /\ ran'[x][n] = ran[x][n]
    BY <1>3, <1>4, <1>6
  <2> QED  BY <1>1, <1>2, <1>6, <2>1
<1>7. CASE x # e
  <2>1. thread'[x] = thread[x] /\ ran'[x][n] = ran[x][n]
    BY <1>3, <1>4, <1>7
  <2> QED  BY <1>2, <2>1
<1> QED  BY <1>5, <1>6, <1>7

(* A super-step of the request's run.                                      *)
LEMMA CheckpointOnce ==
    ASSUME IInv, NEW r \in Requests, OnceInv(r), pc[r] \in Nodes \cup {"invoke"}, NEW s,
           StateOK(Execution(r), s), Checkpoint(r, s), RunsOK',
           reviews[Execution(r)] = None, audit[Execution(r)]["started"] > 0,
           s.findings <= IF s.next = "specialists" THEN 0 ELSE 1,
           IF local[r].kind = "resume" THEN local[r].current = "awaiting_input"
           ELSE local[r].current = None /\ local[r].decision = None /\ ~s.cancelled
    PROVE  OnceInv(r)'
<1>0. PICK e : e = Execution(r)
  OBVIOUS
<1>1. /\ pc[r] # "idle" /\ local[r] \in Local /\ e \in Executions /\ s \in State /\ s # None
      /\ GraphOK(s)
  BY <1>0, Working, NoneAssumption DEF StateOK, Nodes
<1>2. PICK w : w = IF s.interrupted THEN "end" ELSE s.next
  OBVIOUS
<1>3. /\ w \in Nodes \cup {"end"} /\ (w \in Nodes => w = s.next)
      /\ w = "end" => ExecutionStatus(s) # "running"
      /\ ExecutionStatus(s) = "running" => w \in Nodes
  BY <1>1, <1>2 DEF State, Nodes, ExecutionStatus, GraphOK
<1>4. /\ pc'[r] = w /\ local'[r] = [local[r] EXCEPT !.state = s]
      /\ thread' = [thread EXCEPT ![e] = s]
      /\ UNCHANGED <<case_status, reviews, audit, lost, raised>>
  BY <1>0, <1>1, <1>2 DEF Checkpoint, Goto, IInv, TypeOK, restVars
<1>5. /\ local'[r].execution = e /\ local'[r].state = s /\ local'[r].kind = local[r].kind
      /\ local'[r].current = local[r].current /\ local'[r].decision = local[r].decision
  BY <1>0, <1>1, <1>4 DEF Local, Execution
<1>6. Execution(r)' = e
  BY <1>5 DEF Execution
<1>7. thread'[e] = s /\ \A x \in Executions \ {e} : thread'[x] = thread[x]
  BY <1>0, <1>1, <1>4 DEF IInv, TypeOK
<1>8. AloneOK(r)'
  BY <1>0, <1>1, <1>3, <1>4, <1>5, <1>6, <1>7 DEF AloneOK, Nodes, Saving
<1>9. ThreadsOnce'
  BY <1>0, <1>1, <1>4, <1>7 DEF OnceInv, ThreadsOnce
<1>10. CompletionAnnouncedOnce'
  BY <1>4 DEF OnceInv, CompletionAnnouncedOnce
<1>11. \A x \in Executions \ {e} :
        (Open(x)' <=> Open(x)) /\ (RunningThread(x)' <=> RunningThread(x))
  BY <1>4, <1>7 DEF Open, RunningThread
<1>12. RunningThread(e)' => pc'[r] \in Nodes
  BY <1>1, <1>3, <1>4, <1>7 DEF RunningThread
<1>13. pc'[r] # "idle" /\ pc[r] # "log_failed" /\ Committed(r)'
  BY <1>3, <1>4 DEF Committed, Nodes
<1>14. StatusOK(r)'
  <2> SUFFICES ASSUME NEW c \in Cases, \A x \in lost : CaseOf[x] # c
               PROVE  /\ case_status[c] = "in_review" =>
                            \/ \E x \in Executions : CaseOf[x] = c /\ Open(x)'
                            \/ CaseOf[e] = c
                      /\ case_status[c] = "review_failed" =>
                            \E x \in Executions : CaseOf[x] = c /\ audit[x]["failed"] > 0
                      /\ \A x \in Executions : CaseOf[x] = c /\ RunningThread(x)' =>
                            \/ audit[x]["failed"] > 0
                            \/ pc'[r] \in Nodes /\ e = x
    BY <1>4, <1>6, <1>13 DEF StatusOK
  <2>1. case_status[c] = "in_review" =>
            \/ \E x \in Executions : CaseOf[x] = c /\ Open(x)'
            \/ CaseOf[e] = c
    BY <1>0, <1>11 DEF OnceInv, StatusOK
  <2>2. case_status[c] = "review_failed" =>
            \E x \in Executions : CaseOf[x] = c /\ audit[x]["failed"] > 0
    BY <1>13 DEF OnceInv, StatusOK
  <2>3. ASSUME NEW x \in Executions, CaseOf[x] = c, RunningThread(x)'
        PROVE  audit[x]["failed"] > 0 \/ (pc'[r] \in Nodes /\ e = x)
    BY <1>0, <1>11, <1>12, <2>3 DEF OnceInv, StatusOK
  <2> QED  BY <2>1, <2>2, <2>3
<1> QED  BY <1>8, <1>9, <1>10, <1>14 DEF OnceInv

(* In a node, the request holds the thread's latest checkpoint, and there  *)
(* is no review of it yet.                                                 *)
LEMMA InNodeOnce ==
    ASSUME IInv, NEW r \in Requests, OnceInv(r), pc[r] \in Nodes, NEW s, s = local[r].state
    PROVE  /\ s = thread[Execution(r)] /\ s # None /\ StateOK(Execution(r), s) /\ s.next = pc[r]
           /\ s.findings <= IF s.next = "specialists" THEN 0 ELSE 1
           /\ Execution(r) \in Executions /\ local[r] \in Local
           /\ reviews[Execution(r)] = None /\ audit[Execution(r)]["started"] > 0
           /\ ExecutionStatus(thread[Execution(r)]) \notin Terminal
           /\ IF local[r].kind = "resume" THEN local[r].current = "awaiting_input"
              ELSE local[r].current = None /\ local[r].decision = None /\ ~s.cancelled
<1>1. /\ StateOK(Execution(r), s) /\ s.next = pc[r] /\ Execution(r) \in Executions
      /\ local[r] \in Local
  BY InNode
<1>2. /\ s = thread[Execution(r)]
      /\ IF local[r].kind = "resume" THEN local[r].current = "awaiting_input"
         ELSE local[r].current = None /\ local[r].decision = None /\ ~s.cancelled
  BY DEF OnceInv, AloneOK
<1>3. s # None /\ s.recommendation = None /\ ~s.cancelled
  BY <1>1, NoneAssumption DEF StateOK, GraphOK, Nodes
<1>4. ExecutionStatus(s) \notin Terminal
  BY <1>3 DEF ExecutionStatus, Terminal
<1>5. reviews[Execution(r)] = None
  BY <1>1, <1>2, <1>3 DEF OnceInv, ThreadsOnce, IInv, ReviewsOK
<1>6. /\ s.findings <= IF s.next = "specialists" THEN 0 ELSE 1
      /\ audit[Execution(r)]["started"] > 0
  BY <1>1, <1>2, <1>3 DEF OnceInv, ThreadsOnce
<1> QED  BY <1>1, <1>2, <1>3, <1>4, <1>5, <1>6

(* Alone, start creates only a thread that does not exist.                 *)
LEMMA StartOnce ==
    ASSUME IInv, NEW r \in Requests, OnceInv(r), Start(r)
    PROVE  OnceInv(r)'
<1>1. pc[r] = "start" /\ AloneOK(r) /\ UNCHANGED <<dbVars, ran, served, restVars>>
  BY DEF Start, OnceInv
<1>2. thread[Execution(r)] = None
  BY <1>1 DEF AloneOK
<1>3. Goto(r, "invoke") /\ UNCHANGED local
  BY <1>2 DEF Start, Exists
<1>4. pc'[r] = "invoke" /\ Execution(r)' = Execution(r) /\ UNCHANGED <<thread, audit>>
  BY <1>1, <1>3 DEF Goto, IInv, TypeOK, Execution, dbVars
<1>5. AloneOK(r)'
  BY <1>1, <1>3, <1>4 DEF AloneOK, Nodes, Saving
<1> QED  BY <1>1, <1>3, <1>4, <1>5, GotoOnce DEF PCs, Committed, Nodes

(* Alone, the input of a start meets no thread and reruns nothing.         *)
LEMMA InvokeOnce ==
    ASSUME IInv, NEW r \in Requests, OnceInv(r), Invoke(r)
    PROVE  OnceInv(r)'
<1>1. /\ pc[r] = "invoke" /\ AloneOK(r) /\ Execution(r) \in Executions
      /\ local[r].require \in BOOLEAN
  BY Working DEF Invoke, OnceInv, Local
<1>2. /\ thread[Execution(r)] = None /\ local[r].kind # "resume" /\ local[r].current = None
      /\ local[r].decision = None /\ audit[Execution(r)]["started"] > 0
  BY <1>1 DEF AloneOK
<1>3. PICK s : s = [Fresh(local[r].require) EXCEPT !.findings = 0]
  OBVIOUS
<1>4. StateOK(Execution(r), s) /\ s # None
  BY <1>1, <1>3, FreshOK, NoneAssumption DEF StateOK
<1>5. Checkpoint(r, s) /\ UNCHANGED ran
  BY <1>2, <1>3 DEF Invoke
<1>6. s.findings = 0 /\ ~s.cancelled /\ s.next = "specialists"
  BY <1>3 DEF Fresh
<1>7. reviews[Execution(r)] = None
  BY <1>1, <1>2 DEF OnceInv, ThreadsOnce
<1>8. RunsOK'
  <2> SUFFICES ASSUME NEW x \in Executions, NEW n \in Nodes
               PROVE  ran[x][n] <= IF thread'[x] # None /\ Passed(thread'[x], n) THEN 1 ELSE 0
    BY <1>5 DEF RunsOK
  <2>1. ran[x][n] <= IF thread[x] # None /\ Passed(thread[x], n) THEN 1 ELSE 0
    BY DEF OnceInv, RunsOK
  <2>2. thread'[x] = IF x = Execution(r) THEN s ELSE thread[x]
    BY <1>1, <1>5 DEF Checkpoint, IInv, TypeOK
  <2>3. ran[x][n] \in Nat
    BY DEF IInv, TypeOK
  <2> QED  BY <1>2, <2>1, <2>2, <2>3
<1> QED  BY <1>1, <1>2, <1>4, <1>5, <1>6, <1>7, <1>8, CheckpointOnce

(* Alone, resume continues only the thread that it has read.               *)
LEMMA ResumeOnce ==
    ASSUME IInv, NEW r \in Requests, OnceInv(r), Resume(r)
    PROVE  OnceInv(r)'
<1>1. /\ pc[r] = "resume" /\ UNCHANGED <<dbVars, ran, served, restVars>> /\ AloneOK(r)
      /\ local[r] \in Local
  BY Working DEF Resume, OnceInv
<1>2. PICK l, s : l \in Local /\ l = local[r] /\ s = thread[Execution(r)]
  BY <1>1
<1>3. s # None /\ s \in State /\ l.execution = Execution(r) /\ l.kind = "resume"
      /\ l.current = ExecutionStatus(s)
  BY <1>1, <1>2, Working DEF RequestOK, StateOK, AloneOK
<1>4. CASE ExecutionStatus(s) \in Terminal
  <2>1. Obtain(r, l, s)
    BY <1>2, <1>4 DEF Resume, Terminal
  <2> QED  BY <1>1, <1>2, <1>3, <1>4, <2>1, ObtainOnce DEF Terminal
<1>5. CASE ExecutionStatus(s) = "running"
  <2>1. Respond(r)
    BY <1>2, <1>5 DEF Resume, Terminal
  <2> QED  BY <1>1, <2>1, RespondOnce DEF Committed, Nodes
<1>6. CASE ExecutionStatus(s) = "awaiting_input"
  <2>1. Goto(r, "invoke_resume") /\ UNCHANGED local
    BY <1>2, <1>6 DEF Resume, Terminal
  <2>2. pc'[r] = "invoke_resume" /\ Execution(r)' = Execution(r) /\ UNCHANGED thread
    BY <1>1, <2>1 DEF Goto, IInv, TypeOK, Execution, dbVars
  <2>3. AloneOK(r)'
    BY <1>1, <1>2, <1>3, <1>6, <2>1, <2>2 DEF AloneOK, Nodes, Saving
  <2> QED  BY <1>1, <2>1, <2>3, GotoOnce DEF PCs, Committed, Nodes
<1> QED  BY <1>3, <1>4, <1>5, <1>6, StatusFacts DEF Terminal

(* Alone, a decision meets the thread that waits for it.                   *)
LEMMA InvokeResumeOnce ==
    ASSUME IInv, NEW r \in Requests, OnceInv(r), InvokeResume(r)
    PROVE  OnceInv(r)'
<1>1. /\ pc[r] = "invoke_resume" /\ UNCHANGED <<dbVars, ran, served, restVars>> /\ AloneOK(r)
      /\ local[r] \in Local
  BY Working DEF InvokeResume, OnceInv
<1>2. PICK s : s = thread[Execution(r)]
  OBVIOUS
<1>3. s # None /\ s \in State /\ GraphOK(s)
  BY <1>1, <1>2, Working DEF RequestOK, StateOK
<1>4. ExecutionStatus(s) = "awaiting_input" /\ local[r].kind = "resume"
      /\ local[r].current = "awaiting_input"
  BY <1>1, <1>2 DEF AloneOK
<1>5. s.next = "evidence_confirmation"
  BY <1>3, <1>4 DEF ExecutionStatus, GraphOK, State
<1>6. /\ pc'[r] = "evidence_confirmation" /\ local'[r] = [local[r] EXCEPT !.state = s]
      /\ UNCHANGED <<case_status, thread, reviews, audit, lost, raised, ran>>
  BY <1>1, <1>2, <1>5 DEF InvokeResume, Goto, IInv, TypeOK, dbVars, restVars
<1>7. /\ local'[r].execution = Execution(r) /\ local'[r].state = s
      /\ local'[r].kind = "resume" /\ local'[r].current = "awaiting_input"
  BY <1>1, <1>4, <1>6 DEF Local, Execution
<1>8. Execution(r)' = Execution(r)
  BY <1>7 DEF Execution
<1>9. AloneOK(r)'
  BY <1>2, <1>6, <1>7, <1>8 DEF AloneOK, Nodes, Saving
<1>10. StatusOK(r)'
  BY <1>1, <1>6, <1>8, StatusKept DEF OnceInv, Committed, Nodes
<1> QED  BY <1>6, <1>9, <1>10, OnceKept DEF OnceInv

(* The specialists run on a thread they have not run on.                   *)
LEMMA SpecialistsOnce ==
    ASSUME IInv, NEW r \in Requests, OnceInv(r), SpecialistReviews(r)
    PROVE  OnceInv(r)'
<1>1. PICK s : s = local[r].state
  OBVIOUS
<1>2. pc[r] = "specialists" /\ pc[r] \in Nodes
  BY DEF SpecialistReviews, Nodes
<1>3. PICK n \in Nat : n = s.findings + 1 /\ n = 1
  BY <1>1, <1>2, InNodeOnce DEF StateOK, State
<1>4. PICK t : t = [s EXCEPT !.findings = n, !.next = "evidence_confirmation"]
  OBVIOUS
<1>5. /\ StateOK(Execution(r), t) /\ t.findings = 1 /\ t.next = "evidence_confirmation"
      /\ t.cancelled = s.cancelled
  <2>1. StateOK(Execution(r), s) /\ s.next = "specialists"
    BY <1>1, <1>2, InNodeOnce
  <2>2. s \in State /\ n > 0
    BY <1>3, <2>1 DEF StateOK
  <2>3. /\ t.findings = n /\ t.next = "evidence_confirmation" /\ t.cancelled = s.cancelled
    BY <1>4, <2>2 DEF State
  <2>4. StateOK(Execution(r), t)
    BY <1>4, <2>1, <2>2 DEF StateOK, State, GraphOK, Given, Nodes
  <2> QED  BY <1>3, <2>3, <2>4
<1>6. Checkpoint(r, t) /\ Completed(r, "specialists")
  BY <1>1, <1>3, <1>4 DEF SpecialistReviews
<1>7. t # None /\ thread' = [thread EXCEPT ![Execution(r)] = t]
  BY <1>5, <1>6, NoneAssumption DEF StateOK, Checkpoint
<1>8. RunsOK'
  BY <1>1, <1>2, <1>5, <1>6, <1>7, InNodeOnce, CompletedOnce DEF Passed, Nodes, OnceInv
<1> QED  BY <1>1, <1>2, <1>5, <1>6, <1>8, InNodeOnce, CheckpointOnce

(* The gate is counted when it is passed, which happens once.              *)
LEMMA ConfirmationOnce ==
    ASSUME IInv, NEW r \in Requests, OnceInv(r), EvidenceConfirmation(r)
    PROVE  OnceInv(r)'
<1>1. PICK s, d : s = local[r].state /\ d = local[r].decision
  OBVIOUS
<1>2. pc[r] = "evidence_confirmation" /\ pc[r] \in Nodes
  BY DEF EvidenceConfirmation, Nodes
<1>3. /\ StateOK(Execution(r), s) /\ s.next = "evidence_confirmation" /\ s.findings <= 1
      /\ s = thread[Execution(r)] /\ Execution(r) \in Executions
      /\ d \in {"confirm", "reject", None}
      /\ reviews[Execution(r)] = None /\ audit[Execution(r)]["started"] > 0
      /\ IF local[r].kind = "resume" THEN local[r].current = "awaiting_input"
         ELSE local[r].current = None /\ d = None /\ ~s.cancelled
  BY <1>1, <1>2, InNodeOnce DEF Local
<1>4. CASE /\ ~s.require
           /\ Checkpoint(r, [s EXCEPT !.next = AfterEvidenceConfirmation(s.cancelled)])
           /\ Completed(r, "evidence_confirmation")
  <2>1. PICK t : t = [s EXCEPT !.next = AfterEvidenceConfirmation(s.cancelled)]
    OBVIOUS
  <2>2. /\ StateOK(Execution(r), t) /\ t.next \in {"synthesize", "end"}
        /\ t.findings = s.findings /\ t.cancelled = s.cancelled
    BY <1>3, <1>4, <2>1 DEF StateOK, State, GraphOK, Given, Nodes, AfterEvidenceConfirmation
  <2>3. t # None /\ Checkpoint(r, t) /\ thread' = [thread EXCEPT ![Execution(r)] = t]
    BY <1>4, <2>1, <2>2, NoneAssumption DEF StateOK, Checkpoint
  <2>4. RunsOK'
    BY <1>3, <1>4, <2>2, <2>3, CompletedOnce DEF Passed, Nodes, OnceInv
  <2> QED  BY <1>1, <1>2, <1>3, <2>2, <2>3, <2>4, CheckpointOnce
<1>5. CASE /\ s.require /\ d = None
           /\ Checkpoint(r, [s EXCEPT !.interrupted = TRUE])
           /\ UNCHANGED ran
  <2>1. PICK t : t = [s EXCEPT !.interrupted = TRUE]
    OBVIOUS
  <2>2. /\ StateOK(Execution(r), t) /\ t.next = s.next
        /\ t.findings = s.findings /\ t.cancelled = s.cancelled
    BY <1>3, <1>5, <2>1 DEF StateOK, State, GraphOK, Given, Nodes
  <2>3. t # None /\ Checkpoint(r, t) /\ thread' = [thread EXCEPT ![Execution(r)] = t]
    BY <1>5, <2>1, <2>2, NoneAssumption DEF StateOK, Checkpoint
  <2>4. RunsOK'
    <3>1. \A x \in Executions : thread'[x] = IF x = Execution(r) THEN t ELSE thread[x]
      BY <2>3 DEF IInv, TypeOK
    <3>2. s # None /\ \A n : Passed(t, n) <=> Passed(s, n)
      BY <1>3, <2>2, NoneAssumption DEF Passed, StateOK
    <3> QED  BY <1>3, <1>5, <2>3, <3>1, <3>2 DEF OnceInv, RunsOK
  <2> QED  BY <1>1, <1>2, <1>3, <2>2, <2>3, <2>4, CheckpointOnce
<1>6. CASE /\ s.require /\ d # None
           /\ Checkpoint(r, [s EXCEPT !.interrupted = FALSE, !.confirmation = d,
                                      !.cancelled = (d = "reject"),
                                      !.next = AfterEvidenceConfirmation(d = "reject")])
           /\ Completed(r, "evidence_confirmation")
  <2>1. PICK t : t = [s EXCEPT !.interrupted = FALSE, !.confirmation = d,
                               !.cancelled = (d = "reject"),
                               !.next = AfterEvidenceConfirmation(d = "reject")]
    OBVIOUS
  <2>2. /\ StateOK(Execution(r), t) /\ t.next \in {"synthesize", "end"}
        /\ t.findings = s.findings
    BY <1>3, <1>6, <2>1 DEF StateOK, State, GraphOK, Given, Nodes, AfterEvidenceConfirmation
  <2>3. t # None /\ Checkpoint(r, t) /\ thread' = [thread EXCEPT ![Execution(r)] = t]
    BY <1>6, <2>1, <2>2, NoneAssumption DEF StateOK, Checkpoint
  <2>4. RunsOK'
    BY <1>3, <1>6, <2>2, <2>3, CompletedOnce DEF Passed, Nodes, OnceInv
  <2>5. local[r].kind = "resume"
    BY <1>3, <1>6
  <2> QED  BY <1>1, <1>2, <1>3, <2>2, <2>3, <2>4, <2>5, CheckpointOnce
<1> QED  BY <1>1, <1>4, <1>5, <1>6 DEF EvidenceConfirmation

(* synthesize runs on a thread that has not ended.                         *)
LEMMA SynthesizeOnce ==
    ASSUME IInv, NEW r \in Requests, OnceInv(r), Synthesize(r)
    PROVE  OnceInv(r)'
<1>1. PICK s : s = local[r].state
  OBVIOUS
<1>2. pc[r] = "synthesize" /\ pc[r] \in Nodes
  BY DEF Synthesize, Nodes
<1>3. /\ StateOK(Execution(r), s) /\ s.next = "synthesize" /\ s.findings <= 1
      /\ s = thread[Execution(r)] /\ Execution(r) \in Executions
      /\ reviews[Execution(r)] = None /\ audit[Execution(r)]["started"] > 0
      /\ IF local[r].kind = "resume" THEN local[r].current = "awaiting_input"
         ELSE local[r].current = None /\ local[r].decision = None /\ ~s.cancelled
  BY <1>1, <1>2, InNodeOnce
<1>4. PICK decision \in Recommendations(documents[CaseOf[Execution(r)]]) :
        Checkpoint(r, [s EXCEPT !.recommendation = decision, !.next = "end"])
  BY <1>1 DEF Synthesize
<1>5. decision \in Decisions /\ decision # None
  BY <1>3, ReviewsAssumption DEF IInv, TypeOK
<1>6. PICK t : t = [s EXCEPT !.recommendation = decision, !.next = "end"]
  OBVIOUS
<1>7. /\ StateOK(Execution(r), t) /\ t.next = "end" /\ t.findings = s.findings
      /\ t.cancelled = s.cancelled
  BY <1>3, <1>4, <1>5, <1>6 DEF StateOK, State, GraphOK, Given, Nodes
<1>8. /\ t # None /\ Checkpoint(r, t) /\ thread' = [thread EXCEPT ![Execution(r)] = t]
      /\ Completed(r, "synthesize")
  BY <1>4, <1>6, <1>7, NoneAssumption DEF StateOK, Checkpoint, Synthesize
<1>9. RunsOK'
  BY <1>3, <1>7, <1>8, CompletedOnce DEF Passed, Nodes, OnceInv
<1> QED  BY <1>2, <1>3, <1>7, <1>8, <1>9, CheckpointOnce

(* Alone, the latest checkpoint is that of the request itself.             *)
LEMMA ReadSnapshotOnce ==
    ASSUME IInv, NEW r \in Requests, OnceInv(r), ReadSnapshot(r)
    PROVE  OnceInv(r)'
<1>1. pc[r] = "end" /\ UNCHANGED <<dbVars, ran, served, restVars>>
  BY DEF ReadSnapshot
<1>2. PICK l, s : l \in Local /\ l = local[r] /\ s = thread[Execution(r)]
  BY <1>1, Working
<1>3. Obtain(r, l, s) /\ s # None /\ l.execution = Execution(r)
  BY <1>1, <1>2, Working DEF ReadSnapshot, RequestOK
<1> QED  BY <1>1, <1>2, <1>3, ObtainOnce

(* A failed run still owes its case the failure it records next.           *)
LEMMA RunFailsOnce ==
    ASSUME IInv, NEW r \in Requests, OnceInv(r), RunFails(r)
    PROVE  OnceInv(r)'
<1>1. /\ pc[r] # "idle" /\ pc[r] # "log_failed" /\ Goto(r, "mark_failed")
      /\ UNCHANGED <<dbVars, local, ran, served, restVars>>
  BY DEF RunFails, Nodes
<1>2. pc'[r] = "mark_failed"
  BY <1>1 DEF Goto, IInv, TypeOK
<1>3. AloneOK(r)' /\ Committed(r)'
  BY <1>2 DEF AloneOK, Nodes, Saving, Committed
<1> QED  BY <1>1, <1>3, GotoOnce DEF PCs

(* What the handler reads is the thread, and stays so.                     *)
LEMMA GetExecutionOnce ==
    ASSUME IInv, NEW r \in Requests, OnceInv(r), GetExecution(r)
    PROVE  OnceInv(r)'
<1>1. /\ pc[r] = "get_execution" /\ UNCHANGED <<dbVars, ran, served, restVars>>
      /\ local[r] \in Local /\ local[r].kind \in {"start", "resume"} /\ AloneOK(r)
  BY Working DEF GetExecution, RequestOK, Local, OnceInv
<1>2. PICK s : s = thread[Execution(r)]
  OBVIOUS
<1>3. CASE Exists(Execution(r))
  <2>1. s \in State /\ s # None
    BY <1>1, <1>2, <1>3, Working DEF Exists, StateOK
  <2>2. [local[r] EXCEPT !.current = ExecutionStatus(s)] \in Local
    BY <1>1, <2>1, StatusFacts DEF Local
  <2>3. PICK l \in Local : l = [local[r] EXCEPT !.current = ExecutionStatus(s)]
    BY <2>2
  <2>4. l.kind = local[r].kind /\ l.execution = Execution(r) /\ l.current = ExecutionStatus(s)
    BY <1>1, <2>3 DEF Local, Execution
  <2>5. CASE l.kind = "start"
    <3>1. Obtain(r, l, s)
      BY <1>2, <1>3, <2>3, <2>5 DEF GetExecution
    <3> QED  BY <1>1, <1>2, <2>1, <2>4, <2>5, <3>1, ObtainOnce
  <2>6. CASE l.kind = "resume"
    <3>1. pc' = [pc EXCEPT ![r] = "resume"] /\ local' = [local EXCEPT ![r] = l]
      BY <1>2, <1>3, <2>3, <2>6 DEF GetExecution, Goto
    <3>2. /\ pc'[r] = "resume" /\ local'[r] = l
          /\ UNCHANGED <<case_status, thread, reviews, audit, lost, raised, ran>>
      BY <1>1, <3>1 DEF IInv, TypeOK, dbVars, restVars
    <3>3. Execution(r)' = Execution(r)
      BY <2>4, <3>2 DEF Execution
    <3>4. AloneOK(r)'
      BY <1>2, <2>4, <2>6, <3>2, <3>3 DEF AloneOK, Nodes, Saving
    <3>5. StatusOK(r)'
      BY <1>1, <3>2, <3>3, StatusKept DEF OnceInv, Committed, Nodes
    <3> QED  BY <3>2, <3>4, <3>5, OnceKept DEF OnceInv
  <2> QED  BY <1>1, <2>4, <2>5, <2>6
<1>4. CASE ~Exists(Execution(r)) /\ local[r].kind = "start"
  <2>1. Goto(r, "mark_in_review") /\ UNCHANGED local
    BY <1>4 DEF GetExecution, Continue
  <2>2. pc'[r] = "mark_in_review" /\ Execution(r)' = Execution(r) /\ UNCHANGED thread
    BY <1>1, <2>1 DEF Goto, IInv, TypeOK, Execution, dbVars
  <2>3. AloneOK(r)'
    BY <1>1, <1>4, <2>1, <2>2 DEF AloneOK, Nodes, Saving, Exists
  <2> QED  BY <1>1, <2>1, <2>3, GotoOnce DEF PCs, Committed, Nodes
<1>5. CASE ~Exists(Execution(r)) /\ local[r].kind = "resume"
  <2>1. Respond(r)
    BY <1>5 DEF GetExecution, Continue
  <2> QED  BY <1>1, <2>1, RespondOnce DEF Committed, Nodes
<1> QED  BY <1>1, <1>3, <1>4, <1>5

(* A change of status is explained by what the request has done or is      *)
(* about to do.                                                            *)
LEMMA SetStatusOnce ==
    ASSUME IInv, NEW r \in Requests, OnceInv(r), NEW at, NEW where, NEW status,
           at \in PCs \ {"idle", "log_failed"}, where \in PCs \ {"idle"},
           SetStatus(r, at, status, where), AloneOK(r)',
           status = "in_review" => Committed(r)',
           status = "review_failed" => where = "log_failed",
           at \in Nodes \cup {"mark_failed"} => where \in {"mark_failed", "log_failed"}
    PROVE  OnceInv(r)'
<1>1. pc[r] = at /\ pc[r] # "idle" /\ Execution(r) \in Executions /\ TypeOK
  BY Working DEF SetStatus
<1>2. PICK k \in Cases : k = CaseOf[Execution(r)]
  BY <1>1, ReviewsAssumption
<1>3. /\ pc'[r] = where /\ Execution(r)' = Execution(r)
      /\ \A c \in Cases : case_status'[c] = IF c = k THEN status ELSE case_status[c]
      /\ UNCHANGED <<thread, reviews, audit, lost, raised, ran>>
  BY <1>1, <1>2 DEF SetStatus, Goto, TypeOK, Execution, restVars
<1>4. \A x \in Executions : (Open(x)' <=> Open(x)) /\ (RunningThread(x)' <=> RunningThread(x))
  BY <1>3 DEF Open, RunningThread
<1>5. StatusOK(r)'
  <2> SUFFICES ASSUME NEW c \in Cases, \A e \in lost : CaseOf[e] # c
               PROVE  /\ case_status'[c] = "in_review" =>
                            \/ \E e \in Executions : CaseOf[e] = c /\ Open(e)
                            \/ CaseOf[Execution(r)] = c /\ Committed(r)'
                      /\ case_status'[c] = "review_failed" =>
                            \/ \E e \in Executions : CaseOf[e] = c /\ audit[e]["failed"] > 0
                            \/ where = "log_failed" /\ CaseOf[Execution(r)] = c
                      /\ \A e \in Executions :
                            CaseOf[e] = c /\ RunningThread(e) =>
                                \/ audit[e]["failed"] > 0
                                \/ /\ where \in Nodes \cup {"mark_failed", "log_failed"}
                                   /\ Execution(r) = e
    BY <1>3, <1>4 DEF StatusOK
  <2>1. case_status'[c] = "in_review" =>
            \/ \E e \in Executions : CaseOf[e] = c /\ Open(e)
            \/ CaseOf[Execution(r)] = c /\ Committed(r)'
    BY <1>2, <1>3 DEF OnceInv, StatusOK
  <2>2. case_status'[c] = "review_failed" =>
            \/ \E e \in Executions : CaseOf[e] = c /\ audit[e]["failed"] > 0
            \/ where = "log_failed" /\ CaseOf[Execution(r)] = c
    BY <1>1, <1>2, <1>3 DEF OnceInv, StatusOK
  <2>3. ASSUME NEW e \in Executions, CaseOf[e] = c, RunningThread(e)
        PROVE  \/ audit[e]["failed"] > 0
               \/ where \in Nodes \cup {"mark_failed", "log_failed"} /\ Execution(r) = e
    BY <1>1, <2>3 DEF OnceInv, StatusOK
  <2> QED  BY <2>1, <2>2, <2>3
<1> QED  BY <1>3, <1>5, OnceKept DEF OnceInv

(* Every status a handler gives a case has its reason in the same request. *)
LEMMA MarkOnce ==
    ASSUME IInv, NEW r \in Requests, OnceInv(r),
           MarkInReview(r) \/ MarkFailed(r) \/ MarkNew(r) \/ MarkPending(r)
    PROVE  OnceInv(r)'
<1>1. PICK at \in {"mark_in_review", "mark_failed", "mark_new", "mark_pending"},
           where \in {"log_started", "log_failed", "log_cancelled", "log_completed"},
           status \in {"new", "in_review", "pending_approval", "review_failed"} :
        /\ SetStatus(r, at, status, where)
        /\ at = "mark_in_review" <=> status = "in_review"
        /\ at = "mark_in_review" <=> where = "log_started"
        /\ at = "mark_failed" <=> status = "review_failed"
        /\ at = "mark_failed" <=> where = "log_failed"
        /\ at = "mark_pending" <=> where = "log_completed"
  BY DEF MarkInReview, MarkFailed, MarkNew, MarkPending
<1>2. pc[r] = at /\ AloneOK(r) /\ TypeOK
  BY <1>1 DEF SetStatus, OnceInv, IInv
<1>3. pc'[r] = where /\ Execution(r)' = Execution(r) /\ UNCHANGED <<local, thread, audit>>
  BY <1>1, <1>2 DEF SetStatus, Goto, TypeOK, Execution
<1>4. AloneOK(r)'
  BY <1>1, <1>2, <1>3 DEF AloneOK, Nodes, Saving
<1>5. at = "mark_in_review" => Committed(r)'
  BY <1>1, <1>3 DEF Committed
<1> QED  BY <1>1, <1>2, <1>4, <1>5, SetStatusOnce DEF PCs, Nodes

(* An event is recorded, and the request goes on or answers.               *)
LEMMA AppendAuditOnce ==
    ASSUME IInv, NEW r \in Requests, OnceInv(r), NEW at, NEW event \in Events, NEW where,
           at \in PCs \ {"idle"}, where \in PCs,
           AppendAuditEvent(r, at, event, where), AloneOK(r)',
           at = "log_failed" => event = "failed",
           at \notin Nodes \cup {"mark_failed"},
           event = "completed" => /\ audit[Execution(r)]["completed"] = 0
                                  /\ reviews[Execution(r)] # None,
           Committed(r) => (pc'[r] # "idle" /\ Committed(r)') \/ Open(Execution(r))
    PROVE  OnceInv(r)'
<1>1. pc[r] = at /\ pc[r] # "idle" /\ TypeOK
  BY Working DEF AppendAuditEvent
<1>2. PICK e \in Executions : e = Execution(r)
  BY <1>1, Working
<1>3. /\ pc'[r] = where
      /\ where # "idle" => local'[r] = local[r]
      /\ UNCHANGED <<case_status, thread, reviews, lost, raised, ran>>
  BY <1>1, ContinueFacts DEF AppendAuditEvent, restVars
<1>4. where # "idle" => Execution(r)' = e
  BY <1>2, <1>3 DEF Execution
<1>5. \A x \in Executions, t \in Events :
        /\ audit'[x][t] = IF x = e /\ t = event THEN audit[x][t] + 1 ELSE audit[x][t]
        /\ audit[x][t] \in Nat
  BY <1>2 DEF AppendAuditEvent, IInv, TypeOK
<1>6. \A x \in Executions, t \in Events : audit[x][t] > 0 => audit'[x][t] > 0
  BY <1>5
<1>7. event = "failed" => audit'[e]["failed"] > 0
  BY <1>5 DEF Events
<1>8. \A x \in Executions : (Open(x)' <=> Open(x)) /\ (RunningThread(x)' <=> RunningThread(x))
  BY <1>3 DEF Open, RunningThread
<1>9. RunsOK'
  BY <1>3 DEF OnceInv, RunsOK
<1>10. ThreadsOnce'
  BY <1>3, <1>6 DEF OnceInv, ThreadsOnce, Events
<1>11. CompletionAnnouncedOnce'
  <2> SUFFICES ASSUME NEW x \in Executions
               PROVE  /\ audit'[x]["completed"] <= 1
                      /\ audit'[x]["completed"] = 1 => reviews[x] # None
    BY <1>3 DEF CompletionAnnouncedOnce
  <2>1. /\ audit[x]["completed"] <= 1 /\ audit[x]["completed"] \in Nat
        /\ audit[x]["completed"] = 1 => reviews[x] # None
    BY <1>5 DEF OnceInv, CompletionAnnouncedOnce, Events
  <2>2. audit'[x]["completed"] = IF x = e /\ event = "completed" THEN audit[x]["completed"] + 1
                                 ELSE audit[x]["completed"]
    BY <1>5 DEF Events
  <2> QED  BY <1>2, <2>1, <2>2
<1>12. StatusOK(r)'
  <2> SUFFICES ASSUME NEW c \in Cases, \A x \in lost : CaseOf[x] # c
               PROVE  /\ case_status[c] = "in_review" =>
                            \/ \E x \in Executions : CaseOf[x] = c /\ Open(x)
                            \/ where # "idle" /\ CaseOf[e] = c /\ Committed(r)'
                      /\ case_status[c] = "review_failed" =>
                            \E x \in Executions : CaseOf[x] = c /\ audit'[x]["failed"] > 0
                      /\ \A x \in Executions :
                            CaseOf[x] = c /\ RunningThread(x) => audit'[x]["failed"] > 0
    BY <1>3, <1>4, <1>8 DEF StatusOK
  <2>1. case_status[c] = "in_review" =>
            \/ \E x \in Executions : CaseOf[x] = c /\ Open(x)
            \/ where # "idle" /\ CaseOf[e] = c /\ Committed(r)'
    BY <1>2, <1>3 DEF OnceInv, StatusOK
  <2>2. case_status[c] = "review_failed" =>
            \E x \in Executions : CaseOf[x] = c /\ audit'[x]["failed"] > 0
    BY <1>1, <1>2, <1>6, <1>7 DEF OnceInv, StatusOK, Events
  <2>3. ASSUME NEW x \in Executions, CaseOf[x] = c, RunningThread(x)
        PROVE  audit'[x]["failed"] > 0
    BY <1>1, <1>2, <1>6, <1>7, <2>3 DEF OnceInv, StatusOK, Events
  <2> QED  BY <2>1, <2>2, <2>3
<1> QED  BY <1>9, <1>10, <1>11, <1>12 DEF OnceInv

(* The last event of a request settles what it owes its case.              *)
LEMMA LogOnce ==
    ASSUME IInv, NEW r \in Requests, OnceInv(r),
           \/ LogFailed(r) \/ LogAwaitingInput(r) \/ LogCancelled(r) \/ LogCompleted(r)
    PROVE  OnceInv(r)'
<1>1. PICK at \in {"log_failed", "log_awaiting_input", "log_cancelled", "log_completed"},
           event \in Events :
        /\ AppendAuditEvent(r, at, event, "idle")
        /\ at = "log_failed" => event = "failed"
        /\ event = "completed" => at = "log_completed"
  BY DEF LogFailed, LogAwaitingInput, LogCancelled, LogCompleted, Events
<1>2. pc[r] = at /\ pc[r] # "idle" /\ Continue(r, "idle") /\ TypeOK
  BY <1>1, Working DEF AppendAuditEvent
<1>3. pc'[r] = "idle"
  BY <1>2, ContinueFacts DEF PCs
<1>4. AloneOK(r)' /\ ~Committed(r)
  BY <1>2, <1>3 DEF AloneOK, Nodes, Saving, Committed
<1>5. at = "log_completed" => /\ audit[Execution(r)]["completed"] = 0
                              /\ reviews[Execution(r)] # None
  BY <1>2, Working DEF OnceInv, AloneOK, RequestOK
<1> QED  BY <1>1, <1>4, <1>5, AppendAuditOnce DEF PCs, Nodes

(* A start is logged before its thread exists.                             *)
LEMMA LogStartedOnce ==
    ASSUME IInv, NEW r \in Requests, OnceInv(r), LogStarted(r)
    PROVE  OnceInv(r)'
<1>1. /\ AppendAuditEvent(r, "log_started", "started", "start") /\ pc[r] = "log_started"
      /\ Continue(r, "start") /\ AloneOK(r) /\ TypeOK
  BY DEF LogStarted, AppendAuditEvent, OnceInv, IInv
<1>2. PICK e \in Executions : e = Execution(r)
  BY <1>1, Working
<1>3. pc'[r] = "start" /\ local'[r] = local[r] /\ UNCHANGED thread
  BY <1>1, ContinueFacts DEF PCs, AppendAuditEvent
<1>4. Execution(r)' = e
  BY <1>2, <1>3 DEF Execution
<1>5. audit'[e]["started"] > 0
  BY <1>1, <1>2 DEF AppendAuditEvent, TypeOK, Events
<1>6. AloneOK(r)'
  BY <1>1, <1>2, <1>3, <1>4, <1>5 DEF AloneOK, Nodes, Saving
<1>7. pc'[r] # "idle" /\ Committed(r)'
  BY <1>3 DEF Committed
<1> QED  BY <1>1, <1>6, <1>7, AppendAuditOnce DEF PCs, Nodes, Events

(* A resume is logged on the thread that it has moved.                     *)
LEMMA LogResumedOnce ==
    ASSUME IInv, NEW r \in Requests, OnceInv(r), LogResumed(r)
    PROVE  OnceInv(r)'
<1>1. pc[r] = "log_resumed" /\ AloneOK(r) /\ TypeOK /\ local[r] \in Local
  BY Working DEF LogResumed, AppendAuditEvent, OnceInv
<1>2. PICK s, e : s = local[r].state /\ e = Execution(r)
  OBVIOUS
<1>3. /\ s \in State /\ s = thread[e] /\ ExecutionStatus(s) # "running" /\ reviews[e] = None
      /\ local[r].kind = "resume" /\ local[r].current = "awaiting_input" /\ s # None
  BY <1>1, <1>2, Working, NoneAssumption DEF RequestOK, StateOK, AloneOK
<1>4. PICK where : where = Settle(local[r], ExecutionStatus(s))
  OBVIOUS
<1>5. /\ where \in {"get_review", "mark_new", "idle"}
      /\ where = "idle" => ExecutionStatus(s) = "awaiting_input"
  BY <1>3, <1>4, StatusFacts DEF Settle
<1>6. AppendAuditEvent(r, "log_resumed", "resumed", where) /\ where \in PCs
  BY <1>2, <1>4, <1>5 DEF LogResumed, PCs
<1>7. Continue(r, where) /\ UNCHANGED <<thread, reviews>>
  BY <1>6 DEF AppendAuditEvent
<1>8. pc'[r] = where /\ (where # "idle" => local'[r] = local[r])
  BY <1>1, <1>6, <1>7, ContinueFacts
<1>9. where # "idle" => Execution(r)' = e
  BY <1>2, <1>8 DEF Execution
<1>10. AloneOK(r)'
  BY <1>2, <1>3, <1>5, <1>7, <1>8, <1>9 DEF AloneOK, Nodes, Saving
<1>11. (pc'[r] # "idle" /\ Committed(r)') \/ Open(Execution(r))
  BY <1>2, <1>3, <1>5, <1>7, <1>8, <1>9 DEF Committed, Open
<1> QED  BY <1>6, <1>10, <1>11, AppendAuditOnce DEF PCs, Nodes, Events

(* A stored review ends the request, so completion is not announced again. *)
LEMMA GetReviewOnce ==
    ASSUME IInv, NEW r \in Requests, OnceInv(r), GetReview(r)
    PROVE  OnceInv(r)'
<1>1. /\ pc[r] = "get_review" /\ UNCHANGED <<dbVars, ran, served, restVars>> /\ AloneOK(r)
      /\ TypeOK
  BY DEF GetReview, OnceInv, IInv
<1>2. CASE reviews[Execution(r)] # None
  <2>1. Respond(r)
    BY <1>2 DEF GetReview, Continue
  <2> QED  BY <1>1, <1>2, <2>1, RespondOnce DEF Committed, Nodes
<1>3. CASE reviews[Execution(r)] = None
  <2>1. Goto(r, "find_review") /\ UNCHANGED local
    BY <1>3 DEF GetReview, Continue
  <2>2. pc'[r] = "find_review" /\ Execution(r)' = Execution(r) /\ UNCHANGED <<thread, reviews>>
    BY <1>1, <2>1 DEF Goto, TypeOK, Execution, dbVars
  <2>3. AloneOK(r)' /\ Committed(r)'
    BY <1>1, <1>3, <2>1, <2>2 DEF AloneOK, Nodes, Saving, Committed
  <2> QED  BY <1>1, <2>1, <2>3, GotoOnce DEF PCs, Nodes
<1> QED  BY <1>2, <1>3

(* Alone, the second lookup finds what the first one found.                *)
LEMMA FindReviewOnce ==
    ASSUME IInv, NEW r \in Requests, OnceInv(r), FindReview(r)
    PROVE  OnceInv(r)'
<1>1. /\ pc[r] = "find_review" /\ UNCHANGED <<dbVars, local, ran, served, restVars>> /\ AloneOK(r)
      /\ TypeOK
  BY DEF FindReview, OnceInv, IInv
<1>2. reviews[Execution(r)] = None
  BY <1>1 DEF AloneOK
<1>3. Goto(r, "insert_review")
  BY <1>2 DEF FindReview
<1>4. pc'[r] = "insert_review" /\ Execution(r)' = Execution(r) /\ UNCHANGED <<thread, reviews>>
  BY <1>1, <1>3 DEF Goto, TypeOK, Execution, dbVars
<1>5. AloneOK(r)' /\ Committed(r)'
  BY <1>1, <1>2, <1>4 DEF AloneOK, Nodes, Saving, Committed
<1> QED  BY <1>1, <1>3, <1>5, GotoOnce DEF PCs, Nodes

(* The review is inserted: it cannot meet another one, and its findings    *)
(* occur once.                                                             *)
LEMMA InsertReviewOnce ==
    ASSUME IInv, NEW r \in Requests, OnceInv(r), InsertReview(r)
    PROVE  OnceInv(r)'
<1>1. /\ pc[r] = "insert_review" /\ local[r] \in Local /\ AloneOK(r) /\ TypeOK
      /\ UNCHANGED <<case_status, thread, audit, ran, served, restVars>>
  BY Working DEF InsertReview, OnceInv
<1>2. PICK s, e : s = local[r].state /\ e = Execution(r)
  OBVIOUS
<1>3. e \in Executions /\ s = thread[e] /\ reviews[e] = None /\ s \in State /\ s # None
  BY <1>1, <1>2, Working, NoneAssumption DEF RequestOK, StateOK, AloneOK, Saving
<1>4. ~(s.findings > 1)
  <2>1. s.findings <= IF s.next = "specialists" THEN 0 ELSE 1
    BY <1>3 DEF OnceInv, ThreadsOnce
  <2>2. s.findings \in Nat
    BY <1>3 DEF State
  <2> QED  BY <2>1, <2>2
<1>5. reviews' = [reviews EXCEPT ![e] = s] /\ Goto(r, "mark_pending") /\ UNCHANGED local
  BY <1>2, <1>3, <1>4 DEF InsertReview
<1>6. pc'[r] = "mark_pending" /\ Execution(r)' = e
  BY <1>1, <1>2, <1>5 DEF Goto, TypeOK, Execution
<1>7. reviews'[e] = s /\ \A x \in Executions \ {e} : reviews'[x] = reviews[x]
  BY <1>3, <1>5 DEF IInv, TypeOK
<1>8. audit[e]["completed"] = 0
  <2>1. audit[e]["completed"] \in Nat
    BY <1>1, <1>3 DEF TypeOK, Events
  <2>2. audit[e]["completed"] <= 1 /\ audit[e]["completed"] # 1
    BY <1>3 DEF OnceInv, CompletionAnnouncedOnce
  <2> QED  BY <2>1, <2>2
<1>9. AloneOK(r)'
  BY <1>1, <1>6, <1>8 DEF AloneOK, Nodes, Saving
<1>10. ThreadsOnce' /\ CompletionAnnouncedOnce' /\ RunsOK'
  BY <1>1, <1>3, <1>7 DEF OnceInv, ThreadsOnce, CompletionAnnouncedOnce, RunsOK
<1>11. /\ \A x \in Executions \ {e} : Open(x)' <=> Open(x)
       /\ \A x \in Executions : RunningThread(x)' <=> RunningThread(x)
  BY <1>1, <1>7 DEF Open, RunningThread, restVars
<1>12. Committed(r)' /\ UNCHANGED lost
  BY <1>1, <1>6 DEF Committed, restVars
<1>13. StatusOK(r)'
  <2> SUFFICES ASSUME NEW c \in Cases, \A x \in lost : CaseOf[x] # c
               PROVE  /\ case_status[c] = "in_review" =>
                            \/ \E x \in Executions : CaseOf[x] = c /\ Open(x)'
                            \/ CaseOf[e] = c
                      /\ case_status[c] = "review_failed" =>
                            \E x \in Executions : CaseOf[x] = c /\ audit[x]["failed"] > 0
                      /\ \A x \in Executions : CaseOf[x] = c /\ RunningThread(x)' =>
                            audit[x]["failed"] > 0
    BY <1>1, <1>6, <1>12 DEF StatusOK
  <2>1. case_status[c] = "in_review" =>
            \/ \E x \in Executions : CaseOf[x] = c /\ Open(x)
            \/ CaseOf[e] = c
    BY <1>2 DEF OnceInv, StatusOK
  <2>2. case_status[c] = "review_failed" =>
            \E x \in Executions : CaseOf[x] = c /\ audit[x]["failed"] > 0
    BY <1>1 DEF OnceInv, StatusOK
  <2>3. \A x \in Executions : CaseOf[x] = c /\ RunningThread(x) => audit[x]["failed"] > 0
    BY <1>1 DEF OnceInv, StatusOK, Nodes
  <2> QED  BY <1>11, <2>1, <2>2, <2>3
<1> QED  BY <1>9, <1>10, <1>13 DEF OnceInv

(* A request that is cut off owes nothing any more: its case is no longer  *)
(* one of which anything is promised.                                      *)
LEMMA LostOnce ==
    ASSUME IInv, NEW r \in Requests, OnceInv(r), pc'[r] = "idle",
           UNCHANGED <<case_status, thread, reviews, audit, raised, ran>>,
           lost \subseteq lost',
           pc[r] # "idle" => Execution(r) \in lost'
    PROVE  OnceInv(r)'
<1>1. AloneOK(r)'
  BY DEF AloneOK, Nodes, Saving
<1>2. \A x \in Executions : (Open(x)' <=> Open(x)) /\ (RunningThread(x)' <=> RunningThread(x))
  BY DEF Open, RunningThread
<1>3. StatusOK(r)'
  <2> SUFFICES ASSUME NEW c \in Cases, \A x \in lost' : CaseOf[x] # c
               PROVE  /\ case_status[c] = "in_review" =>
                            \E x \in Executions : CaseOf[x] = c /\ Open(x)
                      /\ case_status[c] = "review_failed" =>
                            \E x \in Executions : CaseOf[x] = c /\ audit[x]["failed"] > 0
                      /\ \A x \in Executions :
                            CaseOf[x] = c /\ RunningThread(x) => audit[x]["failed"] > 0
    BY <1>2 DEF StatusOK
  <2>1. pc[r] # "idle" => CaseOf[Execution(r)] # c
    OBVIOUS
  <2>2. pc[r] \in Nodes \cup {"mark_failed", "log_failed"} => pc[r] # "idle"
    BY DEF Nodes
  <2> QED  BY <2>1, <2>2 DEF OnceInv, StatusOK
<1> QED  BY <1>1, <1>3, OnceKept DEF OnceInv

(* A resume that raises gives its case a reason of its own: the execution  *)
(* has no review, and raised names it.                                     *)
LEMMA ResumeFailsOnce ==
    ASSUME IInv, NEW r \in Requests, OnceInv(r), ResumeFails(r)
    PROVE  OnceInv(r)'
<1>1. CASE pc[r] \in {"get_execution", "resume", "invoke_resume"}
  BY <1>1, RespondOnce DEF ResumeFails, Committed, Nodes, restVars
<1>2. CASE pc[r] \in Nodes \cup {"end"}
  <2>1. /\ pc[r] \notin {"idle", "mark_failed", "log_failed"} /\ pc'[r] = "idle"
        /\ raised' = raised \cup {Execution(r)}
        /\ UNCHANGED <<case_status, thread, reviews, audit, lost, ran>>
    BY <1>2 DEF ResumeFails, Respond, Goto, IInv, TypeOK, dbVars, Nodes
  <2>2. PICK e \in Executions : e = Execution(r)
    BY <2>1, Working
  <2>3. reviews[e] = None /\ thread[e] # None
    <3>1. CASE pc[r] = "end"
      BY <2>2, <3>1, Working DEF OnceInv, AloneOK, RequestOK, StateOK
    <3>2. CASE pc[r] \in Nodes
      BY <2>2, <3>2, InNodeOnce
    <3> QED  BY <1>2, <3>1, <3>2
  <2>4. Open(e)' /\ ~RunningThread(e)'
    BY <2>1, <2>2, <2>3 DEF Open, RunningThread
  <2>5. \A x \in Executions : (Open(x) => Open(x)') /\ (RunningThread(x)' => RunningThread(x))
    BY <2>1 DEF Open, RunningThread
  <2>6. AloneOK(r)'
    BY <2>1 DEF AloneOK, Nodes, Saving
  <2>7. StatusOK(r)'
    BY <2>1, <2>2, <2>4, <2>5 DEF OnceInv, StatusOK
  <2> QED  BY <2>1, <2>6, <2>7, OnceKept DEF OnceInv
<1> QED  BY <1>1, <1>2 DEF ResumeFails

(* A request that is cut off leaves its case without a reason, which lost  *)
(* records.                                                                *)
LEMMA AbandonOnce ==
    ASSUME IInv, NEW r \in Requests, OnceInv(r), Abandon(r)
    PROVE  OnceInv(r)'
BY LostOnce DEF Abandon, Respond, Goto, IInv, TypeOK, dbVars

(* A restart cuts the request off and, on durable checkpoints, forgets     *)
(* nothing else.                                                           *)
LEMMA RestartOnce ==
    ASSUME IInv, NEW r \in Requests, OnceInv(r), RestartApi, Checkpointers \subseteq {"postgres"}
    PROVE  OnceInv(r)'
<1>1. /\ pc' = [q \in Requests |-> "idle"]
      /\ lost' = lost \cup {Execution(q) : q \in {p \in Requests : pc[p] # "idle"}}
      /\ UNCHANGED <<case_status, reviews, audit, raised, ran>>
  BY DEF RestartApi
<1>2. UNCHANGED thread
  BY DEF RestartApi, IInv, TypeOK
<1> QED  BY <1>1, <1>2, LostOnce

(* The IntegrityError of save_review needs a second request.               *)
LEMMA NoIntegrityError ==
    ASSUME IInv, NEW r \in Requests, OnceInv(r), IntegrityError(r)
    PROVE  OnceInv(r)'
BY RespondOnce DEF IntegrityError, Committed, Nodes

(* The premises of the theorems below.                                     *)
OneAtATime(r) == Requests = {r} /\ Checkpointers \subseteq {"postgres"}

(* Nothing has run at first.                                               *)
LEMMA InitOnce ==
    ASSUME NEW r, OneAtATime(r), Init
    PROVE  OnceInv(r)
<1>1. pc[r] = "idle"
  BY DEF Init, OneAtATime
<1>2. RunsOK /\ ThreadsOnce /\ CompletionAnnouncedOnce
  BY DEF Init, RunsOK, ThreadsOnce, CompletionAnnouncedOnce, Events
<1>3. AloneOK(r)
  BY <1>1 DEF AloneOK, Nodes, Saving
<1>4. StatusOK(r)
  BY DEF Init, StatusOK, RunningThread
<1> QED  BY <1>2, <1>3, <1>4 DEF OnceInv

(* With one request at a time every step keeps the invariant.              *)
LEMMA NextOnce ==
    ASSUME NEW r, OneAtATime(r), IInv, OnceInv(r), [Next]_vars
    PROVE  OnceInv(r)'
<1>1. r \in Requests /\ \A q \in Requests : q = r
  BY DEF OneAtATime
<1>2. CASE UNCHANGED vars
  <2>1. UNCHANGED <<case_status, thread, reviews, audit, ran, pc, local, lost, raised>>
    BY <1>2 DEF vars, dbVars, restVars
  <2>2. AloneOK(r)'
    BY <2>1 DEF OnceInv, AloneOK, Execution
  <2>3. StatusOK(r)'
    BY <2>1 DEF OnceInv, StatusOK, Execution, Open, RunningThread, Committed
  <2> QED  BY <2>1, <2>2, <2>3, OnceKept DEF OnceInv
<1>3. CASE RestartApi
  BY <1>1, <1>3, RestartOnce DEF OneAtATime
<1>4. CASE Arrive(r)
  BY <1>1, <1>4, ArriveOnce
<1>5. CASE Graph(r)
  BY <1>1, <1>5, StartOnce, InvokeOnce, ResumeOnce, InvokeResumeOnce, SpecialistsOnce,
     ConfirmationOnce, SynthesizeOnce, ReadSnapshotOnce, RunFailsOnce, ResumeFailsOnce
  DEF Graph
<1>6. CASE Handler(r)
  BY <1>1, <1>6, GetExecutionOnce, MarkOnce, LogOnce, LogStartedOnce, LogResumedOnce,
     GetReviewOnce, FindReviewOnce, InsertReviewOnce, NoIntegrityError, AbandonOnce
  DEF Handler
<1> QED  BY <1>1, <1>2, <1>3, <1>4, <1>5, <1>6 DEF Next

(* OnceInv is invariant when requests are served one at a time.            *)
THEOREM OnceInvariance ==
    ASSUME NEW r, OneAtATime(r)
    PROVE  Spec => []OnceInv(r)
<1>1. Init => OnceInv(r)
  BY InitOnce
<1>2. IInv /\ OnceInv(r) /\ [Next]_vars => OnceInv(r)'
  BY NextOnce
<1> QED  BY Invariance, <1>1, <1>2, PTL DEF Spec

(* Repeated starts and redelivered resumes rerun no node, however often    *)
(* the request is cut off or the API restarted in between.                 *)
THEOREM NodesOnce ==
    ASSUME NEW r, OneAtATime(r)
    PROVE  Spec => []NodesRunOnce
<1>1. IInv /\ OnceInv(r) => NodesRunOnce
  <2> SUFFICES ASSUME IInv, OnceInv(r), NEW e \in Executions, NEW n \in Nodes
               PROVE  ran[e][n] <= 1
    BY DEF NodesRunOnce
  <2>1. ran[e][n] \in Nat
    BY DEF IInv, TypeOK
  <2>2. ran[e][n] <= IF thread[e] # None /\ Passed(thread[e], n) THEN 1 ELSE 0
    BY DEF OnceInv, RunsOK
  <2> QED  BY <2>1, <2>2
<1> QED  BY Invariance, OnceInvariance, <1>1, PTL

(* A review is announced as completed at most once and only when stored.   *)
THEOREM AnnouncedOnce ==
    ASSUME NEW r, OneAtATime(r)
    PROVE  Spec => []CompletionAnnouncedOnce
<1>1. OnceInv(r) => CompletionAnnouncedOnce
  BY DEF OnceInv
<1> QED  BY OnceInvariance, <1>1, PTL

(* What a case shows has a reason that a request can act on, unless a      *)
(* request for it was cut off.                                             *)
THEOREM StatusReasons ==
    ASSUME NEW r, OneAtATime(r)
    PROVE  Spec => []StatusExplained
<1>1. OnceInv(r) => StatusExplained
  <2> SUFFICES ASSUME OnceInv(r), NEW c \in Cases, Quiet(c)
               PROVE  /\ case_status[c] = "in_review" =>
                            \E e \in Executions : CaseOf[e] = c /\ Open(e)
                      /\ case_status[c] = "review_failed" =>
                            \E e \in Executions : CaseOf[e] = c /\ audit[e]["failed"] > 0
                      /\ \A e \in Executions :
                            CaseOf[e] = c /\ RunningThread(e) => audit[e]["failed"] > 0
    BY DEF StatusExplained, Open, RunningThread
  <2>1. /\ pc[r] # "idle" => CaseOf[Execution(r)] # c
        /\ \A e \in lost : CaseOf[e] # c
    BY DEF Quiet, OneAtATime
  <2>2. pc[r] \in Nodes \cup {"mark_failed", "log_failed"} => pc[r] # "idle"
    BY DEF Nodes
  <2> QED  BY <2>1, <2>2 DEF OnceInv, StatusOK
<1> QED  BY OnceInvariance, <1>1, PTL

(* Checkpoints are written by the run of a thread that has not ended.      *)
LEMMA NextThreads ==
    ASSUME NEW r, OneAtATime(r), IInv, OnceInv(r), [Next]_vars,
           NEW e \in Executions, thread[e] # None, ExecutionStatus(thread[e]) \in Terminal
    PROVE  thread'[e] = thread[e]
<1>1. r \in Requests /\ \A q \in Requests : q = r
  BY DEF OneAtATime
<1>2. CASE UNCHANGED vars
  BY <1>2 DEF vars, dbVars
<1>3. CASE RestartApi
  BY <1>3 DEF RestartApi, IInv, TypeOK, OneAtATime
<1>4. CASE Arrive(r)
  BY <1>4 DEF Arrive, ReviewCase, StartReviewExecution, ResumeReviewExecution, Accept, dbVars
<1>5. CASE Invoke(r)
  <2>1. Execution(r) # e
    BY <1>5 DEF Invoke, OnceInv, AloneOK
  <2>2. PICK s : thread' = [thread EXCEPT ![Execution(r)] = s]
    BY <1>5 DEF Invoke, Checkpoint
  <2> QED  BY <2>1, <2>2 DEF IInv, TypeOK
<1>6. CASE SpecialistReviews(r) \/ EvidenceConfirmation(r) \/ Synthesize(r)
  <2>1. pc[r] \in Nodes
    BY <1>6 DEF SpecialistReviews, EvidenceConfirmation, Synthesize, Nodes
  <2>2. Execution(r) # e
    BY <1>1, <2>1, InNodeOnce
  <2>3. \E s : thread' = [thread EXCEPT ![Execution(r)] = s]
    BY <1>6 DEF SpecialistReviews, EvidenceConfirmation, Synthesize, Checkpoint
  <2> QED  BY <2>2, <2>3 DEF IInv, TypeOK
<1>7. CASE \/ Start(r) \/ Resume(r) \/ InvokeResume(r) \/ ReadSnapshot(r)
           \/ RunFails(r) \/ ResumeFails(r)
  BY <1>7 DEF Start, Resume, InvokeResume, ReadSnapshot, RunFails, ResumeFails, dbVars
<1>8. CASE Handler(r)
  BY <1>8 DEF Handler, GetExecution, MarkInReview, LogStarted, MarkFailed, LogFailed,
     LogAwaitingInput, LogResumed, MarkNew, LogCancelled, GetReview, FindReview, InsertReview,
     IntegrityError, MarkPending, LogCompleted, Abandon, SetStatus, AppendAuditEvent, dbVars
<1> QED  BY <1>1, <1>2, <1>3, <1>4, <1>5, <1>6, <1>7, <1>8 DEF Next, Graph

(* An execution that has completed or was cancelled stays as it ended.     *)
THEOREM EndedForGood ==
    ASSUME NEW r, OneAtATime(r)
    PROVE  Spec => EndsForGood
<1>1. IInv /\ OnceInv(r) /\ [Next]_vars =>
        [\A e \in Executions :
            thread[e] # None /\ ExecutionStatus(thread[e]) \in Terminal =>
                thread'[e] = thread[e]]_vars
  BY NextThreads
<1> QED  BY Invariance, OnceInvariance, <1>1, PTL DEF Spec, EndsForGood

=============================================================================
