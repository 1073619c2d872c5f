------------------------------ MODULE Reviews -------------------------------
(***************************************************************************)
(* Checkpointed supplier reviews: the review graph, the three API handlers *)
(* that run it and the persistence of its result.                          *)
(*                                                                         *)
(* packages/graphs/supplier_review.py    start, resume and the graph nodes *)
(* apps/api/main.py                      review_case,                      *)
(*                                       start_review_execution,           *)
(*                                       resume_review_execution           *)
(* packages/persistence/repositories.py  set_status, save_review           *)
(*                                                                         *)
(* A request is a coroutine that stops at every await: each database       *)
(* transaction and each super-step of the graph is one action, and what a  *)
(* request read earlier may be stale.  Nothing in LangGraph or in the code *)
(* keeps two requests from running one thread at the same time; each runs  *)
(* on the state it loaded, and the last checkpoint written is the thread's *)
(* state.  Only requests of authorised analysts are modelled: the others   *)
(* are refused before they change anything.                                *)
(***************************************************************************)
EXTENDS Integers, FiniteSets

CONSTANTS
    Cases,           \* supplier cases
    Executions,      \* review executions (LangGraph threads)
    CaseOf,          \* the case each execution reviews
    Unkeyed,         \* executions of review_case, whose uuid4 nobody repeats
    Dossiers,        \* what the documents of a case may be
    Decisions,       \* recommendations
    Recommendations(_), \* those the model backend may give on documents
    Checkpointers,   \* values of settings.checkpoint_backend
    Requests,        \* request slots of the API
    MaxRequests,     \* bound: requests served
    MaxRestarts,     \* bound: restarts of the API process
    None             \* Python None

ASSUME ReviewsAssumption ==
    /\ CaseOf \in [Executions -> Cases]
    /\ Unkeyed \subseteq Executions
    /\ Checkpointers \subseteq {"memory", "postgres"}
    /\ MaxRequests \in Nat
    /\ MaxRestarts \in Nat
    /\ None \notin Decisions
    /\ \A d \in Dossiers : Recommendations(d) \subseteq Decisions

VARIABLES
    checkpointer,    \* the configured checkpoint backend
    documents,       \* the documents of each case
    case_status,     \* supplier_cases.status
    thread,          \* the latest checkpoint of each execution
    reviews,         \* review_runs with their findings
    audit,           \* how often each event was appended for an execution
    pc,              \* where each request is
    local,           \* the locals of each request
    ran,             \* how often each node of an execution has completed
    lost,            \* executions with a request that was cut off
    raised,          \* executions whose run has raised in a resume
    served,          \* requests accepted so far
    restarts         \* restarts of the API process so far

dbVars == <<case_status, thread, reviews, audit>>
restVars == <<checkpointer, documents, lost, raised, restarts>>
vars == <<dbVars, pc, local, ran, served, restVars>>

-----------------------------------------------------------------------------

Nodes == {"specialists", "evidence_confirmation", "synthesize"}

Events == {"started", "awaiting_input", "resumed", "completed", "cancelled", "failed"}

(* ReviewGraphState and the position in the graph.  The three specialists  *)
(* run in one super-step, so findings is the number of times that all of   *)
(* them have added theirs.                                                 *)
State == [next : Nodes \cup {"end"}, interrupted : BOOLEAN, findings : Nat,
          require : BOOLEAN, confirmation : {"confirm", "reject", None},
          cancelled : BOOLEAN, recommendation : Decisions \cup {None}]

ASSUME NoneAssumption == None \notin State

(* _execution_from_snapshot                                                *)
ExecutionStatus(s) ==
    IF s.cancelled THEN "cancelled"
    ELSE IF s.recommendation # None THEN "completed"
    ELSE IF s.interrupted THEN "awaiting_input"
    ELSE "running"

Terminal == {"completed", "cancelled"}

(* The locals of a handler: supplier_case.status and the execution's       *)
(* status as first read (None: not found), the payload, and the graph      *)
(* state of the run or of the snapshot.                                    *)
Local == [kind : {"review", "start", "resume"}, execution : Executions,
          require : BOOLEAN, decision : {"confirm", "reject", None},
          supplier_case : {"new", "in_review", "pending_approval", "review_failed"},
          current : {"running", "awaiting_input", "completed", "cancelled", None},
          state : State \cup {None}]

(* Fault seeded in start: the confirmation starts as a status, not None.   *)
FreshUnconfirmed(require) ==
    [next |-> "specialists", interrupted |-> FALSE, findings |-> 0,
     require |-> require, confirmation |-> "pending", cancelled |-> FALSE,
     recommendation |-> None]

(* The initial state of a run.                                             *)
Fresh(require) ==
    [next |-> "specialists", interrupted |-> FALSE, findings |-> 0,
     require |-> require, confirmation |-> None, cancelled |-> FALSE,
     recommendation |-> None]

(* Faults seeded in start and get_execution: an execution that is still    *)
(* running, or one that has ended, counts as absent.                       *)
ExistsEnded(e) == thread[e] # None /\ ExecutionStatus(thread[e]) # "running"
ExistsOpen(e) == thread[e] # None /\ ExecutionStatus(thread[e]) \notin Terminal

(* aget_state(config).values is not empty.                                 *)
Exists(e) == thread[e] # None

-----------------------------------------------------------------------------

(* Cases as create_case leaves them, before anything is reviewed.          *)
Init ==
    /\ checkpointer \in Checkpointers
    /\ documents \in [Cases -> Dossiers]
    /\ case_status = [c \in Cases |-> "new"]
    /\ thread = [e \in Executions |-> None]
    /\ reviews = [e \in Executions |-> None]
    /\ audit = [e \in Executions |-> [t \in Events |-> 0]]
    /\ pc = [r \in Requests |-> "idle"]
    /\ local = [r \in Requests |-> None]
    /\ ran = [e \in Executions |-> [n \in Nodes |-> 0]]
    /\ lost = {}
    /\ raised = {}
    /\ served = 0
    /\ restarts = 0

Execution(r) == local[r].execution

Goto(r, where) == pc' = [pc EXCEPT ![r] = where]

(* The request is answered, with a result or an error.                     *)
Respond(r) == Goto(r, "idle") /\ local' = [local EXCEPT ![r] = None]

(* The handler goes on, or answers when nothing is left to do.             *)
Continue(r, where) ==
    IF where = "idle" THEN Respond(r) ELSE Goto(r, where) /\ UNCHANGED local

(* A request arrives and get_authorized_case reads the case.               *)
Accept(r, e, kind, require, decision) ==
    /\ pc[r] = "idle"
    /\ served < MaxRequests
    /\ served' = served + 1
    /\ local' = [local EXCEPT ![r] =
            [kind |-> kind, execution |-> e, require |-> require,
             decision |-> decision, supplier_case |-> case_status[CaseOf[e]],
             current |-> None, state |-> None]]
    /\ UNCHANGED <<dbVars, ran, restVars>>

ReviewCase(r, e) ==
    /\ e \in Unkeyed /\ audit[e]["started"] = 0
    /\ \A q \in Requests : pc[q] # "idle" => Execution(q) # e
    /\ Accept(r, e, "review", FALSE, None)
    /\ Goto(r, "mark_in_review")

StartReviewExecution(r, e, require) ==
    /\ e \notin Unkeyed
    /\ Accept(r, e, "start", require, None)
    /\ Goto(r, "get_execution")

ResumeReviewExecution(r, e, decision) ==
    /\ Accept(r, e, "resume", FALSE, decision)
    /\ Goto(r, "get_execution")

(* set_status and append_audit_event, one transaction each.                *)
SetStatus(r, at, status, where) ==
    /\ pc[r] = at
    /\ case_status' = [case_status EXCEPT ![CaseOf[Execution(r)]] = status]
    /\ Goto(r, where)
    /\ UNCHANGED <<thread, reviews, audit, local, ran, served, restVars>>

AppendAuditEvent(r, at, event, where) ==
    /\ pc[r] = at
    /\ audit' = [audit EXCEPT ![Execution(r)][event] = @ + 1]
    /\ Continue(r, where)
    /\ UNCHANGED <<case_status, thread, reviews, ran, served, restVars>>

(* Where a handler with locals l goes once it has an execution's status:   *)
(* the end of run, start_review_execution and resume_review_execution.     *)
Settle(l, status) ==
    IF status = "completed" THEN "get_review"
    ELSE IF l.kind = "review" THEN "mark_failed"
    ELSE IF /\ status = "cancelled"
            /\ \/ l.supplier_case = "in_review"
               \/ l.kind = "resume" /\ l.current = "awaiting_input"
         THEN "mark_new"
    ELSE IF l.kind = "start" /\ l.current = None /\ status = "awaiting_input"
         THEN "log_awaiting_input"
    ELSE "idle"

(* The handler has an execution, read as state s.                          *)
Obtain(r, l, s) ==
    LET where == IF l.kind = "resume" /\ l.current = "awaiting_input"
                 THEN "log_resumed" ELSE Settle(l, ExecutionStatus(s))
    IN  IF where = "idle" THEN Respond(r)
        ELSE Goto(r, where) /\ local' = [local EXCEPT ![r] = [l EXCEPT !.state = s]]

(* get_execution, called by both handlers.  start goes on to create an     *)
(* execution it does not find; resume answers 404.                         *)
GetExecution(r) ==
    LET s    == thread[Execution(r)]
        read == [local[r] EXCEPT !.current = ExecutionStatus(s)]
    IN
    /\ pc[r] = "get_execution"
    /\ CASE Exists(Execution(r)) /\ read.kind = "start" -> Obtain(r, read, s)
         [] Exists(Execution(r)) /\ read.kind = "resume" ->
                Goto(r, "resume") /\ local' = [local EXCEPT ![r] = read]
         [] ~Exists(Execution(r)) ->
                Continue(r, IF local[r].kind = "start" THEN "mark_in_review" ELSE "idle")
    /\ UNCHANGED <<dbVars, ran, served, restVars>>

MarkInReview(r) == SetStatus(r, "mark_in_review", "in_review", "log_started")
LogStarted(r) == AppendAuditEvent(r, "log_started", "started", "start")

-----------------------------------------------------------------------------
(* The graph.  A super-step ends with a checkpoint, which is from then on  *)
(* the thread's state.                                                     *)

Checkpoint(r, s) ==
    /\ thread' = [thread EXCEPT ![Execution(r)] = s]
    /\ local' = [local EXCEPT ![r].state = s]
    /\ Goto(r, IF s.interrupted THEN "end" ELSE s.next)
    /\ UNCHANGED <<case_status, reviews, audit, served, restVars>>

Completed(r, node) == ran' = [ran EXCEPT ![Execution(r)][node] = @ + 1]

(* start: an execution that exists by now is only looked at.               *)
Start(r) ==
    /\ pc[r] = "start"
    /\ IF Exists(Execution(r))
       THEN Obtain(r, local[r], thread[Execution(r)])
       ELSE Goto(r, "invoke") /\ UNCHANGED local
    /\ UNCHANGED <<dbVars, ran, served, restVars>>

(* ainvoke with the initial state.  On a thread that has a checkpoint by   *)
(* now, the input replaces every field but the findings, which are added.  *)
Invoke(r) ==
    LET old == thread[Execution(r)] IN
    /\ pc[r] = "invoke"
    /\ Checkpoint(r, [Fresh(local[r].require) EXCEPT
                        !.findings = IF old = None THEN 0 ELSE old.findings])
    /\ UNCHANGED ran

(* resume: a terminal execution is returned, one that does not wait for an *)
(* answer is a conflict, and ainvoke continues from the checkpoint.        *)
Resume(r) ==
    LET s == thread[Execution(r)] IN
    /\ pc[r] = "resume"
    /\ CASE ExecutionStatus(s) \in Terminal -> Obtain(r, local[r], s)
         [] ExecutionStatus(s) = "running" -> Respond(r)
         [] ExecutionStatus(s) = "awaiting_input" ->
                Goto(r, "invoke_resume") /\ UNCHANGED local
    /\ UNCHANGED <<dbVars, ran, served, restVars>>

InvokeResume(r) ==
    LET s == thread[Execution(r)] IN
    /\ pc[r] = "invoke_resume"
    /\ local' = [local EXCEPT ![r].state = s]
    /\ Goto(r, s.next)
    /\ UNCHANGED <<dbVars, ran, served, restVars>>

(* _security_review, _legal_review and _financial_review, all successful.  *)
SpecialistReviews(r) ==
    LET s == local[r].state IN
    /\ pc[r] = "specialists"
    /\ Checkpoint(r, [s EXCEPT !.findings = @ + 1, !.next = "evidence_confirmation"])
    /\ Completed(r, "specialists")

(* Fault seeded in the graph's conditional edge: rejection goes on.        *)
AfterEvidenceConfirmationAlways(cancelled) == "synthesize"

(* _after_evidence_confirmation                                            *)
AfterEvidenceConfirmation(cancelled) == IF cancelled THEN "end" ELSE "synthesize"

(* _evidence_confirmation: not asked for; asked for and not answered yet   *)
(* (interrupt ends the run); answered by the resume that runs it.          *)
EvidenceConfirmation(r) ==
    LET s == local[r].state
        cancelled == local[r].decision = "reject"
    IN
    /\ pc[r] = "evidence_confirmation"
    /\ \/ /\ ~s.require
          /\ Checkpoint(r, [s EXCEPT !.next = AfterEvidenceConfirmation(s.cancelled)])
          /\ Completed(r, "evidence_confirmation")
       \/ /\ s.require /\ local[r].decision = None
          /\ Checkpoint(r, [s EXCEPT !.interrupted = TRUE])
          /\ UNCHANGED ran
       \/ /\ s.require /\ local[r].decision # None
          /\ Checkpoint(r, [s EXCEPT !.interrupted = FALSE,
                                     !.confirmation = local[r].decision,
                                     !.cancelled = cancelled,
                                     !.next = AfterEvidenceConfirmation(cancelled)])
          /\ Completed(r, "evidence_confirmation")

(* _synthesize, with whatever the model backend recommends.                *)
Synthesize(r) ==
    LET s == local[r].state IN
    /\ pc[r] = "synthesize"
    /\ \E decision \in Recommendations(documents[CaseOf[Execution(r)]]) :
            Checkpoint(r, [s EXCEPT !.recommendation = decision, !.next = "end"])
    /\ Completed(r, "synthesize")

(* ainvoke has returned; the handler continues with the thread's latest    *)
(* checkpoint, which another run may have written.                         *)
ReadSnapshot(r) ==
    /\ pc[r] = "end"
    /\ Obtain(r, local[r], thread[Execution(r)])
    /\ UNCHANGED <<dbVars, ran, served, restVars>>

(* Fault seeded in start_review_execution: a failed run is not recorded.   *)
RunFailsUnrecorded(r) ==
    /\ pc[r] \in Nodes \cup {"start", "invoke", "end"}
    /\ local[r].kind # "resume"
    /\ Respond(r)
    /\ UNCHANGED <<dbVars, ran, served, restVars>>

(* A model call, its validation or a database access of the run raises.    *)
(* review_case and start record it.                                        *)
RunFails(r) ==
    /\ pc[r] \in Nodes \cup {"start", "invoke", "end"}
    /\ local[r].kind # "resume"
    /\ Goto(r, "mark_failed")
    /\ UNCHANGED <<dbVars, local, ran, served, restVars>>

(* The same in resume_review_execution, which catches the two errors of    *)
(* its lookups only: the exception leaves the handler and nothing is       *)
(* recorded.  What the run has checkpointed by then stays.                 *)
ResumeFails(r) ==
    /\ pc[r] \in Nodes \cup {"get_execution", "resume", "invoke_resume", "end"}
    /\ local[r].kind = "resume"
    /\ raised' = IF pc[r] \in Nodes \cup {"end"} THEN raised \cup {Execution(r)} ELSE raised
    /\ Respond(r)
    /\ UNCHANGED <<dbVars, ran, served, checkpointer, documents, lost, restarts>>

MarkFailed(r) == SetStatus(r, "mark_failed", "review_failed", "log_failed")
LogFailed(r) == AppendAuditEvent(r, "log_failed", "failed", "idle")

LogAwaitingInput(r) == AppendAuditEvent(r, "log_awaiting_input", "awaiting_input", "idle")

LogResumed(r) ==
    AppendAuditEvent(r, "log_resumed", "resumed", Settle(local[r], ExecutionStatus(local[r].state)))

MarkNew(r) == SetStatus(r, "mark_new", "new", "log_cancelled")
LogCancelled(r) == AppendAuditEvent(r, "log_cancelled", "cancelled", "idle")

-----------------------------------------------------------------------------
(* persist_completed_review and save_review.                               *)

(* Faults seeded in persist_completed_review: an earlier review is not     *)
(* looked for; the case is moved on without saving the review.             *)
GetReviewSkipped(r) ==
    /\ pc[r] = "get_review"
    /\ Goto(r, "find_review")
    /\ UNCHANGED <<dbVars, local, ran, served, restVars>>
GetReviewUnsaved(r) ==
    /\ pc[r] = "get_review"
    /\ Continue(r, IF reviews[Execution(r)] # None THEN "idle" ELSE "mark_pending")
    /\ UNCHANGED <<dbVars, ran, served, restVars>>

GetReview(r) ==
    /\ pc[r] = "get_review"
    /\ Continue(r, IF reviews[Execution(r)] # None THEN "idle" ELSE "find_review")
    /\ UNCHANGED <<dbVars, ran, served, restVars>>

(* save_review's session.get                                               *)
FindReview(r) ==
    /\ pc[r] = "find_review"
    /\ Goto(r, IF reviews[Execution(r)] # None THEN "mark_pending" ELSE "insert_review")
    /\ UNCHANGED <<dbVars, local, ran, served, restVars>>

(* Fault seeded in save_review: the row is merged, not inserted.           *)
InsertReviewMerged(r) ==
    /\ pc[r] = "insert_review"
    /\ reviews' = [reviews EXCEPT ![Execution(r)] = local[r].state]
    /\ Goto(r, "mark_pending")
    /\ UNCHANGED <<case_status, thread, audit, local, ran, served, restVars>>

(* The INSERTs.  A review that another request has saved meanwhile makes   *)
(* the flush raise, outside the try; findings that occur twice in the      *)
(* state make the commit raise if the model repeats their identifiers, and *)
(* get_review then finds nothing.                                          *)
InsertReview(r) ==
    LET e == Execution(r) IN
    /\ pc[r] = "insert_review"
    /\ \/ /\ reviews[e] # None
          /\ Goto(r, "integrity_error")
          /\ UNCHANGED <<reviews, local>>
       \/ /\ reviews[e] = None
          /\ reviews' = [reviews EXCEPT ![e] = local[r].state]
          /\ Goto(r, "mark_pending")
          /\ UNCHANGED local
       \/ /\ reviews[e] = None
          /\ local[r].state.findings > 1
          /\ Respond(r)
          /\ UNCHANGED reviews
    /\ UNCHANGED <<case_status, thread, audit, ran, served, restVars>>

(* The IntegrityError of the flush leaves the handler.                     *)
IntegrityError(r) ==
    /\ pc[r] = "integrity_error"
    /\ Respond(r)
    /\ UNCHANGED <<dbVars, ran, served, restVars>>

MarkPending(r) == SetStatus(r, "mark_pending", "pending_approval", "log_completed")
LogCompleted(r) == AppendAuditEvent(r, "log_completed", "completed", "idle")

(* The client goes away in mid-request, or a transaction of the handler's  *)
(* own raises, which no handler catches.                                   *)
Abandon(r) ==
    /\ pc[r] # "idle"
    /\ Respond(r)
    /\ lost' = lost \cup {Execution(r)}
    /\ UNCHANGED <<dbVars, ran, served, checkpointer, documents, raised, restarts>>

(* The API process is replaced: its requests are cut off, and with an      *)
(* InMemorySaver all executions are forgotten.                             *)
RestartApi ==
    /\ restarts < MaxRestarts
    /\ restarts' = restarts + 1
    /\ lost' = lost \cup {Execution(r) : r \in {q \in Requests : pc[q] # "idle"}}
    /\ pc' = [r \in Requests |-> "idle"]
    /\ local' = [r \in Requests |-> None]
    /\ IF checkpointer = "memory" THEN thread' = [e \in Executions |-> None]
       ELSE UNCHANGED thread
    /\ UNCHANGED <<case_status, reviews, audit, ran, served, checkpointer, documents, raised>>

Arrive(r) ==
    \E e \in Executions :
        \/ ReviewCase(r, e)
        \/ \E require \in BOOLEAN : StartReviewExecution(r, e, require)
        \/ \E decision \in {"confirm", "reject"} : ResumeReviewExecution(r, e, decision)

Graph(r) ==
    \/ Start(r) \/ Invoke(r) \/ Resume(r) \/ InvokeResume(r)
    \/ SpecialistReviews(r) \/ EvidenceConfirmation(r) \/ Synthesize(r)
    \/ ReadSnapshot(r) \/ RunFails(r) \/ ResumeFails(r)

Handler(r) ==
    \/ GetExecution(r) \/ MarkInReview(r) \/ LogStarted(r)
    \/ MarkFailed(r) \/ LogFailed(r) \/ LogAwaitingInput(r) \/ LogResumed(r)
    \/ MarkNew(r) \/ LogCancelled(r)
    \/ GetReview(r) \/ FindReview(r) \/ InsertReview(r) \/ IntegrityError(r)
    \/ MarkPending(r) \/ LogCompleted(r)
    \/ Abandon(r)

Next ==
    \/ \E r \in Requests : Arrive(r) \/ Graph(r) \/ Handler(r)
    \/ RestartApi

Spec == Init /\ [][Next]_vars

-----------------------------------------------------------------------------
(* Properties.                                                             *)

TypeOK ==
    /\ checkpointer \in Checkpointers
    /\ documents \in [Cases -> Dossiers]
    /\ case_status \in [Cases -> {"new", "in_review", "pending_approval", "review_failed"}]
    /\ thread \in [Executions -> State \cup {None}]
    /\ reviews \in [Executions -> State \cup {None}]
    /\ audit \in [Executions -> [Events -> Nat]]
    /\ pc \in [Requests -> Nodes \cup
            {"idle", "get_execution", "mark_in_review", "log_started", "start", "invoke",
             "resume", "invoke_resume", "end", "mark_failed", "log_failed",
             "log_awaiting_input", "log_resumed", "mark_new", "log_cancelled",
             "get_review", "find_review", "insert_review", "integrity_error",
             "mark_pending", "log_completed"}]
    /\ local \in [Requests -> Local \cup {None}]
    /\ ran \in [Executions -> [Nodes -> Nat]]
    /\ lost \subseteq Executions
    /\ raised \subseteq Executions
    /\ served \in Nat
    /\ restarts \in 0..MaxRestarts

(* No recommendation past the gate: where confirmation was asked for, an   *)
(* analyst confirmed the evidence before anything was synthesised, and     *)
(* what is stored has all specialists' findings (_evidence_confirmation,   *)
(* _after_evidence_confirmation and the joining edge), although requests   *)
(* run the same thread at the same time.                                   *)
GateRespected ==
    \A e \in Executions : \A s \in {thread[e], reviews[e]} \ {None} :
        /\ s.recommendation # None /\ s.require => s.confirmation = "confirm"
        /\ s.recommendation # None => s.findings > 0 /\ ~s.cancelled
        /\ s = reviews[e] => s.recommendation # None

(* A case that waits for approval has a stored review to propose from, in  *)
(* spite of crashes between the transactions of persist_completed_review.  *)
PendingApprovalHasReview ==
    \A c \in Cases :
        case_status[c] = "pending_approval" =>
            \E e \in Executions : CaseOf[e] = c /\ reviews[e] # None

(* A stored review never changes, whatever runs of its thread end later:   *)
(* a proposal made from it stays what was reviewed (save_review).          *)
StoredReviewsFixed ==
    [][\A e \in Executions : reviews[e] # None => reviews'[e] = reviews[e]]_vars

(* Repeating a start or redelivering a resume reruns no completed node of  *)
(* the graph (README; the lookups of start, get_execution and resume).     *)
NodesRunOnce == \A e \in Executions, n \in Nodes : ran[e][n] <= 1

(* An execution that has completed or was cancelled stays as it ended,     *)
(* also when the start is repeated or a late answer arrives.               *)
EndsForGood ==
    [][\A e \in Executions :
        thread[e] # None /\ ExecutionStatus(thread[e]) \in Terminal =>
            thread'[e] = thread[e]]_vars

(* A review is announced as completed at most once, and only when it is    *)
(* stored, although its persistence may be interrupted and repeated        *)
(* (persist_completed_review).                                             *)
CompletionAnnouncedOnce ==
    \A e \in Executions :
        /\ audit[e]["completed"] <= 1
        /\ audit[e]["completed"] = 1 => reviews[e] # None

(* Nothing of the case's executions is under way or was cut off.           *)
Quiet(c) ==
    /\ \A r \in Requests : pc[r] # "idle" => CaseOf[Execution(r)] # c
    /\ \A e \in lost : CaseOf[e] # c

(* What a case shows has a reason: it is review_failed only after a        *)
(* recorded failure; it is in_review only while an execution waits for an  *)
(* answer, or a run has raised in a resume and its execution has no review *)
(* yet; and an execution is running only if it failed, recorded by a start *)
(* or unrecorded in a resume.  Nothing is said of a case with a request    *)
(* that was cut off, which may leave it in_review and the execution        *)
(* running (review_case, start_review_execution, resume_review_execution). *)
StatusExplained ==
    \A c \in Cases : Quiet(c) =>
        LET Of(e) == CaseOf[e] = c /\ thread[e] # None IN
        /\ case_status[c] = "in_review" =>
                \E e \in Executions :
                    /\ Of(e)
                    /\ \/ ExecutionStatus(thread[e]) = "awaiting_input"
                       \/ e \in raised /\ reviews[e] = None
        /\ case_status[c] = "review_failed" =>
                \E e \in Executions : CaseOf[e] = c /\ audit[e]["failed"] > 0
        /\ \A e \in Executions :
                Of(e) /\ ExecutionStatus(thread[e]) = "running" =>
                    audit[e]["failed"] > 0 \/ e \in raised

(* Saving a review that another request has saved is not an error          *)
(* (save_review is documented as idempotent).                              *)
SaveIdempotent == \A r \in Requests : pc[r] # "integrity_error"

=============================================================================
