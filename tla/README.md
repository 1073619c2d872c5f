# Verification of the supplier assurance system

TLA+ models of the stateful parts of this repository, checked with TLC on small
instances. Every safety property that a passing run checks is also proved with
TLAPS for every value of the parameters, some of them under a named condition.
Paths below are relative to the repository.

## The system and its parts

A supplier case is reviewed by a graph of model calls; an analyst proposes an
action from the stored review; another person approves or rejects it; the MCP
server executes what was approved in the supplier system. A production workflow
(Step Functions) follows each action and is started through an outbox.

| Part | State | Operations | Hard behaviour | What makes it correct |
|---|---|---|---|---|
| Outbox: `packages/outbox`, `apps/outbox_worker` | `outbox_messages` rows with lease, attempt count, dates | `claim_batch`, `mark_published`, `record_failure`; `dispatch_once`; `run_worker` | several workers, leases that expire during a delivery, crash between start and acknowledgement, backoff and dead letter | leases exclude, failures counted once, publication only with a started workflow, every message settled |
| Workflow adapter: `packages/workflows` | Step Functions executions, named after the action | `start` | lost answers, repeated starts | a repeated start finds the same execution |
| Governed actions: `packages/governance` | `governed_actions`, their audit events, receipts of the supplier system | `propose`, `decide`, `execute` | stale reads between awaits, racing proposals and executions, restarts and replicas of the MCP server | only approved actions are written, once; audit equals history |
| MCP server: `apps/mcp_server` | receipts in memory, per process | `execute_supplier_decision` | replicas, restarts | as above |
| Review graph: `packages/graphs` | LangGraph checkpoints per execution | `start`, `resume`, `get_execution`, nodes | two requests on one thread, interrupted runs, evidence gate, checkpoints lost with the process | no recommendation past the gate, no node rerun, an end is an end |
| Review handlers: `apps/api/main.py`, `packages/persistence/repositories.py` | case status, stored reviews, audit events | `review_case`, `start_review_execution`, `resume_review_execution`, `persist_completed_review`, `save_review` | crash between transactions, stale case status, check-then-insert | a pending case has a review, reviews do not change, completion announced once, what a case shows has a reason |
| Approval machine: `infra/iac/lib/production-stack.ts`, `apps/approval_status` | state of each execution | poll, branch, wait, time out | poll between two transitions, failing poll | the outcome is the committed decision, and decisions arrive |
| Chunker: `packages/retrieval/chunking.py` | the part being filled | `chunk` | boundaries of part, separator and overlap | bounded chunks, no text lost, termination |
| Cases and evidence index: `create_case`, `index_case_documents`, `search_case_evidence`, `packages/retrieval/service.py` | `supplier_cases`, `document_chunks` (or a dictionary), audit events | `create`, `index_case`, `search` | concurrent re-indexing with the same keys, failing embeddings | the index is the whole work of one call, waits end, history is true |
| Deterministic model backend: `packages/model_gateway/deterministic.py` | none | `generate` | several rules and documents | the recommendation follows from the documents |
| Live model adapters, identity, ingestion, settings | see "Not modelled" | | | |

Interaction is through the database (an action, its audit event and its outbox
row are one transaction; the status Lambda reads the committed status), through
calls (API to graph, MCP server to supplier system, worker to Step Functions)
and never through messages between the Python processes.

## Modules

| Module | Models | State ↔ code |
|---|---|---|
| `WorkflowStart` | what the outbox promises | `status`, `started`, `stored` reference |
| `Outbox` | repository, dispatcher, worker loop, start adapter | `row` = `outbox_messages`; `arn` = `governed_actions.workflow_execution_arn`; `messages`, `current_time` = locals of `dispatch_once`; `pc` = the await a worker is at |
| `GovernedAction` | what governance promises of an enterprise write | `proposal`, `decision`, `writes`, `receipt` of each action |
| `Governance` | service, SQL repository, supplier adapter, MCP processes | `actions`, `audit`, `enqueued`, `reviews` = tables; `receipts` = `_receipts` per process; `writes` = history of supplier writes; `action` = local of a request |
| `Reviews` | review graph, its three handlers, `save_review`, the checkpoint backends | `thread` = latest checkpoint; `local` = locals of a handler; `checkpointer` = setting; `ran`, `lost` (cut-off requests), `raised` (resumes that raised), `served`, `restarts` = history and bounds |
| `Assessment` | rules and synthesis of `DeterministicBackend`, and a reference for them | operators only |
| `OfflineReviews` | `Reviews` with the backend of `Assessment` | |
| `Retrieval` | `create_case`, `index_case` of both services | `table` = `document_chunks` or `_chunks`; `snapshot`, `deleted`, `inserted` = what a transaction has seen and done; `known`, `indexed` = history |
| `ApprovalLifecycle` | `Governance` and `Outbox` composed with the polling state machine | `machine` = state of each execution; both components share the proposal transaction |
| `Chunker` | loops of `_bounded_parts` | `current`, `remaining`, … as in the code; `chunk`, `covered` = last output and how far the outputs reach |
| `OutboxProofs`, `OutboxRefinement`, `GovernanceProofs`, `GovernanceRefinement`, `ReviewsProofs`, `RetrievalProofs`, `LifecycleProofs`, `ChunkerProofs` | theorems about the modules they extend | |
| `MC…` | instances for TLC | |

Every database transaction, every external call and every super-step of the
graph is one action. Between two of them everything else may happen: other
requests, the clock, crashes. A request that the code refuses before it changes
anything is not a step. Definitions named `…Early`, `…Unchecked`, `…Always` and
so on, marked *fault seeded*, are wrong variants of the definition that follows
them; each shows that a property notices that mistake. No specification uses
them.

### Decisions in the models

*Outbox.* `claim_batch` is one action although it selects and updates: with `FOR
UPDATE SKIP LOCKED` each row is taken by one of two concurrent claims, and the
batches they get are those of some serial order. What serial execution misses
is a claim that skips a row locked by a claim that then fails; the row is
claimed by a later poll. All processes read one clock, as the code assumes when
it compares `locked_at` of one host with the time of another. A commit whose
answer is lost is a commit followed by `PollFailed`. Rows are never deleted, so
the not-found branches of `mark_published` are unreachable. A worker that is
restarted has its old identity (`hostname-pid` in a container), which is the
harder case for `_require_lease`: only the owner is compared. `available_at` is
an integer because a retry is dated from the clock reading of the claim.

*Governance.* A review stands for the recommendation and the arguments derived
from it, so "what is written is what was proposed" is equality of reviews. The
action id is the pair of the caller's tenant and the key (`uuid5` of both). The
unreachable branch of `execute`'s reload is kept as a state (`internal_error`),
and `LateExecutionAnswered` says that it is never reached; a proposal that
re-raises its `IntegrityError` comes to the same state (`FreshKeyAccepted`), and is
answered like a request that ends. An ended process
loses its requests and its receipts (`RestartMcp`); an API request that ends is
`Abandon`. The refinement into `GovernedAction` reads proposal, decision and
receipt off the row, whose other columns and whose requests in flight the
promise does not mention. The promise completes an action with the receipt of a
write of its own. Clients choose their keys, so the keys that the users of each
tenant choose from are a parameter, `KeysOf`; the promise is checked and proved
for tenants that choose different keys (`KeysApart`), and a run of its own shows
what happens when two choose the same.

*Reviews.* Assumed of LangGraph (marked external in the map): a super-step ends
with a checkpoint; there is no lock per thread; an input on an existing thread
keeps the findings (their reducer adds) and resets what it sets; the latest
checkpoint is the state of the thread. The three specialists are one super-step.
Cases exist from the start, with documents that never change. A model failure in
`start` is `RunFails`, which records it. `resume_review_execution` catches the two
errors of its lookups only, so there a failure is `ResumeFails`: what the run has
checkpointed stays and nothing is recorded. The history variable `raised` names
these executions, and `StatusExplained` says what such a failure may leave behind: a
case in review, or a running execution, that no event accounts for. `Abandon` is
the rest: a client that goes away, or a transaction of the handler that raises.
`RestartApi` replaces the process: with
`CHECKPOINT_BACKEND=memory`, the default, all executions are forgotten while
the database keeps cases, reviews and events. What the model may recommend is a
parameter: anything for a live model, one thing for the deterministic backend.

*Assessment.* A document is the set of the rules' terms that it contains; that no
term spans two joined documents is a fact about the terms. The reference
`Justified` speaks of the documents only and knows no rules, severities or
specialists. Findings are a set, so nothing is said of their order.

*Retrieval.* PostgreSQL at READ COMMITTED is assumed (marked external in the
map): a DELETE works on the rows committed when it begins, waits for each one
that another transaction is deleting and skips it when it is gone; an INSERT
waits for a transaction that has the same key in the making and raises when the
key is taken. Rows are visited in one order by all transactions: they read the
same table with the same plan and insert in the order of `add_all`. PostgreSQL
would break a cycle of waits by an error; `RequestsAnswered` shows that none
arises. Chunk identifiers are derived from document, position and content, so
every indexing of a case inserts the same keys, and a row is told from its
predecessor by the request that wrote it. `search` changes nothing and is left out
(see "Not modelled"). The memory
service replaces a case's list in one assignment after the only await.

*ApprovalLifecycle.* `Enqueue` of `Outbox` and `ProposeInsert` of `Governance`
are the same transaction. An execution that is created begins with
`CheckCommittedApproval`. Service errors of Lambda are retried and change
nothing; any other error fails the task (`CheckRaises`).

*Chunker.* A document is its sections of paragraph lengths; a character is its
number, a separator 0. The split into sections (`_sections`) is not modelled: it
takes headings out of the text, and drops a heading that has no text below it, so
`TextCovered` is about the paragraphs of the sections and not about headings. The lower bound of 200 on `max_chars` is scaled down; all
that matters in the loops is the relation of `max_chars`, the overlap and the
separator, and the instance has paragraphs shorter and longer than each.

## Runs

| Run | Checks | Instance |
|---|---|---|
| `outbox_safety` | types, `PublishedImpliesStarted`, `NoOverlappingDelivery`, `LeaseKept`, `DeadLetterExact`, `AttemptsCountedOnce`, and that `Outbox` implements `WorkflowStart` | 2 workers, 2 messages, lease 2, 2 attempts, clock to 4, 1 crash or database error; symmetric messages and workers |
| `outbox_liveness` | `EventuallySettled` | the same without symmetry, with timely workers and a clock that does not stop |
| `governance_replicas` | types, `WritesAuthorised`, `AuditAgrees`, `ReceiptsAgree`, `LateExecutionAnswered`, `ReceiptOfOwnWrite`, `FreshKeyAccepted`, and that `Governance` implements `GovernedAction` | 2 tenants with a key each, a case with 2 reviews, 3 users of whom a member and an administrator of the other tenant may act on it; 2 API requests and 2 MCP processes (each symmetric), 1 restart |
| `reviews_concurrent` | `GateRespected`, `PendingApprovalHasReview`, `StoredReviewsFixed` | 1 execution, 2 concurrent requests (symmetric), 3 in all, both checkpoint backends, 1 restart |
| `reviews_one_at_a_time` | `NodesRunOnce`, `CompletionAnnouncedOnce`, `EndsForGood`, `StatusExplained`, `RecommendationJustified` | 3 executions of one case with one of 4 dossiers, 4 requests one after the other, each cut off anywhere, runs and resumes that raise, deterministic backend |
| `lifecycle_outcome` | `OutcomeAgrees`, `AppliedOnce`, `DecisionReachesWorkflow` | 1 action, 2 API requests, 2 requests to one MCP process, 1 worker |
| `retrieval_index` | `IndexWhole`, `HistoryTrue`, `RefusedOnlyWhenIndexed`, `RequestsAnswered` | 2 cases of 2 and 1 chunks, 3 request slots, 3 index requests, both backends |
| `chunker` | `ChunksBounded`, `TextCovered`, `ChunkReturns` | `max_chars` 5, overlap 2, all documents of 2 sections, 3 paragraphs, 6 characters |

Why these bounds are enough to meet the interesting cases: a lease of two clock
units and a clock of four let a lease expire, be taken over and expire again
while its first owner still delivers; two attempts distinguish retry from dead
letter; two requests of a kind are what a race needs, and a third one (or a
sequence of four) repeats what was interrupted; two tenants and an administrator
are what scoping of keys and authority needs; two reviews of the case are what a
stale argument needs; three index requests on two chunks are one that
has committed and two that replace its rows at once, in an order that could go
wrong; the four dossiers have each severity, a risk in a later document,
both assurance terms and none; overlap, part and paragraph lengths in `chunker`
take every relation to each other. No safety property uses fairness. The Reviews,
Retrieval and Chunker runs do not check deadlock, because the bound on requests
and the end of the document stop them.

### Disagreements found

Four runs are expected to fail; each checks one sentence of the documentation
or of the code that the code does not keep.

| Run | Sentence | What happens |
|---|---|---|
| `governance_two_processes` | same key enforced across retries and replicas (ADR 0003) | two MCP replicas execute one action at the same time: two writes |
| `governance_shared_key` | the key of an enterprise write is tenant-scoped (ADR 0004, threat model) | the supplier adapter looks receipts up by key alone (`packages/governance/service.py:74`): two tenants use one key, and the second action is stored as executed with the first one's receipt and never written |
| `reviews_repeated_start` | a repeated start reruns no completed node (README) | not if it arrives while the first is still running |
| `reviews_concurrent_save` | `save_review` is idempotent (docstring) | the flush of the second save is outside the `try` |

Five limits have no run of their own. `StatusExplained` fails when a repeated start
runs beside the first one: its late `set_status(IN_REVIEW)` overwrites
`pending_approval` and nothing follows. And since a case has one status for all
its executions, cancelling one sets the case to `new` while another has a review
pending; no property demands otherwise. `FreshKeyAccepted` fails with an
administrator who uses one key for cases of two tenants, because the action id
is derived from the caller's tenant (`packages/governance/service.py:115`): the
proposal ends in an unhandled `IntegrityError`. `ChunkReturns` fails for an
overlap of `max_chars - 2` or `max_chars - 1`, which the constructor accepts: the
overlap leaves no room after a separator, and the same part is emitted for ever.
And one exception of the status Lambda ends an approval execution whose action
is still pending (`CheckRaises`): `addRetry` lists service errors only, and the
name of the execution is taken.

The passing runs of the same components use the conditions under which the
sentence is kept: one MCP process that is not restarted (`AppliedOnce`), tenants
that choose different keys (`ImplementsGovernedAction`, `ReceiptOfOwnWrite`), one
request at a time, an overlap below `max_chars - 2`.

### Fairness

- `outbox_liveness`: the worker process keeps running its loop (`WF` of a
  worker's step: awaits return, `run_worker` loops until it is stopped) and ECS
  restarts a stopped worker (`WF` of `Start`; the service has a desired count).
  Timeliness is an assumption of its own, in `TimelyTick`: a batch is finished
  before its lease expires and a due message is polled within a clock unit. The
  settings do not enforce it (20 messages, 120 s), and it keeps
  `OutboxLeaseLostError` out of this run (`outbox_safety` has it). Without it two workers can
  take a lease from each other for ever while no failure is ever counted: that
  hazard is listed and has no property. The clock goes on without end by moving
  the origin of time, which is sound because the code compares times only.
  Crashes are bounded by `MaxFaults`; a system that crashes in every batch does
  not settle anything.
- `lifecycle_outcome`: Step Functions drives its executions (`WF` of a check or
  of the end of a wait). No fairness of workers or people is assumed: the
  property begins when there is an execution and a decision.
- `retrieval_index`: the event loop and the database carry on with every request
  (`WF` of a request's next step), and the embedding provider answers or raises.
  New requests, and requests that are cut off, are not assumed to happen.
- `chunker`: a sequential loop goes on.

## Proofs

The theorems hold for every set of users, cases, keys, messages, requests,
workers and processes, and every value of the settings and of the bounds
(`MaxTime`, `MaxFaults`, `MaxRequests` and so on are parameters like the others).
What they assume of the parameters is the `ASSUME` of the module that declares
them, which TLC evaluates on the runs of the module: settings are positive, request slots of
the API and of the MCP processes are different, a case has a number of chunks,
NULL is no value of a column. In each component one inductive invariant, `IInv`,
carries all theorems: `Init => IInv`, one lemma per action for
`IInv /\ [Next]_vars => IInv'`, and a short step from `IInv` to the property. None
of the properties is inductive by itself, because a step of one actor relies on
what it read several steps earlier; most of every `IInv` is about that.

### Outbox

`TypeCorrect`, `PublishedStarted`, `DeadLettering`, `Leases`, `Exclusion` prove the
invariants of `outbox_safety`, `Attempts` the action property
`AttemptsCountedOnce`, and `Refinement` in `OutboxRefinement` that the outbox
implements `WorkflowStart`.

`LeaseKept` is not inductive: that a worker within its lease owns its rows depends
on a row being dated with its owner's own clock reading (`OwnerInv`), on clock
readings not lying in the future (`ClockInv`), and on lock and owner being set and
cleared together (`LockInv`). A claim takes a row only if its date is at least a
lease old, and by `OwnerInv` that date is its owner's reading, so the owner has
overrun. `NoOverlappingDelivery` follows because two workers within their leases
would both own the row. `AttemptsCountedOnce` needs the snapshot part of
`OwnerInv`: while the owner is the worker that claimed the row, the count is the
one it read. `PublishedImpliesStarted` needs that a worker acknowledges only what
it has started (`AckInv`), and the refinement that nothing happens to a message
before it is committed (`AbsentInv`) and that an owned row is pending (`LockInv`),
which is why a late worker cannot undo a final state. Steps in which a worker only
drops messages share `DropStep` and `ShrinkKeeps`.

### Governance

| Theorem | States | Condition |
|---|---|---|
| `TypeCorrect`, `Authorised`, `AuditComplete`, `OneReceipt`, `LateExecutions` | `TypeOK`, `WritesAuthorised`, `AuditAgrees`, `ReceiptsAgree`, `LateExecutionAnswered` | none |
| `KeysStayApart` | no two actions share a key (`KeysUnshared`) | tenants choose different keys (`KeysApart`) |
| `Refinement` (`GovernanceRefinement`) | `Spec => Promise!Spec` | `KeysApart` |
| `OwnReceipts` | `ReceiptOfOwnWrite` | in states where no two actions share a key (`KeysUnshared`) |
| `WrittenOnce` | `AppliedOnce` | one MCP process, and as long as it has not been restarted |
| `FreshKeys` | `FreshKeyAccepted` | whoever may propose for a case belongs to its tenant (`ProposersAtHome`) |

The conditions are those without which the sentence is false (see
"Disagreements found"). They are on the deployment, not on the interleaving:
any number of requests may run at once. The number of processes is unbounded in
the others, and `OwnReceipts` needs no single process.

The invariant says what a suspended request may rely on although all it has read
may be stale. A decision that waits for its transaction was made by somebody who
may make it (`DecidingOK`), but the row may have been decided since:
`save_transition` reads it again. An action that is being executed is still
approved by the same person, and perhaps already executed (`ExecutingOK`). That
rests on `RowsAdvance`, a fact about steps: a proposal never changes, what is
approved stays approved by the same person, what is rejected or executed is
final. Hence `WritesAuthorised`, although `execute` does not look at the row again
before it writes. `AuditAgrees` is kept because row and event change in one
transaction whose guard reads the status it changes from. A request at its reload was refused because the row was executed, which
by `RowsAdvance` is for good, hence `LateExecutionAnswered`. `ReceiptsAgree` needs
that a receipt is handed out only of an executed row (`ReturnedOK`). For the
refinement each action is matched: the insert is the proposal, `DecideSave` the
decision, `ExecuteCall` without an earlier receipt a write, `ExecuteSave` the
completion, and the rest leaves proposal, decision, writes and receipt alone.
That the completion is by a write of the action itself is where `KeysApart` is
needed: a receipt is found by its key, and the action id is the proposer's tenant
and key (`KeyInv`), so actions with one key are one action.

### Reviews and the deterministic backend

`TypeCorrect`, `GateKept`, `PendingReviewed` and the action property `ReviewsFixed`
hold for any number of requests that work on one thread at once, and for both
checkpoint backends. The invariant classifies the graph's states (`GraphOK`: where
a recommendation may be, what has passed the gate), and demands it of checkpoints,
of stored reviews and of the copy in the memory of each request: a request that
was overtaken still writes a legal state. `Given` adds that a recommendation is
one the backend makes on the documents of the case.

`BackendJustified` is about the operators of `Assessment`: for every sequence of
documents the recommendation that the rules, the search for evidence and the
synthesis arrive at is the one `Justified` demands. That a term in *some* document
is in a *first* one is an induction; it is written as the choice of a least index
(`LeastNat`, from the well-foundedness of the natural numbers), because no prover
instantiates the induction rule. `ReviewsJustified`
then states `RecommendationJustified` for a backend that gives what the
deterministic one gives; a live model may recommend anything and no such theorem
holds.

`NodesOnce`, `AnnouncedOnce`, `StatusReasons` and the action property
`EndedForGood` hold under `OneAtATime`: one request slot and PostgreSQL
checkpoints, with any number of executions and of requests one after the other,
each cut off anywhere, and any number of restarts. Two violation runs show why the
condition is needed. Their invariant, `OnceInv`, adds to `IInv` that what the
request has read is still true (`AloneOK`), that the count of a node's runs is
bounded by what the thread says has been passed (`RunsOK`), that no findings are
added twice and a stored review is what its thread ended with (`ThreadsOnce`), and
what status change the request still owes its case (`StatusOK`), where an
execution whose resume raised before it had a review keeps its case in review.

### Retrieval

`TypeCorrect`, `WholeIndex`, `TrueHistory`, `RefusalsJustified`: the invariants of `retrieval_index`, for any number of concurrent index requests.
An open transaction deletes committed rows of its own case, inserts a prefix of
its chunks, and no key of an inserted row is in the table other than in a row it
deletes itself (`TransactionOK`); no two transactions delete the same row or insert
the same key (`ApartOK`). So when a transaction that has inserted all its chunks
commits, every row of the case that is left is one of its own. `HistoryTrue`
counts: events plus requests that have still to log theirs are at most the
indexings (`CaseOK`), which needs the finiteness of the request slots.

### Approval lifecycle

`GovernanceImplemented` and `OutboxImplemented` show that the composition behaves
like each component, so that all theorems above hold in it. The second one needs
the invariant of the first, because the message of a proposal is named by what the
request holds. `OutcomesCommitted` proves `OutcomeAgrees`
from the invariants of both: an execution exists only for a committed proposal
(Outbox), rows do not leave a final status (`RowsAdvance` of Governance), and the
machine ends only with a status that it has read. The facts about the outbox are
taken from `OutboxRefinement` by `INSTANCE`, not proved again. Two results are
about the whole system: `OutcomesAuthorised`, that a workflow reports only
decisions of somebody else than the proposer with authority in the tenant, and
`PromisesKept`, that the composition implements `GovernedAction` and
`WorkflowStart` at once, when tenants choose different keys.

### Chunker

`Bounded` and `Covered` prove `ChunksBounded` and the action property
`TextCovered` for every document, every `max_chars` and every overlap that the
constructor accepts. The invariant: what remains of a paragraph follows what was
taken (`RemainingOK`); the part being filled is a stretch of the document that
ends with the last character taken and reaches back to the first one that no chunk
has (`CurrentOK`). A stretch is stated by values (characters increase, none between
two is missing) because that survives concatenation and cutting; that it is
`Consecutive` by position follows by the choice of a least index.

### Only model-checked

- Liveness: `EventuallySettled`, `DecisionReachesWorkflow`, `RequestsAnswered`,
  `ChunkReturns`. Fairness and `ENABLED` are out of the prover's reach.
- The four violations, which are counterexamples of an instance.

## Not modelled

- The `InMemory…` repositories, for tests and offline development. Their calls do
  not suspend while they change anything (no lock in them is held over an await
  that waits), so to a handler they are atomic transactions; the MCP server
  refuses to run on them. Two differences from the SQL repository are not
  covered: `get` takes no lock and would show a transition whose audit event
  fails, which the wired writer cannot; and an action id that an administrator
  reuses in a second tenant overwrites the first action instead of being refused.
- Routes that only read: `get_case`, `get_review_execution`, `get_latest_review`,
  `list_audit_events`, `get_action`, `health`.
- Live model adapters, the document parser and the agent runtime: one external
  call, no state. `Reviews` lets a live model recommend anything or raise.
- `search`: it reads once, without a lock, so the rows it can see are the committed
  ones that `IndexWhole` describes. Which of them it returns, and how many, is not
  stated: distances are data, and with the HNSW index of the migration
  (`apps/api/migrations/versions/0001_initial.py:63`) the filter on the case may be
  applied after an approximate scan, so that a search of an indexed case returns
  fewer rows than the limit, or none.
- Token validation (PyJWT) and the mapping of claims to roles; the checks on roles
  and tenants are in `Governance`.
- Settings, secrets, migrations and wiring, other than the choice of the
  checkpointer; infrastructure other than the approval machine; the
  callback-token workflow (not deployed, ADR 0006); scripts and evaluation.

## Plan

1. Done: `WorkflowStart`, `Outbox`; `Governance` with its refinement of
   `GovernedAction`; `Reviews` with `Assessment` and `OfflineReviews`;
   `ApprovalLifecycle`; `Chunker`; `Retrieval`; the proofs of all safety
   properties and of both refinements, and those about the composition.
2. Left: weaker conditions where the proofs suggest them (one request per case
   instead of one request in `OneAtATime`; PostgreSQL checkpoints are needed only
   across a restart).
