----------------------------- MODULE Retrieval ------------------------------
(***************************************************************************)
(* Supplier cases and their evidence index: creating a case and indexing   *)
(* its documents.  Searches only read, and are not modelled.               *)
(*                                                                         *)
(* packages/retrieval/service.py     InMemoryRetrievalService and          *)
(*                                   PgVectorRetrievalService              *)
(* packages/retrieval/embeddings.py  the awaited embedding provider        *)
(* packages/persistence/repositories.py  create, append_audit_event        *)
(* apps/api/main.py                  create_case, index_case_documents     *)
(*                                                                         *)
(* The documents of a case never change and chunk identifiers are derived  *)
(* from them, so every indexing of a case inserts the same primary keys    *)
(* 1..ChunkCount[case], in that order.  A row is told from an earlier row  *)
(* with its key by the transaction that inserted it.  PostgreSQL runs at   *)
(* READ COMMITTED: the DELETE sees the rows committed when it begins and   *)
(* waits for each one that another transaction is deleting; an INSERT      *)
(* waits for a transaction that has its key in the making.  Only           *)
(* authorised requests are modelled.                                       *)
(***************************************************************************)
EXTENDS Integers, Sequences, FiniteSets

CONSTANTS
    Cases,           \* supplier cases
    ChunkCount,      \* chunks the StructuralChunker makes of each case
    Requests,        \* request slots of the API
    Backends,        \* values of settings.repository_backend
    MaxRequests,     \* bound: index requests served
    None             \* Python None

ASSUME RetrievalAssumption ==
    /\ ChunkCount \in [Cases -> Nat]
    /\ IsFiniteSet(Requests)
    /\ Backends \subseteq {"memory", "postgres"}
    /\ MaxRequests \in Nat \ {0}

VARIABLES
    backend,         \* the configured backend
    cases,           \* supplier_cases with their documents
    known,           \* cases whose identifier a client was given
    table,           \* document_chunks as committed, or self._chunks
    snapshot,        \* rows a request's DELETE has still to visit
    deleted,         \* rows its transaction has deleted
    inserted,        \* rows its transaction has inserted
    pc,              \* where each request is
    local,           \* the locals of each request
    indexed,         \* how often each case's index was replaced
    audit,           \* audit_events of each case, oldest first
    served           \* index requests accepted so far

txVars == <<snapshot, deleted, inserted>>
caseVars == <<backend, cases, known>>
vars == <<caseVars, table, txVars, pc, local, indexed, audit, served>>

-----------------------------------------------------------------------------

Row == [case_id : Cases, position : Nat, tx : 1..MaxRequests]

Local == [case_id : Cases, tx : 1..MaxRequests \cup {None}]

RowsOf(case, rows) == {x \in rows : x.case_id = case}

(* What one indexing of a case stores.                                     *)
Chunks(case, tx) ==
    {[case_id |-> case, position |-> i, tx |-> tx] : i \in 1..ChunkCount[case]}

Others(r) == Requests \ {r}

Init ==
    /\ backend \in Backends
    /\ cases = {}
    /\ known = {}
    /\ table = {}
    /\ snapshot = [r \in Requests |-> {}]
    /\ deleted = [r \in Requests |-> {}]
    /\ inserted = [r \in Requests |-> {}]
    /\ pc = [r \in Requests |-> "idle"]
    /\ local = [r \in Requests |-> None]
    /\ indexed = [c \in Cases |-> 0]
    /\ audit = [c \in Cases |-> <<>>]
    /\ served = 0

Goto(r, where) == pc' = [pc EXCEPT ![r] = where]

(* The transaction of a request is over: its locks are released.           *)
EndTransaction(r) ==
    /\ snapshot' = [snapshot EXCEPT ![r] = {}]
    /\ deleted' = [deleted EXCEPT ![r] = {}]
    /\ inserted' = [inserted EXCEPT ![r] = {}]

Respond(r) == Goto(r, "idle") /\ local' = [local EXCEPT ![r] = None]

-----------------------------------------------------------------------------
(* create_case: its identifier is a uuid4, so nobody knows the case before *)
(* the request is answered, and a client that gets no answer creates       *)
(* another one.                                                            *)

CreateCase(r, case) ==
    /\ pc[r] = "idle"
    /\ case \notin cases
    /\ \A q \in Requests : pc[q] # "idle" => local[q].case_id # case
    /\ local' = [local EXCEPT ![r] = [case_id |-> case, tx |-> None]]
    /\ Goto(r, "create")
    /\ UNCHANGED <<caseVars, table, txVars, indexed, audit, served>>

(* Fault seeded in create_case: the client is answered before the audit.   *)
CreateAnswered(r) ==
    /\ pc[r] = "create"
    /\ cases' = cases \cup {local[r].case_id}
    /\ known' = known \cup {local[r].case_id}
    /\ Goto(r, "log_created")
    /\ UNCHANGED <<backend, table, txVars, local, indexed, audit, served>>

(* create: the case and its documents in one transaction.                  *)
Create(r) ==
    /\ pc[r] = "create"
    /\ cases' = cases \cup {local[r].case_id}
    /\ Goto(r, "log_created")
    /\ UNCHANGED <<backend, known, table, txVars, local, indexed, audit, served>>

AppendAuditEvent(case, event) ==
    /\ case \in cases
    /\ audit' = [audit EXCEPT ![case] = Append(@, event)]

LogCreated(r) ==
    /\ pc[r] = "log_created"
    /\ AppendAuditEvent(local[r].case_id, "created")
    /\ known' = known \cup {local[r].case_id}
    /\ Respond(r)
    /\ UNCHANGED <<backend, cases, table, txVars, indexed, served>>

-----------------------------------------------------------------------------

(* Fault seeded in index_case_documents: requests are numbered from zero.  *)
IndexCaseDocumentsFromZero(r, case) ==
    /\ pc[r] = "idle"
    /\ case \in known
    /\ served < MaxRequests
    /\ served' = served + 1
    /\ local' = [local EXCEPT ![r] = [case_id |-> case, tx |-> served]]
    /\ Goto(r, "embed")
    /\ UNCHANGED <<caseVars, table, txVars, indexed, audit>>

(* index_case_documents up to the embedding of the chunks.                 *)
IndexCaseDocuments(r, case) ==
    /\ pc[r] = "idle"
    /\ case \in known
    /\ served < MaxRequests
    /\ served' = served + 1
    /\ local' = [local EXCEPT ![r] = [case_id |-> case, tx |-> served + 1]]
    /\ Goto(r, "embed")
    /\ UNCHANGED <<caseVars, table, txVars, indexed, audit>>

(* The provider answers.  What it raises ends the request, see Abandon.    *)
Embed(r) ==
    /\ pc[r] = "embed"
    /\ Goto(r, IF backend = "memory" THEN "replace" ELSE "begin")
    /\ UNCHANGED <<caseVars, table, txVars, local, indexed, audit, served>>

-----------------------------------------------------------------------------
(* index_case of the two services.                                         *)

(* InMemoryRetrievalService assigns the case's whole list.                 *)
Replace(r) ==
    LET case == local[r].case_id IN
    /\ pc[r] = "replace"
    /\ table' = (table \ RowsOf(case, table)) \cup Chunks(case, local[r].tx)
    /\ indexed' = [indexed EXCEPT ![case] = @ + 1]
    /\ Goto(r, "log")
    /\ UNCHANGED <<caseVars, txVars, local, audit, served>>

(* Fault seeded in index_case: the DELETE is not restricted to the case.   *)
BeginDeleteAll(r) ==
    /\ pc[r] = "begin"
    /\ snapshot' = [snapshot EXCEPT ![r] = table]
    /\ Goto(r, "delete")
    /\ UNCHANGED <<caseVars, table, deleted, inserted, local, indexed, audit, served>>

(* The DELETE begins and takes its snapshot.                               *)
BeginDelete(r) ==
    /\ pc[r] = "begin"
    /\ snapshot' = [snapshot EXCEPT ![r] = RowsOf(local[r].case_id, table)]
    /\ Goto(r, "delete")
    /\ UNCHANGED <<caseVars, table, deleted, inserted, local, indexed, audit, served>>

(* Fault seeded in index_case: rows are deleted in no particular order.    *)
DeleteRowAnyOrder(r) ==
    /\ pc[r] = "delete"
    /\ \E x \in snapshot[r] :
        /\ \A q \in Others(r) : x \notin deleted[q]
        /\ deleted' = [deleted EXCEPT ![r] = @ \cup ({x} \cap table)]
        /\ snapshot' = [snapshot EXCEPT ![r] = @ \ {x}]
    /\ UNCHANGED <<caseVars, table, inserted, pc, local, indexed, audit, served>>

(* The DELETE visits the next row, when no other transaction is deleting   *)
(* it: a row that is gone by then is skipped.                              *)
DeleteRow(r) ==
    /\ pc[r] = "delete"
    /\ \E x \in snapshot[r] :
        /\ \A y \in snapshot[r] : x.position <= y.position
        /\ \A q \in Others(r) : x \notin deleted[q]
        /\ deleted' = [deleted EXCEPT ![r] = @ \cup ({x} \cap table)]
        /\ snapshot' = [snapshot EXCEPT ![r] = @ \ {x}]
    /\ UNCHANGED <<caseVars, table, inserted, pc, local, indexed, audit, served>>

EndDelete(r) ==
    /\ pc[r] = "delete"
    /\ snapshot[r] = {}
    /\ Goto(r, "insert")
    /\ UNCHANGED <<caseVars, table, txVars, local, indexed, audit, served>>

SameKey(x, y) == x.case_id = y.case_id /\ x.position = y.position

(* Another transaction holds the key of x: it has inserted it, or deleted  *)
(* the committed row that has it, and is not over.                         *)
KeyHeld(r, x) ==
    \E q \in Others(r) : \E y \in inserted[q] \cup deleted[q] : SameKey(x, y)

(* A committed row that this transaction has not deleted has the key.      *)
KeyTaken(r, x) == \E y \in table \ deleted[r] : SameKey(x, y)

(* The chunk whose turn it is in add_all's order.                          *)
NextRow(r) ==
    [case_id |-> local[r].case_id, position |-> Cardinality(inserted[r]) + 1,
     tx |-> local[r].tx]

(* Fault seeded in index_case: a key in the making counts as taken.        *)
InsertRowNoWait(r) ==
    LET x == NextRow(r) IN
    /\ pc[r] = "insert"
    /\ x.position <= ChunkCount[x.case_id]
    /\ IF KeyHeld(r, x) \/ KeyTaken(r, x)
       THEN Goto(r, "integrity_error") /\ EndTransaction(r)
       ELSE /\ inserted' = [inserted EXCEPT ![r] = @ \cup {x}]
            /\ UNCHANGED <<pc, snapshot, deleted>>
    /\ UNCHANGED <<caseVars, table, local, indexed, audit, served>>

(* The INSERT of the next chunk.                                           *)
InsertRow(r) ==
    LET x == NextRow(r) IN
    /\ pc[r] = "insert"
    /\ x.position <= ChunkCount[x.case_id]
    /\ ~KeyHeld(r, x)
    /\ IF KeyTaken(r, x)
       THEN Goto(r, "integrity_error") /\ EndTransaction(r)
       ELSE /\ inserted' = [inserted EXCEPT ![r] = @ \cup {x}]
            /\ UNCHANGED <<pc, snapshot, deleted>>
    /\ UNCHANGED <<caseVars, table, local, indexed, audit, served>>

(* The IntegrityError leaves the handler; the rows were rolled back.       *)
IntegrityError(r) ==
    /\ pc[r] = "integrity_error"
    /\ Respond(r)
    /\ UNCHANGED <<caseVars, table, txVars, indexed, audit, served>>

Commit(r) ==
    LET case == local[r].case_id IN
    /\ pc[r] = "insert"
    /\ Cardinality(inserted[r]) = ChunkCount[case]
    /\ table' = (table \ deleted[r]) \cup inserted[r]
    /\ indexed' = [indexed EXCEPT ![case] = @ + 1]
    /\ EndTransaction(r)
    /\ Goto(r, "log")
    /\ UNCHANGED <<caseVars, local, audit, served>>

(* append_audit_event, a transaction of its own.                           *)
LogIndexed(r) ==
    /\ pc[r] = "log"
    /\ AppendAuditEvent(local[r].case_id, "indexed")
    /\ Respond(r)
    /\ UNCHANGED <<caseVars, table, txVars, indexed, served>>

-----------------------------------------------------------------------------
(* The provider or the database raises, or the API process ends: an open   *)
(* transaction is rolled back.  (With the memory backend the end of the    *)
(* process loses everything, which is starting over.)                      *)
Abandon(r) ==
    /\ pc[r] # "idle"
    /\ EndTransaction(r)
    /\ Respond(r)
    /\ UNCHANGED <<caseVars, table, indexed, audit, served>>

Step(r) ==
    \/ Create(r) \/ LogCreated(r)
    \/ Embed(r) \/ Replace(r)
    \/ BeginDelete(r) \/ DeleteRow(r) \/ EndDelete(r)
    \/ InsertRow(r) \/ IntegrityError(r) \/ Commit(r) \/ LogIndexed(r)

Next ==
    \E r \in Requests :
        \/ \E c \in Cases : CreateCase(r, c) \/ IndexCaseDocuments(r, c)
        \/ Step(r)
        \/ Abandon(r)

(* The event loop and the database carry on with every request, and the    *)
(* provider answers or raises.                                             *)
Spec == Init /\ [][Next]_vars /\ \A r \in Requests : WF_vars(Step(r))

-----------------------------------------------------------------------------
(* Properties.                                                             *)

TypeOK ==
    /\ backend \in Backends
    /\ cases \subseteq Cases
    /\ known \subseteq Cases
    /\ table \subseteq Row
    /\ snapshot \in [Requests -> SUBSET Row]
    /\ deleted \in [Requests -> SUBSET Row]
    /\ inserted \in [Requests -> SUBSET Row]
    /\ pc \in [Requests -> {"idle", "create", "log_created", "embed", "replace",
                            "begin", "delete", "insert", "integrity_error", "log"}]
    /\ local \in [Requests -> Local \cup {None}]
    /\ indexed \in [Cases -> Nat]
    /\ audit \in [Cases -> Seq({"created", "indexed"})]
    /\ served \in 0..MaxRequests

(* Replace all persisted chunks: what is committed of a case is the whole  *)
(* work of one index_case call, never a mixture of two and never a part,   *)
(* and there is something as soon as one call has succeeded, whatever      *)
(* calls for this or for other cases have been interrupted or refused      *)
(* since (PgVectorRetrievalService.index_case).                            *)
IndexWhole ==
    \A c \in Cases :
        IF indexed[c] = 0 THEN RowsOf(c, table) = {}
        ELSE \E tx \in 1..served : RowsOf(c, table) = Chunks(c, tx)

(* The history of a case begins with its creation and claims nothing that  *)
(* did not happen: whoever can work on a case, and whatever was indexed of *)
(* it, its creation was recorded first and once, although a request may be *)
(* cut off between its transaction and its event (create_case,             *)
(* index_case_documents).                                                  *)
HistoryTrue ==
    \A c \in Cases :
        /\ c \in known \/ indexed[c] > 0 => audit[c] # <<>>
        /\ audit[c] # <<>> => audit[c][1] = "created" /\ c \in cases
        /\ \A i \in 2..Len(audit[c]) : audit[c][i] = "indexed"
        /\ Len(audit[c]) - 1 <= indexed[c]

(* An index request is only refused for an index that is there: when the   *)
(* INSERT meets a key that its own DELETE did not see, another request has *)
(* replaced the index meanwhile (index_case's one transaction).            *)
RefusedOnlyWhenIndexed ==
    \A r \in Requests :
        pc[r] = "integrity_error" =>
            /\ indexed[local[r].case_id] > 0
            /\ RowsOf(local[r].case_id, table) # {}

(* Every request is answered: the waits of concurrent DELETEs and INSERTs  *)
(* for each other's rows never form a cycle (all visit keys in one order). *)
RequestsAnswered == \A r \in Requests : pc[r] # "idle" ~> pc[r] = "idle"

=============================================================================
