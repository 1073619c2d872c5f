-------------------------- MODULE RetrievalProofs ---------------------------
(***************************************************************************)
(* Proofs about module Retrieval, for any number of cases, chunks and      *)
(* requests.  The inductive invariant IInv says what the open transactions *)
(* have deleted and inserted, and keeps their keys apart.                  *)
(***************************************************************************)
EXTENDS Retrieval, FiniteSetTheorems, TLAPS

(* The first k chunks of one indexing.                                     *)
Prefix(case, tx, k) == {[case_id |-> case, position |-> i, tx |-> tx] : i \in 1..k}

CaseOf(r) == local[r].case_id

Indexing == {"embed", "replace", "begin", "delete", "insert", "integrity_error", "log"}

(* What a transaction has done so far.                                     *)
TransactionOK(r) ==
    /\ pc[r] # "delete" => snapshot[r] = {}
    /\ pc[r] \notin {"delete", "insert"} => deleted[r] = {}
    /\ pc[r] # "insert" => inserted[r] = {}
    /\ \A x \in snapshot[r] \cup deleted[r] : x.case_id = CaseOf(r)
    /\ deleted[r] \subseteq table
    /\ pc[r] = "insert" =>
          /\ IsFiniteSet(inserted[r])
          /\ Cardinality(inserted[r]) <= ChunkCount[CaseOf(r)]
          /\ inserted[r] = Prefix(CaseOf(r), local[r].tx, Cardinality(inserted[r]))
    /\ \A x \in inserted[r], y \in table \ deleted[r] : ~SameKey(x, y)

RequestOK(r) ==
    /\ pc[r] # "idle" => local[r] \in Local
    /\ pc[r] \in Indexing => local[r].tx \in 1..served /\ CaseOf(r) \in known
    /\ pc[r] = "replace" => backend = "memory"
    /\ pc[r] \in {"begin", "delete", "insert", "integrity_error"} => backend # "memory"
    /\ pc[r] = "integrity_error" => indexed[CaseOf(r)] > 0 /\ ChunkCount[CaseOf(r)] > 0
    /\ pc[r] = "create" => CaseOf(r) \notin cases
    /\ pc[r] = "log_created" => CaseOf(r) \in cases \ known /\ audit[CaseOf(r)] = <<>>

(* No two transactions delete one row or insert one key, and a case that   *)
(* is being created has one request.                                       *)
ApartOK(q, r) ==
    /\ deleted[q] \cap deleted[r] = {}
    /\ \A x \in inserted[q], y \in inserted[r] : ~SameKey(x, y)
    /\ pc[q] \in {"create", "log_created"} /\ pc[r] # "idle" => CaseOf(q) # CaseOf(r)

Logging(c) == {r \in Requests : pc[r] = "log" /\ CaseOf(r) = c}

CaseOK(c) ==
    /\ c \in known => audit[c] # <<>>
    /\ audit[c] # <<>> => c \in cases /\ audit[c][1] = "created"
    /\ indexed[c] > 0 => c \in known
    /\ \A i \in 2..Len(audit[c]) : audit[c][i] = "indexed"
    /\ Len(audit[c]) - 1 + Cardinality(Logging(c)) <= indexed[c]

IInv ==
    /\ TypeOK
    /\ \A r \in Requests : RequestOK(r) /\ TransactionOK(r)
    /\ \A q, r \in Requests : q # r => ApartOK(q, r)
    /\ \A c \in Cases : CaseOK(c)
    /\ IndexWhole

-----------------------------------------------------------------------------
(* The sets of rows of one indexing.                                       *)

(* An indexing is the prefix of all its chunks.                            *)
LEMMA ChunksPrefix ==
    ASSUME NEW c, NEW tx
    PROVE  Chunks(c, tx) = Prefix(c, tx, ChunkCount[c])
BY DEF Chunks, Prefix

(* The next chunk extends the prefix.                                      *)
LEMMA PrefixNext ==
    ASSUME NEW c, NEW tx, NEW n \in Nat
    PROVE  Prefix(c, tx, n) \cup {[case_id |-> c, position |-> n + 1, tx |-> tx]} =
           Prefix(c, tx, n + 1)
<1>1. 1..(n + 1) = (1..n) \cup {n + 1}
  OBVIOUS
<1> QED
  BY <1>1 DEF Prefix

(* The requests that have still to record their indexing are finitely many.*)
LEMMA LoggingFinite ==
    ASSUME NEW c
    PROVE  IsFiniteSet(Logging(c)) /\ Cardinality(Logging(c)) \in Nat
<1>1. Logging(c) \in SUBSET Requests
  BY DEF Logging
<1> QED
  BY <1>1, FS_Subset, FS_CardinalityType, RetrievalAssumption

-----------------------------------------------------------------------------
(* What a step of one request leaves as it was.                            *)

(* The variables that belong to request q.                                 *)
Untouched(q) ==
    /\ pc'[q] = pc[q]
    /\ local'[q] = local[q]
    /\ snapshot'[q] = snapshot[q]
    /\ deleted'[q] = deleted[q]
    /\ inserted'[q] = inserted[q]

(* What request q relies on is only changed in its favour.                 *)
Tolerable(q) ==
    /\ backend' = backend
    /\ known \subseteq known'
    /\ served <= served'
    /\ \A c \in Cases : indexed[c] <= indexed'[c]
    /\ pc[q] \in {"create", "log_created"} =>
          /\ CaseOf(q) \in cases' <=> CaseOf(q) \in cases
          /\ CaseOf(q) \in known' <=> CaseOf(q) \in known
          /\ audit'[CaseOf(q)] = audit[CaseOf(q)]

(* A request keeps what it relies on while another one does what is        *)
(* tolerable.                                                              *)
LEMMA RequestKept ==
    ASSUME TypeOK, TypeOK', NEW q \in Requests, RequestOK(q), Untouched(q), Tolerable(q)
    PROVE  RequestOK(q)'
<1>1. pc[q] # "idle" => CaseOf(q) \in Cases
  BY DEF RequestOK, CaseOf, Local
<1>2. CaseOf(q)' = CaseOf(q) /\ pc'[q] = pc[q] /\ local'[q] = local[q]
  BY DEF CaseOf, Untouched
<1>3. /\ served \in Nat /\ served' \in Nat /\ served <= served'
      /\ \A c \in Cases : indexed[c] \in Nat /\ indexed'[c] \in Nat /\ indexed[c] <= indexed'[c]
  BY RetrievalAssumption DEF TypeOK, Tolerable
<1>4. pc[q] \in Indexing => local[q].tx \in 1..served' /\ CaseOf(q) \in known'
  BY <1>3 DEF RequestOK, Tolerable
<1>5. pc[q] = "integrity_error" => indexed'[CaseOf(q)] > 0 /\ ChunkCount[CaseOf(q)] > 0
  BY <1>1, <1>3 DEF RequestOK
<1>6. /\ pc[q] = "create" => CaseOf(q) \notin cases'
      /\ pc[q] = "log_created" => CaseOf(q) \in cases' \ known' /\ audit'[CaseOf(q)] = <<>>
  BY DEF RequestOK, Tolerable
<1>7. backend' = backend
  BY DEF Tolerable
<1> QED
  BY <1>2, <1>4, <1>5, <1>6, <1>7 DEF RequestOK

(* A transaction stays as it is while the table does.                      *)
LEMMA TransactionKept ==
    ASSUME NEW q \in Requests, TransactionOK(q), Untouched(q), table' = table
    PROVE  TransactionOK(q)'
<1>1. CaseOf(q)' = CaseOf(q)
  BY DEF CaseOf, Untouched
<1> QED
  BY <1>1 DEF TransactionOK, Untouched

(* A request that ends, or goes on with no more rows than it had, stays    *)
(* apart from the others.                                                  *)
LEMMA ApartKept ==
    ASSUME \A q, s \in Requests : q # s => ApartOK(q, s),
           NEW r \in Requests, \A q \in Requests : q # r => Untouched(q),
           deleted'[r] \subseteq deleted[r], inserted'[r] \subseteq inserted[r],
           \/ pc'[r] = "idle"
           \/ /\ pc[r] # "idle" /\ local'[r] = local[r]
              /\ pc'[r] \in {"create", "log_created"} => pc[r] \in {"create", "log_created"}
    PROVE  \A q, s \in Requests : q # s => ApartOK(q, s)'
<1> SUFFICES ASSUME NEW q \in Requests, NEW s \in Requests, q # s
             PROVE  ApartOK(q, s)'
  OBVIOUS
<1>1. ApartOK(q, s)
  OBVIOUS
<1>2. CASE q = r
  <2>1. Untouched(s)
    BY <1>2
  <2> QED
    BY <1>1, <1>2, <2>1 DEF ApartOK, CaseOf, Untouched
<1>3. CASE s = r
  <2>1. Untouched(q)
    BY <1>3
  <2> QED
    BY <1>1, <1>3, <2>1 DEF ApartOK, CaseOf, Untouched
<1>4. CASE q # r /\ s # r
  BY <1>1, <1>4 DEF ApartOK, CaseOf, Untouched
<1> QED
  BY <1>2, <1>3, <1>4

(* Nobody records an indexing or begins to.                                *)
LEMMA CasesKept ==
    ASSUME \A c \in Cases : CaseOK(c), UNCHANGED <<known, audit, indexed>>,
           cases \subseteq cases',
           \A q \in Requests : /\ pc[q] = "log" <=> pc'[q] = "log"
                               /\ pc[q] = "log" => local'[q] = local[q]
    PROVE  \A c \in Cases : CaseOK(c)'
<1>1. \A c \in Cases : Logging(c)' = Logging(c)
  BY DEF Logging, CaseOf
<1> QED
  BY <1>1 DEF CaseOK

(* The index stays whole while nothing is committed.                       *)
LEMMA IndexKept ==
    ASSUME TypeOK, TypeOK', IndexWhole, UNCHANGED <<table, indexed>>, served <= served'
    PROVE  IndexWhole'
<1>1. served \in Nat /\ served' \in Nat
  BY RetrievalAssumption DEF TypeOK
<1>2. 1..served \subseteq 1..served'
  BY <1>1
<1> SUFFICES ASSUME NEW c \in Cases
             PROVE  IF indexed[c] = 0 THEN RowsOf(c, table) = {}
                    ELSE \E tx \in 1..served' : RowsOf(c, table) = Chunks(c, tx)
  BY DEF IndexWhole, RowsOf, Chunks
<1> QED
  BY <1>2 DEF IndexWhole

-----------------------------------------------------------------------------
(* Types.                                                                  *)

(* The rows of an indexing are rows.                                       *)
LEMMA ChunksType ==
    ASSUME NEW c \in Cases, NEW tx \in 1..MaxRequests
    PROVE  Chunks(c, tx) \subseteq Row
<1>1. ChunkCount[c] \in Nat
  BY RetrievalAssumption
<1> QED
  BY <1>1 DEF Chunks, Row

(* The locals of a request that indexes a case.                            *)
LEMMA IndexingLocals ==
    ASSUME IInv, NEW r \in Requests, pc[r] \in Indexing
    PROVE  /\ local[r] \in Local /\ local[r].case_id \in Cases
           /\ local[r].tx \in 1..MaxRequests
           /\ ChunkCount[local[r].case_id] \in Nat
<1>1. RequestOK(r) /\ served \in 0..MaxRequests
  BY DEF IInv, TypeOK
<1>2. local[r] \in Local
  BY <1>1 DEF RequestOK, Indexing
<1>3. local[r].tx \in 1..served
  BY <1>1 DEF RequestOK
<1> QED
  BY <1>1, <1>2, <1>3, RetrievalAssumption DEF Local

(* Every step of a request keeps the types.                                *)
LEMMA TypeStep ==
    ASSUME IInv, NEW r \in Requests, NEW c \in Cases,
           CreateCase(r, c) \/ IndexCaseDocuments(r, c) \/ Step(r) \/ Abandon(r)
    PROVE  TypeOK'
<1> USE RetrievalAssumption
<1>0. TypeOK /\ RequestOK(r) /\ TransactionOK(r)
  BY DEF IInv
<1> USE <1>0
<1>1. CASE CreateCase(r, c)
  <2>1. [case_id |-> c, tx |-> None] \in Local
    BY DEF Local
  <2> QED
    BY <1>1, <2>1 DEF TypeOK, CreateCase, Goto, caseVars, txVars
<1>2. CASE IndexCaseDocuments(r, c)
  <2>1. served + 1 \in 1..MaxRequests /\ served' \in 0..MaxRequests
    BY <1>2 DEF TypeOK, IndexCaseDocuments
  <2>2. [case_id |-> c, tx |-> served + 1] \in Local
    BY <2>1 DEF Local
  <2> QED
    BY <1>2, <2>1, <2>2 DEF TypeOK, IndexCaseDocuments, Goto, caseVars, txVars
<1>3. CASE Create(r)
  <2>1. local[r].case_id \in Cases
    BY <1>3 DEF RequestOK, Create, Local
  <2> QED
    BY <1>3, <2>1 DEF TypeOK, Create, Goto, txVars
<1>4. CASE LogCreated(r)
  <2>1. local[r].case_id \in Cases
    BY <1>4 DEF RequestOK, LogCreated, Local
  <2>2. audit' \in [Cases -> Seq({"created", "indexed"})]
    BY <1>4, <2>1 DEF TypeOK, LogCreated, AppendAuditEvent
  <2> QED
    BY <1>4, <2>1, <2>2 DEF TypeOK, LogCreated, Goto, Respond, txVars
<1>5. CASE Embed(r)
  BY <1>5 DEF TypeOK, Embed, Goto, caseVars, txVars
<1>6. CASE Replace(r)
  <2>1. pc[r] \in Indexing
    BY <1>6 DEF Replace, Indexing
  <2>2. local[r].case_id \in Cases /\ Chunks(local[r].case_id, local[r].tx) \subseteq Row
    BY <2>1, IndexingLocals, ChunksType
  <2>3. table' \subseteq Row
    BY <1>6, <2>2 DEF Replace, TypeOK
  <2>4. indexed' \in [Cases -> Nat]
    BY <1>6, <2>2 DEF Replace, TypeOK
  <2> QED
    BY <1>6, <2>3, <2>4 DEF TypeOK, Replace, Goto, caseVars, txVars
<1>7. CASE BeginDelete(r)
  BY <1>7 DEF TypeOK, BeginDelete, Goto, RowsOf, caseVars
<1>8. CASE DeleteRow(r)
  BY <1>8 DEF TypeOK, DeleteRow, caseVars
<1>9. CASE EndDelete(r)
  BY <1>9 DEF TypeOK, EndDelete, Goto, caseVars, txVars
<1>10. CASE InsertRow(r)
  <2>1. pc[r] = "insert" /\ pc[r] \in Indexing
    BY <1>10 DEF InsertRow, Indexing
  <2>2. Cardinality(inserted[r]) \in Nat
    BY <2>1, FS_CardinalityType DEF TransactionOK
  <2>3. NextRow(r) \in Row
    BY <2>1, <2>2, IndexingLocals DEF NextRow, Row
  <2>4. CASE KeyTaken(r, NextRow(r))
    BY <1>10, <2>4 DEF TypeOK, InsertRow, Goto, EndTransaction, caseVars
  <2>5. CASE ~KeyTaken(r, NextRow(r))
    BY <1>10, <2>3, <2>5 DEF TypeOK, InsertRow, caseVars
  <2> QED
    BY <2>4, <2>5
<1>11. CASE IntegrityError(r)
  BY <1>11 DEF TypeOK, IntegrityError, Goto, Respond, caseVars, txVars
<1>12. CASE Commit(r)
  <2>1. pc[r] \in Indexing
    BY <1>12 DEF Commit, Indexing
  <2>2. local[r].case_id \in Cases
    BY <2>1, IndexingLocals
  <2>3. indexed' \in [Cases -> Nat]
    BY <1>12, <2>2 DEF Commit, TypeOK
  <2>4. table' \subseteq Row
    BY <1>12 DEF Commit, TypeOK
  <2> QED
    BY <1>12, <2>3, <2>4 DEF TypeOK, Commit, Goto, EndTransaction, caseVars
<1>13. CASE LogIndexed(r)
  <2>1. local[r].case_id \in Cases
    BY <1>13 DEF RequestOK, LogIndexed, Local
  <2>2. audit' \in [Cases -> Seq({"created", "indexed"})]
    BY <1>13, <2>1 DEF TypeOK, LogIndexed, AppendAuditEvent
  <2> QED
    BY <1>13, <2>2 DEF TypeOK, LogIndexed, Goto, Respond, caseVars, txVars
<1>14. CASE Abandon(r)
  BY <1>14 DEF TypeOK, Abandon, Goto, Respond, EndTransaction, caseVars
<1> QED
  BY <1>1, <1>2, <1>3, <1>4, <1>5, <1>6, <1>7, <1>8, <1>9, <1>10, <1>11, <1>12, <1>13,
     <1>14 DEF Step

-----------------------------------------------------------------------------
(* The steps that leave the committed index alone.                         *)

(* What remains to be shown of such a step by request r.                   *)
LEMMA QuietStep ==
    ASSUME IInv, TypeOK', NEW r \in Requests,
           \A q \in Requests : q # r => Untouched(q) /\ Tolerable(q),
           RequestOK(r)', TransactionOK(r)',
           UNCHANGED <<table, indexed>>, served <= served',
           \A q, s \in Requests : q # s => ApartOK(q, s)',
           \A c \in Cases : CaseOK(c)'
    PROVE  IInv'
<1>1. \A q \in Requests : q # r => RequestOK(q)' /\ TransactionOK(q)'
  BY RequestKept, TransactionKept DEF IInv
<1>2. IndexWhole'
  BY IndexKept DEF IInv
<1> QED
  BY <1>1, <1>2 DEF IInv

(* A step that moves request r and changes nothing others rely on.         *)
LEMMA TolerableQuiet ==
    ASSUME TypeOK, NEW q \in Requests,
           UNCHANGED <<backend, cases, known, indexed, audit>>, served' \in Nat, served <= served'
    PROVE  Tolerable(q)
<1>1. \A c \in Cases : indexed[c] <= indexed'[c]
  BY DEF TypeOK
<1> QED
  BY <1>1 DEF Tolerable

(* A request for a new case.                                               *)
LEMMA CreateCaseStep ==
    ASSUME IInv, NEW r \in Requests, NEW c \in Cases, CreateCase(r, c)
    PROVE  IInv'
<1>0. TypeOK /\ TypeOK' /\ RequestOK(r) /\ TransactionOK(r)
  BY TypeStep DEF IInv
<1> USE <1>0
<1>1. /\ pc[r] = "idle" /\ pc'[r] = "create" /\ c \notin cases
      /\ local'[r] = [case_id |-> c, tx |-> None]
      /\ UNCHANGED <<backend, cases, known, table, snapshot, deleted, inserted, indexed, audit,
                     served>>
  BY DEF CreateCase, Goto, TypeOK, caseVars, txVars
<1>2. \A q \in Requests : q # r => Untouched(q)
  BY DEF CreateCase, Goto, TypeOK, Untouched, txVars
<1>3. served \in Nat /\ served' \in Nat /\ served <= served'
  BY <1>1, RetrievalAssumption DEF TypeOK
<1>4. \A q \in Requests : q # r => Tolerable(q)
  BY <1>1, <1>3, TolerableQuiet
<1>5. CaseOf(r)' = c
  BY <1>1 DEF CaseOf
<1>6. RequestOK(r)'
  <2>1. local'[r] \in Local
    BY <1>1 DEF Local
  <2> QED
    BY <1>1, <1>5, <2>1 DEF RequestOK, Indexing
<1>7. TransactionOK(r)'
  BY <1>1 DEF TransactionOK
<1>8. \A q, s \in Requests : q # s => ApartOK(q, s)'
  <2> SUFFICES ASSUME NEW q \in Requests, NEW s \in Requests, q # s
               PROVE  ApartOK(q, s)'
    OBVIOUS
  <2>1. ApartOK(q, s)
    BY DEF IInv
  <2>2. \A t \in Requests : pc[t] # "idle" => CaseOf(t) # c
    BY DEF CreateCase, CaseOf
  <2>3. /\ q # r => CaseOf(q)' = CaseOf(q) /\ pc'[q] = pc[q]
        /\ s # r => CaseOf(s)' = CaseOf(s) /\ pc'[s] = pc[s]
    BY <1>2 DEF CaseOf, Untouched
  <2>4. pc'[q] \in {"create", "log_created"} /\ pc'[s] # "idle" => CaseOf(q)' # CaseOf(s)'
    BY <1>1, <1>5, <2>1, <2>2, <2>3 DEF ApartOK
  <2> QED
    BY <1>1, <2>1, <2>4 DEF ApartOK
<1>9. \A d \in Cases : CaseOK(d)'
  <2>1. \A q \in Requests : /\ pc[q] = "log" <=> pc'[q] = "log"
                            /\ pc[q] = "log" => local'[q] = local[q]
    BY <1>1, <1>2 DEF Untouched
  <2> QED
    BY <1>1, <2>1, CasesKept DEF IInv
<1> QED
  BY <1>1, <1>2, <1>3, <1>4, <1>6, <1>7, <1>8, <1>9, QuietStep

(* The row of the case is inserted.                                        *)
LEMMA CreateStep ==
    ASSUME IInv, NEW r \in Requests, Create(r)
    PROVE  IInv'
<1>0. TypeOK /\ TypeOK' /\ RequestOK(r) /\ TransactionOK(r)
  <2>1. RequestOK(r) /\ pc[r] = "create"
    BY DEF IInv, Create
  <2>2. local[r].case_id \in Cases
    BY <2>1 DEF RequestOK, Local
  <2> QED
    BY <2>2, TypeStep DEF IInv, Step
<1> USE <1>0
<1>1. /\ pc[r] = "create" /\ pc'[r] = "log_created" /\ local'[r] = local[r]
      /\ cases' = cases \cup {CaseOf(r)} /\ CaseOf(r)' = CaseOf(r)
      /\ UNCHANGED <<backend, known, table, snapshot, deleted, inserted, indexed, audit, served>>
  BY DEF Create, Goto, TypeOK, txVars, CaseOf
<1>2. \A q \in Requests : q # r => Untouched(q)
  BY DEF Create, Goto, TypeOK, Untouched, txVars
<1>3. served \in Nat /\ served' \in Nat /\ served <= served'
  BY <1>1, RetrievalAssumption DEF TypeOK
<1>4. \A q \in Requests : q # r => Tolerable(q)
  <2> SUFFICES ASSUME NEW q \in Requests, q # r
               PROVE  Tolerable(q)
    OBVIOUS
  <2>1. pc[q] # "idle" => CaseOf(r) # CaseOf(q)
    BY <1>1 DEF IInv, ApartOK
  <2>2. \A d \in Cases : indexed[d] <= indexed'[d]
    BY <1>1 DEF TypeOK
  <2> QED
    BY <1>1, <1>3, <2>1, <2>2 DEF Tolerable
<1>6. RequestOK(r)'
  <2>1. CaseOf(r) \in Cases /\ CaseOf(r) \notin cases
    BY <1>1 DEF RequestOK, CaseOf, Local
  <2>2. audit[CaseOf(r)] = <<>> /\ CaseOf(r) \notin known
    BY <2>1 DEF IInv, CaseOK
  <2> QED
    BY <1>1, <2>2 DEF RequestOK, Indexing
<1>7. TransactionOK(r)'
  BY <1>1 DEF TransactionOK
<1>8. \A q, s \in Requests : q # s => ApartOK(q, s)'
  BY <1>1, <1>2, ApartKept DEF IInv
<1>9. \A d \in Cases : CaseOK(d)'
  <2>1. \A q \in Requests : /\ pc[q] = "log" <=> pc'[q] = "log"
                            /\ pc[q] = "log" => local'[q] = local[q]
    BY <1>1, <1>2 DEF Untouched
  <2> QED
    BY <1>1, <2>1, CasesKept DEF IInv
<1> QED
  BY <1>1, <1>2, <1>3, <1>4, <1>6, <1>7, <1>8, <1>9, QuietStep

(* The first entry of the history of the case.                             *)
LEMMA LogCreatedStep ==
    ASSUME IInv, NEW r \in Requests, LogCreated(r)
    PROVE  IInv'
<1>a. RequestOK(r) /\ TransactionOK(r) /\ pc[r] = "log_created" /\ TypeOK
  BY DEF IInv, LogCreated
<1>b. PICK d \in Cases : d = CaseOf(r)
  BY <1>a DEF RequestOK, Local, CaseOf
<1>0. TypeOK'
  BY <1>b, TypeStep DEF Step
<1> USE <1>0, <1>a
<1>1. /\ pc'[r] = "idle"
      /\ known' = known \cup {d}
      /\ audit' = [audit EXCEPT ![d] = Append(@, "created")]
      /\ UNCHANGED <<backend, cases, table, snapshot, deleted, inserted, indexed, served>>
  BY <1>b DEF LogCreated, AppendAuditEvent, Respond, Goto, TypeOK, txVars, CaseOf
<1>2. \A q \in Requests : q # r => Untouched(q)
  BY DEF LogCreated, Respond, Goto, TypeOK, Untouched, txVars
<1>3. served \in Nat /\ served' \in Nat /\ served <= served'
  BY <1>1, RetrievalAssumption DEF TypeOK
<1>4. \A q \in Requests : q # r => Tolerable(q)
  <2> SUFFICES ASSUME NEW q \in Requests, q # r
               PROVE  Tolerable(q)
    OBVIOUS
  <2>1. pc[q] # "idle" => d # CaseOf(q)
    BY <1>b DEF IInv, ApartOK
  <2>2. \A e \in Cases : indexed[e] <= indexed'[e]
    BY <1>1 DEF TypeOK
  <2>3. \A e \in Cases : e # d => audit'[e] = audit[e]
    BY <1>1 DEF TypeOK
  <2>4. pc[q] # "idle" => CaseOf(q) \in Cases
    BY DEF IInv, RequestOK, Local, CaseOf
  <2> QED
    BY <1>1, <1>3, <2>1, <2>2, <2>3, <2>4 DEF Tolerable
<1>5. d \in cases \ known /\ audit[d] = <<>>
  BY <1>b DEF RequestOK
<1>6. RequestOK(r)'
  BY <1>1 DEF RequestOK, Indexing
<1>7. TransactionOK(r)'
  BY <1>1 DEF TransactionOK
<1>8. \A q, s \in Requests : q # s => ApartOK(q, s)'
  BY <1>1, <1>2, ApartKept DEF IInv
<1>9. \A e \in Cases : CaseOK(e)'
  <2> SUFFICES ASSUME NEW e \in Cases
               PROVE  CaseOK(e)'
    OBVIOUS
  <2>1. Logging(e)' = Logging(e)
    BY <1>1, <1>2 DEF Logging, CaseOf, Untouched
  <2>2. CASE e = d
    <3>1. audit'[e] = <<"created">>
      BY <1>1, <1>5, <2>2 DEF TypeOK
    <3>2. Logging(e) = {}
      BY <1>b, <2>2 DEF Logging, IInv, ApartOK
    <3>3. Cardinality(Logging(e)) = 0
      BY <3>2, FS_EmptySet
    <3>4. indexed'[e] = indexed[e] /\ indexed[e] \in Nat
      BY <1>1 DEF TypeOK
    <3>5. /\ audit'[e] # <<>> /\ audit'[e][1] = "created" /\ Len(audit'[e]) = 1
          /\ e \in known' /\ e \in cases'
      BY <1>1, <1>5, <2>2, <3>1
    <3>6. Len(audit'[e]) - 1 + Cardinality(Logging(e)') <= indexed'[e]
      BY <2>1, <3>3, <3>4, <3>5
    <3>7. \A i \in 2..Len(audit'[e]) : audit'[e][i] = "indexed"
      BY <3>5
    <3> QED
      BY <3>5, <3>6, <3>7 DEF CaseOK
  <2>3. CASE e # d
    <3>1. audit'[e] = audit[e] /\ (e \in known' <=> e \in known)
      BY <1>1, <2>3 DEF TypeOK
    <3>2. CaseOK(e)
      BY DEF IInv
    <3> QED
      BY <1>1, <2>1, <3>1, <3>2 DEF CaseOK
  <2> QED
    BY <2>2, <2>3
<1> QED
  BY <1>1, <1>2, <1>3, <1>4, <1>6, <1>7, <1>8, <1>9, QuietStep

(* An index request begins with a transaction number of its own.           *)
LEMMA IndexCaseDocumentsStep ==
    ASSUME IInv, NEW r \in Requests, NEW c \in Cases, IndexCaseDocuments(r, c)
    PROVE  IInv'
<1>0. TypeOK /\ TypeOK' /\ RequestOK(r) /\ TransactionOK(r)
  BY TypeStep DEF IInv
<1> USE <1>0
<1>1. /\ pc[r] = "idle" /\ pc'[r] = "embed" /\ c \in known
      /\ local'[r] = [case_id |-> c, tx |-> served + 1] /\ served' = served + 1
      /\ UNCHANGED <<backend, cases, known, table, snapshot, deleted, inserted, indexed, audit>>
  BY DEF IndexCaseDocuments, Goto, TypeOK, caseVars, txVars
<1>2. \A q \in Requests : q # r => Untouched(q)
  BY DEF IndexCaseDocuments, Goto, TypeOK, Untouched, txVars
<1>3. served \in Nat /\ served' \in Nat /\ served <= served' /\ served + 1 \in 1..MaxRequests
  BY <1>1, RetrievalAssumption DEF TypeOK, IndexCaseDocuments
<1>4. \A q \in Requests : q # r => Tolerable(q)
  BY <1>1, <1>3, TolerableQuiet
<1>5. CaseOf(r)' = c
  BY <1>1 DEF CaseOf
<1>6. RequestOK(r)'
  <2>1. local'[r] \in Local
    BY <1>1, <1>3 DEF Local
  <2>2. local'[r].tx \in 1..served'
    BY <1>1, <1>3
  <2> QED
    BY <1>1, <1>5, <2>1, <2>2 DEF RequestOK, Indexing
<1>7. TransactionOK(r)'
  BY <1>1 DEF TransactionOK
<1>8. \A q, s \in Requests : q # s => ApartOK(q, s)'
  <2> SUFFICES ASSUME NEW q \in Requests, NEW s \in Requests, q # s
               PROVE  ApartOK(q, s)'
    OBVIOUS
  <2>1. ApartOK(q, s) /\ RequestOK(q) /\ CaseOK(c)
    BY DEF IInv
  <2>2. c \in cases
    BY <1>1, <2>1 DEF CaseOK
  <2>3. /\ q # r => CaseOf(q)' = CaseOf(q) /\ pc'[q] = pc[q]
        /\ s # r => CaseOf(s)' = CaseOf(s) /\ pc'[s] = pc[s]
    BY <1>2 DEF CaseOf, Untouched
  <2>4. pc[q] \in {"create", "log_created"} => CaseOf(q) # c
    BY <1>1, <2>1, <2>2 DEF RequestOK
  <2>5. pc'[q] \in {"create", "log_created"} /\ pc'[s] # "idle" => CaseOf(q)' # CaseOf(s)'
    BY <1>1, <1>5, <2>1, <2>4, <2>3 DEF ApartOK
  <2> QED
    BY <1>1, <2>1, <2>5 DEF ApartOK
<1>9. \A d \in Cases : CaseOK(d)'
  <2>1. \A q \in Requests : /\ pc[q] = "log" <=> pc'[q] = "log"
                            /\ pc[q] = "log" => local'[q] = local[q]
    BY <1>1, <1>2 DEF Untouched
  <2> QED
    BY <1>1, <2>1, CasesKept DEF IInv
<1> QED
  BY <1>1, <1>2, <1>3, <1>4, <1>6, <1>7, <1>8, <1>9, QuietStep

(* A step of an indexing that commits nothing and records nothing.         *)
LEMMA MoveStep ==
    ASSUME IInv, TypeOK', NEW r \in Requests, pc[r] # "log", pc'[r] # "log",
           \A q \in Requests : q # r => Untouched(q),
           UNCHANGED <<backend, cases, known, table, indexed, audit, served>>,
           RequestOK(r)', TransactionOK(r)',
           \A q, s \in Requests : q # s => ApartOK(q, s)'
    PROVE  IInv'
<1>1. TypeOK /\ served \in Nat /\ served' \in Nat /\ served <= served'
  BY RetrievalAssumption DEF IInv, TypeOK
<1>2. \A q \in Requests : q # r => Tolerable(q)
  BY <1>1, TolerableQuiet
<1>3. \A q \in Requests : /\ pc[q] = "log" <=> pc'[q] = "log"
                          /\ pc[q] = "log" => local'[q] = local[q]
  BY DEF Untouched
<1>4. \A c \in Cases : CaseOK(c)'
  BY <1>3, CasesKept DEF IInv
<1> QED
  BY <1>1, <1>2, <1>4, QuietStep

(* What the invariant says of request r, and its type after a step.        *)
LEMMA StepFacts ==
    ASSUME IInv, NEW r \in Requests, pc[r] # "idle", Step(r) \/ Abandon(r)
    PROVE  /\ TypeOK /\ TypeOK' /\ RequestOK(r) /\ TransactionOK(r)
           /\ local[r] \in Local /\ CaseOf(r) \in Cases /\ ChunkCount[CaseOf(r)] \in Nat
<1>1. TypeOK /\ RequestOK(r) /\ TransactionOK(r)
  BY DEF IInv
<1>2. local[r] \in Local /\ local[r].case_id \in Cases
  BY <1>1 DEF RequestOK, Local
<1>3. TypeOK'
  BY <1>2, TypeStep
<1> QED
  BY <1>1, <1>2, <1>3, RetrievalAssumption DEF CaseOf

(* The embeddings arrive or raise before the database is touched.          *)
LEMMA EmbedStep ==
    ASSUME IInv, NEW r \in Requests, Embed(r)
    PROVE  IInv'
<1>1. TypeOK /\ TypeOK' /\ RequestOK(r) /\ TransactionOK(r)
  BY StepFacts DEF Embed, Step
<1>2. /\ pc[r] = "embed" /\ pc'[r] = IF backend = "memory" THEN "replace" ELSE "begin"
      /\ local'[r] = local[r] /\ CaseOf(r)' = CaseOf(r)
      /\ UNCHANGED <<backend, cases, known, table, snapshot, deleted, inserted, indexed, audit,
                     served>>
  BY <1>1 DEF Embed, Goto, TypeOK, caseVars, txVars, CaseOf
<1>3. \A q \in Requests : q # r => Untouched(q)
  BY <1>1 DEF Embed, Goto, TypeOK, Untouched, txVars
<1>4. RequestOK(r)'
  BY <1>1, <1>2 DEF RequestOK, Indexing
<1>5. TransactionOK(r)'
  BY <1>1, <1>2 DEF TransactionOK
<1>6. \A q, s \in Requests : q # s => ApartOK(q, s)'
  BY <1>2, <1>3, ApartKept DEF IInv
<1> QED
  BY <1>1, <1>2, <1>3, <1>4, <1>5, <1>6, MoveStep

(* DELETE takes its snapshot of the committed rows.                        *)
LEMMA BeginDeleteStep ==
    ASSUME IInv, NEW r \in Requests, BeginDelete(r)
    PROVE  IInv'
<1>1. TypeOK /\ TypeOK' /\ RequestOK(r) /\ TransactionOK(r)
  BY StepFacts DEF BeginDelete, Step
<1>2. /\ pc[r] = "begin" /\ pc'[r] = "delete"
      /\ local'[r] = local[r] /\ CaseOf(r)' = CaseOf(r)
      /\ snapshot'[r] = RowsOf(CaseOf(r), table)
      /\ UNCHANGED <<backend, cases, known, table, deleted, inserted, indexed, audit, served>>
  BY <1>1 DEF BeginDelete, Goto, TypeOK, caseVars, CaseOf
<1>3. \A q \in Requests : q # r => Untouched(q)
  BY <1>1 DEF BeginDelete, Goto, TypeOK, Untouched
<1>4. RequestOK(r)'
  BY <1>1, <1>2 DEF RequestOK, Indexing
<1>5. TransactionOK(r)'
  BY <1>1, <1>2 DEF TransactionOK, RowsOf
<1>6. \A q, s \in Requests : q # s => ApartOK(q, s)'
  BY <1>2, <1>3, ApartKept DEF IInv
<1> QED
  BY <1>1, <1>2, <1>3, <1>4, <1>5, <1>6, MoveStep

(* The row that is deleted is of the case and nobody else deletes it.      *)
LEMMA DeleteRowStep ==
    ASSUME IInv, NEW r \in Requests, DeleteRow(r)
    PROVE  IInv'
<1>1. TypeOK /\ TypeOK' /\ RequestOK(r) /\ TransactionOK(r)
  BY StepFacts DEF DeleteRow, Step
<1>2. PICK x \in snapshot[r] :
          /\ \A q \in Others(r) : x \notin deleted[q]
          /\ deleted' = [deleted EXCEPT ![r] = @ \cup ({x} \cap table)]
          /\ snapshot' = [snapshot EXCEPT ![r] = @ \ {x}]
  BY DEF DeleteRow
<1>3. /\ pc[r] = "delete" /\ pc'[r] = "delete"
      /\ local'[r] = local[r] /\ CaseOf(r)' = CaseOf(r)
      /\ deleted'[r] = deleted[r] \cup ({x} \cap table) /\ snapshot'[r] = snapshot[r] \ {x}
      /\ UNCHANGED <<backend, cases, known, table, inserted, indexed, audit, served>>
  BY <1>1, <1>2 DEF DeleteRow, TypeOK, caseVars, CaseOf
<1>4. \A q \in Requests : q # r => Untouched(q)
  BY <1>1, <1>2 DEF DeleteRow, TypeOK, Untouched
<1>5. RequestOK(r)'
  BY <1>1, <1>3 DEF RequestOK
<1>6. TransactionOK(r)'
  BY <1>1, <1>3 DEF TransactionOK
<1>7. \A q, s \in Requests : q # s => ApartOK(q, s)'
  <2> SUFFICES ASSUME NEW q \in Requests, NEW s \in Requests, q # s
               PROVE  ApartOK(q, s)'
    OBVIOUS
  <2>1. ApartOK(q, s)
    BY DEF IInv
  <2>2. /\ q # r => deleted'[q] = deleted[q] /\ x \notin deleted[q]
        /\ s # r => deleted'[s] = deleted[s] /\ x \notin deleted[s]
    BY <1>2, <1>4 DEF Untouched, Others
  <2>3. deleted'[q] \cap deleted'[s] = {}
    BY <1>3, <2>1, <2>2 DEF ApartOK
  <2>4. CaseOf(q)' = CaseOf(q) /\ CaseOf(s)' = CaseOf(s) /\ pc' = pc
    BY DEF DeleteRow, CaseOf
  <2> QED
    BY <1>3, <2>1, <2>3, <2>4 DEF ApartOK
<1> QED
  BY <1>1, <1>3, <1>4, <1>5, <1>6, <1>7, MoveStep

(* DELETE ends when no row of its snapshot is left to delete.              *)
LEMMA EndDeleteStep ==
    ASSUME IInv, NEW r \in Requests, EndDelete(r)
    PROVE  IInv'
<1>1. /\ TypeOK /\ TypeOK' /\ RequestOK(r) /\ TransactionOK(r)
      /\ ChunkCount[CaseOf(r)] \in Nat
  BY StepFacts DEF EndDelete, Step
<1>2. /\ pc[r] = "delete" /\ pc'[r] = "insert" /\ snapshot[r] = {}
      /\ local'[r] = local[r] /\ CaseOf(r)' = CaseOf(r)
      /\ UNCHANGED <<backend, cases, known, table, snapshot, deleted, inserted, indexed, audit,
                     served>>
  BY <1>1 DEF EndDelete, Goto, TypeOK, caseVars, txVars, CaseOf
<1>3. \A q \in Requests : q # r => Untouched(q)
  BY <1>1 DEF EndDelete, Goto, TypeOK, Untouched, txVars
<1>4. RequestOK(r)'
  BY <1>1, <1>2 DEF RequestOK, Indexing
<1>5. TransactionOK(r)'
  <2>1. inserted[r] = {} /\ IsFiniteSet(inserted[r]) /\ Cardinality(inserted[r]) = 0
    BY <1>1, <1>2, FS_EmptySet DEF TransactionOK
  <2>2. Prefix(CaseOf(r), local[r].tx, 0) = {}
    BY DEF Prefix
  <2> QED
    BY <1>1, <1>2, <2>1, <2>2 DEF TransactionOK
<1>6. \A q, s \in Requests : q # s => ApartOK(q, s)'
  BY <1>2, <1>3, ApartKept DEF IInv
<1> QED
  BY <1>1, <1>2, <1>3, <1>4, <1>5, <1>6, MoveStep

(* A transaction that meets a taken key is rolled back.                    *)
LEMMA IntegrityErrorStep ==
    ASSUME IInv, NEW r \in Requests, IntegrityError(r)
    PROVE  IInv'
<1>1. TypeOK /\ TypeOK' /\ RequestOK(r) /\ TransactionOK(r)
  BY StepFacts DEF IntegrityError, Step
<1>2. /\ pc[r] = "integrity_error" /\ pc'[r] = "idle"
      /\ UNCHANGED <<backend, cases, known, table, snapshot, deleted, inserted, indexed, audit,
                     served>>
  BY <1>1 DEF IntegrityError, Respond, Goto, TypeOK, caseVars, txVars
<1>3. \A q \in Requests : q # r => Untouched(q)
  BY <1>1 DEF IntegrityError, Respond, Goto, TypeOK, Untouched, txVars
<1>4. RequestOK(r)'
  BY <1>1, <1>2 DEF RequestOK, Indexing
<1>5. TransactionOK(r)'
  BY <1>1, <1>2 DEF TransactionOK
<1>6. \A q, s \in Requests : q # s => ApartOK(q, s)'
  BY <1>2, <1>3, ApartKept DEF IInv
<1> QED
  BY <1>1, <1>2, <1>3, <1>4, <1>5, <1>6, MoveStep

(* The new row has a key that no other transaction and no committed row    *)
(* has; a taken key is a key of an index that is there.                    *)
LEMMA InsertRowStep ==
    ASSUME IInv, NEW r \in Requests, InsertRow(r)
    PROVE  IInv'
<1>1. /\ TypeOK /\ TypeOK' /\ RequestOK(r) /\ TransactionOK(r)
      /\ local[r] \in Local /\ CaseOf(r) \in Cases /\ ChunkCount[CaseOf(r)] \in Nat
  BY StepFacts DEF InsertRow, Step
<1>2. pc[r] = "insert" /\ ~KeyHeld(r, NextRow(r))
  BY DEF InsertRow
<1>3. PICK n \in Nat : n = Cardinality(inserted[r])
  BY <1>1, <1>2, FS_CardinalityType DEF TransactionOK
<1>4. PICK x : x = [case_id |-> CaseOf(r), position |-> n + 1, tx |-> local[r].tx]
  OBVIOUS
<1>5. x = NextRow(r) /\ x.case_id = CaseOf(r) /\ x.position = n + 1
  BY <1>3, <1>4 DEF NextRow, CaseOf
<1>6. n + 1 <= ChunkCount[CaseOf(r)]
  BY <1>5 DEF InsertRow
<1>7. UNCHANGED <<backend, cases, known, table, indexed, audit, served, local>>
  BY DEF InsertRow, caseVars
<1>8. CASE KeyTaken(r, x)
  <2>1. /\ pc'[r] = "integrity_error" /\ local'[r] = local[r] /\ CaseOf(r)' = CaseOf(r)
        /\ snapshot'[r] = {} /\ deleted'[r] = {} /\ inserted'[r] = {}
    BY <1>1, <1>5, <1>7, <1>8 DEF InsertRow, Goto, EndTransaction, TypeOK, CaseOf
  <2>2. \A q \in Requests : q # r => Untouched(q)
    BY <1>1, <1>5, <1>7, <1>8 DEF InsertRow, Goto, EndTransaction, TypeOK, Untouched
  <2>3. indexed[CaseOf(r)] > 0
    <3>1. PICK y \in table : SameKey(x, y)
      BY <1>8 DEF KeyTaken
    <3>2. y \in RowsOf(CaseOf(r), table)
      BY <1>5, <3>1 DEF RowsOf, SameKey
    <3>3. indexed[CaseOf(r)] \in Nat /\ indexed[CaseOf(r)] # 0
      BY <1>1, <3>2 DEF IInv, IndexWhole, TypeOK
    <3> QED
      BY <3>3
  <2>4. RequestOK(r)'
    BY <1>1, <1>2, <1>6, <1>7, <2>1, <2>3 DEF RequestOK, Indexing
  <2>5. TransactionOK(r)'
    BY <2>1 DEF TransactionOK
  <2>6. \A q, s \in Requests : q # s => ApartOK(q, s)'
    BY <1>2, <2>1, <2>2, ApartKept DEF IInv
  <2> QED
    BY <1>1, <1>2, <1>7, <2>1, <2>2, <2>4, <2>5, <2>6, MoveStep
<1>9. CASE ~KeyTaken(r, x)
  <2>1. /\ inserted' = [inserted EXCEPT ![r] = @ \cup {x}] /\ inserted'[r] = inserted[r] \cup {x}
        /\ pc' = pc /\ CaseOf(r)' = CaseOf(r)
        /\ snapshot' = snapshot /\ deleted' = deleted
    BY <1>1, <1>5, <1>7, <1>9 DEF InsertRow, TypeOK, CaseOf
  <2>2. \A q \in Requests : q # r => Untouched(q)
    BY <1>1, <1>7, <2>1 DEF TypeOK, Untouched
  <2>3. RequestOK(r)'
    BY <1>1, <1>2, <1>7, <2>1 DEF RequestOK
  <2>4. TransactionOK(r)'
    <3>1. /\ IsFiniteSet(inserted[r])
          /\ inserted[r] = Prefix(CaseOf(r), local[r].tx, n)
      BY <1>1, <1>2, <1>3 DEF TransactionOK
    <3>2. x \notin inserted[r]
      BY <1>5, <3>1 DEF Prefix
    <3>3. IsFiniteSet(inserted'[r]) /\ Cardinality(inserted'[r]) = n + 1
      BY <1>3, <2>1, <3>1, <3>2, FS_AddElement
    <3>4. inserted'[r] = Prefix(CaseOf(r), local[r].tx, n + 1)
      <4>1. Prefix(CaseOf(r), local[r].tx, n)
               \cup {[case_id |-> CaseOf(r), position |-> n + 1, tx |-> local[r].tx]}
            = Prefix(CaseOf(r), local[r].tx, n + 1)
        BY PrefixNext
      <4> QED
        BY <1>4, <2>1, <3>1, <4>1
    <3>5. \A y \in table \ deleted[r] : ~SameKey(x, y)
      BY <1>9 DEF KeyTaken
    <3>6. \A z \in inserted'[r], y \in table \ deleted[r] : ~SameKey(z, y)
      BY <1>1, <2>1, <3>5 DEF TransactionOK
    <3> QED
      BY <1>1, <1>2, <1>6, <1>7, <2>1, <3>3, <3>4, <3>6 DEF TransactionOK
  <2>5. \A q, s \in Requests : q # s => ApartOK(q, s)'
    <3> SUFFICES ASSUME NEW q \in Requests, NEW s \in Requests, q # s
                 PROVE  ApartOK(q, s)'
      OBVIOUS
    <3>1. ApartOK(q, s)
      BY DEF IInv
    <3>2. \A t \in Requests : t # r => \A y \in inserted[t] : ~SameKey(x, y) /\ ~SameKey(y, x)
      BY <1>2, <1>5 DEF KeyHeld, Others, SameKey
    <3>3. /\ q # r => inserted'[q] = inserted[q]
          /\ s # r => inserted'[s] = inserted[s]
      BY <2>2 DEF Untouched
    <3>4. \A z \in inserted'[q], y \in inserted'[s] : ~SameKey(z, y)
      BY <2>1, <3>1, <3>2, <3>3 DEF ApartOK
    <3>5. CaseOf(q)' = CaseOf(q) /\ CaseOf(s)' = CaseOf(s)
      BY <1>7 DEF CaseOf
    <3> QED
      BY <2>1, <3>1, <3>4, <3>5 DEF ApartOK
  <2> QED
    BY <1>1, <1>2, <1>7, <2>1, <2>2, <2>3, <2>4, <2>5, MoveStep
<1> QED
  BY <1>8, <1>9

(* The event of an indexing: one request less has it still to record.      *)
LEMMA LogIndexedStep ==
    ASSUME IInv, NEW r \in Requests, LogIndexed(r)
    PROVE  IInv'
<1>1. TypeOK /\ TypeOK' /\ RequestOK(r) /\ TransactionOK(r) /\ CaseOf(r) \in Cases
  BY StepFacts DEF LogIndexed, Step
<1>2. PICK d \in Cases : d = CaseOf(r)
  BY <1>1
<1>3. /\ pc[r] = "log" /\ pc'[r] = "idle"
      /\ audit' = [audit EXCEPT ![d] = Append(@, "indexed")]
      /\ UNCHANGED <<backend, cases, known, table, snapshot, deleted, inserted, indexed, served>>
  BY <1>1, <1>2 DEF LogIndexed, AppendAuditEvent, Respond, Goto, TypeOK, caseVars, txVars, CaseOf
<1>4. \A q \in Requests : q # r => Untouched(q)
  BY <1>1 DEF LogIndexed, Respond, Goto, TypeOK, Untouched, txVars
<1>5. served \in Nat /\ served' \in Nat /\ served <= served'
  BY <1>1, <1>3, RetrievalAssumption DEF TypeOK
<1>6. \A q \in Requests : q # r => Tolerable(q)
  <2> SUFFICES ASSUME NEW q \in Requests, q # r
               PROVE  Tolerable(q)
    OBVIOUS
  <2>1. pc[q] \in {"create", "log_created"} => CaseOf(q) # d
    BY <1>2, <1>3 DEF IInv, ApartOK
  <2>2. \A e \in Cases : indexed[e] <= indexed'[e]
    BY <1>1, <1>3 DEF TypeOK
  <2>3. \A e \in Cases : e # d => audit'[e] = audit[e]
    BY <1>1, <1>3 DEF TypeOK
  <2>4. pc[q] # "idle" => CaseOf(q) \in Cases
    BY DEF IInv, RequestOK, Local, CaseOf
  <2> QED
    BY <1>3, <1>5, <2>1, <2>2, <2>3, <2>4 DEF Tolerable
<1>7. RequestOK(r)'
  BY <1>3 DEF RequestOK, Indexing
<1>8. TransactionOK(r)'
  BY <1>1, <1>3 DEF TransactionOK
<1>9. \A q, s \in Requests : q # s => ApartOK(q, s)'
  BY <1>3, <1>4, ApartKept DEF IInv
<1>10. \A e \in Cases : CaseOK(e)'
  <2> SUFFICES ASSUME NEW e \in Cases
               PROVE  CaseOK(e)'
    OBVIOUS
  <2>1. CaseOK(e) /\ indexed[e] \in Nat /\ audit[e] \in Seq({"created", "indexed"})
    BY <1>1 DEF IInv, TypeOK
  <2>2. CASE e = d
    <3>1. r \in Logging(e) /\ Logging(e)' = Logging(e) \ {r}
      BY <1>2, <1>3, <1>4, <2>2 DEF Logging, CaseOf, Untouched
    <3>2. PICK k \in Nat : k = Cardinality(Logging(e))
      BY LoggingFinite
    <3>3. Cardinality(Logging(e)') = k - 1
      BY <3>1, <3>2, LoggingFinite, FS_RemoveElement
    <3>4. audit'[e] = Append(audit[e], "indexed")
      BY <1>1, <1>3, <2>2 DEF TypeOK
    <3>5. e \in known
      BY <1>1, <1>2, <1>3, <2>2 DEF RequestOK, Indexing
    <3>6. audit[e] # <<>> /\ audit[e][1] = "created" /\ e \in cases
      BY <2>1, <3>5 DEF CaseOK
    <3>7. PICK m \in Nat : m = Len(audit[e]) /\ m > 0
      BY <2>1, <3>6
    <3>8. /\ audit'[e] # <<>> /\ audit'[e][1] = "created" /\ Len(audit'[e]) = m + 1
          /\ audit'[e][m + 1] = "indexed"
          /\ \A i \in 1..m : audit'[e][i] = audit[e][i]
      BY <2>1, <3>4, <3>6, <3>7
    <3>9. \A i \in 2..Len(audit'[e]) : audit'[e][i] = "indexed"
      BY <2>1, <3>7, <3>8 DEF CaseOK
    <3>10. m - 1 + k <= indexed[e]
      BY <2>1, <3>2, <3>7 DEF CaseOK
    <3>11. Len(audit'[e]) - 1 + Cardinality(Logging(e)') <= indexed'[e]
      BY <1>3, <2>1, <3>3, <3>8, <3>10
    <3> QED
      BY <1>3, <3>5, <3>6, <3>8, <3>9, <3>11 DEF CaseOK
  <2>3. CASE e # d
    <3>1. audit'[e] = audit[e]
      BY <1>1, <1>3, <2>3 DEF TypeOK
    <3>2. Logging(e)' = Logging(e)
      BY <1>2, <1>3, <1>4, <2>3 DEF Logging, CaseOf, Untouched
    <3> QED
      BY <1>3, <2>1, <3>1, <3>2 DEF CaseOK
  <2> QED
    BY <2>2, <2>3
<1> QED
  BY <1>1, <1>3, <1>4, <1>5, <1>6, <1>7, <1>8, <1>9, <1>10, QuietStep

(* A request that ends early leaves its case with an event too few.        *)
LEMMA AbandonStep ==
    ASSUME IInv, NEW r \in Requests, Abandon(r)
    PROVE  IInv'
<1>1. TypeOK /\ TypeOK' /\ RequestOK(r) /\ TransactionOK(r)
  BY StepFacts DEF Abandon
<1>2. /\ pc'[r] = "idle" /\ snapshot'[r] = {} /\ deleted'[r] = {} /\ inserted'[r] = {}
      /\ UNCHANGED <<backend, cases, known, table, indexed, audit, served>>
  BY <1>1 DEF Abandon, EndTransaction, Respond, Goto, TypeOK, caseVars
<1>3. \A q \in Requests : q # r => Untouched(q)
  BY <1>1 DEF Abandon, EndTransaction, Respond, Goto, TypeOK, Untouched
<1>4. served \in Nat /\ served' \in Nat /\ served <= served'
  BY <1>1, <1>2, RetrievalAssumption DEF TypeOK
<1>5. \A q \in Requests : q # r => Tolerable(q)
  BY <1>1, <1>2, <1>4, TolerableQuiet
<1>6. RequestOK(r)'
  BY <1>2 DEF RequestOK, Indexing
<1>7. TransactionOK(r)'
  BY <1>2 DEF TransactionOK
<1>8. \A q, s \in Requests : q # s => ApartOK(q, s)'
  BY <1>2, <1>3, ApartKept DEF IInv
<1>9. \A e \in Cases : CaseOK(e)'
  <2> SUFFICES ASSUME NEW e \in Cases
               PROVE  CaseOK(e)'
    OBVIOUS
  <2>1. CaseOK(e) /\ indexed[e] \in Nat /\ Len(audit[e]) \in Nat
    BY <1>1 DEF IInv, TypeOK
  <2>2. Logging(e)' \in SUBSET Logging(e)
    BY <1>2, <1>3 DEF Logging, CaseOf, Untouched
  <2>3. PICK k \in Nat : k = Cardinality(Logging(e))
    BY LoggingFinite
  <2>4. IsFiniteSet(Logging(e)') /\ Cardinality(Logging(e)') <= k
    BY <2>2, <2>3, LoggingFinite, FS_Subset
  <2>5. PICK l \in Nat : l = Cardinality(Logging(e)')
    BY <2>4, FS_CardinalityType
  <2>6. Len(audit[e]) - 1 + k <= indexed[e]
    BY <2>1, <2>3 DEF CaseOK
  <2>7. Len(audit[e]) - 1 + l <= indexed[e]
    BY <2>1, <2>4, <2>5, <2>6
  <2> QED
    BY <1>2, <2>1, <2>5, <2>7 DEF CaseOK
<1> QED
  BY <1>1, <1>2, <1>3, <1>4, <1>5, <1>6, <1>7, <1>8, <1>9, QuietStep

-----------------------------------------------------------------------------
(* The steps that replace the index of a case.                             *)

(* One indexing more, which request r has still to record.                 *)
LEMMA CasesIndexed ==
    ASSUME IInv, TypeOK', NEW r \in Requests, NEW d \in Cases, d = CaseOf(r), d \in known,
           pc[r] # "log", pc'[r] = "log", local'[r] = local[r],
           \A q \in Requests : q # r => Untouched(q),
           indexed' = [indexed EXCEPT ![d] = @ + 1], UNCHANGED <<cases, known, audit>>
    PROVE  \A e \in Cases : CaseOK(e)'
<1> SUFFICES ASSUME NEW e \in Cases
             PROVE  CaseOK(e)'
  OBVIOUS
<1>1. /\ CaseOK(e) /\ indexed[e] \in Nat /\ Len(audit[e]) \in Nat
      /\ indexed'[e] = IF e = d THEN indexed[e] + 1 ELSE indexed[e]
  BY DEF IInv, TypeOK
<1>2. PICK k \in Nat : k = Cardinality(Logging(e))
  BY LoggingFinite
<1>3. Len(audit[e]) - 1 + k <= indexed[e]
  BY <1>1, <1>2 DEF CaseOK
<1>4. Logging(e)' = IF e = d THEN Logging(e) \cup {r} ELSE Logging(e)
  BY DEF Logging, CaseOf, Untouched
<1>5. r \notin Logging(e)
  BY DEF Logging
<1>6. Cardinality(Logging(e)') = IF e = d THEN k + 1 ELSE k
  BY <1>2, <1>4, <1>5, LoggingFinite, FS_AddElement
<1>7. Len(audit[e]) - 1 + Cardinality(Logging(e)') <= indexed'[e]
  <2>1. PICK m \in Nat, j \in Nat : m = Len(audit[e]) /\ j = indexed[e]
    BY <1>1
  <2>2. m - 1 + k <= j
    BY <1>3, <2>1
  <2>3. CASE e = d
    <3>1. indexed'[e] = j + 1 /\ Cardinality(Logging(e)') = k + 1
      BY <1>1, <1>6, <2>1, <2>3
    <3>2. m - 1 + (k + 1) <= j + 1
      BY <2>2
    <3> QED
      BY <2>1, <3>1, <3>2
  <2>4. CASE e # d
    BY <1>1, <1>6, <2>1, <2>2, <2>4
  <2> QED
    BY <2>3, <2>4
<1>8. indexed'[e] > 0 => e \in known
  BY <1>1 DEF CaseOK
<1> QED
  BY <1>1, <1>7, <1>8 DEF CaseOK

(* The index that is there is whole again, and the others are as before.   *)
LEMMA IndexReplaced ==
    ASSUME IInv, TypeOK', NEW d \in Cases, NEW tx \in 1..served,
           RowsOf(d, table') = Chunks(d, tx),
           \A e \in Cases : e # d => RowsOf(e, table') = RowsOf(e, table),
           indexed' = [indexed EXCEPT ![d] = @ + 1], served' = served
    PROVE  IndexWhole'
<1> SUFFICES ASSUME NEW e \in Cases
             PROVE  IF indexed'[e] = 0 THEN RowsOf(e, table') = {}
                    ELSE \E t \in 1..served : RowsOf(e, table') = Chunks(e, t)
  BY DEF IndexWhole, RowsOf, Chunks
<1>1. indexed[e] \in Nat /\ indexed'[e] = IF e = d THEN indexed[e] + 1 ELSE indexed[e]
  BY DEF IInv, TypeOK
<1>2. CASE e = d
  BY <1>1, <1>2
<1>3. CASE e # d
  BY <1>1, <1>3 DEF IInv, IndexWhole
<1> QED
  BY <1>2, <1>3

(* With the memory backend there are no transactions.                      *)
LEMMA ReplaceStep ==
    ASSUME IInv, NEW r \in Requests, Replace(r)
    PROVE  IInv'
<1>1. TypeOK /\ TypeOK' /\ RequestOK(r) /\ TransactionOK(r) /\ CaseOf(r) \in Cases
  BY StepFacts DEF Replace, Step
<1>2. PICK d \in Cases : d = CaseOf(r)
  BY <1>1
<1>3. /\ pc[r] = "replace" /\ pc'[r] = "log" /\ local'[r] = local[r] /\ CaseOf(r)' = d
      /\ table' = (table \ RowsOf(d, table)) \cup Chunks(d, local[r].tx)
      /\ indexed' = [indexed EXCEPT ![d] = @ + 1]
      /\ UNCHANGED <<backend, cases, known, snapshot, deleted, inserted, audit, served>>
  BY <1>1, <1>2 DEF Replace, Goto, TypeOK, caseVars, txVars, CaseOf
<1>4. \A q \in Requests : q # r => Untouched(q)
  BY <1>1 DEF Replace, Goto, TypeOK, Untouched, txVars
<1>5. d \in known /\ local[r].tx \in 1..served /\ backend = "memory"
  BY <1>1, <1>2, <1>3 DEF RequestOK, Indexing
<1>6. /\ served \in Nat
      /\ \A e \in Cases : indexed[e] <= indexed'[e]
  BY <1>1, <1>3, RetrievalAssumption DEF TypeOK
<1>7. \A q \in Requests : q # r => Tolerable(q)
  BY <1>3, <1>6 DEF Tolerable
<1>8. \A q \in Requests : RequestOK(q)'
  <2>1. RequestOK(r)'
    BY <1>1, <1>2, <1>3 DEF RequestOK, Indexing
  <2> QED
    BY <1>1, <1>4, <1>7, <2>1, RequestKept DEF IInv
<1>9. \A q \in Requests : TransactionOK(q)'
  <2> SUFFICES ASSUME NEW q \in Requests
               PROVE  TransactionOK(q)'
    OBVIOUS
  <2>1. RequestOK(q) /\ TransactionOK(q)
    BY DEF IInv
  <2>2. snapshot[q] = {} /\ deleted[q] = {} /\ inserted[q] = {} /\ pc[q] # "insert"
    BY <1>5, <2>1 DEF RequestOK, TransactionOK
  <2>3. pc'[q] # "insert"
    BY <1>3, <1>4, <2>2 DEF Untouched
  <2> QED
    BY <1>3, <2>2, <2>3 DEF TransactionOK
<1>10. \A q, s \in Requests : q # s => ApartOK(q, s)'
  BY <1>3, <1>4, ApartKept DEF IInv
<1>11. \A e \in Cases : CaseOK(e)'
  BY <1>1, <1>2, <1>3, <1>4, <1>5, CasesIndexed
<1>12. RowsOf(d, table') = Chunks(d, local[r].tx)
  BY <1>3 DEF RowsOf, Chunks
<1>13. \A e \in Cases : e # d => RowsOf(e, table') = RowsOf(e, table)
  BY <1>3 DEF RowsOf, Chunks
<1>14. IndexWhole'
  BY <1>1, <1>3, <1>5, <1>12, <1>13, IndexReplaced
<1> QED
  BY <1>1, <1>8, <1>9, <1>10, <1>11, <1>14 DEF IInv

(* Every committed row of the case has the key of an inserted one, so the  *)
(* transaction has deleted it: what it inserted is the index.              *)
LEMMA CommitStep ==
    ASSUME IInv, NEW r \in Requests, Commit(r)
    PROVE  IInv'
<1>1. /\ TypeOK /\ TypeOK' /\ RequestOK(r) /\ TransactionOK(r)
      /\ CaseOf(r) \in Cases /\ ChunkCount[CaseOf(r)] \in Nat
  BY StepFacts DEF Commit, Step
<1>2. PICK d \in Cases : d = CaseOf(r)
  BY <1>1
<1>3. /\ pc[r] = "insert" /\ pc'[r] = "log" /\ local'[r] = local[r] /\ CaseOf(r)' = d
      /\ Cardinality(inserted[r]) = ChunkCount[d]
      /\ table' = (table \ deleted[r]) \cup inserted[r]
      /\ indexed' = [indexed EXCEPT ![d] = @ + 1]
      /\ snapshot'[r] = {} /\ deleted'[r] = {} /\ inserted'[r] = {}
      /\ UNCHANGED <<backend, cases, known, audit, served>>
  BY <1>1, <1>2 DEF Commit, EndTransaction, Goto, TypeOK, caseVars, CaseOf
<1>4. \A q \in Requests : q # r => Untouched(q)
  BY <1>1 DEF Commit, EndTransaction, Goto, TypeOK, Untouched
<1>5. d \in known /\ local[r].tx \in 1..served
  BY <1>1, <1>2, <1>3 DEF RequestOK, Indexing
<1>6. /\ served \in Nat
      /\ \A e \in Cases : indexed[e] <= indexed'[e]
  BY <1>1, <1>3, RetrievalAssumption DEF TypeOK
<1>7. \A q \in Requests : q # r => Tolerable(q)
  BY <1>3, <1>6 DEF Tolerable
<1>8. \A q \in Requests : RequestOK(q)'
  <2>1. RequestOK(r)'
    BY <1>1, <1>2, <1>3 DEF RequestOK, Indexing
  <2> QED
    BY <1>1, <1>4, <1>7, <2>1, RequestKept DEF IInv
<1>9. \A q \in Requests : TransactionOK(q)'
  <2> SUFFICES ASSUME NEW q \in Requests
               PROVE  TransactionOK(q)'
    OBVIOUS
  <2>1. CASE q = r
    BY <1>3, <2>1 DEF TransactionOK
  <2>2. CASE q # r
    <3>1. TransactionOK(q) /\ ApartOK(r, q) /\ Untouched(q)
      BY <1>4, <2>2 DEF IInv
    <3>2. CaseOf(q)' = CaseOf(q)
      BY <3>1 DEF CaseOf, Untouched
    <3>3. deleted[q] \subseteq table'
      BY <1>3, <3>1 DEF TransactionOK, ApartOK
    <3>4. \A x \in inserted[q], y \in table' \ deleted[q] : ~SameKey(x, y)
      BY <1>3, <3>1 DEF TransactionOK, ApartOK, SameKey
    <3> QED
      BY <3>1, <3>2, <3>3, <3>4 DEF TransactionOK, Untouched
  <2> QED
    BY <2>1, <2>2
<1>10. \A q, s \in Requests : q # s => ApartOK(q, s)'
  BY <1>3, <1>4, ApartKept DEF IInv
<1>11. \A e \in Cases : CaseOK(e)'
  BY <1>1, <1>2, <1>3, <1>4, <1>5, CasesIndexed
<1>12. inserted[r] = Chunks(d, local[r].tx)
  BY <1>1, <1>2, <1>3, ChunksPrefix DEF TransactionOK
<1>13. RowsOf(d, table \ deleted[r]) = {}
  <2> SUFFICES ASSUME NEW y \in table \ deleted[r], y.case_id = d
               PROVE  FALSE
    BY DEF RowsOf
  <2>1. y \in RowsOf(d, table)
    BY DEF RowsOf
  <2>2. PICK t : RowsOf(d, table) = Chunks(d, t)
    BY <2>1 DEF IInv, IndexWhole
  <2>3. PICK i \in 1..ChunkCount[d] : y = [case_id |-> d, position |-> i, tx |-> t]
    BY <2>1, <2>2 DEF Chunks
  <2>4. [case_id |-> d, position |-> i, tx |-> local[r].tx] \in inserted[r]
    BY <1>12 DEF Chunks
  <2>5. SameKey([case_id |-> d, position |-> i, tx |-> local[r].tx], y)
    BY <2>3 DEF SameKey
  <2> QED
    BY <1>1, <2>4, <2>5 DEF TransactionOK
<1>14. RowsOf(d, table') = Chunks(d, local[r].tx)
  BY <1>3, <1>12, <1>13 DEF RowsOf, Chunks
<1>15. \A e \in Cases : e # d => RowsOf(e, table') = RowsOf(e, table)
  <2>1. \A x \in deleted[r] \cup inserted[r] : x.case_id = d
    BY <1>1, <1>2, <1>12 DEF TransactionOK, Chunks
  <2> QED
    BY <1>3, <2>1 DEF RowsOf
<1>16. IndexWhole'
  BY <1>1, <1>3, <1>5, <1>14, <1>15, IndexReplaced
<1> QED
  BY <1>1, <1>8, <1>9, <1>10, <1>11, <1>16 DEF IInv

-----------------------------------------------------------------------------
(* The theorems.                                                           *)

(* There is no case and no row at first.                                   *)
LEMMA InitIInv == Init => IInv
<1> SUFFICES ASSUME Init
             PROVE  IInv
  OBVIOUS
<1>1. TypeOK
  BY RetrievalAssumption DEF Init, TypeOK
<1>2. \A r \in Requests : RequestOK(r) /\ TransactionOK(r)
  BY DEF Init, RequestOK, TransactionOK, Indexing
<1>3. \A q, r \in Requests : q # r => ApartOK(q, r)
  BY DEF Init, ApartOK
<1>4. \A c \in Cases : CaseOK(c)
  <2> SUFFICES ASSUME NEW c \in Cases
               PROVE  CaseOK(c)
    OBVIOUS
  <2>1. Logging(c) = {}
    BY DEF Init, Logging
  <2>2. Cardinality(Logging(c)) = 0
    BY <2>1, FS_EmptySet
  <2>3. audit[c] = <<>> /\ indexed[c] = 0 /\ Len(audit[c]) = 0 /\ c \notin known
    BY DEF Init
  <2> QED
    BY <2>2, <2>3 DEF CaseOK
<1>5. IndexWhole
  BY DEF Init, IndexWhole, RowsOf
<1> QED
  BY <1>1, <1>2, <1>3, <1>4, <1>5 DEF IInv

(* A step that changes no variable keeps the invariant.                    *)
LEMMA StutterStep ==
    ASSUME IInv, UNCHANGED vars
    PROVE  IInv'
<1> USE DEF vars, caseVars, txVars
<1>1. TypeOK'
  BY DEF IInv, TypeOK
<1>2. \A r \in Requests : RequestOK(r)' /\ TransactionOK(r)'
  BY DEF IInv, RequestOK, TransactionOK, CaseOf
<1>3. \A q, r \in Requests : q # r => ApartOK(q, r)'
  BY DEF IInv, ApartOK, CaseOf
<1>4. \A c \in Cases : CaseOK(c)'
  BY CasesKept DEF IInv
<1>5. IndexWhole'
  BY DEF IInv, IndexWhole
<1> QED
  BY <1>1, <1>2, <1>3, <1>4, <1>5 DEF IInv

(* Every step of every request keeps the invariant.                        *)
LEMMA NextIInv == IInv /\ [Next]_vars => IInv'
<1> SUFFICES ASSUME IInv, [Next]_vars
             PROVE  IInv'
  OBVIOUS
<1>1. CASE Next
  <2>1. PICK r \in Requests : \/ \E c \in Cases : CreateCase(r, c) \/ IndexCaseDocuments(r, c)
                              \/ Step(r) \/ Abandon(r)
    BY <1>1 DEF Next
  <2>2. CASE \E c \in Cases : CreateCase(r, c) \/ IndexCaseDocuments(r, c)
    BY <2>2, CreateCaseStep, IndexCaseDocumentsStep
  <2>3. CASE Step(r)
    BY <2>3, CreateStep, LogCreatedStep, EmbedStep, ReplaceStep, BeginDeleteStep, DeleteRowStep,
       EndDeleteStep, InsertRowStep, IntegrityErrorStep, CommitStep, LogIndexedStep DEF Step
  <2>4. CASE Abandon(r)
    BY <2>4, AbandonStep
  <2> QED
    BY <2>1, <2>2, <2>3, <2>4
<1>2. CASE UNCHANGED vars
  BY <1>2, StutterStep
<1> QED
  BY <1>1, <1>2

(* The inductive invariant holds throughout.                               *)
THEOREM Invariance == Spec => []IInv
BY InitIInv, NextIInv, PTL DEF Spec

(* Every variable of the model keeps its type.                             *)
THEOREM TypeCorrect == Spec => []TypeOK
<1>1. IInv => TypeOK
  BY DEF IInv
<1> QED
  BY <1>1, Invariance, PTL

(* What is committed of a case is always the whole work of one index_case  *)
(* call, and there is something as soon as one call has succeeded, for any *)
(* number of concurrent, interrupted and refused calls                     *)
(* (PgVectorRetrievalService.index_case).                                  *)
THEOREM WholeIndex == Spec => []IndexWhole
<1>1. IInv => IndexWhole
  BY DEF IInv
<1> QED
  BY <1>1, Invariance, PTL

(* The history of a case begins with its creation, which is recorded once, *)
(* and never lists more indexings than there were (create_case,            *)
(* index_case_documents, append_audit_event).                              *)
THEOREM TrueHistory == Spec => []HistoryTrue
<1>1. IInv => HistoryTrue
  <2> SUFFICES ASSUME IInv, NEW c \in Cases
               PROVE  /\ c \in known \/ indexed[c] > 0 => audit[c] # <<>>
                      /\ audit[c] # <<>> => audit[c][1] = "created" /\ c \in cases
                      /\ \A i \in 2..Len(audit[c]) : audit[c][i] = "indexed"
                      /\ Len(audit[c]) - 1 <= indexed[c]
    BY DEF HistoryTrue
  <2>1. CaseOK(c) /\ indexed[c] \in Nat /\ Len(audit[c]) \in Nat
    BY DEF IInv, TypeOK
  <2>2. PICK k \in Nat : k = Cardinality(Logging(c))
    BY LoggingFinite
  <2>3. Len(audit[c]) - 1 + k <= indexed[c]
    BY <2>1, <2>2 DEF CaseOK
  <2>4. Len(audit[c]) - 1 <= indexed[c]
    BY <2>1, <2>3
  <2> QED
    BY <2>1, <2>4 DEF CaseOK
<1> QED
  BY <1>1, Invariance, PTL

(* An index request meets a taken key only when another one has replaced   *)
(* the index, which is there (index_case).                                 *)
THEOREM RefusalsJustified == Spec => []RefusedOnlyWhenIndexed
<1>1. IInv => RefusedOnlyWhenIndexed
  <2> SUFFICES ASSUME IInv, NEW r \in Requests, pc[r] = "integrity_error"
               PROVE  indexed[CaseOf(r)] > 0 /\ RowsOf(CaseOf(r), table) # {}
    BY DEF RefusedOnlyWhenIndexed, CaseOf
  <2>1. RequestOK(r)
    BY DEF IInv
  <2>2. CaseOf(r) \in Cases
    BY <2>1 DEF RequestOK, CaseOf, Local
  <2>3. indexed[CaseOf(r)] > 0 /\ ChunkCount[CaseOf(r)] > 0
    BY <2>1 DEF RequestOK
  <2>4. ChunkCount[CaseOf(r)] \in Nat /\ indexed[CaseOf(r)] \in Nat
    BY <2>2, RetrievalAssumption DEF IInv, TypeOK
  <2>5. PICK tx : RowsOf(CaseOf(r), table) = Chunks(CaseOf(r), tx)
    BY <2>2, <2>3, <2>4 DEF IInv, IndexWhole
  <2>6. 1 \in 1..ChunkCount[CaseOf(r)]
    BY <2>3, <2>4
  <2>7. [case_id |-> CaseOf(r), position |-> 1, tx |-> tx] \in Chunks(CaseOf(r), tx)
    BY <2>6 DEF Chunks
  <2> QED
    BY <2>3, <2>5, <2>7
<1> QED
  BY <1>1, Invariance, PTL

=============================================================================
