----------------------------- MODULE Assessment -----------------------------
(***************************************************************************)
(* The deterministic model backend: what its specialists find in the       *)
(* documents of a case, and the recommendation synthesised from it.        *)
(*                                                                         *)
(* packages/model_gateway/deterministic.py   DeterministicBackend          *)
(*                                                                         *)
(* A document is the set of the rules' terms that its lower-cased content  *)
(* contains, and a case's documents are a sequence.  Findings are told     *)
(* apart by their titles; wording and quotes are left out.                 *)
(***************************************************************************)
EXTENDS Integers, Sequences

Rule(category, terms, absence, severity, title) ==
    [category |-> category, terms |-> terms, absence |-> absence,
     severity |-> severity, title |-> title]

(* _rules                                                                  *)
Rules ==
    {Rule("security", <<"shared credentials", "shared password">>, FALSE, "critical", "shared"),
     Rule("security", <<"soc 2", "iso 27001">>, TRUE, "medium", "assurance"),
     Rule("legal", <<"unlimited liability">>, FALSE, "high", "liability"),
     Rule("legal", <<"automatic renewal", "auto-renewal">>, FALSE, "medium", "renewal"),
     Rule("financial", <<"going concern", "negative cash flow">>, FALSE, "high", "continuity")}

Titles == {"shared", "assurance", "liability", "renewal", "continuity"}

Terms(rule) == {rule.terms[i] : i \in DOMAIN rule.terms}

(* The terms of the joined documents; no term spans the line breaks that   *)
(* join them.                                                              *)
Combined(documents) == UNION {documents[i] : i \in DOMAIN documents}

(* The first of the rule's terms that occurs, as a set of at most one.     *)
Matched(rule, documents) ==
    {rule.terms[i] : i \in {j \in DOMAIN rule.terms :
        /\ rule.terms[j] \in Combined(documents)
        /\ \A k \in 1..(j - 1) : rule.terms[k] \notin Combined(documents)}}

(* _find_evidence: the first document that has the matched term.           *)
FindEvidence(documents, matched) ==
    {i \in DOMAIN documents :
        /\ documents[i] \cap matched # {}
        /\ \A j \in 1..(i - 1) : documents[j] \cap matched = {}}

(* The two continue statements of _review.                                 *)
Applies(rule, documents) ==
    IF rule.absence THEN Terms(rule) \cap Combined(documents) = {}
    ELSE Matched(rule, documents) # {}

(* _review of one specialist; confidence in percent.                       *)
Review(category, documents) ==
    {LET evidence == FindEvidence(documents, Matched(rule, documents)) IN
     [category |-> category, severity |-> rule.severity, title |-> rule.title,
      evidence |-> evidence, confidence |-> IF evidence # {} THEN 96 ELSE 82] :
        rule \in {r \in Rules : r.category = category /\ Applies(r, documents)}}

(* generate for the three specialists, whose findings the graph collects.  *)
Findings(documents) ==
    UNION {Review(category, documents) : category \in {"security", "legal", "financial"}}

(* Fault seeded in _synthesize: the lower severities are tested first.     *)
DecisionOfHigh(severities) ==
    IF severities \cap {"high", "medium"} # {} THEN "remediate"
    ELSE IF "critical" \in severities THEN "escalate"
    ELSE "approve"

(* _synthesize's decision.                                                 *)
DecisionOf(severities) ==
    IF "critical" \in severities THEN "escalate"
    ELSE IF severities \cap {"high", "medium"} # {} THEN "remediate"
    ELSE "approve"

(* The least of the confidences, 0.9 without findings.                     *)
Confidence(findings) ==
    IF findings = {} THEN 90
    ELSE CHOOSE c \in {f.confidence : f \in findings} : \A f \in findings : c <= f.confidence

(* generate for the synthesis.                                             *)
SynthesizeFindings(findings) ==
    [decision |-> DecisionOf({f.severity : f \in findings}),
     required_actions |-> {f.title : f \in findings},
     confidence |-> Confidence(findings)]

Recommendation == [decision : {"approve", "remediate", "escalate"},
                   required_actions : SUBSET Titles, confidence : {82, 90, 96}]

-----------------------------------------------------------------------------
(* The reference: what a recommendation must be, said of the documents.    *)

Mentions(documents, terms) == \E i \in DOMAIN documents : documents[i] \cap terms # {}

Assured(documents) == Mentions(documents, {"soc 2", "iso 27001"})
SharedAccounts(documents) == Mentions(documents, {"shared credentials", "shared password"})
Burdened(documents) ==
    Mentions(documents, {"unlimited liability", "automatic renewal", "auto-renewal",
                         "going concern", "negative cash flow"})

(* Escalation for shared accounts whatever else is found, remediation for  *)
(* any other risk and for missing assurance, approval for nothing else     *)
(* than an assured supplier without risks; each risk asks for an action;   *)
(* only the absence of evidence lowers the confidence.                     *)
Justified(documents, recommendation) ==
    /\ recommendation.decision = "escalate" <=> SharedAccounts(documents)
    /\ recommendation.decision = "approve" <=>
            Assured(documents) /\ ~SharedAccounts(documents) /\ ~Burdened(documents)
    /\ recommendation.required_actions = {} <=> recommendation.decision = "approve"
    /\ "assurance" \in recommendation.required_actions <=> ~Assured(documents)
    /\ recommendation.confidence < 90 <=> ~Assured(documents)

=============================================================================
