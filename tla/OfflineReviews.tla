--------------------------- MODULE OfflineReviews ---------------------------
(* Reviews run with the deterministic model backend of Assessment, as in   *)
(* development and in the tests.                                           *)
EXTENDS Reviews, Assessment

(* What the backend may recommend on a case's documents: one thing.        *)
DeterministicBackend(dossier) == {SynthesizeFindings(Findings(dossier))}

-----------------------------------------------------------------------------
(* Properties.                                                             *)

(* The review that is stored, and that a proposal is made from, follows    *)
(* from the case's documents: its recommendation is the one the reference  *)
(* definition demands, whichever handler ran the review and however often  *)
(* it was asked for, interrupted and taken up again (DeterministicBackend, *)
(* the graph and persist_completed_review).                                *)
RecommendationJustified ==
    \A e \in Executions :
        reviews[e] # None => Justified(documents[CaseOf[e]], reviews[e].recommendation)

=============================================================================
