----------------------------- MODULE MCReviews ------------------------------
(* Reviews for TLC: one case, with executions that share its status.       *)
EXTENDS OfflineReviews, TLC

OneCase == [e \in Executions |-> "case1"]

(* A live model may recommend anything.                                    *)
AnyDecision(dossier) == Decisions

OneDossier == {<<>>}

(* The request slots are interchangeable: no definition names one of them. *)
RequestSymmetry == Permutations(Requests)

(* Nothing; an assured supplier; the same with shared accounts in a second *)
(* document; a burden and no assurance.                                    *)
FourDossiers == {<<>>,
                 <<{}, {"iso 27001"}>>,
                 <<{"soc 2", "auto-renewal"}, {"shared password", "soc 2"}>>,
                 <<{"going concern"}>>}

=============================================================================
