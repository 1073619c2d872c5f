---------------------------- MODULE MCRetrieval -----------------------------
(* Retrieval for TLC: a case with two chunks and one with a single chunk.  *)
EXTENDS Retrieval, TLC

TwoAndOne == [c \in Cases |-> IF c = "case1" THEN 2 ELSE 1]

=============================================================================
