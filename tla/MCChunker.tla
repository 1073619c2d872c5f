----------------------------- MODULE MCChunker ------------------------------
(* Chunker for TLC, which stops when the document is cut.                  *)
EXTENDS Chunker, TLC

=============================================================================
