----------------------------- MODULE MCChunker -----------------------------
(* _split_message scaled down: the margin 100 becomes 2 and the limit      *)
(* 4096 becomes 5, so that texts of up to 9 characters need up to three    *)
(* cuts, at a newline or at the margin position.                           *)
EXTENDS Chunker
=============================================================================
