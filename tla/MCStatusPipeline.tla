--------------------------- MODULE MCStatusPipeline ---------------------------
(* A small instance of StatusPipeline for TLC. *)
EXTENDS StatusPipeline

\* Bytes move one at a time.
MCChunks == {1}
=============================================================================
