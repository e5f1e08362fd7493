---------------------------- MODULE MCRetrieval ----------------------------
(* Two interchangeable commands beside the WebUI. *)
EXTENDS Retrieval, TLC

MCWriter == Command \union {Web}
Interchangeable == Permutations(Command)
=============================================================================
