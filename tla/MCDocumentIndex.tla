-------------------------- MODULE MCDocumentIndex --------------------------
(* An instance of DocumentIndex for TLC. *)
EXTENDS DocumentIndex
=============================================================================
