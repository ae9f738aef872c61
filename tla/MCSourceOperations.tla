-------------------------- MODULE MCSourceOperations --------------------------
(* Small instances of SourceOperations for TLC.                            *)
EXTENDS SourceOperations
=============================================================================
