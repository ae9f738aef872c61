-------------------------- MODULE MCQuantWorkspace --------------------------
(* Small instances of QuantWorkspace for TLC.                              *)
EXTENDS QuantWorkspace, TLC

\* Sound when the workers are of one kind: nothing tells them apart, nor requests.
Alike == Permutations(Workers) \cup Permutations(Threads)
=============================================================================
