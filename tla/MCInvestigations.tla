-------------------------- MODULE MCInvestigations --------------------------
(* A small instance of Investigations for TLC.                             *)
EXTENDS Investigations, TLC

\* Nothing tells requests apart.
Alike == Permutations(Threads)
=============================================================================
