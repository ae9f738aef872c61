---------------------------- MODULE MCResearchRuns ----------------------------
(***************************************************************************)
(* Research Runs for TLC.                                                  *)
(***************************************************************************)
EXTENDS ResearchRuns, TLC

Job(k, e, f) == [kind |-> k, evidence |-> e, flags |-> f]

\* Every kind of run: with and without evidence, with and without markers.
EveryJob == {Job(k, e, f) : k \in Kinds, e \in BOOLEAN, f \in BOOLEAN}

\* One run of each kind with a result, and the one that finds none.
OneOfEach == {Job("rules", TRUE, FALSE), Job("model", TRUE, FALSE), Job("rules", FALSE, FALSE)}

Alike == Permutations(Workers)
=============================================================================
