------------------------ MODULE MCImportFinalization ------------------------
(* Small instances of ImportFinalization for TLC.                          *)
EXTENDS ImportFinalization, TLC

CONSTANTS s1, s2, src1, src2

\* Worker processes that were each given their own --worker-id.
OwnNames   == [w \in Workers |-> w]

\* Both sessions of one source, each of its own, or either.
OneSource  == {[s \in Sessions |-> src1]}
TwoSources == {[s \in Sessions |-> IF s = s1 THEN src1 ELSE src2]}
EitherWay  == OneSource \cup TwoSources

\* Sound with OneSource and OwnNames, which treat their members alike.
Alike == Permutations(Sessions) \cup Permutations(Workers) \cup Permutations(Threads)
=============================================================================
