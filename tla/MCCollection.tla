----------------------------- MODULE MCCollection -----------------------------
(* One watchlist over two sources of one item each; the first may change.   *)
EXTENDS Collection, TLC

CONSTANTS k1, k2, w1, w2, a, b, srcA, srcB, u1, a1, a2, b1

MCSchedules == {k1, k2}
MCSourceOf == (k1 :> srcA) @@ (k2 :> srcB)
MCWatchOf == (k1 :> u1) @@ (k2 :> u1)
MCItems == {a, b}
MCItemSource == (a :> srcA) @@ (b :> srcB)
MCContentsOf == (a :> {a1}) @@ (b :> {b1})
MCTwoTexts == (a :> {a1, a2}) @@ (b :> {b1})
MCOriginOf == (a :> a) @@ (b :> b)
MCAttempts == (k1 :> 2) @@ (k2 :> 1)
MCSymmetry == Permutations(Workers)
=============================================================================
