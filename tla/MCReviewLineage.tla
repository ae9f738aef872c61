--------------------------- MODULE MCReviewLineage ---------------------------
(***************************************************************************)
(* Two claims that share a piece of evidence.                              *)
(***************************************************************************)
EXTENDS ReviewLineage, TLC
CONSTANTS e1, e2, c1, c2

Supports(e)      == e :> "supports"
Contested(e, f)  == (e :> "supports") @@ (f :> "opposes")

FirstCitations == [c \in Claims |-> IF c = c1 THEN Contested(e1, e2) ELSE Supports(e2)]
OtherCitations == {Supports(e1)}

SomeEdits == {{<<c1, e1>>}, {<<c1, e2>>, <<c2, e2>>}}

\* The shared evidence is reviewed again, and one claim is revised.
SharedTwice == [e \in Evidence |-> IF e = e2 THEN 2 ELSE 1]
OneRevised  == [c \in Claims |-> IF c = c1 THEN 2 ELSE 1]
=============================================================================
