------------------------- MODULE ReviewLineageProofs -------------------------
(***************************************************************************)
(* What holds of ReviewLineage for any evidence, claims and bounds.        *)
(*                                                                         *)
(* The freshness records are written by the commands that change a ground, *)
(* one record per changed row; a reader trusts them as if every ground had *)
(* been compared.  The argument: what a synthesis rests on is immutable    *)
(* (Grounded, Sealed), so a later row is the only way to overtake it, and  *)
(* for such grounds the code's projections see neither more nor less than  *)
(* that (IssuesAreOvertaking).                                             *)
(***************************************************************************)
EXTENDS ReviewLineage, TLAPS

Decisions  == {"none", "verify", "reject", "request_more_evidence"}
VersionRow == [links: Links, decision: Decisions, seen: UNION {[E -> Nat] : E \in SUBSET Evidence}]
SynRow     == [grounds: SUBSET (Claims \X Nat), verdict: {"none", "verify", "reject"}]
BriefRow   == [synthesis: Nat, facts: SUBSET (Claims \X Evidence), judged: BOOLEAN,
               searched: BOOLEAN, ready: BOOLEAN, fresh: {"none", "current", "evidence_stale"}]

\* TypeOK, with what it leaves open.
Typed ==
  /\ TypeOK
  /\ versions \in [Claims -> Seq(VersionRow)] /\ \A c \in Claims : Len(versions[c]) > 0
  /\ syntheses \in Seq(SynRow) /\ briefs \in Seq(BriefRow)

\* A verification pinned reviews that exist, none of them a rejection.
Sealed ==
  \A c \in Claims : \A n \in 1..Len(versions[c]) : versions[c][n].decision = "verify" =>
    \A e \in DOMAIN versions[c][n].links :
      /\ versions[c][n].seen[e] \in 1..Len(reviews[e])
      /\ reviews[e][versions[c][n].seen[e]] # "rejected"

\* A synthesis rests on verified claim versions that something supports.
Grounded ==
  \A s \in 1..Len(syntheses) : \A g \in syntheses[s].grounds :
    /\ g[1] \in Claims /\ g[2] \in 1..Len(versions[g[1]])
    /\ versions[g[1]][g[2]].decision = "verify"
    /\ \E e \in DOMAIN versions[g[1]][g[2]].links : versions[g[1]][g[2]].links[e] = "supports"

\* A brief rests on a synthesis that was verified.
Founded == \A i \in 1..Len(briefs) : syntheses[briefs[i].synthesis].verdict = "verify"

\* Between the checks and the commit of mark_ready nothing changes.
ReadyIsChecked == readying => status = "draft" /\ Ready(Last(briefs))

IInv == Typed /\ Sealed /\ Grounded /\ Founded /\ FreshnessIsHonest /\ ReadyIsChecked

-----------------------------------------------------------------------------
(* Sequences.                                                              *)

LEMMA Appending ==
  ASSUME NEW S, NEW q \in Seq(S), NEW e \in S
  PROVE  /\ Append(q, e) \in Seq(S) /\ Len(q) \in Nat /\ Len(Append(q, e)) = Len(q) + 1
         /\ Append(q, e)[Len(q) + 1] = e
         /\ \A n \in 1..Len(q) : Append(q, e)[n] = q[n]
OBVIOUS

LEMMA Replacing ==
  ASSUME NEW S, NEW q \in Seq(S), NEW i \in 1..Len(q), NEW e \in S
  PROVE  /\ [q EXCEPT ![i] = e] \in Seq(S) /\ Len([q EXCEPT ![i] = e]) = Len(q)
         /\ \A n \in 1..Len(q) : [q EXCEPT ![i] = e][n] = IF n = i THEN e ELSE q[n]
OBVIOUS

LEMMA Domains ==
  ASSUME Typed
  PROVE  /\ \A e \in Evidence : Len(reviews[e]) \in Nat /\ DOMAIN reviews[e] = 1..Len(reviews[e])
         /\ \A c \in Claims : /\ Len(versions[c]) \in Nat /\ DOMAIN versions[c] = 1..Len(versions[c])
                              /\ versions[c] \in Seq(VersionRow)
                              /\ \A n \in 1..Len(versions[c]) : versions[c][n] \in VersionRow
         /\ Len(syntheses) \in Nat /\ DOMAIN syntheses = 1..Len(syntheses)
         /\ \A s \in 1..Len(syntheses) : syntheses[s] \in SynRow
         /\ Len(briefs) \in Nat /\ DOMAIN briefs = 1..Len(briefs)
         /\ \A i \in 1..Len(briefs) : briefs[i] \in BriefRow /\ briefs[i].synthesis \in 1..Len(syntheses)
<1>1. \A e \in Evidence : reviews[e] \in Seq(Verdicts)
  BY DEF Typed, TypeOK
<1>2. \A c \in Claims : versions[c] \in Seq(VersionRow)
  BY DEF Typed
<1>3. syntheses \in Seq(SynRow) /\ briefs \in Seq(BriefRow)
  BY DEF Typed
<1>4. DOMAIN syntheses = 1..Len(syntheses) /\ DOMAIN briefs = 1..Len(briefs)
  BY <1>3
<1>5. \A i \in 1..Len(briefs) : briefs[i].synthesis \in 1..Len(syntheses)
  BY <1>4 DEF Typed, TypeOK
<1> QED
  BY <1>1, <1>2, <1>3, <1>4, <1>5

Lengths ==
  /\ \A e \in Evidence : Len(reviews[e]) \in Nat
  /\ \A c \in Claims : Len(versions[c]) \in Nat
  /\ Len(syntheses) \in Nat

LEMMA TypedLengths == Typed => Lengths
BY Domains DEF Lengths

LEMMA LinkEvidence ==
  ASSUME NEW row \in VersionRow
  PROVE  row.links \in Links /\ DOMAIN row.links \subseteq Evidence
BY DEF VersionRow, Links

-----------------------------------------------------------------------------
(* Superseded, and what the code asks instead.                             *)

\* What passes the checks has not been overtaken.
LEMMA CheckedIsCurrent ==
  ASSUME IInv, NEW b, b.synthesis \in 1..Len(syntheses), ~Issues(b)
  PROVE  ~Superseded(b.synthesis)
<1> DEFINE s == b.synthesis
<1>1. s = Len(syntheses) /\ \A g \in syntheses[s].grounds : ClaimVerified(g[1], g[2])
  BY DEF Issues, SynthesisVerified
<1>2. ~(Len(syntheses) > s)
  <2>1. Len(syntheses) \in Nat
    BY Domains DEF IInv
  <2> QED
    BY <1>1, <2>1
<1>3. ASSUME NEW g \in syntheses[s].grounds
      PROVE  /\ ~(Len(versions[g[1]]) > g[2])
             /\ \A e \in DOMAIN versions[g[1]][g[2]].links : ~(Len(reviews[e]) > versions[g[1]][g[2]].seen[e])
  <2>1. /\ g[1] \in Claims /\ g[2] = Len(versions[g[1]])
        /\ \A e \in DOMAIN versions[g[1]][g[2]].links : versions[g[1]][g[2]].seen[e] = Len(reviews[e])
    BY <1>1, <1>3 DEF IInv, Grounded, ClaimVerified
  <2>2. Len(versions[g[1]]) \in Nat /\ g[2] \in 1..Len(versions[g[1]])
    BY <2>1, Domains DEF IInv, Grounded
  <2>3. versions[g[1]][g[2]] \in VersionRow
    BY <2>1, <2>2, Domains DEF IInv
  <2>4. \A e \in DOMAIN versions[g[1]][g[2]].links : Len(reviews[e]) \in Nat
    <3>1. DOMAIN versions[g[1]][g[2]].links \subseteq Evidence
      BY <2>3, LinkEvidence
    <3>2. Lengths
      BY TypedLengths DEF IInv
    <3> QED
      BY <3>1, <3>2 DEF Lengths
  <2>5. ~(Len(versions[g[1]]) > g[2])
    BY <2>1, <2>2
  <2>6. ASSUME NEW e \in DOMAIN versions[g[1]][g[2]].links
        PROVE  ~(Len(reviews[e]) > versions[g[1]][g[2]].seen[e])
    <3>1. Len(reviews[e]) \in Nat /\ versions[g[1]][g[2]].seen[e] = Len(reviews[e])
      BY <2>1, <2>4
    <3> QED
      BY <3>1
  <2> QED
    BY <2>5, <2>6
<1> HIDE DEF s
<1> QED
  BY <1>2, <1>3 DEF Superseded, s

\* What has not been overtaken passes them, if its synthesis was verified.
LEMMA CurrentIsVerified ==
  ASSUME IInv, NEW s \in 1..Len(syntheses), ~Superseded(s), NEW g \in syntheses[s].grounds
  PROVE  /\ ClaimVerified(g[1], g[2])
         /\ \A e \in DOMAIN versions[g[1]][g[2]].links :
              e \in Evidence /\ versions[g[1]][g[2]].seen[e] = Len(reviews[e]) /\ Accepted(e)
<1> DEFINE v == versions[g[1]][g[2]]
<1>1. /\ g[1] \in Claims /\ g[2] \in 1..Len(versions[g[1]]) /\ v.decision = "verify"
      /\ \E e \in DOMAIN v.links : v.links[e] = "supports"
  BY DEF IInv, Grounded
<1>2. v \in VersionRow /\ Len(versions[g[1]]) \in Nat
  BY <1>1, Domains DEF IInv
<1>3. g[2] = Len(versions[g[1]])
  BY <1>1, <1>2 DEF Superseded
<1>4. ASSUME NEW e \in DOMAIN v.links
      PROVE  e \in Evidence /\ v.seen[e] = Len(reviews[e]) /\ Accepted(e)
  <2>1. e \in Evidence /\ Len(reviews[e]) \in Nat
    BY <1>2, LinkEvidence, Domains DEF IInv
  <2>2. v.seen[e] \in 1..Len(reviews[e]) /\ reviews[e][v.seen[e]] # "rejected"
    BY <1>1 DEF IInv, Sealed
  <2>3. ~(Len(reviews[e]) > v.seen[e])
    BY DEF Superseded
  <2>4. v.seen[e] = Len(reviews[e])
    BY <2>1, <2>2, <2>3
  <2> QED
    BY <2>1, <2>2, <2>4 DEF Accepted, Last
<1> QED
  BY <1>1, <1>3, <1>4 DEF ClaimVerified

LEMMA IssuesAreOvertaking ==
  ASSUME IInv, NEW b, b.synthesis \in 1..Len(syntheses), syntheses[b.synthesis].verdict = "verify",
         Issues(b)
  PROVE  Superseded(b.synthesis)
<1> DEFINE s == b.synthesis
<1> SUFFICES ASSUME ~Superseded(s) PROVE FALSE
  OBVIOUS
<1>1. \A g \in syntheses[s].grounds :
         /\ ClaimVerified(g[1], g[2])
         /\ \A e \in DOMAIN versions[g[1]][g[2]].links :
              e \in Evidence /\ versions[g[1]][g[2]].seen[e] = Len(reviews[e]) /\ Accepted(e)
  BY CurrentIsVerified
<1>2. s = Len(syntheses)
  BY Domains DEF Superseded, IInv
<1>3. SynthesisVerified(s)
  BY <1>1, <1>2 DEF SynthesisVerified
<1>4. ASSUME NEW e \in Cited(s)
      PROVE  Len(reviews[e]) \in Pinned(s, e) /\ Accepted(e)
  <2>1. PICK g \in syntheses[s].grounds : e \in DOMAIN versions[g[1]][g[2]].links
    BY DEF Cited
  <2>2. versions[g[1]][g[2]].seen[e] = Len(reviews[e]) /\ Accepted(e)
    BY <1>1, <2>1
  <2> QED
    BY <2>1, <2>2 DEF Pinned
<1> QED
  BY <1>1, <1>3, <1>4 DEF Issues

-----------------------------------------------------------------------------
(* Rows are appended; the ones a synthesis rests on do not change.         *)

Kept ==
  /\ Len(syntheses') >= Len(syntheses)
  /\ \A s \in 1..Len(syntheses) : syntheses'[s].grounds = syntheses[s].grounds
  /\ \A s \in 1..Len(syntheses) : syntheses[s].verdict = "verify" => syntheses'[s].verdict = "verify"
  /\ \A c \in Claims : Len(versions'[c]) >= Len(versions[c])
  /\ \A c \in Claims : \A n \in 1..Len(versions[c]) :
       versions[c][n].decision = "verify" => versions'[c][n] = versions[c][n]
  /\ \A e \in Evidence : Len(reviews'[e]) >= Len(reviews[e])
  /\ \A e \in Evidence : \A n \in 1..Len(reviews[e]) : reviews'[e][n] = reviews[e][n]

LEMMA OvertakenStays ==
  ASSUME IInv, Kept, Typed', NEW s \in 1..Len(syntheses), Superseded(s)
  PROVE  Superseded(s)'
<1> Lengths /\ Lengths'
  BY TypedLengths, PTL DEF IInv
<1>1. Len(syntheses) \in Nat /\ Len(syntheses') \in Nat
  BY DEF Lengths
<1>2. CASE Len(syntheses) > s
  BY <1>1, <1>2 DEF Kept, Superseded
<1>3. ASSUME NEW g \in syntheses[s].grounds,
             \/ Len(versions[g[1]]) > g[2]
             \/ \E e \in DOMAIN versions[g[1]][g[2]].links : Len(reviews[e]) > versions[g[1]][g[2]].seen[e]
      PROVE  Superseded(s)'
  <2>1. /\ g[1] \in Claims /\ g[2] \in 1..Len(versions[g[1]])
        /\ versions[g[1]][g[2]].decision = "verify" /\ g \in syntheses'[s].grounds
    BY DEF IInv, Grounded, Kept
  <2>2. versions'[g[1]][g[2]] = versions[g[1]][g[2]] /\ versions[g[1]][g[2]] \in VersionRow
    BY <2>1, Domains DEF Kept, IInv
  <2>3. CASE Len(versions[g[1]]) > g[2]
    <3>1. Len(versions'[g[1]]) >= Len(versions[g[1]]) /\ Len(versions'[g[1]]) \in Nat /\ Len(versions[g[1]]) \in Nat
      BY <2>1 DEF Kept, Lengths
    <3>2. Len(versions'[g[1]]) > g[2]
      BY <2>1, <2>3, <3>1
    <3> QED
      BY <2>1, <3>2 DEF Superseded
  <2>4. ASSUME NEW e \in DOMAIN versions[g[1]][g[2]].links, Len(reviews[e]) > versions[g[1]][g[2]].seen[e]
        PROVE  Superseded(s)'
    <3>1. e \in Evidence
      BY <2>2, LinkEvidence
    <3>2. Len(reviews'[e]) >= Len(reviews[e]) /\ Len(reviews'[e]) \in Nat /\ Len(reviews[e]) \in Nat
      BY <3>1 DEF Kept, Lengths
    <3>3. versions[g[1]][g[2]].seen[e] \in 1..Len(reviews[e])
      BY <2>1 DEF IInv, Sealed
    <3>4. Len(reviews'[e]) > versions'[g[1]][g[2]].seen[e]
      BY <2>2, <2>4, <3>2, <3>3
    <3> QED
      BY <2>1, <2>2, <3>4 DEF Superseded
  <2> QED
    BY <1>3, <2>3, <2>4
<1> QED
  BY <1>2, <1>3 DEF Superseded

LEMMA GroundsStay ==
  ASSUME IInv, Kept, Typed', NEW s \in 1..Len(syntheses), NEW g \in syntheses'[s].grounds
  PROVE  /\ g[1] \in Claims /\ g[2] \in 1..Len(versions'[g[1]])
         /\ versions'[g[1]][g[2]].decision = "verify"
         /\ \E e \in DOMAIN versions'[g[1]][g[2]].links : versions'[g[1]][g[2]].links[e] = "supports"
<1>1. /\ g[1] \in Claims /\ g[2] \in 1..Len(versions[g[1]])
      /\ versions[g[1]][g[2]].decision = "verify"
      /\ \E e \in DOMAIN versions[g[1]][g[2]].links : versions[g[1]][g[2]].links[e] = "supports"
  BY DEF IInv, Grounded, Kept
<1>2. Len(versions'[g[1]]) >= Len(versions[g[1]]) /\ Len(versions'[g[1]]) \in Nat /\ Len(versions[g[1]]) \in Nat
  <2>1. versions'[g[1]] \in Seq(VersionRow) /\ versions[g[1]] \in Seq(VersionRow)
    BY <1>1 DEF IInv, Typed
  <2> QED
    BY <1>1, <2>1 DEF Kept
<1>3. g[2] \in 1..Len(versions'[g[1]]) /\ versions'[g[1]][g[2]] = versions[g[1]][g[2]]
  BY <1>1, <1>2 DEF Kept
<1> QED
  BY <1>1, <1>3

\* The versions of the brief rest on the syntheses they rested on.
StillGrounded ==
  Len(briefs') = Len(briefs) /\ \A i \in 1..Len(briefs) : briefs'[i].synthesis = briefs[i].synthesis

Behind == {s \in 1..Len(syntheses) : Superseded(s)}

Honest ==
  \A i \in 1..Len(briefs) :
    /\ briefs[i].fresh = "current" => briefs[i].synthesis \notin Behind
    /\ briefs[i].fresh = "evidence_stale" => briefs[i].synthesis \in Behind
    /\ briefs[i].ready => briefs[i].fresh # "none"

LEMMA HonestRows == Typed => (FreshnessIsHonest <=> Honest)
<1> SUFFICES ASSUME Typed PROVE FreshnessIsHonest <=> Honest
  OBVIOUS
<1>1. /\ DOMAIN briefs = 1..Len(briefs)
      /\ \A i \in 1..Len(briefs) : briefs[i].synthesis \in 1..Len(syntheses)
  BY Domains
<1>2. \A i \in 1..Len(briefs) : briefs[i].synthesis \in Behind <=> Superseded(briefs[i].synthesis)
  BY <1>1, SMT DEF Behind
<1>3. \A i \in 1..Len(briefs) : Overtaken(briefs[i]) <=> Superseded(briefs[i].synthesis)
  BY SMT DEF Overtaken
<1> QED
  BY <1>1, <1>2, <1>3, SMT DEF FreshnessIsHonest, Honest

\* What a new synthesis rests on.
NewGrounded ==
  \A s \in 1..Len(syntheses') : \A g \in syntheses'[s].grounds :
    s \notin 1..Len(syntheses) =>
      /\ g[1] \in Claims /\ g[2] \in 1..Len(versions'[g[1]])
      /\ versions'[g[1]][g[2]].decision = "verify"
      /\ \E e \in DOMAIN versions'[g[1]][g[2]].links : versions'[g[1]][g[2]].links[e] = "supports"

\* What every command but mark_ready does.
LEMMA StepKeeps ==
  ASSUME IInv, Kept, Typed', Sealed', readying' = FALSE,
         NewGrounded,
         \A i \in 1..Len(briefs') :
           \/ /\ briefs'[i].fresh = "none" /\ ~briefs'[i].ready
              /\ syntheses'[briefs'[i].synthesis].verdict = "verify"
           \/ /\ i \in 1..Len(briefs)
              /\ briefs'[i].synthesis = briefs[i].synthesis /\ (briefs'[i].ready => briefs[i].ready)
              /\ briefs'[i].fresh = "none" => briefs[i].fresh = "none"
              /\ briefs'[i].fresh = "current" => briefs[i].synthesis \notin Behind'
              /\ briefs'[i].fresh = "evidence_stale" => briefs[i].synthesis \in Behind'
  PROVE  IInv'
<1>1. Grounded'
  BY GroundsStay DEF Grounded, NewGrounded
<1>2. \A i \in 1..Len(briefs) : syntheses'[briefs[i].synthesis].verdict = "verify"
  BY Domains DEF Kept, IInv, Founded
<1>3. Founded'
  BY <1>2 DEF Founded
<1>4. ASSUME NEW i \in 1..Len(briefs')
      PROVE  /\ briefs'[i].fresh = "current" => briefs'[i].synthesis \notin Behind'
             /\ briefs'[i].fresh = "evidence_stale" => briefs'[i].synthesis \in Behind'
             /\ briefs'[i].ready => briefs'[i].fresh # "none"
  <2>1. i \in 1..Len(briefs) => (briefs[i].ready => briefs[i].fresh # "none")
    BY Domains DEF IInv, FreshnessIsHonest
  <2>2. CASE briefs'[i].fresh = "none" /\ ~briefs'[i].ready
    BY <2>2
  <2>3. CASE /\ i \in 1..Len(briefs)
             /\ briefs'[i].synthesis = briefs[i].synthesis /\ (briefs'[i].ready => briefs[i].ready)
             /\ briefs'[i].fresh = "none" => briefs[i].fresh = "none"
             /\ briefs'[i].fresh = "current" => briefs[i].synthesis \notin Behind'
             /\ briefs'[i].fresh = "evidence_stale" => briefs[i].synthesis \in Behind'
    BY <2>1, <2>3
  <2>4. \/ briefs'[i].fresh = "none" /\ ~briefs'[i].ready
        \/ /\ i \in 1..Len(briefs)
           /\ briefs'[i].synthesis = briefs[i].synthesis /\ (briefs'[i].ready => briefs[i].ready)
           /\ briefs'[i].fresh = "none" => briefs[i].fresh = "none"
           /\ briefs'[i].fresh = "current" => briefs[i].synthesis \notin Behind'
           /\ briefs'[i].fresh = "evidence_stale" => briefs[i].synthesis \in Behind'
    BY <1>4, Zenon
  <2> QED
    BY <2>2, <2>3, <2>4, Zenon
<1>6. FreshnessIsHonest'
  <2>1. Honest'
    BY <1>4 DEF Honest
  <2> QED
    BY <2>1, HonestRows, PTL
<1>7. ReadyIsChecked'
  BY DEF ReadyIsChecked
<1> QED
  BY <1>1, <1>3, <1>6, <1>7 DEF IInv

\* Typed, said with lengths.
Parts ==
  /\ reviews \in [Evidence -> Seq(Verdicts)]
  /\ versions \in [Claims -> Seq(VersionRow)]
  /\ \A c \in Claims : Len(versions[c]) > 0
  /\ syntheses \in Seq(SynRow)
  /\ briefs \in Seq(BriefRow)
  /\ \A s \in 1..Len(syntheses) : \A g \in syntheses[s].grounds :
       g[1] \in Claims /\ g[2] \in 1..Len(versions[g[1]])
  /\ \A i \in 1..Len(briefs) : briefs[i].synthesis \in 1..Len(syntheses)
  /\ status \in {"none", "draft", "decision_ready"}
  /\ (status = "none") <=> (briefs = <<>>)
  /\ exported \subseteq 1..Len(briefs)
  /\ readying \in BOOLEAN

LEMMA TypedFrom == Parts => Typed
<1> SUFFICES ASSUME Parts PROVE Typed
  OBVIOUS
<1>1. \A c \in Claims : /\ DOMAIN versions[c] = 1..Len(versions[c])
                        /\ \A n \in 1..Len(versions[c]) : versions[c][n] \in VersionRow
  <2>1. \A c \in Claims : versions[c] \in Seq(VersionRow)
    BY DEF Parts
  <2> QED
    BY <2>1
<1>2. DOMAIN syntheses = 1..Len(syntheses) /\ \A s \in 1..Len(syntheses) : syntheses[s] \in SynRow
  BY DEF Parts
<1>3. DOMAIN briefs = 1..Len(briefs) /\ \A i \in 1..Len(briefs) : briefs[i] \in BriefRow
  BY DEF Parts
<1>4. \A c \in Claims : \A n \in DOMAIN versions[c] :
        /\ versions[c][n].links \in Links
        /\ versions[c][n].decision \in {"none", "verify", "reject", "request_more_evidence"}
  BY <1>1 DEF VersionRow, Decisions
<1>5. \A s \in DOMAIN syntheses :
        /\ syntheses[s].verdict \in {"none", "verify", "reject"}
        /\ \A g \in syntheses[s].grounds : g[1] \in Claims /\ g[2] \in DOMAIN versions[g[1]]
  BY <1>1, <1>2 DEF SynRow, Parts
<1>6. \A i \in DOMAIN briefs :
        /\ briefs[i].synthesis \in DOMAIN syntheses
        /\ briefs[i].facts \in SUBSET (Claims \X Evidence)
        /\ briefs[i].fresh \in {"none", "current", "evidence_stale"}
  BY <1>2, <1>3 DEF BriefRow, Parts
<1>7. TypeOK
  <2>1. exported \subseteq DOMAIN briefs
    BY <1>3 DEF Parts
  <2>2. status \in {"none", "draft", "decision_ready"} /\ (status = "none" <=> briefs = <<>>)
    BY DEF Parts
  <2>3. reviews \in [Evidence -> Seq(Verdicts)] /\ readying \in BOOLEAN
    BY DEF Parts
  <2> QED
    BY <1>4, <1>5, <1>6, <2>1, <2>2, <2>3, Zenon DEF TypeOK
<1> QED
  BY <1>7 DEF Typed, Parts

LEMMA TypedParts == Typed => Parts
<1> SUFFICES ASSUME Typed PROVE Parts
  OBVIOUS
<1>1. /\ DOMAIN syntheses = 1..Len(syntheses) /\ DOMAIN briefs = 1..Len(briefs)
      /\ \A c \in Claims : DOMAIN versions[c] = 1..Len(versions[c])
  BY Domains
<1>2. \A s \in 1..Len(syntheses) : \A g \in syntheses[s].grounds :
           g[1] \in Claims /\ g[2] \in 1..Len(versions[g[1]])
  BY <1>1 DEF Typed, TypeOK
<1>3. \A i \in 1..Len(briefs) : briefs[i].synthesis \in 1..Len(syntheses)
  BY Domains
<1>4. exported \subseteq 1..Len(briefs)
  BY <1>1 DEF Typed, TypeOK
<1> QED
  BY <1>2, <1>3, <1>4 DEF Typed, TypeOK, Parts

\* The records of a command that makes some briefs stale.
LEMMA StaleRows ==
  ASSUME Typed, NEW T,
         briefs' = [i \in DOMAIN briefs |-> IF briefs[i].synthesis \in T THEN Stale(briefs[i]) ELSE briefs[i]]
  PROVE  /\ briefs' \in Seq(BriefRow) /\ Len(briefs') = Len(briefs)
         /\ \A i \in 1..Len(briefs) :
              /\ briefs'[i].synthesis = briefs[i].synthesis /\ briefs'[i].ready = briefs[i].ready
              /\ briefs'[i].fresh = IF briefs[i].synthesis \in T THEN "evidence_stale" ELSE briefs[i].fresh
         /\ briefs' = <<>> <=> briefs = <<>>
<1>1. /\ Len(briefs) \in Nat /\ DOMAIN briefs = 1..Len(briefs) /\ \A i \in 1..Len(briefs) : briefs[i] \in BriefRow
      /\ briefs \in Seq(BriefRow)
  BY Domains DEF Typed
<1>2. ASSUME NEW i \in 1..Len(briefs)
      PROVE  /\ Stale(briefs[i]) \in BriefRow
             /\ Stale(briefs[i]).synthesis = briefs[i].synthesis /\ Stale(briefs[i]).ready = briefs[i].ready
             /\ Stale(briefs[i]).fresh = "evidence_stale"
  BY <1>1 DEF Stale, BriefRow
<1>3. \A i \in 1..Len(briefs) : briefs'[i] = IF briefs[i].synthesis \in T THEN Stale(briefs[i]) ELSE briefs[i]
  BY <1>1
<1>4. briefs' = [i \in 1..Len(briefs) |-> briefs'[i]] /\ \A i \in 1..Len(briefs) : briefs'[i] \in BriefRow
  BY <1>1, <1>2, <1>3
<1>5. briefs' \in Seq(BriefRow) /\ Len(briefs') = Len(briefs)
  BY <1>1, <1>4
<1>6. briefs' = <<>> <=> briefs = <<>>
  BY <1>1, <1>5
<1> QED
  BY <1>2, <1>3, <1>5, <1>6

\* A step that makes the rows of the syntheses of T stale, and overtakes no other.
LEMMA StaleKeeps ==
  ASSUME IInv, Kept, Typed', Sealed', readying' = FALSE, NewGrounded, NEW T,
         briefs' = [i \in DOMAIN briefs |-> IF briefs[i].synthesis \in T THEN Stale(briefs[i]) ELSE briefs[i]],
         \A s \in 1..Len(syntheses) : s \in T => s \in Behind',
         \A s \in 1..Len(syntheses) : s \notin T /\ s \in Behind' => s \in Behind
  PROVE  IInv'
<1> Lengths /\ Lengths'
  BY TypedLengths, PTL DEF IInv
<1>1. \A s \in Behind : s \in Behind'
  <2> SUFFICES ASSUME NEW s \in 1..Len(syntheses), Superseded(s) PROVE s \in Behind'
    BY DEF Behind
  <2>1. Superseded(s)'
    BY OvertakenStays
  <2>2. s \in 1..Len(syntheses')
    BY DEF Kept, Lengths
  <2> QED
    BY <2>1, <2>2 DEF Behind
<1>2. /\ Len(briefs') = Len(briefs)
      /\ \A i \in 1..Len(briefs) :
           /\ briefs'[i].synthesis = briefs[i].synthesis /\ briefs'[i].ready = briefs[i].ready
           /\ briefs'[i].fresh = IF briefs[i].synthesis \in T THEN "evidence_stale" ELSE briefs[i].fresh
  BY StaleRows DEF IInv
<1>3. Honest
  BY HonestRows DEF IInv
<1>4. ASSUME NEW i \in 1..Len(briefs')
      PROVE  /\ i \in 1..Len(briefs)
             /\ briefs'[i].synthesis = briefs[i].synthesis
             /\ briefs'[i].fresh = "none" => briefs[i].fresh = "none"
             /\ briefs'[i].fresh = "current" => briefs[i].synthesis \notin Behind'
             /\ briefs'[i].fresh = "evidence_stale" => briefs[i].synthesis \in Behind'
  <2>1. i \in 1..Len(briefs) /\ briefs[i].synthesis \in 1..Len(syntheses)
    BY <1>2, Domains DEF IInv
  <2>2. /\ briefs[i].fresh = "current" => briefs[i].synthesis \notin Behind
        /\ briefs[i].fresh = "evidence_stale" => briefs[i].synthesis \in Behind
    BY <1>3, <2>1 DEF Honest
  <2>3. CASE briefs[i].synthesis \in T
    BY <1>2, <2>1, <2>3
  <2>4. CASE briefs[i].synthesis \notin T
    BY <1>1, <1>2, <2>1, <2>2, <2>4
  <2> QED
    BY <2>3, <2>4
<1>5. \A i \in 1..Len(briefs') : briefs'[i].ready => briefs[i].ready
  BY <1>2, Zenon
<1> QED
  BY <1>4, <1>5, StepKeeps

\* Commands that leave the claims, the syntheses and the reviews alone.
LEMMA ApartKept ==
  ASSUME Typed, UNCHANGED <<reviews, versions, syntheses>>
  PROVE  Kept /\ Behind' = Behind
<1>1. Kept
  BY Domains DEF Kept
<1> QED
  BY <1>1, SMT DEF Behind, Superseded

-----------------------------------------------------------------------------
LEMMA ReviewEvidenceKeeps ==
  ASSUME IInv, NEW e \in Evidence, NEW verdict \in Verdicts, ReviewEvidence(e, verdict)
  PROVE  IInv' /\ Kept /\ StillGrounded
<1>1. Typed /\ readying' = FALSE /\ UNCHANGED <<versions, syntheses, status, exported, readying>>
  BY DEF IInv, ReviewEvidence, LineageFree
<1>2. reviews \in [Evidence -> Seq(Verdicts)]
  BY <1>1, TypedParts DEF Parts
<1>3. reviews' = [reviews EXCEPT ![e] = Append(reviews[e], verdict)]
  BY DEF ReviewEvidence
<1>4. /\ reviews' \in [Evidence -> Seq(Verdicts)] /\ reviews'[e] = Append(reviews[e], verdict)
      /\ \A f \in Evidence \ {e} : reviews'[f] = reviews[f]
  BY <1>2, <1>3, Appending
<1>5. /\ Len(reviews[e]) \in Nat /\ Len(reviews'[e]) = Len(reviews[e]) + 1
      /\ \A n \in 1..Len(reviews[e]) : reviews'[e][n] = reviews[e][n]
  BY <1>2, <1>4, Appending
<1>6. ASSUME NEW f \in Evidence
      PROVE  /\ Len(reviews[f]) \in Nat /\ Len(reviews'[f]) \in Nat /\ Len(reviews'[f]) >= Len(reviews[f])
             /\ \A n \in 1..Len(reviews[f]) : reviews'[f][n] = reviews[f][n]
             /\ f # e => Len(reviews'[f]) = Len(reviews[f])
  <2>1. Len(reviews[f]) \in Nat
    BY <1>1, Domains
  <2> QED
    BY <1>4, <1>5, <2>1
<1>7. Kept
  BY <1>1, <1>6, Domains DEF Kept
<1> DEFINE T == {s \in 1..Len(syntheses) : e \in Cited(s)}
<1>8. briefs' = [i \in DOMAIN briefs |-> IF briefs[i].synthesis \in T THEN Stale(briefs[i]) ELSE briefs[i]]
  BY <1>1, Domains DEF ReviewEvidence, StaleByEvidence
<1>9. /\ briefs' \in Seq(BriefRow) /\ Len(briefs') = Len(briefs)
      /\ \A i \in 1..Len(briefs) : briefs'[i].synthesis = briefs[i].synthesis
      /\ briefs' = <<>> <=> briefs = <<>>
  <2> HIDE DEF T
  <2> QED
    BY <1>1, <1>8, StaleRows
<1>10. Typed'
  <2>1. Parts
    BY <1>1, TypedParts
  <2>2. \A i \in 1..Len(briefs') : briefs'[i].synthesis \in 1..Len(syntheses')
    BY <1>1, <1>9, <2>1 DEF Parts
  <2>3. (status' = "none") <=> (briefs' = <<>>)
    BY <1>1, <1>9, <2>1 DEF Parts
  <2>4. Parts'
    BY <1>1, <1>4, <1>9, <2>1, <2>2, <2>3, Zenon DEF Parts
  <2> QED
    BY <2>4, TypedFrom, PTL
<1>11. Sealed'
  <2> SUFFICES ASSUME NEW c \in Claims, NEW n \in 1..Len(versions[c]), versions[c][n].decision = "verify",
                      NEW f \in DOMAIN versions[c][n].links
               PROVE  /\ versions[c][n].seen[f] \in 1..Len(reviews'[f])
                      /\ reviews'[f][versions[c][n].seen[f]] # "rejected"
    BY <1>1 DEF Sealed
  <2>1. f \in Evidence
    BY <1>1, Domains, LinkEvidence
  <2>2. versions[c][n].seen[f] \in 1..Len(reviews[f]) /\ reviews[f][versions[c][n].seen[f]] # "rejected"
    BY DEF IInv, Sealed
  <2> QED
    BY <1>6, <2>1, <2>2
<1>12. ASSUME NEW s \in 1..Len(syntheses), e \in Cited(s) PROVE s \in Behind'
  <2>1. PICK g \in syntheses[s].grounds : e \in DOMAIN versions[g[1]][g[2]].links
    BY <1>12, SMT DEF Cited
  <2>2. versions[g[1]][g[2]].seen[e] \in 1..Len(reviews[e])
    BY <2>1 DEF IInv, Grounded, Sealed
  <2>3. Len(reviews'[e]) > versions[g[1]][g[2]].seen[e]
    <3> DEFINE k == versions[g[1]][g[2]].seen[e]
    <3>1. k \in 1..Len(reviews[e]) /\ Len(reviews[e]) \in Nat /\ Len(reviews'[e]) = Len(reviews[e]) + 1
      BY <1>5, <2>2
    <3> HIDE DEF k
    <3>2. Len(reviews'[e]) > k
      BY <3>1
    <3> QED
      BY <3>2 DEF k
  <2> QED
    BY <1>1, <2>1, <2>3, SMT DEF Behind, Superseded
<1>13. ASSUME NEW s \in 1..Len(syntheses), e \notin Cited(s) PROVE s \in Behind' <=> s \in Behind
  <2>1. \A g \in syntheses[s].grounds : \A f \in DOMAIN versions[g[1]][g[2]].links :
          Len(reviews'[f]) = Len(reviews[f])
    <3> SUFFICES ASSUME NEW g \in syntheses[s].grounds, NEW f \in DOMAIN versions[g[1]][g[2]].links
                 PROVE  Len(reviews'[f]) = Len(reviews[f])
      OBVIOUS
    <3>1. f # e
      BY <1>13, SMT DEF Cited
    <3>2. f \in Evidence
      BY <1>1, TypedParts, Domains, LinkEvidence DEF Parts
    <3> QED
      BY <1>6, <3>1, <3>2
  <2> QED
    BY <1>1, <2>1, SMT DEF Behind, Superseded
<1>14. NewGrounded
  BY <1>1 DEF NewGrounded
<1>15. /\ \A s \in 1..Len(syntheses) : s \in T => s \in Behind'
       /\ \A s \in 1..Len(syntheses) : s \notin T /\ s \in Behind' => s \in Behind
  BY <1>12, <1>13
<1> HIDE DEF T
<1> QED
  BY <1>1, <1>7, <1>8, <1>9, <1>10, <1>11, <1>14, <1>15, StaleKeeps DEF StillGrounded

LEMMA NewVersionRow ==
  ASSUME NEW links \in Links
  PROVE  NewVersion(links) \in VersionRow /\ NewVersion(links).decision = "none"
<1>1. <<>> \in [{} -> Nat] /\ {} \in SUBSET Evidence
  OBVIOUS
<1>2. <<>> \in UNION {[E -> Nat] : E \in SUBSET Evidence}
  BY <1>1
<1> QED
  BY <1>2 DEF NewVersion, VersionRow, Decisions

LEMMA CreateClaimVersionKeeps ==
  ASSUME IInv, NEW c \in Claims, NEW links \in Revisions, CreateClaimVersion(c, links)
  PROVE  IInv' /\ Kept /\ StillGrounded
<1>1. Typed /\ readying' = FALSE /\ UNCHANGED <<reviews, syntheses, status, exported, readying>>
  BY DEF IInv, CreateClaimVersion, LineageFree
<1>2. Parts /\ Lengths
  BY <1>1, TypedParts, TypedLengths
<1> DEFINE row == NewVersion(links)
<1>3. row \in VersionRow /\ row.decision = "none"
  BY NewVersionRow, LinksTyped
<1> HIDE DEF row
<1>4. versions' = [versions EXCEPT ![c] = Append(versions[c], row)]
  BY DEF CreateClaimVersion, row
<1>5. /\ Append(versions[c], row) \in Seq(VersionRow)
      /\ Len(Append(versions[c], row)) = Len(versions[c]) + 1
      /\ Append(versions[c], row)[Len(versions[c]) + 1] = row
      /\ \A n \in 1..Len(versions[c]) : Append(versions[c], row)[n] = versions[c][n]
  <2>1. versions[c] \in Seq(VersionRow)
    BY <1>2 DEF Parts
  <2> QED
    BY <1>3, <2>1, Appending
<1>6. /\ versions' \in [Claims -> Seq(VersionRow)] /\ versions'[c] = Append(versions[c], row)
      /\ \A d \in Claims \ {c} : versions'[d] = versions[d]
  BY <1>2, <1>4, <1>5 DEF Parts
<1>7. ASSUME NEW d \in Claims
      PROVE  /\ Len(versions[d]) \in Nat /\ Len(versions'[d]) \in Nat
             /\ Len(versions'[d]) = IF d = c THEN Len(versions[d]) + 1 ELSE Len(versions[d])
             /\ \A n \in 1..Len(versions[d]) : versions'[d][n] = versions[d][n]
  <2>1. Len(versions[d]) \in Nat
    BY <1>2 DEF Lengths
  <2>2. CASE d = c
    BY <1>5, <1>6, <2>1, <2>2
  <2>3. CASE d # c
    BY <1>6, <2>1, <2>3
  <2> QED
    BY <2>2, <2>3
<1>8. Kept
  <2>1. \A d \in Claims : Len(versions'[d]) >= Len(versions[d])
    BY <1>7
  <2>2. \A d \in Claims : \A n \in 1..Len(versions[d]) : versions'[d][n] = versions[d][n]
    BY <1>7
  <2>3. /\ Len(syntheses') >= Len(syntheses) /\ \A e \in Evidence : Len(reviews'[e]) >= Len(reviews[e])
    BY <1>1, <1>2 DEF Lengths
  <2> QED
    BY <1>1, <2>1, <2>2, <2>3 DEF Kept
<1> DEFINE T == {s \in 1..Len(syntheses) : <<c, Len(versions[c])>> \in syntheses[s].grounds}
<1>9. briefs' = [i \in DOMAIN briefs |-> IF briefs[i].synthesis \in T THEN Stale(briefs[i]) ELSE briefs[i]]
  BY <1>1, Domains DEF CreateClaimVersion, StaleByClaim
<1>10. /\ briefs' \in Seq(BriefRow) /\ Len(briefs') = Len(briefs)
       /\ \A i \in 1..Len(briefs) : briefs'[i].synthesis = briefs[i].synthesis
       /\ briefs' = <<>> <=> briefs = <<>>
  <2> HIDE DEF T
  <2> QED
    BY <1>1, <1>9, StaleRows
<1>11. Typed'
  <2>1. \A i \in 1..Len(briefs') : briefs'[i].synthesis \in 1..Len(syntheses')
    BY <1>1, <1>2, <1>10 DEF Parts
  <2>2. (status' = "none") <=> (briefs' = <<>>)
    BY <1>1, <1>2, <1>10 DEF Parts
  <2>3. \A d \in Claims : Len(versions'[d]) > 0
    <3>1. \A d \in Claims : Len(versions[d]) > 0
      BY <1>2 DEF Parts
    <3> QED
      BY <1>7, <3>1
  <2>4. \A s \in 1..Len(syntheses') : \A g \in syntheses'[s].grounds :
          g[1] \in Claims /\ g[2] \in 1..Len(versions'[g[1]])
    <3>1. \A s \in 1..Len(syntheses) : \A g \in syntheses[s].grounds :
            g[1] \in Claims /\ g[2] \in 1..Len(versions[g[1]])
      BY <1>2 DEF Parts
    <3> QED
      BY <1>1, <1>7, <3>1
  <2>5. Parts'
    BY <1>1, <1>2, <1>6, <1>10, <2>1, <2>2, <2>3, <2>4, Zenon DEF Parts
  <2> QED
    BY <2>5, TypedFrom, PTL
<1>12. Sealed'
  <2> SUFFICES ASSUME NEW d \in Claims, NEW n \in 1..Len(versions'[d]), versions'[d][n].decision = "verify",
                      NEW e \in DOMAIN versions'[d][n].links
               PROVE  /\ versions'[d][n].seen[e] \in 1..Len(reviews[e])
                      /\ reviews[e][versions'[d][n].seen[e]] # "rejected"
    BY <1>1 DEF Sealed
  <2>1. n \in 1..Len(versions[d])
    BY <1>3, <1>5, <1>6, <1>7
  <2>2. versions'[d][n] = versions[d][n]
    BY <1>7, <2>1
  <2> QED
    BY <2>1, <2>2 DEF IInv, Sealed
<1>13. \A s \in 1..Len(syntheses) : s \in T => s \in Behind'
  <2> SUFFICES ASSUME NEW s \in 1..Len(syntheses), <<c, Len(versions[c])>> \in syntheses[s].grounds
               PROVE  Superseded(s)'
    BY <1>1 DEF Behind
  <2>1. Len(versions'[c]) > Len(versions[c])
    BY <1>7
  <2> QED
    BY <1>1, <2>1 DEF Superseded
<1>14. ASSUME NEW s \in 1..Len(syntheses), s \notin T, s \in Behind'
       PROVE  s \in Behind
  <2>1. Superseded(s)'
    BY <1>14 DEF Behind
  <2>2. ASSUME NEW g \in syntheses[s].grounds
        PROVE  /\ versions'[g[1]][g[2]] = versions[g[1]][g[2]]
               /\ Len(versions'[g[1]]) > g[2] <=> Len(versions[g[1]]) > g[2]
    <3>1. g[1] \in Claims /\ g[2] \in 1..Len(versions[g[1]])
      BY <1>2 DEF Parts
    <3>2. ~(g[1] = c /\ g[2] = Len(versions[c]))
      <4>1. g \in Claims \X Nat
        BY <1>1, Domains DEF SynRow
      <4> QED
        BY <1>14, <4>1
    <3>3. Len(versions[g[1]]) \in Nat /\ Len(versions[c]) \in Nat
      BY <1>2, <3>1 DEF Lengths
    <3>4. CASE g[1] # c
      BY <1>7, <3>1, <3>4
    <3>5. CASE g[1] = c
      <4>1. g[2] \in 1..Len(versions[c]) /\ g[2] # Len(versions[c])
        BY <3>1, <3>2, <3>5
      <4>2. versions'[c][g[2]] = versions[c][g[2]] /\ Len(versions'[c]) = Len(versions[c]) + 1
        BY <1>7, <4>1
      <4> QED
        BY <3>3, <3>5, <4>1, <4>2
    <3> QED
      BY <3>4, <3>5
  <2>3. Superseded(s)
    BY <1>1, <2>1, <2>2 DEF Superseded
  <2> QED
    BY <2>3 DEF Behind
<1>15. NewGrounded
  BY <1>1 DEF NewGrounded
<1> HIDE DEF T
<1> QED
  BY <1>1, <1>8, <1>9, <1>10, <1>11, <1>12, <1>13, <1>14, <1>15, StaleKeeps DEF StillGrounded

LEMMA QuietKeeps ==
  ASSUME IInv, Kept, Sealed', LineageFree, NewGrounded, UNCHANGED <<briefs, readying>>, Typed',
         \A s \in 1..Len(syntheses) : s \in Behind' => s \in Behind
  PROVE  IInv'
<1>1. readying' = FALSE
  BY DEF LineageFree
<1>2. DOMAIN briefs = 1..Len(briefs) /\ briefs \in Seq(BriefRow)
  BY Domains DEF IInv, Typed
<1>3. briefs' = [i \in DOMAIN briefs |-> IF briefs[i].synthesis \in {} THEN Stale(briefs[i]) ELSE briefs[i]]
  BY <1>2
<1> DEFINE T == {}
<1>4. /\ \A s \in 1..Len(syntheses) : s \in T => s \in Behind'
      /\ \A s \in 1..Len(syntheses) : s \notin T /\ s \in Behind' => s \in Behind
      /\ briefs' = [i \in DOMAIN briefs |-> IF briefs[i].synthesis \in T THEN Stale(briefs[i]) ELSE briefs[i]]
  BY <1>3
<1> HIDE DEF T
<1> QED
  BY <1>1, <1>4, StaleKeeps

LEMMA ReviewClaimVersionKeeps ==
  ASSUME IInv, NEW c \in Claims, NEW n \in DOMAIN versions[c],
         NEW decision \in {"verify", "reject", "request_more_evidence"},
         ReviewClaimVersion(c, n, decision)
  PROVE  IInv' /\ Kept
<1>1. Typed /\ LineageFree /\ UNCHANGED <<reviews, syntheses, briefs, status, exported, readying>>
  BY DEF IInv, ReviewClaimVersion
<1>2. Parts /\ Lengths /\ n \in 1..Len(versions[c]) /\ versions[c][n] \in VersionRow
  BY <1>1, TypedParts, TypedLengths, Domains
<1> DEFINE links == versions[c][n].links
           row   == [links |-> links, decision |-> decision,
                     seen |-> IF decision = "verify" THEN [e \in DOMAIN links |-> Len(reviews[e])] ELSE <<>>]
<1>3. links \in Links /\ DOMAIN links \subseteq Evidence
  BY <1>2, LinkEvidence
<1>4. row \in VersionRow
  <2>1. [e \in DOMAIN links |-> Len(reviews[e])] \in [DOMAIN links -> Nat] /\ <<>> \in [{} -> Nat]
    BY <1>2, <1>3 DEF Lengths
  <2>2. row.seen \in UNION {[E -> Nat] : E \in SUBSET Evidence}
    BY <1>3, <2>1
  <2> QED
    BY <1>3, <2>2 DEF VersionRow, Decisions
<1>5. /\ row.decision = "verify" =>
           \A e \in DOMAIN row.links : row.seen[e] \in 1..Len(reviews[e]) /\ reviews[e][row.seen[e]] # "rejected"
      /\ versions[c][n].decision # "verify"
  <2>1. versions[c][n].decision # "verify" /\ (decision = "verify" => MayVerify(links))
    BY DEF ReviewClaimVersion
  <2>2. ASSUME decision = "verify", NEW e \in DOMAIN links
        PROVE  Len(reviews[e]) \in 1..Len(reviews[e]) /\ reviews[e][Len(reviews[e])] # "rejected"
    <3>1. Len(reviews[e]) > 0 /\ reviews[e][Len(reviews[e])] # "rejected"
      BY <2>1, <2>2 DEF MayVerify, Accepted, Last
    <3>2. Len(reviews[e]) \in Nat
      BY <1>2, <1>3 DEF Lengths
    <3> QED
      BY <3>1, <3>2
  <2> QED
    BY <2>1, <2>2
<1>6. versions' = [versions EXCEPT ![c] = [versions[c] EXCEPT ![n] = row]]
  BY DEF ReviewClaimVersion
<1> HIDE DEF row, links
<1>7. /\ [versions[c] EXCEPT ![n] = row] \in Seq(VersionRow)
      /\ Len([versions[c] EXCEPT ![n] = row]) = Len(versions[c])
      /\ \A m \in 1..Len(versions[c]) : [versions[c] EXCEPT ![n] = row][m] = IF m = n THEN row ELSE versions[c][m]
  <2>1. versions[c] \in Seq(VersionRow)
    BY <1>2 DEF Parts
  <2> QED
    BY <1>2, <1>4, <2>1, Replacing
<1>8. /\ versions' \in [Claims -> Seq(VersionRow)] /\ versions'[c] = [versions[c] EXCEPT ![n] = row]
      /\ \A d \in Claims \ {c} : versions'[d] = versions[d]
  BY <1>2, <1>6, <1>7 DEF Parts
<1>9. ASSUME NEW d \in Claims
      PROVE  /\ Len(versions'[d]) = Len(versions[d])
             /\ \A m \in 1..Len(versions[d]) :
                  versions'[d][m] = IF d = c /\ m = n THEN row ELSE versions[d][m]
  <2>1. CASE d = c
    BY <1>7, <1>8, <2>1
  <2>2. CASE d # c
    BY <1>8, <2>2
  <2> QED
    BY <2>1, <2>2
<1>10. \A d \in Claims : \A m \in 1..Len(versions[d]) :
         versions[d][m].decision = "verify" => versions'[d][m] = versions[d][m]
  BY <1>5, <1>9
<1>11. Kept
  <2>1. \A d \in Claims : Len(versions'[d]) >= Len(versions[d])
    BY <1>2, <1>9 DEF Lengths
  <2>2. /\ Len(syntheses') >= Len(syntheses) /\ \A e \in Evidence : Len(reviews'[e]) >= Len(reviews[e])
    BY <1>1, <1>2 DEF Lengths
  <2> QED
    BY <1>1, <1>10, <2>1, <2>2 DEF Kept
<1>12. Typed'
  <2>1. \A d \in Claims : Len(versions'[d]) > 0
    <3>1. \A d \in Claims : Len(versions[d]) > 0
      BY <1>2 DEF Parts
    <3> QED
      BY <1>9, <3>1
  <2>2. \A s \in 1..Len(syntheses') : \A g \in syntheses'[s].grounds :
          g[1] \in Claims /\ g[2] \in 1..Len(versions'[g[1]])
    <3>1. \A s \in 1..Len(syntheses) : \A g \in syntheses[s].grounds :
            g[1] \in Claims /\ g[2] \in 1..Len(versions[g[1]])
      BY <1>2 DEF Parts
    <3> QED
      BY <1>1, <1>9, <3>1
  <2>3. Parts'
    BY <1>1, <1>2, <1>8, <2>1, <2>2, Zenon DEF Parts
  <2> QED
    BY <2>3, TypedFrom, PTL
<1>13. Sealed'
  <2> SUFFICES ASSUME NEW d \in Claims, NEW m \in 1..Len(versions'[d]), versions'[d][m].decision = "verify",
                      NEW e \in DOMAIN versions'[d][m].links
               PROVE  /\ versions'[d][m].seen[e] \in 1..Len(reviews[e])
                      /\ reviews[e][versions'[d][m].seen[e]] # "rejected"
    BY <1>1 DEF Sealed
  <2>1. m \in 1..Len(versions[d]) /\ versions'[d][m] = IF d = c /\ m = n THEN row ELSE versions[d][m]
    BY <1>9
  <2>2. CASE d = c /\ m = n
    BY <1>5, <2>1, <2>2
  <2>3. CASE ~(d = c /\ m = n)
    BY <2>1, <2>3 DEF IInv, Sealed
  <2> QED
    BY <2>2, <2>3
<1>14. ASSUME NEW s \in 1..Len(syntheses), s \in Behind'
       PROVE  s \in Behind
  <2>1. Superseded(s)'
    BY <1>14 DEF Behind
  <2>2. ASSUME NEW g \in syntheses[s].grounds
        PROVE  versions'[g[1]][g[2]] = versions[g[1]][g[2]] /\ Len(versions'[g[1]]) = Len(versions[g[1]])
    <3>1. g[1] \in Claims /\ g[2] \in 1..Len(versions[g[1]]) /\ versions[g[1]][g[2]].decision = "verify"
      BY DEF IInv, Grounded
    <3> QED
      BY <1>9, <1>10, <3>1
  <2>3. Superseded(s)
    BY <1>1, <2>1, <2>2 DEF Superseded
  <2> QED
    BY <2>3 DEF Behind
<1>15. NewGrounded
  BY <1>1 DEF NewGrounded
<1> QED
  BY <1>1, <1>11, <1>12, <1>13, <1>14, <1>15, QuietKeeps

\* Commands that write the synthesis only.
LEMMA SynthesisTyped ==
  ASSUME Typed, NEW row \in SynRow, UNCHANGED <<reviews, versions, status, exported, readying>>,
         syntheses' = Append(syntheses, row),
         \A g \in row.grounds : g[1] \in Claims /\ g[2] \in 1..Len(versions[g[1]]),
         briefs' = StaleBySynthesis
  PROVE  /\ Typed'
         /\ Len(syntheses') = Len(syntheses) + 1 /\ syntheses'[Len(syntheses) + 1] = row
         /\ \A s \in 1..Len(syntheses) : syntheses'[s] = syntheses[s]
         /\ briefs' = [i \in DOMAIN briefs |-> IF briefs[i].synthesis \in {Len(syntheses)}
                                               THEN Stale(briefs[i]) ELSE briefs[i]]
<1>1. Parts /\ Lengths
  BY TypedParts, TypedLengths
<1>2. /\ syntheses' \in Seq(SynRow) /\ Len(syntheses') = Len(syntheses) + 1
      /\ syntheses'[Len(syntheses) + 1] = row
      /\ \A s \in 1..Len(syntheses) : syntheses'[s] = syntheses[s]
  <2>1. syntheses \in Seq(SynRow)
    BY <1>1 DEF Parts
  <2> QED
    BY <2>1, Appending
<1>3. briefs' = [i \in DOMAIN briefs |-> IF briefs[i].synthesis \in {Len(syntheses)}
                                         THEN Stale(briefs[i]) ELSE briefs[i]]
  BY DEF StaleBySynthesis
<1>4. /\ briefs' \in Seq(BriefRow) /\ Len(briefs') = Len(briefs)
      /\ \A i \in 1..Len(briefs) : briefs'[i].synthesis = briefs[i].synthesis
      /\ briefs' = <<>> <=> briefs = <<>>
  BY <1>3, StaleRows
<1>5. \A i \in 1..Len(briefs') : briefs'[i].synthesis \in 1..Len(syntheses')
  <2>1. \A i \in 1..Len(briefs) : briefs[i].synthesis \in 1..Len(syntheses)
    BY <1>1 DEF Parts
  <2>2. \A i \in 1..Len(syntheses) : i \in 1..Len(syntheses')
    BY <1>1, <1>2 DEF Lengths
  <2> QED
    BY <1>4, <2>1, <2>2
<1>6. \A s \in 1..Len(syntheses') : \A g \in syntheses'[s].grounds :
        g[1] \in Claims /\ g[2] \in 1..Len(versions'[g[1]])
  <2> SUFFICES ASSUME NEW s \in 1..Len(syntheses'), NEW g \in syntheses'[s].grounds
               PROVE  g[1] \in Claims /\ g[2] \in 1..Len(versions[g[1]])
    OBVIOUS
  <2>1. s \in 1..Len(syntheses) \/ s = Len(syntheses) + 1
    BY <1>1, <1>2 DEF Lengths
  <2>2. CASE s \in 1..Len(syntheses)
    BY <1>1, <1>2, <2>2 DEF Parts
  <2>3. CASE s = Len(syntheses) + 1
    BY <1>2, <2>3
  <2> QED
    BY <2>1, <2>2, <2>3
<1>7. (status' = "none") <=> (briefs' = <<>>)
  BY <1>1, <1>4 DEF Parts
<1>8. Parts'
  BY <1>1, <1>2, <1>4, <1>5, <1>6, <1>7, Zenon DEF Parts
<1>9. Typed'
  BY <1>8, TypedFrom, PTL
<1> QED
  BY <1>2, <1>3, <1>9

LEMMA NewSynthesisKeeps ==
  ASSUME IInv, LineageFree, NEW row \in SynRow, row.verdict = "none",
         UNCHANGED <<reviews, versions, status, exported, readying>>,
         syntheses' = Append(syntheses, row), briefs' = StaleBySynthesis,
         \A g \in row.grounds :
           /\ g[1] \in Claims /\ g[2] \in 1..Len(versions[g[1]])
           /\ versions[g[1]][g[2]].decision = "verify"
           /\ \E e \in DOMAIN versions[g[1]][g[2]].links : versions[g[1]][g[2]].links[e] = "supports"
  PROVE  IInv' /\ Kept /\ StillGrounded
<1>1. Typed /\ Lengths /\ readying' = FALSE
  BY TypedLengths DEF IInv, LineageFree
<1>2. /\ Typed'
      /\ Len(syntheses') = Len(syntheses) + 1 /\ syntheses'[Len(syntheses) + 1] = row
      /\ \A s \in 1..Len(syntheses) : syntheses'[s] = syntheses[s]
      /\ briefs' = [i \in DOMAIN briefs |-> IF briefs[i].synthesis \in {Len(syntheses)}
                                            THEN Stale(briefs[i]) ELSE briefs[i]]
  BY <1>1, SynthesisTyped
<1>3. Kept
  <2>1. /\ Len(syntheses') >= Len(syntheses)
        /\ \A e \in Evidence : Len(reviews'[e]) >= Len(reviews[e])
        /\ \A c \in Claims : Len(versions'[c]) >= Len(versions[c])
    BY <1>1, <1>2 DEF Lengths
  <2> QED
    BY <1>2, <2>1 DEF Kept
<1>4. Sealed'
  BY DEF IInv, Sealed
<1>5. NewGrounded
  <2> SUFFICES ASSUME NEW s \in 1..Len(syntheses'), s \notin 1..Len(syntheses)
               PROVE  syntheses'[s] = row
    BY DEF NewGrounded
  <2>1. s = Len(syntheses) + 1
    BY <1>1, <1>2 DEF Lengths
  <2> QED
    BY <1>2, <2>1
<1>6. \A s \in 1..Len(syntheses) : s \in {Len(syntheses)} => s \in Behind'
  <2>1. \A s \in 1..Len(syntheses) : s \in 1..Len(syntheses') /\ Len(syntheses') > s
    BY <1>1, <1>2 DEF Lengths
  <2> QED
    BY <2>1 DEF Behind, Superseded
<1>7. \A s \in 1..Len(syntheses) : s \notin {Len(syntheses)} /\ s \in Behind' => s \in Behind
  <2>1. \A s \in 1..Len(syntheses) : s \notin {Len(syntheses)} => Len(syntheses) > s
    BY <1>1 DEF Lengths
  <2> QED
    BY <2>1 DEF Behind, Superseded
<1>8. StillGrounded
  BY <1>1, <1>2, StaleRows DEF StillGrounded
<1> QED
  BY <1>1, <1>2, <1>3, <1>4, <1>5, <1>6, <1>7, <1>8, StaleKeeps

LEMMA CreateSynthesisKeeps ==
  ASSUME IInv, NEW grounds \in SUBSET CurrentClaims, CreateSynthesis(grounds)
  PROVE  IInv' /\ Kept /\ StillGrounded
<1>1. Typed /\ Lengths /\ Parts
  BY TypedLengths, TypedParts DEF IInv
<1>2. \A c \in Claims : Len(versions[c]) \in 1..Len(versions[c]) /\ Len(versions[c]) \in Nat
  BY <1>1 DEF Lengths, Parts
<1>3. ASSUME NEW g \in grounds
      PROVE  g[1] \in Claims /\ g[2] = Len(versions[g[1]]) /\ g \in Claims \X Nat
  BY <1>2 DEF CurrentClaims
<1> DEFINE row == NewSynthesis(grounds)
<1>4. row \in SynRow /\ row.verdict = "none" /\ row.grounds = grounds
  BY <1>3 DEF NewSynthesis, SynRow
<1> HIDE DEF row
<1>5. \A g \in grounds :
           /\ versions[g[1]][g[2]].decision = "verify"
           /\ \E e \in DOMAIN versions[g[1]][g[2]].links : versions[g[1]][g[2]].links[e] = "supports"
  BY DEF CreateSynthesis, ClaimVerified
<1>6. \A g \in row.grounds :
           /\ g[1] \in Claims /\ g[2] \in 1..Len(versions[g[1]])
           /\ versions[g[1]][g[2]].decision = "verify"
           /\ \E e \in DOMAIN versions[g[1]][g[2]].links : versions[g[1]][g[2]].links[e] = "supports"
  BY <1>2, <1>3, <1>4, <1>5
<1>7. /\ LineageFree /\ syntheses' = Append(syntheses, row) /\ briefs' = StaleBySynthesis
      /\ UNCHANGED <<reviews, versions, status, exported, readying>>
  BY DEF CreateSynthesis, row
<1> QED
  BY <1>4, <1>6, <1>7, NewSynthesisKeeps

LEMMA ReviseSynthesisKeeps ==
  ASSUME IInv, ReviseSynthesis
  PROVE  IInv' /\ Kept /\ StillGrounded
<1>1. Typed /\ Lengths /\ Len(syntheses) \in 1..Len(syntheses)
  BY TypedLengths DEF IInv, ReviseSynthesis, Lengths
<1> DEFINE row == NewSynthesis(Last(syntheses).grounds)
<1>2. syntheses[Len(syntheses)] \in SynRow
  BY <1>1, Domains
<1>3. row \in SynRow /\ row.verdict = "none" /\ row.grounds = syntheses[Len(syntheses)].grounds
  BY <1>2 DEF NewSynthesis, SynRow, Last
<1> HIDE DEF row
<1>4. \A g \in row.grounds :
           /\ g[1] \in Claims /\ g[2] \in 1..Len(versions[g[1]])
           /\ versions[g[1]][g[2]].decision = "verify"
           /\ \E e \in DOMAIN versions[g[1]][g[2]].links : versions[g[1]][g[2]].links[e] = "supports"
  BY <1>1, <1>3 DEF IInv, Grounded
<1>5. /\ LineageFree /\ syntheses' = Append(syntheses, row) /\ briefs' = StaleBySynthesis
      /\ UNCHANGED <<reviews, versions, status, exported, readying>>
  BY DEF ReviseSynthesis, row
<1> QED
  BY <1>3, <1>4, <1>5, NewSynthesisKeeps

LEMMA ReviewSynthesisKeeps ==
  ASSUME IInv, NEW verdict \in {"verify", "reject"}, ReviewSynthesis(verdict)
  PROVE  IInv' /\ Kept
<1>1. Typed /\ Lengths /\ Parts /\ LineageFree /\ Len(syntheses) \in 1..Len(syntheses)
      /\ UNCHANGED <<reviews, versions, briefs, status, exported, readying>>
  <2>1. Len(syntheses) > 0 /\ Len(syntheses) \in Nat
    BY TypedLengths DEF IInv, ReviewSynthesis, Lengths
  <2> QED
    BY <2>1, TypedLengths, TypedParts DEF IInv, ReviewSynthesis
<1> DEFINE k   == Len(syntheses)
           row == [syntheses[k] EXCEPT !.verdict = verdict]
<1>2. row \in SynRow /\ row.grounds = syntheses[k].grounds /\ syntheses[k].verdict = "none"
  <2>1. syntheses[k] \in SynRow
    BY <1>1, Domains
  <2> QED
    BY <2>1 DEF SynRow, ReviewSynthesis, Last
<1>3. syntheses' = [syntheses EXCEPT ![k] = row]
  BY DEF ReviewSynthesis
<1> HIDE DEF row
<1>4. /\ syntheses' \in Seq(SynRow) /\ Len(syntheses') = Len(syntheses)
      /\ \A s \in 1..Len(syntheses) : syntheses'[s] = IF s = k THEN row ELSE syntheses[s]
  BY <1>1, <1>2, <1>3, Replacing DEF Parts
<1>5. \A s \in 1..Len(syntheses) : syntheses'[s].grounds = syntheses[s].grounds
  BY <1>2, <1>4
<1>6. Kept
  <2>1. /\ Len(syntheses') >= Len(syntheses)
        /\ \A e \in Evidence : Len(reviews'[e]) >= Len(reviews[e])
        /\ \A c \in Claims : Len(versions'[c]) >= Len(versions[c])
    BY <1>1, <1>4 DEF Lengths
  <2>2. \A s \in 1..Len(syntheses) : syntheses[s].verdict = "verify" => syntheses'[s].verdict = "verify"
    BY <1>2, <1>4
  <2> QED
    BY <1>1, <1>5, <2>1, <2>2 DEF Kept
<1>7. Typed'
  <2>1. \A s \in 1..Len(syntheses') : \A g \in syntheses'[s].grounds :
          g[1] \in Claims /\ g[2] \in 1..Len(versions'[g[1]])
    BY <1>1, <1>4, <1>5 DEF Parts
  <2>2. Parts'
    BY <1>1, <1>4, <2>1, Zenon DEF Parts
  <2> QED
    BY <2>2, TypedFrom, PTL
<1>8. Sealed'
  BY <1>1 DEF IInv, Sealed
<1>9. NewGrounded
  BY <1>4 DEF NewGrounded
<1>10. \A s \in 1..Len(syntheses) : s \in Behind' => s \in Behind
  BY <1>1, <1>4, <1>5 DEF Behind, Superseded
<1> QED
  BY <1>1, <1>6, <1>7, <1>8, <1>9, <1>10, QuietKeeps

-----------------------------------------------------------------------------
\* A version of the brief that nobody has judged fresh yet.
LEMMA NewBriefRow ==
  ASSUME Typed, NEW s \in 1..Len(syntheses), NEW facts \in SUBSET (Claims \X Evidence),
         NEW judged \in BOOLEAN, NEW searched \in BOOLEAN
  PROVE  LET row == NewBrief(s, facts, judged, searched)
         IN  row \in BriefRow /\ row.synthesis = s /\ row.fresh = "none" /\ ~row.ready
<1>1. s \in Nat
  BY TypedLengths DEF Lengths
<1> QED
  BY <1>1 DEF NewBrief, BriefRow

\* Commands that append a version of the brief.
LEMMA AppendKeeps ==
  ASSUME IInv, LineageFree, NEW row \in BriefRow, row.fresh = "none", ~row.ready,
         row.synthesis \in 1..Len(syntheses), syntheses[row.synthesis].verdict = "verify",
         briefs' = Append(briefs, row), status' = "draft",
         UNCHANGED <<reviews, versions, syntheses, exported, readying>>
  PROVE  IInv'
<1>1. Typed /\ Lengths /\ Parts /\ readying' = FALSE
  BY TypedLengths, TypedParts DEF IInv, LineageFree
<1>2. /\ briefs' \in Seq(BriefRow) /\ Len(briefs) \in Nat /\ Len(briefs') = Len(briefs) + 1
      /\ briefs'[Len(briefs) + 1] = row
      /\ \A i \in 1..Len(briefs) : briefs'[i] = briefs[i]
  <2>1. briefs \in Seq(BriefRow)
    BY <1>1 DEF Parts
  <2> QED
    BY <2>1, Appending
<1>3. \A i \in 1..Len(briefs') : i \in 1..Len(briefs) \/ (i = Len(briefs) + 1 /\ briefs'[i] = row)
  BY <1>2
<1>4. Typed'
  <2>1. \A i \in 1..Len(briefs') : briefs'[i].synthesis \in 1..Len(syntheses')
    <3>1. \A i \in 1..Len(briefs) : briefs[i].synthesis \in 1..Len(syntheses)
      BY <1>1 DEF Parts
    <3> QED
      BY <1>2, <1>3, <3>1
  <2>2. briefs' # <<>>
    BY <1>2
  <2>3. exported' \subseteq 1..Len(briefs')
    <3>1. exported \subseteq 1..Len(briefs)
      BY <1>1 DEF Parts
    <3> QED
      BY <1>2, <3>1
  <2>4. Parts'
    BY <1>1, <1>2, <2>1, <2>2, <2>3, Zenon DEF Parts
  <2> QED
    BY <2>4, TypedFrom, PTL
<1>5. Kept /\ Behind' = Behind
  BY <1>1, ApartKept
<1>6. Sealed' /\ NewGrounded
  BY DEF IInv, Sealed, NewGrounded
<1>7. Honest
  BY <1>1, HonestRows DEF IInv
<1>8. ASSUME NEW i \in 1..Len(briefs')
      PROVE  \/ /\ briefs'[i].fresh = "none" /\ ~briefs'[i].ready
                /\ syntheses'[briefs'[i].synthesis].verdict = "verify"
             \/ /\ i \in 1..Len(briefs)
                /\ briefs'[i].synthesis = briefs[i].synthesis /\ (briefs'[i].ready => briefs[i].ready)
                /\ briefs'[i].fresh = "none" => briefs[i].fresh = "none"
                /\ briefs'[i].fresh = "current" => briefs[i].synthesis \notin Behind'
                /\ briefs'[i].fresh = "evidence_stale" => briefs[i].synthesis \in Behind'
  <2>1. CASE i \in 1..Len(briefs)
    BY <1>2, <1>5, <1>7, <2>1, Zenon DEF Honest
  <2>2. CASE i = Len(briefs) + 1 /\ briefs'[i] = row
    BY <2>2, Zenon
  <2> QED
    BY <1>3, <2>1, <2>2
<1> QED
  BY <1>1, <1>4, <1>5, <1>6, <1>8, StepKeeps

LEMMA CreateBriefKeeps ==
  ASSUME IInv, NEW s \in DOMAIN syntheses, CreateBrief(s)
  PROVE  IInv'
<1>1. Typed /\ Parts /\ s \in 1..Len(syntheses)
  BY TypedParts, Domains DEF IInv
<1> DEFINE row == NewBrief(s, Citations(s), FALSE, FALSE)
<1>2. row \in BriefRow /\ row.synthesis = s /\ row.fresh = "none" /\ ~row.ready
  <2>1. Citations(s) \in SUBSET (Claims \X Evidence)
    BY DEF Citations
  <2> QED
    BY <1>1, <2>1, NewBriefRow
<1>3. briefs = <<>>
  BY <1>1 DEF Parts, CreateBrief
<1>4. briefs' = Append(briefs, row)
  BY <1>3 DEF CreateBrief
<1> HIDE DEF row
<1> QED
  BY <1>1, <1>2, <1>4, AppendKeeps DEF CreateBrief, SynthesisVerified

\* A draft or a ready brief has a last version.
LEMMA LastBrief ==
  ASSUME IInv, status # "none"
  PROVE  /\ Len(briefs) \in 1..Len(briefs) /\ Last(briefs) = briefs[Len(briefs)]
         /\ Last(briefs) \in BriefRow
         /\ Last(briefs).synthesis \in 1..Len(syntheses)
         /\ syntheses[Last(briefs).synthesis].verdict = "verify"
<1>1. Typed /\ Parts
  BY TypedParts DEF IInv
<1>2. briefs \in Seq(BriefRow) /\ briefs # <<>>
  BY <1>1 DEF Parts
<1>3. Len(briefs) \in 1..Len(briefs)
  BY <1>2
<1> QED
  BY <1>1, <1>3, Domains DEF IInv, Founded, Last

LEMMA ReviseBriefKeeps ==
  ASSUME IInv, NEW facts \in Edits, NEW judged \in BOOLEAN, NEW searched \in BOOLEAN,
         ReviseBrief(facts, judged, searched)
  PROVE  IInv'
<1>1. Typed /\ LineageFree /\ status = "draft" /\ status' = "draft"
      /\ UNCHANGED <<reviews, versions, syntheses, exported, readying>>
  BY DEF IInv, ReviseBrief
<1> DEFINE s   == Last(briefs).synthesis
           row == NewBrief(s, facts, judged, searched)
<1>2. s \in 1..Len(syntheses) /\ syntheses[s].verdict = "verify"
  BY <1>1, LastBrief
<1>3. briefs' = Append(briefs, row)
  BY DEF ReviseBrief
<1> HIDE DEF s
<1>4. row \in BriefRow /\ row.synthesis = s /\ row.fresh = "none" /\ ~row.ready
  BY <1>1, <1>2, EditsTyped, NewBriefRow
<1> HIDE DEF row
<1> QED
  BY <1>1, <1>2, <1>3, <1>4, AppendKeeps

LEMMA StartRevisionKeeps ==
  ASSUME IInv, NEW s \in DOMAIN syntheses, StartRevision(s)
  PROVE  IInv'
<1>1. Typed /\ LineageFree /\ status = "decision_ready" /\ status' = "draft"
      /\ UNCHANGED <<reviews, versions, syntheses, exported, readying>>
      /\ syntheses[s].verdict = "verify"
  BY DEF IInv, StartRevision, MayRevise, SynthesisVerified
<1>2. s \in 1..Len(syntheses) /\ Last(briefs) \in BriefRow
  BY <1>1, LastBrief, Domains
<1> DEFINE row == NewBrief(s, Citations(s), Last(briefs).judged, Last(briefs).searched)
<1>3. row \in BriefRow /\ row.synthesis = s /\ row.fresh = "none" /\ ~row.ready
  <2>1. Citations(s) \in SUBSET (Claims \X Evidence)
    BY DEF Citations
  <2>2. Last(briefs).judged \in BOOLEAN /\ Last(briefs).searched \in BOOLEAN
    BY <1>2 DEF BriefRow
  <2> QED
    BY <1>1, <1>2, <2>1, <2>2, NewBriefRow
<1>4. briefs' = Append(briefs, row)
  BY DEF StartRevision
<1> HIDE DEF row
<1> QED
  BY <1>1, <1>2, <1>3, <1>4, AppendKeeps

\* Commands that only read the rows.
LEMMA ReadingKeeps ==
  ASSUME IInv, UNCHANGED <<reviews, versions, syntheses, briefs, status>>,
         exported' \subseteq 1..Len(briefs), readying' \in BOOLEAN,
         readying' => status = "draft" /\ Ready(Last(briefs))
  PROVE  IInv'
<1>1. Parts
  BY TypedParts DEF IInv
<1>2. Parts'
  BY <1>1, Zenon DEF Parts
<1>3. Typed'
  BY <1>2, TypedFrom, PTL
<1>4. Kept /\ Behind' = Behind
  BY ApartKept DEF IInv
<1>5. Sealed' /\ Grounded' /\ Founded'
  BY DEF IInv, Sealed, Grounded, Founded
<1>6. FreshnessIsHonest'
  <2>1. Honest
    BY HonestRows DEF IInv
  <2>2. Honest'
    BY <1>4, <2>1, Zenon DEF Honest
  <2> QED
    BY <1>3, <2>2, HonestRows, PTL
<1>7. ReadyIsChecked'
  <2>1. Ready(Last(briefs))' = Ready(Last(briefs))
    BY SMTT(30) DEF Ready, Issues, SynthesisVerified, ClaimVerified, Accepted, Cited, Pinned,
                    Citations, Opposed, Last
  <2> QED
    BY <2>1, Zenon DEF ReadyIsChecked
<1> QED
  BY <1>3, <1>5, <1>6, <1>7 DEF IInv

LEMMA CheckReadyKeeps ==
  ASSUME IInv, CheckReady
  PROVE  IInv'
<1>1. exported' \subseteq 1..Len(briefs)
  BY TypedParts DEF IInv, CheckReady, Parts
<1> QED
  BY <1>1, ReadingKeeps DEF CheckReady

LEMMA AbortReadyKeeps ==
  ASSUME IInv, AbortReady
  PROVE  IInv'
<1>1. exported' \subseteq 1..Len(briefs)
  BY TypedParts DEF IInv, AbortReady, Parts
<1> QED
  BY <1>1, ReadingKeeps DEF AbortReady

LEMMA ExportKeeps ==
  ASSUME IInv, NEW i \in DOMAIN briefs, Export(i)
  PROVE  IInv'
<1>1. exported \subseteq 1..Len(briefs) /\ i \in 1..Len(briefs) /\ readying \in BOOLEAN
  BY TypedParts, Domains DEF IInv, Parts
<1>2. exported' \subseteq 1..Len(briefs) /\ readying' \in BOOLEAN /\ ~readying'
  BY <1>1 DEF Export, LineageFree
<1> QED
  BY <1>2, ReadingKeeps DEF Export

\* One row gets another freshness record.
LEMMA FreshKeeps ==
  ASSUME IInv, NEW i \in 1..Len(briefs), NEW row \in BriefRow,
         briefs' = [briefs EXCEPT ![i] = row],
         row.synthesis = briefs[i].synthesis,
         row.fresh = "current" => ~Superseded(row.synthesis),
         row.fresh = "evidence_stale" => Superseded(row.synthesis),
         row.fresh # "none",
         status' \in {"draft", "decision_ready"}, status # "none",
         UNCHANGED <<reviews, versions, syntheses, exported>>, readying' = FALSE
  PROVE  IInv'
<1>1. Parts /\ Typed /\ Lengths
  BY TypedParts, TypedLengths DEF IInv
<1>2. /\ briefs' \in Seq(BriefRow) /\ Len(briefs') = Len(briefs) /\ Len(briefs) \in Nat
      /\ \A n \in 1..Len(briefs) : briefs'[n] = IF n = i THEN row ELSE briefs[n]
  <2>1. briefs \in Seq(BriefRow)
    BY <1>1 DEF Parts
  <2> QED
    BY <2>1, Replacing
<1>3. Typed'
  <2>1. \A n \in 1..Len(briefs') : briefs'[n].synthesis \in 1..Len(syntheses')
    <3>1. \A n \in 1..Len(briefs) : briefs[n].synthesis \in 1..Len(syntheses)
      BY <1>1 DEF Parts
    <3> QED
      BY <1>2, <3>1
  <2>2. briefs' # <<>> /\ status' # "none"
    BY <1>2
  <2>3. exported' \subseteq 1..Len(briefs') /\ readying' \in BOOLEAN
    BY <1>1, <1>2 DEF Parts
  <2>4. status' \in {"none", "draft", "decision_ready"}
    OBVIOUS
  <2>5. Parts'
    BY <1>1, <1>2, <2>1, <2>2, <2>3, <2>4, Zenon DEF Parts
  <2> QED
    BY <2>5, TypedFrom, PTL
<1>4. Kept /\ Behind' = Behind
  BY <1>1, ApartKept
<1>5. Sealed' /\ Grounded'
  BY DEF IInv, Sealed, Grounded
<1>6. Founded'
  BY <1>2 DEF IInv, Founded
<1>7. FreshnessIsHonest'
  <2>1. Honest /\ briefs[i].synthesis \in 1..Len(syntheses)
    BY <1>1, HonestRows DEF IInv, Parts
  <2>2. /\ row.fresh = "current" => row.synthesis \notin Behind'
        /\ row.fresh = "evidence_stale" => row.synthesis \in Behind'
    BY <1>4, <2>1 DEF Behind
  <2>3. ASSUME NEW n \in 1..Len(briefs')
        PROVE  /\ briefs'[n].fresh = "current" => briefs'[n].synthesis \notin Behind'
               /\ briefs'[n].fresh = "evidence_stale" => briefs'[n].synthesis \in Behind'
               /\ briefs'[n].ready => briefs'[n].fresh # "none"
    <3>1. n \in 1..Len(briefs)
      BY <1>2
    <3>2. CASE n = i
      BY <1>2, <2>2, <3>1, <3>2
    <3>3. CASE n # i
      <4>1. briefs'[n] = briefs[n]
        BY <1>2, <3>1, <3>3
      <4>2. /\ briefs[n].fresh = "current" => briefs[n].synthesis \notin Behind
            /\ briefs[n].fresh = "evidence_stale" => briefs[n].synthesis \in Behind
            /\ briefs[n].ready => briefs[n].fresh # "none"
        BY <2>1, <3>1, Zenon DEF Honest
      <4> QED
        BY <1>4, <4>1, <4>2
    <3> QED
      BY <3>2, <3>3
  <2>4. Honest'
    BY <2>3 DEF Honest
  <2> QED
    BY <1>3, <2>4, HonestRows, PTL
<1>8. ReadyIsChecked'
  BY DEF ReadyIsChecked
<1> QED
  BY <1>3, <1>5, <1>6, <1>7, <1>8 DEF IInv

LEMMA CommitReadyKeeps ==
  ASSUME IInv, CommitReady
  PROVE  IInv'
<1>1. /\ status = "draft" /\ Ready(Last(briefs)) /\ status' = "decision_ready" /\ readying' = FALSE
      /\ UNCHANGED <<reviews, versions, syntheses, exported>>
  BY DEF IInv, ReadyIsChecked, CommitReady
<1>2. /\ Len(briefs) \in 1..Len(briefs) /\ Last(briefs) = briefs[Len(briefs)] /\ briefs[Len(briefs)] \in BriefRow
      /\ briefs[Len(briefs)].synthesis \in 1..Len(syntheses)
  BY <1>1, LastBrief
<1> DEFINE k   == Len(briefs)
           row == [[briefs[k] EXCEPT !.ready = TRUE] EXCEPT !.fresh = "current"]
<1>3. row \in BriefRow /\ row.synthesis = briefs[k].synthesis /\ row.fresh = "current"
  BY <1>2 DEF BriefRow
<1>4. briefs' = [briefs EXCEPT ![k] = row]
  <2>1. /\ briefs \in Seq(BriefRow) /\ k \in DOMAIN briefs
        /\ briefs' = [[briefs EXCEPT ![k].ready = TRUE] EXCEPT ![k].fresh = "current"]
    BY <1>2, Domains DEF IInv, Typed, CommitReady
  <2> QED
    BY <2>1
<1>5. ~Superseded(briefs[k].synthesis)
  BY <1>1, <1>2, CheckedIsCurrent DEF Ready
<1> HIDE DEF row, k
<1> QED
  BY <1>1, <1>2, <1>3, <1>4, <1>5, FreshKeeps DEF k

LEMMA RecheckKeeps ==
  ASSUME IInv, NEW i \in DOMAIN briefs, Recheck(i)
  PROVE  IInv'
<1>1. Typed /\ Parts /\ readying' = FALSE /\ UNCHANGED <<reviews, versions, syntheses, status, exported>>
  BY TypedParts DEF IInv, Recheck, LineageFree
<1>2. /\ i \in 1..Len(briefs) /\ briefs[i] \in BriefRow /\ briefs[i].synthesis \in 1..Len(syntheses)
      /\ syntheses[briefs[i].synthesis].verdict = "verify"
  BY <1>1, Domains DEF IInv, Founded
<1> DEFINE fresh == IF Issues(briefs[i]) THEN "evidence_stale" ELSE "current"
           row   == [briefs[i] EXCEPT !.fresh = fresh]
<1>3. fresh \in {"evidence_stale", "current"}
  OBVIOUS
<1>4. /\ fresh = "current" => ~Superseded(briefs[i].synthesis)
      /\ fresh = "evidence_stale" => Superseded(briefs[i].synthesis)
  BY <1>2, CheckedIsCurrent, IssuesAreOvertaking
<1>5. briefs' = [briefs EXCEPT ![i] = row]
  BY DEF Recheck
<1> HIDE DEF fresh
<1>6. row \in BriefRow /\ row.synthesis = briefs[i].synthesis /\ row.fresh = fresh
  BY <1>2, <1>3 DEF BriefRow
<1>7. status # "none" /\ status' \in {"draft", "decision_ready"}
  BY <1>1, <1>2 DEF Parts
<1> HIDE DEF row
<1> QED
  BY <1>1, <1>2, <1>3, <1>4, <1>5, <1>6, <1>7, FreshKeeps

-----------------------------------------------------------------------------
LEMMA Start ==
  ASSUME Init
  PROVE  IInv
<1> DEFINE row(c) == NewVersion(FirstLinks[c])
<1>1. \A c \in Claims : row(c) \in VersionRow /\ row(c).decision = "none"
  BY NewVersionRow, LinksTyped
<1> HIDE DEF row
<1>2. versions = [c \in Claims |-> <<row(c)>>]
  BY DEF Init, row
<1>3. \A c \in Claims : versions[c] \in Seq(VersionRow) /\ Len(versions[c]) = 1 /\ versions[c][1] = row(c)
  BY <1>1, <1>2
<1>4. Parts
  <2>1. /\ reviews \in [Evidence -> Seq(Verdicts)]
        /\ syntheses = <<>> /\ briefs = <<>> /\ status = "none" /\ exported = {} /\ readying = FALSE
    BY DEF Init
  <2>2. Len(syntheses) = 0 /\ Len(briefs) = 0 /\ syntheses \in Seq(SynRow) /\ briefs \in Seq(BriefRow)
    BY <2>1
  <2>3. versions \in [Claims -> Seq(VersionRow)] /\ \A c \in Claims : Len(versions[c]) > 0
    BY <1>2, <1>3
  <2>4. /\ \A s \in 1..Len(syntheses) : FALSE
        /\ \A i \in 1..Len(briefs) : FALSE
        /\ exported \subseteq 1..Len(briefs)
    BY <2>1, <2>2
  <2> QED
    BY <2>1, <2>2, <2>3, <2>4 DEF Parts
<1>5. Typed
  BY <1>4, TypedFrom
<1>6. Sealed
  BY <1>1, <1>3 DEF Sealed
<1>7. Grounded /\ Founded /\ ReadyIsChecked
  BY DEF Init, Grounded, Founded, ReadyIsChecked
<1>8. FreshnessIsHonest
  BY DEF Init, FreshnessIsHonest
<1> QED
  BY <1>5, <1>6, <1>7, <1>8 DEF IInv

LEMMA StutterKeeps ==
  ASSUME IInv, UNCHANGED vars
  PROVE  IInv'
<1>1. exported' \subseteq 1..Len(briefs) /\ readying' \in BOOLEAN
  BY TypedParts DEF IInv, vars, Parts
<1>2. readying' => status = "draft" /\ Ready(Last(briefs))
  BY Zenon DEF IInv, ReadyIsChecked, vars
<1> QED
  BY <1>1, <1>2, ReadingKeeps DEF vars

LEMMA NextKeeps ==
  ASSUME IInv, [Next]_vars
  PROVE  IInv'
<1>1. CASE OnEvidence
  BY <1>1, ReviewEvidenceKeeps DEF OnEvidence
<1>2. CASE OnClaims
  BY <1>2, CreateClaimVersionKeeps, ReviewClaimVersionKeeps DEF OnClaims
<1>3. CASE OnSynthesis
  BY <1>3, CreateSynthesisKeeps, ReviseSynthesisKeeps, ReviewSynthesisKeeps DEF OnSynthesis
<1>4. CASE OnBrief
  BY <1>4, CreateBriefKeeps, StartRevisionKeeps, ReviseBriefKeeps, CheckReadyKeeps, CommitReadyKeeps,
     AbortReadyKeeps, RecheckKeeps, ExportKeeps DEF OnBrief
<1>5. CASE UNCHANGED vars
  BY <1>5, StutterKeeps
<1> QED
  BY <1>1, <1>2, <1>3, <1>4, <1>5 DEF Next

THEOREM Inductive == Spec => []IInv
<1>1. Init => IInv
  BY Start
<1>2. IInv /\ [Next]_vars => IInv'
  BY NextKeeps
<1> QED
  BY <1>1, <1>2, PTL DEF Spec

\* Every row keeps its shape, and refers to rows that exist.
THEOREM TypeCorrect == Spec => []TypeOK
<1>1. IInv => TypeOK
  BY DEF IInv, Typed
<1> QED
  BY <1>1, Inductive, PTL

\* The latest freshness record of a version of the brief says current only while
\* nothing it rests on was superseded, and evidence_stale only once something was.
THEOREM FreshnessStaysHonest == Spec => []FreshnessIsHonest
<1>1. IInv => FreshnessIsHonest
  BY DEF IInv
<1> QED
  BY <1>1, Inductive, PTL

-----------------------------------------------------------------------------
LEMMA ExportIsCurrent ==
  ASSUME IInv, NEW i \in DOMAIN briefs, Export(i)
  PROVE  /\ i = Len(briefs) /\ status = "decision_ready" /\ ~Overtaken(briefs[i])
         /\ \A f \in briefs[i].facts : Accepted(f[2])
<1> DEFINE s == briefs[i].synthesis
<1>1. i = Len(briefs) /\ status = "decision_ready" /\ Ready(briefs[i]) /\ s \in 1..Len(syntheses)
  BY Domains DEF IInv, Export, MayExport
<1>2. ~Superseded(s)
  BY <1>1, CheckedIsCurrent DEF Ready
<1>3. briefs[i].facts \subseteq Citations(s)
  BY <1>1 DEF Ready
<1> HIDE DEF s
<1>4. ASSUME NEW f \in briefs[i].facts PROVE Accepted(f[2])
  <2>1. PICK g \in syntheses[s].grounds : f[2] \in DOMAIN versions[g[1]][g[2]].links
    BY <1>3 DEF Citations
  <2> QED
    BY <1>1, <1>2, <2>1, CurrentIsVerified
<1> QED
  BY <1>1, <1>2, <1>4 DEF Overtaken, s

LEMMA OnlyExportExports ==
  ASSUME [Next]_vars, NEW i \in exported' \ exported
  PROVE  i \in DOMAIN briefs /\ Export(i)
<1>1. ~UNCHANGED exported
  OBVIOUS
<1>2. \E k \in DOMAIN briefs : Export(k)
  BY <1>1 DEF Next, OnEvidence, OnClaims, OnSynthesis, OnBrief, ReviewEvidence, CreateClaimVersion,
       ReviewClaimVersion, CreateSynthesis, ReviseSynthesis, ReviewSynthesis, CreateBrief, ReviseBrief,
       StartRevision, CheckReady, CommitReady, AbortReady, Recheck, vars
<1> QED
  BY <1>2 DEF Export

\* What was exported was the brief's current version, ready, overtaken by
\* nothing, and its facts cited evidence the latest review accepts.
THEOREM ExportsStayCurrent == Spec => ExportsWereCurrent
<1>1. IInv /\ [Next]_vars =>
        \A i \in exported' \ exported :
          /\ i = Len(briefs) /\ status = "decision_ready" /\ ~Overtaken(briefs[i])
          /\ \A f \in briefs[i].facts : Accepted(f[2])
  BY OnlyExportExports, ExportIsCurrent
<1> QED
  BY <1>1, Inductive, PTL DEF Spec, ExportsWereCurrent

LEMMA LastBehind == Last(briefs).synthesis \in Behind => Overtaken(Last(briefs))
BY SMT DEF Behind, Overtaken

LEMMA Stuck ==
  ASSUME IInv, [Next]_vars, status = "draft", Overtaken(Last(briefs))
  PROVE  status' = "draft" /\ Overtaken(Last(briefs))'
<1>0. PICK s : s = Last(briefs).synthesis
  OBVIOUS
<1>1. /\ Typed /\ Len(briefs) \in 1..Len(briefs) /\ Last(briefs) = briefs[Len(briefs)]
      /\ s \in 1..Len(syntheses) /\ Superseded(s)
  BY <1>0, LastBrief DEF Overtaken, IInv
<1>2. IInv'
  BY NextKeeps
<1>3. ASSUME Kept PROVE s \in Behind'
  <2>1. Superseded(s)'
    BY <1>1, <1>2, <1>3, OvertakenStays DEF IInv
  <2>2. Lengths /\ Lengths'
    BY <1>1, <1>2, TypedLengths, PTL DEF IInv
  <2>3. s \in 1..Len(syntheses')
    BY <1>1, <1>3, <2>2 DEF Kept, Lengths
  <2> QED
    BY <2>1, <2>3 DEF Behind
<1>4. ASSUME Kept, StillGrounded, status' = status
      PROVE  status' = "draft" /\ Overtaken(Last(briefs))'
  <2>1. Last(briefs)'.synthesis = s
    BY <1>0, <1>1, <1>4 DEF StillGrounded, Last
  <2>2. (Last(briefs).synthesis \in Behind)'
    BY <1>3, <1>4, <2>1
  <2>3. Overtaken(Last(briefs))'
    BY <2>2, LastBehind, PTL
  <2> QED
    BY <1>4, <2>3
<1>5. ASSUME UNCHANGED briefs PROVE StillGrounded
  BY <1>5 DEF StillGrounded
<1>6. CASE OnEvidence
  BY <1>4, <1>6, ReviewEvidenceKeeps DEF OnEvidence, ReviewEvidence
<1>7. CASE OnClaims
  <2>1. ASSUME NEW c \in Claims, NEW links \in Revisions, CreateClaimVersion(c, links)
        PROVE  status' = "draft" /\ Overtaken(Last(briefs))'
    BY <1>4, <2>1, CreateClaimVersionKeeps DEF CreateClaimVersion
  <2>2. ASSUME NEW c \in Claims, NEW n \in DOMAIN versions[c],
               NEW d \in {"verify", "reject", "request_more_evidence"}, ReviewClaimVersion(c, n, d)
        PROVE  status' = "draft" /\ Overtaken(Last(briefs))'
    <3>1. Kept
      BY <2>2, ReviewClaimVersionKeeps
    <3> QED
      BY <1>4, <1>5, <2>2, <3>1 DEF ReviewClaimVersion
  <2> QED
    BY <1>7, <2>1, <2>2 DEF OnClaims
<1>8. CASE OnSynthesis
  <2>1. ASSUME NEW grounds \in SUBSET CurrentClaims, CreateSynthesis(grounds)
        PROVE  status' = "draft" /\ Overtaken(Last(briefs))'
    BY <1>4, <2>1, CreateSynthesisKeeps DEF CreateSynthesis
  <2>2. ASSUME ReviseSynthesis
        PROVE  status' = "draft" /\ Overtaken(Last(briefs))'
    BY <1>4, <2>2, ReviseSynthesisKeeps DEF ReviseSynthesis
  <2>3. ASSUME NEW verdict \in {"verify", "reject"}, ReviewSynthesis(verdict)
        PROVE  status' = "draft" /\ Overtaken(Last(briefs))'
    <3>1. Kept
      BY <2>3, ReviewSynthesisKeeps
    <3> QED
      BY <1>4, <1>5, <2>3, <3>1 DEF ReviewSynthesis
  <2> QED
    BY <1>8, <2>1, <2>2, <2>3 DEF OnSynthesis
<1>9. ASSUME UNCHANGED <<reviews, versions, syntheses>> PROVE Kept
  BY <1>1, <1>9, ApartKept
<1>10. CASE OnBrief
  <2>1. ASSUME NEW facts \in Edits, NEW judged \in BOOLEAN, NEW searched \in BOOLEAN,
               ReviseBrief(facts, judged, searched)
        PROVE  status' = "draft" /\ Overtaken(Last(briefs))'
    <3> DEFINE row == NewBrief(s, facts, judged, searched)
    <3>1. row.synthesis = s /\ briefs' = Append(briefs, row)
      BY <1>0, <2>1 DEF NewBrief, ReviseBrief
    <3>2. status' = "draft" /\ s \in Behind'
      BY <1>3, <1>9, <2>1 DEF ReviseBrief
    <3> HIDE DEF row
    <3>3. Last(briefs)' = row
      <4>1. briefs \in Seq(BriefRow)
        BY <1>1 DEF Typed
      <4> QED
        BY <3>1, <4>1 DEF Last
    <3>4. (Last(briefs).synthesis \in Behind)'
      BY <3>1, <3>2, <3>3
    <3>5. Overtaken(Last(briefs))'
      BY <3>4, LastBehind, PTL
    <3> QED
      BY <3>2, <3>5
  <2>2. ASSUME NEW k \in DOMAIN syntheses, CreateBrief(k) \/ StartRevision(k)
        PROVE  FALSE
    BY <2>2 DEF CreateBrief, StartRevision, MayRevise
  <2>3. ASSUME CheckReady \/ AbortReady \/ \E i \in DOMAIN briefs : Export(i)
        PROVE  status' = "draft" /\ Overtaken(Last(briefs))'
    <3>1. UNCHANGED <<reviews, versions, syntheses, briefs, status>>
      BY <2>3 DEF CheckReady, AbortReady, Export
    <3> QED
      BY <1>4, <1>5, <1>9, <3>1
  <2>4. ASSUME CommitReady PROVE FALSE
    <3>1. Ready(Last(briefs))
      BY <2>4 DEF IInv, ReadyIsChecked, CommitReady
    <3> QED
      BY <1>0, <1>1, <3>1, CheckedIsCurrent DEF Ready
  <2>5. ASSUME NEW i \in DOMAIN briefs, Recheck(i)
        PROVE  status' = "draft" /\ Overtaken(Last(briefs))'
    <3> DEFINE fresh == IF Issues(briefs[i]) THEN "evidence_stale" ELSE "current"
               row   == [briefs[i] EXCEPT !.fresh = fresh]
    <3>1. briefs \in Seq(BriefRow) /\ i \in 1..Len(briefs) /\ briefs[i] \in BriefRow
      BY <1>1, Domains DEF Typed
    <3>2. fresh \in {"evidence_stale", "current"}
      OBVIOUS
    <3>3. briefs' = [briefs EXCEPT ![i] = row]
      BY <2>5 DEF Recheck
    <3> HIDE DEF fresh
    <3>4. row \in BriefRow /\ row.synthesis = briefs[i].synthesis
      BY <3>1, <3>2 DEF BriefRow
    <3> HIDE DEF row
    <3>5. /\ Len(briefs') = Len(briefs)
          /\ \A n \in 1..Len(briefs) : briefs'[n] = IF n = i THEN row ELSE briefs[n]
      BY <3>1, <3>3, <3>4, Replacing
    <3>6. StillGrounded
      BY <3>4, <3>5 DEF StillGrounded
    <3> QED
      BY <1>4, <1>9, <2>5, <3>6 DEF Recheck
  <2> QED
    BY <1>10, <2>1, <2>2, <2>3, <2>4, <2>5 DEF OnBrief
<1>11. CASE UNCHANGED vars
  BY <1>4, <1>5, <1>9, <1>11 DEF vars
<1> QED
  BY <1>6, <1>7, <1>8, <1>10, <1>11 DEF Next

\* A draft whose grounds were overtaken can never be made ready, and never gets
\* other grounds.
THEOREM OvertakenDraftsStayStuck == Spec => OvertakenDraftIsStuck
<1>1. IInv /\ [Next]_vars =>
        (status = "draft" /\ Overtaken(Last(briefs)) => status' = "draft" /\ Overtaken(Last(briefs))')
  BY Stuck
<1> QED
  BY <1>1, Inductive, PTL DEF Spec, OvertakenDraftIsStuck
=============================================================================
