---------------------------- MODULE ReviewLineage ----------------------------
(***************************************************************************)
(* From reviewed evidence to an exported decision: the append-only reviews *)
(* of one Investigation, the versions of its Claims, of its Synthesis and  *)
(* of its Decision Brief, and the freshness records that tell a reader     *)
(* whether a brief still rests on what was reviewed.                       *)
(*                                                                         *)
(*   services/api/app/modules/evidence/service.py                          *)
(*   services/api/app/modules/decisions/service.py                         *)
(*   services/api/app/modules/common.py        lock_investigation_lineage  *)
(*                                                                         *)
(* Every command locks the Investigation's row first and reads afterwards, *)
(* so a command is one step; mark_ready is two, its checks and its commit, *)
(* so that what may happen between them is part of the model.  The latest  *)
(* record is the last one written.  Commands that are refused are left out,*)
(* the row_version a command expects among their reasons: a client that is *)
(* refused reads again.  Claim.aggregate_status is written and never read. *)
(***************************************************************************)
EXTENDS Naturals, Sequences

CONSTANTS
  Evidence,          \* the Evidence of the run
  Claims,            \* the Claims the run proposed
  FirstLinks,        \* per claim, the evidence its first version cites, with its stance
  Revisions,         \* the links a person may give a new version
  Edits,             \* the facts a person may put in the document: <<claim, evidence>>
  Verdicts,          \* the verdicts on evidence considered
  MaxReviews,        \* per piece of evidence, its reviews
  MaxClaimVersions,  \* per claim, its versions
  MaxSyntheses,      \* versions of the synthesis
  MaxBriefs          \* versions of the brief

Stances == {"supports", "opposes", "neutral"}
Links   == UNION {[E -> Stances] : E \in SUBSET Evidence \ {{}}}

ASSUME LinksTyped ==
  FirstLinks \in [Claims -> Links] /\ Revisions \subseteq Links

ASSUME EditsTyped == Edits \subseteq SUBSET (Claims \X Evidence)

ASSUME VerdictsTyped == Verdicts \subseteq {"valid", "weak", "rejected"}

VARIABLES
  reviews,    \* per evidence, the verdicts of its reviews
  versions,   \* per claim, its versions: [links, decision, seen]
  syntheses,  \* the synthesis's versions: [grounds, verdict]
  briefs,     \* the brief's versions: [synthesis, facts, judged, searched, ready, fresh]
  status,     \* the brief's status, "none" before it exists
  exported,   \* the versions of the brief that were exported
  readying    \* has a request passed the checks of mark_ready and not committed?

vars == <<reviews, versions, syntheses, briefs, status, exported, readying>>

(***************************************************************************)
(* A new version of a claim awaits its review.  `seen` is the number of    *)
(* the review of each piece of evidence that a verification pinned.        *)
(***************************************************************************)
NewVersion(links) == [links |-> links, decision |-> "none", seen |-> <<>>]

Init ==
  /\ reviews = [e \in Evidence |-> <<>>]
  /\ versions = [c \in Claims |-> <<NewVersion(FirstLinks[c])>>]
  /\ syntheses = <<>>
  /\ briefs = <<>>
  /\ status = "none"
  /\ exported = {}
  /\ readying = FALSE

-----------------------------------------------------------------------------
(* Projections: what the immutable rows say now.                           *)

Last(s) == s[Len(s)]

Accepted(e) == Len(reviews[e]) > 0 /\ Last(reviews[e]) # "rejected"

\* The status of a claim version is verified as long as its verification is of
\* the current version and of the latest reviews, and something accepted supports it.
ClaimVerified(c, n) ==
  LET v == versions[c][n]
  IN  /\ n = Len(versions[c])
      /\ v.decision = "verify"
      /\ \A e \in DOMAIN v.links : v.seen[e] = Len(reviews[e]) /\ Accepted(e)
      /\ \E e \in DOMAIN v.links : v.links[e] = "supports" /\ Accepted(e)

SynthesisVerified(s) ==
  /\ s = Len(syntheses)
  /\ \A g \in syntheses[s].grounds : ClaimVerified(g[1], g[2])
  /\ syntheses[s].verdict = "verify"

(***************************************************************************)
(* The reference snapshot of a brief version: the claim versions of its    *)
(* synthesis and the evidence, with the exact reviews, their verifications *)
(* pinned.  All of these rows are immutable by then.                       *)
(***************************************************************************)
Cited(s) == UNION {DOMAIN versions[g[1]][g[2]].links : g \in syntheses[s].grounds}

Pinned(s, e) == {versions[g[1]][g[2]].seen[e] :
                   g \in {h \in syntheses[s].grounds : e \in DOMAIN versions[h[1]][h[2]].links}}

\* What a fact of the document may cite: a claim of the snapshot with its own evidence.
Citations(s) == {f \in Claims \X Evidence :
                   \E g \in syntheses[s].grounds :
                     g[1] = f[1] /\ f[2] \in DOMAIN versions[g[1]][g[2]].links}

Opposed(s) == \E g \in syntheses[s].grounds :
                LET links == versions[g[1]][g[2]].links
                IN  \E e \in DOMAIN links : links[e] = "opposes" /\ Accepted(e)

\* The frozen approval graph of a brief version against the current projections.
Issues(b) ==
  \/ ~SynthesisVerified(b.synthesis)
  \/ \E g \in syntheses[b.synthesis].grounds : ~ClaimVerified(g[1], g[2])
  \/ \E e \in Cited(b.synthesis) :
       Len(reviews[e]) \notin Pinned(b.synthesis, e) \/ ~Accepted(e)

\* What readiness asks of the document: cited facts, a judgment, recommendations
\* that are settled, and counter-evidence or the record of a search for it.
Ready(b) ==
  /\ ~Issues(b)
  /\ b.facts \subseteq Citations(b.synthesis)
  /\ b.facts # {}
  /\ b.judged
  /\ Opposed(b.synthesis) \/ b.searched

(***************************************************************************)
(* A freshness record says evidence_stale for every version of the brief   *)
(* whose snapshot holds what has changed.                                  *)
(***************************************************************************)
\* Mutant of Stale: another word for the status.
StaleMisspelt(b) == [b EXCEPT !.fresh = "stale"]

Stale(b) == [b EXCEPT !.fresh = "evidence_stale"]

StaleByEvidence(e) ==
  [i \in DOMAIN briefs |->
     IF e \in Cited(briefs[i].synthesis) THEN Stale(briefs[i]) ELSE briefs[i]]

StaleByClaim(c) ==
  [i \in DOMAIN briefs |->
     IF <<c, Len(versions[c])>> \in syntheses[briefs[i].synthesis].grounds
     THEN Stale(briefs[i]) ELSE briefs[i]]

StaleBySynthesis ==
  [i \in DOMAIN briefs |->
     IF briefs[i].synthesis = Len(syntheses) THEN Stale(briefs[i]) ELSE briefs[i]]

-----------------------------------------------------------------------------
(* Evidence and claims.                                                    *)

\* Mutant of LineageFree: the commands do not lock the Investigation.
LineageUnlocked == TRUE

\* Nobody holds the lock of lock_investigation_lineage.
LineageFree == ~readying

ReviewEvidence(e, verdict) ==
  /\ LineageFree
  /\ Len(reviews[e]) < MaxReviews[e]
  /\ reviews' = [reviews EXCEPT ![e] = Append(@, verdict)]
  /\ briefs' = StaleByEvidence(e)
  /\ UNCHANGED <<versions, syntheses, status, exported, readying>>

CreateClaimVersion(c, links) ==
  /\ LineageFree
  /\ Len(versions[c]) < MaxClaimVersions[c]
  /\ versions' = [versions EXCEPT ![c] = Append(@, NewVersion(links))]
  /\ briefs' = StaleByClaim(c)
  /\ UNCHANGED <<reviews, syntheses, status, exported, readying>>

\* Verify names the latest review of each cited piece of evidence, none of them a
\* rejection; any version that has no final review may be reviewed, old ones too.
MayVerify(links) == \A e \in DOMAIN links : Accepted(e)

ReviewClaimVersion(c, n, decision) ==
  LET links == versions[c][n].links
  IN  /\ LineageFree
      /\ versions[c][n].decision \notin {"verify", "reject"}
      /\ decision = "verify" => MayVerify(links)
      /\ versions' = [versions EXCEPT ![c][n] =
           [links |-> links, decision |-> decision,
            seen |-> IF decision = "verify" THEN [e \in DOMAIN links |-> Len(reviews[e])]
                     ELSE <<>>]]
      /\ UNCHANGED <<reviews, syntheses, briefs, status, exported, readying>>

-----------------------------------------------------------------------------
(* The synthesis.                                                          *)

NewSynthesis(grounds) == [grounds |-> grounds, verdict |-> "none"]

CreateSynthesis(grounds) ==
  /\ LineageFree
  /\ Len(syntheses) < MaxSyntheses
  /\ grounds # {}
  /\ \A g \in grounds : ClaimVerified(g[1], g[2])
  /\ syntheses' = Append(syntheses, NewSynthesis(grounds))
  /\ briefs' = StaleBySynthesis
  /\ UNCHANGED <<reviews, versions, status, exported, readying>>

\* A person edits the text; the claims it rests on are copied.
ReviseSynthesis ==
  /\ LineageFree
  /\ Len(syntheses) \in 1..(MaxSyntheses - 1)
  /\ syntheses' = Append(syntheses, NewSynthesis(Last(syntheses).grounds))
  /\ briefs' = StaleBySynthesis
  /\ UNCHANGED <<reviews, versions, status, exported, readying>>

ReviewSynthesis(verdict) ==
  /\ LineageFree
  /\ Len(syntheses) > 0
  /\ Last(syntheses).verdict = "none"
  /\ syntheses' = [syntheses EXCEPT ![Len(syntheses)].verdict = verdict]
  /\ UNCHANGED <<reviews, versions, briefs, status, exported, readying>>

-----------------------------------------------------------------------------
(* The decision brief.                                                     *)

NewBrief(s, facts, judged, searched) ==
  [synthesis |-> s, facts |-> facts, judged |-> judged, searched |-> searched,
   ready |-> FALSE, fresh |-> "none"]

\* The first version cites everything and carries placeholders for the judgment and the recommendation.
CreateBrief(s) ==
  /\ LineageFree
  /\ status = "none"
  /\ SynthesisVerified(s)
  /\ briefs' = <<NewBrief(s, Citations(s), FALSE, FALSE)>>
  /\ status' = "draft"
  /\ UNCHANGED <<reviews, versions, syntheses, exported, readying>>

\* A draft is edited on the grounds it was created with, stale ones too.
ReviseBrief(facts, judged, searched) ==
  /\ LineageFree
  /\ status = "draft"
  /\ Len(briefs) < MaxBriefs
  /\ facts \subseteq Citations(Last(briefs).synthesis)
  /\ briefs' = Append(briefs, NewBrief(Last(briefs).synthesis, facts, judged, searched))
  /\ UNCHANGED <<reviews, versions, syntheses, status, exported, readying>>

\* Mutant of MayRevise: a draft may be put on new grounds as well.
AnyRevise == status \in {"draft", "decision_ready"}

MayRevise == status = "decision_ready" /\ Last(briefs).ready

\* What people wrote in the ready version is kept; the facts are taken anew.
StartRevision(s) ==
  /\ LineageFree
  /\ MayRevise
  /\ Len(briefs) < MaxBriefs
  /\ SynthesisVerified(s)
  /\ briefs' = Append(briefs, NewBrief(s, Citations(s), Last(briefs).judged, Last(briefs).searched))
  /\ status' = "draft"
  /\ UNCHANGED <<reviews, versions, syntheses, exported, readying>>

CheckReady ==
  /\ LineageFree
  /\ status = "draft"
  /\ Ready(Last(briefs))
  /\ readying' = TRUE
  /\ UNCHANGED <<reviews, versions, syntheses, briefs, status, exported>>

CommitReady ==
  /\ readying
  /\ briefs' = [briefs EXCEPT ![Len(briefs)].ready = TRUE, ![Len(briefs)].fresh = "current"]
  /\ status' = "decision_ready"
  /\ readying' = FALSE
  /\ UNCHANGED <<reviews, versions, syntheses, exported>>

\* The digest of the checklist is another one, or the request fails.
AbortReady ==
  /\ readying
  /\ readying' = FALSE
  /\ UNCHANGED <<reviews, versions, syntheses, briefs, status, exported>>

Recheck(i) ==
  /\ LineageFree
  /\ briefs' = [briefs EXCEPT ![i].fresh =
                  IF Issues(briefs[i]) THEN "evidence_stale" ELSE "current"]
  /\ UNCHANGED <<reviews, versions, syntheses, status, exported, readying>>

\* Mutant of MayExport: a version that was ready once may be exported.
ReadyOnce(i) == i \in DOMAIN briefs /\ briefs[i].ready

\* Only the current version, while it is ready, fresh, and passes the checks again.
MayExport(i) ==
  /\ status = "decision_ready"
  /\ i = Len(briefs)
  /\ briefs[i].ready
  /\ briefs[i].fresh = "current"
  /\ Ready(briefs[i])

Export(i) ==
  /\ LineageFree
  /\ MayExport(i)
  /\ exported' = exported \cup {i}
  /\ UNCHANGED <<reviews, versions, syntheses, briefs, status, readying>>

-----------------------------------------------------------------------------
CurrentClaims == {<<c, Len(versions[c])>> : c \in Claims}

OnEvidence ==
  \E e \in Evidence, verdict \in Verdicts : ReviewEvidence(e, verdict)

OnClaims ==
  \E c \in Claims :
    \/ \E links \in Revisions : CreateClaimVersion(c, links)
    \/ \E n \in DOMAIN versions[c], d \in {"verify", "reject", "request_more_evidence"} :
         ReviewClaimVersion(c, n, d)

OnSynthesis ==
  \/ \E grounds \in SUBSET CurrentClaims : CreateSynthesis(grounds)
  \/ ReviseSynthesis
  \/ \E verdict \in {"verify", "reject"} : ReviewSynthesis(verdict)

OnBrief ==
  \/ \E s \in DOMAIN syntheses : CreateBrief(s) \/ StartRevision(s)
  \/ \E facts \in Edits, judged, searched \in BOOLEAN : ReviseBrief(facts, judged, searched)
  \/ CheckReady \/ CommitReady \/ AbortReady
  \/ \E i \in DOMAIN briefs : Recheck(i) \/ Export(i)

Next == OnEvidence \/ OnClaims \/ OnSynthesis \/ OnBrief

Spec == Init /\ [][Next]_vars

-----------------------------------------------------------------------------
(* Properties.                                                             *)

TypeOK ==
  /\ reviews \in [Evidence -> Seq(Verdicts)]
  /\ \A c \in Claims : \A n \in DOMAIN versions[c] :
       /\ versions[c][n].links \in Links
       /\ versions[c][n].decision \in {"none", "verify", "reject", "request_more_evidence"}
  /\ \A s \in DOMAIN syntheses :
       /\ syntheses[s].verdict \in {"none", "verify", "reject"}
       /\ \A g \in syntheses[s].grounds : g[1] \in Claims /\ g[2] \in DOMAIN versions[g[1]]
  /\ \A i \in DOMAIN briefs :
       /\ briefs[i].synthesis \in DOMAIN syntheses
       /\ briefs[i].facts \in SUBSET (Claims \X Evidence)
       /\ briefs[i].fresh \in {"none", "current", "evidence_stale"}
  /\ status \in {"none", "draft", "decision_ready"} /\ (status = "none" <=> briefs = <<>>)
  /\ exported \subseteq DOMAIN briefs
  /\ readying \in BOOLEAN

(***************************************************************************)
(* Something a synthesis rests on has changed: a later synthesis, a later  *)
(* version of a claim, a later review of the evidence.  Said without the   *)
(* code's projections.                                                     *)
(***************************************************************************)
Superseded(s) ==
  \/ Len(syntheses) > s
  \/ \E g \in syntheses[s].grounds :
       LET v == versions[g[1]][g[2]]
       IN  \/ Len(versions[g[1]]) > g[2]
           \/ \E e \in DOMAIN v.links : Len(reviews[e]) > v.seen[e]

Overtaken(b) == Superseded(b.synthesis)

\* The records the commands leave behind and a fresh comparison agree: the latest
\* freshness record of a version says current exactly if nothing has overtaken it.
FreshnessIsHonest ==
  \A i \in DOMAIN briefs :
    /\ briefs[i].fresh = "current" => ~Overtaken(briefs[i])
    /\ briefs[i].fresh = "evidence_stale" => Overtaken(briefs[i])
    /\ briefs[i].ready => briefs[i].fresh # "none"

\* What was exported was, at that moment, the brief's current version, ready,
\* on grounds that nothing had overtaken, and each of its facts cited
\* evidence whose latest review accepts it.
ExportsWereCurrent ==
  [][\A i \in exported' \ exported :
       /\ i = Len(briefs) /\ status = "decision_ready" /\ ~Overtaken(briefs[i])
       /\ \A f \in briefs[i].facts : Accepted(f[2])]_vars

\* A draft whose grounds were overtaken is stuck: there is one brief per
\* investigation, edits copy the grounds, and only a ready version gets new ones.
OvertakenDraftIsStuck ==
  [][status = "draft" /\ Overtaken(Last(briefs)) =>
       status' = "draft" /\ Overtaken(Last(briefs))']_vars
=============================================================================
