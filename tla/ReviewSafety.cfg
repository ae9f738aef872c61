SPECIFICATION Spec
CONSTANTS
  e1 = e1 e2 = e2 c1 = c1 c2 = c2
  Evidence = {e1, e2}
  Claims = {c1, c2}
  FirstLinks <- FirstCitations
  Revisions <- OtherCitations
  Edits <- SomeEdits
  Verdicts = {"valid", "rejected"}
  MaxReviews <- SharedTwice
  MaxClaimVersions <- OneRevised
  MaxSyntheses = 2
  MaxBriefs = 3
INVARIANTS TypeOK FreshnessIsHonest
PROPERTIES ExportsWereCurrent OvertakenDraftIsStuck
CHECK_DEADLOCK FALSE
