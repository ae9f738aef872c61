SPECIFICATION Spec
CONSTANTS
  Workers = {w1, w2}
  Attempts = {1, 2, 3, 4}
  Nobody = Nobody
  Jobs <- EveryJob
  MayLackProvider = TRUE
  Watched = FALSE
  MaxLates = 2
  MaxCrashes = 1
  MaxCancels = 2
  MaxCuts = 0
  MaxReloads = 0
INVARIANTS StateFollowsEvents ResultIsFinal
PROPERTIES FeedIsKept
SYMMETRY Alike
CHECK_DEADLOCK FALSE
