SPECIFICATION FairSpec
CONSTANTS
  Workers = {w1}
  Attempts = {1, 2, 3}
  Nobody = Nobody
  Jobs <- OneOfEach
  MayLackProvider = FALSE
  Watched = TRUE
  MaxLates = 0
  MaxCrashes = 1
  MaxCancels = 1
  MaxCuts = 1
  MaxReloads = 1
INVARIANTS StoppedShowsTheEnd
PROPERTIES FeedIsKept RunEnds ClientSettles
CHECK_DEADLOCK FALSE
