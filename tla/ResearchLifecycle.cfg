SPECIFICATION Spec
CONSTANTS
  Workers = {w1}
  Attempts = {1, 2}
  Nobody = Nobody
  Jobs <- OneOfEach
  MayLackProvider = FALSE
  Watched = FALSE
  MaxLates = 0
  MaxCrashes = 0
  MaxCancels = 1
  MaxCuts = 0
  MaxReloads = 0
PROPERTIES FollowsLifecycle
CHECK_DEADLOCK FALSE
