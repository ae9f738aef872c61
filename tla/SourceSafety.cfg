SPECIFICATION Spec
CONSTANTS
  Workers = {w1, w2}
  Schedules = {k1, k2}
  Skipping = {k2}
  CatchingUp = {k1}
  Results = {"healthy", "failed"}
  Nobody = Nobody
  MaxVersion = 2
  MaxFaults = 1
PROPERTIES VerdictAnswersItsRequest DriftIsReal LeaseEndsWithItsHolder
CHECK_DEADLOCK FALSE
