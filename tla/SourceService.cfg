SPECIFICATION FairSpec
CONSTANTS
  Workers = {w1}
  Schedules = {k1, k2}
  Skipping = {k2}
  CatchingUp = {}
  Results = {"healthy"}
  Nobody = Nobody
  MaxVersion = 2
  MaxFaults = 1
PROPERTIES ValidationsSettle DueIsServed
CHECK_DEADLOCK FALSE
