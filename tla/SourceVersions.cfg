SPECIFICATION Spec
CONSTANTS
  Workers = {w1}
  Schedules = {k1}
  Skipping = {}
  CatchingUp = {}
  Results = {"healthy", "failed"}
  Nobody = Nobody
  MaxVersion = 3
  MaxFaults = 0
PROPERTIES VersionsRise
CHECK_DEADLOCK FALSE
