SPECIFICATION Spec
CONSTANTS
  Runs = {1, 2}
  Workers = {w1, w2}
  FixtureWorkers = {}
  Threads = {t1, t2}
  Nobody = Nobody
  MaxIterations = 2
  MaxExperiments = 1
  MaxRepairs = 1
  MaxFailures = 1
  MaxRequests = 3
  MaxFaults = 0
PROPERTIES NothingLost CancelHolds
SYMMETRY Alike
CHECK_DEADLOCK FALSE
