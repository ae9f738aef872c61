SPECIFICATION FairSpec
CONSTANTS
  Runs = {1, 2}
  Workers = {w1, w2}
  FixtureWorkers = {w2}
  Threads = {t1, t2}
  Nobody = Nobody
  MaxIterations = 2
  MaxExperiments = 1
  MaxRepairs = 1
  MaxFailures = 1
  MaxRequests = 2
  MaxFaults = 1
INVARIANTS BudgetsHold
PROPERTIES FencedWrites FinishedIsFinal NothingLost CancelHolds RunsFinishOrStrand
CHECK_DEADLOCK FALSE
