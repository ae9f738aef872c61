SPECIFICATION Spec
CONSTANTS
  Threads = {t1, t2}
  MaxRequests = 6
  MaxInvestigations = 2
  MaxRuns = 2
PROPERTIES EndedIsFinal
CHECK_DEADLOCK FALSE
