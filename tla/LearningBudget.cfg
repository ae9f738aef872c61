SPECIFICATION Spec
CONSTANTS
  Runs = {1}
  Nobody = Nobody
  Create = Create
  Finish = Finish
  Calls <- NullCalls
  NoCall = NoCall
  Offers <- AllOffers
  MaxIterations = 3
  MaxProviderFailures = 1
  AllowFallback = FALSE
  MaxSources = 1
  MaxEntries = 1
  MaxFaults = 0
  MaxStarts = 4
INVARIANT ActionBudgetHolds
CHECK_DEADLOCK FALSE
