SPECIFICATION Spec
CONSTANTS
  Runs = {1, 2}
  Nobody = Nobody
  Create = Create
  Finish = Finish
  Calls <- SomeCalls
  NoCall = NoCall
  Offers <- SomeOffers
  MaxIterations = 3
  MaxProviderFailures = 1
  AllowFallback = FALSE
  MaxSources = 1
  MaxEntries = 1
  MaxFaults = 1
  MaxStarts = 4
INVARIANTS TypeOK Restorable MistakesNotRepeated
PROPERTY ModifyOrStop
CHECK_DEADLOCK FALSE
