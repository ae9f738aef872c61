CONSTANTS
  k1 = k1 k2 = k2 w1 = w1 w2 = w2 a = a b = b srcA = srcA srcB = srcB
  u1 = u1 a1 = a1 a2 = a2 b1 = b1 
  Workers = {w1, w2}
  Schedules <- MCSchedules
  SourceOf <- MCSourceOf
  WatchOf <- MCWatchOf
  NewSources = {}
  Refetching = {}
  Items <- MCItems
  ItemSource <- MCItemSource
  ContentsOf <- MCTwoTexts
  OriginOf <- MCOriginOf
  Gone = Gone
  Engines = {"sqlite"}
  MaxAttempts <- MCAttempts
  MaxTries = 3
  MaxFaults = 0
  MaxPins = 0
SYMMETRY MCSymmetry
SPECIFICATION Spec
INVARIANT CooldownHolds
CHECK_DEADLOCK FALSE
