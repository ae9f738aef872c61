CONSTANTS
  k1 = k1 k2 = k2 w1 = w1 w2 = w2 a = a b = b srcA = srcA srcB = srcB
  u1 = u1 a1 = a1 a2 = a2 b1 = b1 
  Workers = {w1, w2}
  Schedules <- MCSchedules
  SourceOf <- MCSourceOf
  WatchOf <- MCWatchOf
  NewSources = {srcA}
  Refetching = {k1}
  Items <- MCItems
  ItemSource <- MCItemSource
  ContentsOf <- MCContentsOf
  OriginOf <- MCOriginOf
  Gone = Gone
  Engines = {"postgresql"}
  MaxAttempts <- MCAttempts
  MaxTries = 3
  MaxFaults = 1
  MaxPins = 1
SYMMETRY MCSymmetry
SPECIFICATION Spec
PROPERTY ChangesAreStored
CHECK_DEADLOCK FALSE
