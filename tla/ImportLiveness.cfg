SPECIFICATION FairSpec
CONSTANTS
  s1 = s1
  s2 = s2
  src1 = src1
  src2 = src2
  Sessions = {s1, s2}
  Sources = {src1, src2}
  Layouts <- EitherWay
  Workers = {w1, w2}
  NameOf <- OwnNames
  Threads = {t1}
  Nobody = Nobody
  MaxVersion = 5
  MaxEdits = 1
  MaxFaults = 1
INVARIANTS LinearHistory ValidatingHasCommand
PROPERTIES RevocationHolds ImportsSettleUnlessCancelled
CHECK_DEADLOCK FALSE
