SPECIFICATION FairSpec
CONSTANTS
  s1 = s1
  s2 = s2
  src1 = src1
  src2 = src2
  Sessions = {s1, s2}
  Sources = {src1, src2}
  Layouts <- TwoSources
  Workers = {w1}
  NameOf <- OwnNames
  Threads = {t1}
  Nobody = Nobody
  MaxVersion = 5
  MaxEdits = 0
  MaxFaults = 0
PROPERTIES ImportsSettle
CHECK_DEADLOCK FALSE
