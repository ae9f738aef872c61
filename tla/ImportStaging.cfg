SPECIFICATION Spec
CONSTANTS
  s1 = s1
  s2 = s2
  src1 = src1
  src2 = src2
  Sessions = {s1, s2}
  Sources = {src1}
  Layouts <- OneSource
  Workers = {w1}
  NameOf <- OwnNames
  Threads = {t1, t2}
  Nobody = Nobody
  MaxVersion = 6
  MaxEdits = 0
  MaxFaults = 0
INVARIANTS CancelCleansStaging
CHECK_DEADLOCK FALSE
