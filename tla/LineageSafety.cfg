SPECIFICATION Spec
CONSTANTS
  keyA = keyA keyB = keyB keyC = keyC
  Runs = {1, 2}
  NoRun = NoRun
  Keys = {keyA, keyB, keyC}
  NoKey = NoKey
  Template <- Templates
  Planned = {"trend", "reversion"}
  Rejected = {}
  Rank <- Ranks
  Folds <- Passed
  Regimes <- Covered
  Trades <- Traded
  Offers <- Proposed
  Windows = {"full", "late"}
  Dataset <- Sets
  Holdout <- Bars
  MaxExperiments = 3
  MaxRepairs <- Repairs
  MaxSources = 1
  MaxMemoryKeys = 4
  MaxPending = 1
  MaxEarlyWork = 0
  MaxComparisons = 2
  MaxEarlyEnds = 1
  Requests <- AllRequests
INVARIANTS TypeOK LineageRestores HoldoutOpenedOnce RefinementIsNovel ReportsAreComplete
CHECK_DEADLOCK FALSE
