SPECIFICATION MCSpec
CONSTANTS
  Queries = {15}
  M = 2
  Ef = 6
  MaxLevel = 1
  MaxWork = 7
  NNodes = 4
  Weights = {0, 2}
  MaxWeight = 4
  MaxIter = 3
  MaxLevels = 3
  NTexts = 9
  BatchSize = 2
  Concurrency = 2
  ChanCap = 2
  Docs = {d1, d2}
  Entities = {1, 2, 3, 4}
  Embedded = {1, 2, 3}
  TopK = 1
  Depths = {0, 1, 2}
  Communities <- MCCommunities
  TopN = 2
  MaxRels = 3
INVARIANTS SearchFindsTheNearest StopsAtLocalOptimum OkMeansEverySlot AnswersAreRight
PROPERTIES MovesRaiseModularity EveryoneEnds
CHECK_DEADLOCK FALSE
