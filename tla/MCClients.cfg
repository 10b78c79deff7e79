SPECIFICATION SpecClients
CONSTANTS
  MaxEvents = 3
  DrawTimes = {1, 2, 3}
  PageParams = {0, 1, 17}
  LimitParams = {0, 1, 3}
  DefaultLimit = 2
  MaxLimit = 2
  IntRange = 32
  K = 3
  W = 1
  Tries = 3
  MaxAgain = 2
  MaxLosses = 4
  MaxErrors = 1
  w1 = w1
  w2 = w2
  Workers <- TwoWorkers
  N = 3
  MaxFaults = 2
  MaxRuns = 3
SYMMETRY WorkerSymmetry
INVARIANTS
  NothingMissed
  SampleIsCommitted
  LossesAreSurvived
  SummaryIsTrue
