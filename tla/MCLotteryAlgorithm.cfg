SPECIFICATION SpecAlgorithm
CONSTANTS
  MaxPool = 5
  People <- MCPeople
  Pools <- MCPools
  Counts <- MCCounts
INVARIANTS EveryoneRankedOnce ShuffleIsUniform
CHECK_DEADLOCK FALSE
