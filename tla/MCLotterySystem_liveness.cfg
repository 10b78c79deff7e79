SPECIFICATION FairSpec
CONSTANTS
  EventIds = {1}
  Users = {u1}
  Workers = {r1, r2}
  Faulty = {r1}
  Ops = {"book", "close", "draw"}
  None = None
  MaxCapacity = 1
  MaxWinners = 0
  MaxClock = 0
  AppTimes <- MCAppTimes
PROPERTIES EveryRequestEnds
