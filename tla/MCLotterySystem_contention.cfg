SPECIFICATION Spec
CONSTANTS
  EventIds = {1}
  Users = {u1, u2, u3}
  Workers = {r1, r2, r3}
  Faulty = {r1, r2, r3}
  Ops = {"book"}
  None = None
  MaxCapacity = 2
  MaxWinners = 1
  MaxClock = 0
  AppTimes <- MCAppTimes
SYMMETRY Symmetry
INVARIANTS CapacityRespected BookingAnswersHold
