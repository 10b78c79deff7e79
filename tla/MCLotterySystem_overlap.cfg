SPECIFICATION Spec
CONSTANTS
  EventIds = {1}
  Users = {u1, u2}
  Workers = {r1, r2}
  None = None
  Faulty = {r1, r2}
  Ops = {"book", "close", "cancel", "draw", "results"}
  MaxCapacity = 2
  MaxWinners = 0
  MaxClock = 1
  AppTimes <- MCAppTimes
SYMMETRY Symmetry
INVARIANTS TypeOK Serialised CapacityRespected DrawIsComplete DrawIsDue BookingAnswersHold AdminAnswersHold ResultsVerify ResultsAgree
PROPERTIES FinalIsFinal Promised
