SPECIFICATION FairSpecPath
CONSTANTS
  p1 = p1
  p2 = p2
  p3 = p3
  Procs = {p1, p2}
  Replicas = {"a", "b"}
  Events = {1}
  Keys <- MCKeys
  Home <- MCHome
  Gates = {g1}
  Tokens = {t1, t2, t3}
  MayCrash = {"a"}
  Nil = Nil
PROPERTIES EveryBookingReturns
