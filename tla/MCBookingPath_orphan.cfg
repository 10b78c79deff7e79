SPECIFICATION SpecPath
CONSTANTS
  p1 = p1
  p2 = p2
  p3 = p3
  Procs = {p1, p2, p3}
  Replicas = {"a", "b"}
  Events = {1}
  Keys <- MCKeys
  Home <- MCHome
  Gates = {g1, g2}
  Tokens = {t1, t2, t3}
  MayCrash = {}
  Nil = Nil
SYMMETRY Symmetry
INVARIANTS NoUnknownOwner
