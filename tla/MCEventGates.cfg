SPECIFICATION FairSpecGates
CONSTANTS
  Keys = {1, 2}
  Procs = {p1, p2, p3, p4}
  Gates = {g1, g2, g3}
  Nil = Nil
INVARIANTS OneInside GatesInUse SlotIsOwned
PROPERTIES FirstComeFirstServed NobodyStarves
