SPECIFICATION Spec
CONSTANTS
  Dbs = {d1, d2}
  Mis = {m1, m2}
  NoDb = NoDb
  MaxLinks = 2
INVARIANTS RockInv ChainsComplete ClosedLast
PROPERTIES NoSignalForgotten
SYMMETRY Symmetry
