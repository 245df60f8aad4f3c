SPECIFICATION Spec
CONSTANTS
  Structures = {s1, s2}
  Goods = {g1, g2}
  Located = {s1, s2}
  Amount = 1
  TransferIds = {t1, t2}
  MaxStock = 2
  Procs = {p1, p2}
  Mishaps = {}
SYMMETRY Symmetry
CHECK_DEADLOCK FALSE
INVARIANTS
  NothingLost
