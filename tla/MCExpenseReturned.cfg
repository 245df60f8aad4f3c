SPECIFICATION Spec
CONSTANTS
  r1 = r1
  r2 = r2
  Rows <- MCRows
  LocationOf <- MCLocationOf
  Amount = 1
  MaxStock = 2
  MaxCode = 1
  Reasons = {"fixed_asset"}
  Procs = {p1}
  Mishaps = {}
SYMMETRY Symmetry
CHECK_DEADLOCK FALSE
INVARIANTS
  NothingGained
