SPECIFICATION ViewSpec
CONSTANTS
  Users = {u1, u2, u3}
  Contents = {c1}
  Lines = {l1, l2}
  Batches = {b1}
SYMMETRY Symmetry
CHECK_DEADLOCK FALSE
INVARIANTS
  WarehouseStatusIsEarned
  PagesTellTheTruth
  WorkIsListed
