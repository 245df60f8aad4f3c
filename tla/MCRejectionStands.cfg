SPECIFICATION Spec
CONSTANTS
  Users = {u1, u2}
  Contents = {c1}
  Lines = {l1, l2}
  Batches = {b1, b2}
SYMMETRY Symmetry
CHECK_DEADLOCK FALSE
PROPERTIES
  PurchaseRejectionStands
