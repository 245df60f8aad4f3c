SPECIFICATION Spec
CONSTANTS
  Users = {u1, u2}
  Contents = {c1}
  Lines = {l1}
  Batches = {b1}
  Procs = {p1, p2}
  Votes = {"APPROVED", "REJECTED"}
  Handlers = {"edit", "resubmit", "remove", "purchase"}
SYMMETRY Symmetry
CHECK_DEADLOCK FALSE
INVARIANTS
  ApprovedByWholeCommission
  VotesWereCast
PROPERTIES
  LineOutcomeIsFinal
