SPECIFICATION Spec
CONSTANTS
  Users = {u1, u2, u3}
  Contents = {c1, c2}
  Lines = {l1}
  Batches = {b1}
SYMMETRY Symmetry
CHECK_DEADLOCK FALSE
INVARIANTS
  ApprovedByWholeCommission
  ProcurementIsApproved
  RecordBacksTheRequest
PROPERTIES
  ApprovalPinsTheRequest
  FullAgreementSurvives
  ImplementsSignOff
