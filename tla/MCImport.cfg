SPECIFICATION Spec
CONSTANTS
  n1 = n1
  n2 = n2
  c1 = c1
  k1 = k1
  k2 = k2
  Names <- MCNames
  Characteristics <- MCCharacteristics
  Codes <- MCCodes
  NoCode = NoCode
  Orders <- MCOrders
  Dtos <- MCDtos
  Sessions = {s1}
  MaxRows = 2
  MaxCode = 2
  MaxEdits = 1
  Deployments <- MCDeployments
  Procs = {p1, p2}
  Mishaps = {"crash"}
SYMMETRY Symmetry
CHECK_DEADLOCK FALSE
INVARIANTS
  RecordedIsStocked
  ImportedOnce
  SubmittedIsRecorded
PROPERTIES
  CodeKeepsItsName
