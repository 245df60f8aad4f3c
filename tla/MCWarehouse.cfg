SPECIFICATION Spec
CONSTANTS
  Procs = {p1, p2}
  Structures = {s1, s2, s3}
  Located = {s1, s2}
  Goods = {g1}
  TransferIds = {t1}
  TakeIds = {c1}
  Places = {l1, l2}
  Amount = 2
  MaxStock = 2
  MaxRows = 1
  MaxCode = 2
  MaxDay = 2
  Reasons = {"fixed_asset", "other"}
  NoStructure = NoStructure
  Mishaps = {"crash", "date", "refusal", "repeat", "move"}
SYMMETRY Symmetry
CHECK_DEADLOCK FALSE
INVARIANTS
  TypeOK
  Conserved
  RecordedIsApplied
  NothingLost
  HistoryAddsUp
  ChartsShowTheStock
  InboxIsTrue
PROPERTIES
  ReceiptsAreKept
  AssetEndIsFinal
