SPECIFICATION Spec
CONSTANTS
  Handler = {h1, h2}
  None = None
  Person = {p, q, r}
  Assignee = {a1, a2}
  x = x
  y = y
  Structure = {x, y}
  Admin = {adm}
  Request <- MCRequest
  MaxAttempts = 2
  Emoji = {e1, e2}
  MaxMessages = 2
  MaxChanges = 2
  MaxSockets = 3
  Device = {d1, d2}
  MaxRestarts = 1
  UnitId = {u1, u2}
  UnitName = {n1, n2, n3}
  Place = {"requestItems", "sessions"}
SYMMETRY Symmetry
CHECK_DEADLOCK FALSE
INVARIANTS
  WarehouseAccessIsBacked
  BossIsNoMember
  UnreadIsShown
  PresenceIsTrue
  UnitsAreKnown
PROPERTIES
  DeactivationStands
  ReactionsAreKept
  TasksAreKept
