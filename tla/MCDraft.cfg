SPECIFICATION Spec
CONSTANTS
  Sessions = {s1, s2}
  Procs = {p1, p2}
  MaxSessions = 2
  MaxCode = 2
  MaxToken = 2
  Handlers = {"edit"}
  Mishaps = {"crash"}
SYMMETRY Symmetry
CHECK_DEADLOCK FALSE
INVARIANTS
  SentIsSubmitted
  OneRequestPerSession
  CodeIsKept
