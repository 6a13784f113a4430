SPECIFICATION Spec
CONSTANTS
  b1 = b1
  b2 = b2
  c1 = c1
  c2 = c2
  Nobody = Nobody
  Batches = {b1}
  Candidates = {c1, c2}
  Known = {c1}
  Lists <- AnyList
  ForceModes = {FALSE, TRUE}
  Requests = {r1}
  Coordinators = {k1, k2}
  Workers = {w1, w2}
  Pollers = {p1}
  MaxAttempts = 2
  MaxFaults = 1
SYMMETRY Interchangeable
CHECK_DEADLOCK FALSE
INVARIANTS
  LedgerConsistent
  StatusConsistent
  ScoredBeforeClaimed
PROPERTIES
  ImplementsLedger
  TerminalIsFrozen
  PaidOnce
