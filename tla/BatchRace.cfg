SPECIFICATION Spec
CONSTANTS
  b1 = b1
  b2 = b2
  c1 = c1
  c2 = c2
  Nobody = Nobody
  Batches = {b1, b2}
  Candidates = {c1}
  Known = {c1}
  Lists <- SmallLists
  ForceModes = {FALSE}
  Requests = {r1, r2}
  Coordinators = {k1}
  Workers = {w1}
  Pollers = {p1}
  MaxAttempts = 2
  MaxFaults = 1
SYMMETRY Interchangeable
CHECK_DEADLOCK FALSE
INVARIANTS
  IInv
  OneActiveBatch
