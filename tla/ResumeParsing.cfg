SPECIFICATION FairSpec
CONSTANTS
  Upload = u
  Retries = {t1, t2}
  Workers = {w1, w2}
  MaxAttempts = 2
  MaxFaults = 1
CHECK_DEADLOCK FALSE
INVARIANTS
  VerdictIsRight
  NoResumeForgotten
PROPERTIES
  DataIsKept
  AcceptedResumeSettles
