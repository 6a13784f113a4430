SPECIFICATION FairPairSpec
CONSTANTS
  Calls = {t1, t2, t3, t4}
  Forced = {t1, t2, t3}
  Earlier = e0
  NoScore = none
CHECK_DEADLOCK FALSE
INVARIANTS
  ScoredStaysScored
PROPERTIES
  ImplementsRegister
  EveryCallEnds
