SPECIFICATION Spec
CONSTANTS
  w1 = w1
  w2 = w2
  w3 = w3
  Workers = {w1, w2, w3}
  MaxSessions = 3
SYMMETRY Symmetry
CHECK_DEADLOCK FALSE
INVARIANTS
  TwoMastersNeedExpiry
  DeathsHandledOnce
  QuietMeansRegistered
