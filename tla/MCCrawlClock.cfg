SPECIFICATION Spec
CONSTANTS
  w1 = w1
  w2 = w2
  floor = floor
  slow = slow
  Workers <- MCWorkers
  Companies <- MCCompanies
  Interval <- MCInterval
  Nobody = Nobody
  Never = Never
  Budget = 5
  MaxLag = 1
  Horizon = 9
SYMMETRY MCSymmetry
INVARIANTS
  ClockTypeOK
  RefusedOnlyIfRivalled
PROPERTIES
  KeepsLaw
CHECK_DEADLOCK FALSE
