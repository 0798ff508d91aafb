SPECIFICATION MixedSpec
CONSTANTS
  j1 = j1
  j2 = j2
  Jobs = {j1, j2}
  a = a
  Profiles = {a, b}
  b = b
  p1 = p1
  p2 = p2
  Providers = {p1, p2}
  Rules <- TwoRules
  Requests <- TwoRequests
  Routes <- TwoRoutes
  MaxTime = 3
INVARIANTS
  RollingLimit
  CountedOnce
  EligibleAtExact
