SPECIFICATION Spec
CONSTANTS
  Jobs = {1, 2}
  Providers = {p1, p2}
  Spans = {1, 3}
  MaxTime = 3
INVARIANTS
  LimitHolds
  DeferralJustified
CHECK_DEADLOCK FALSE
