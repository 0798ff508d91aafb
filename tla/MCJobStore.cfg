SPECIFICATION Spec
CONSTANTS
  Jobs = {j1, j2}
  a = a
  Profiles = {a}
  p1 = p1
  p2 = p2
  Providers = {p1, p2}
  Responses = {r1, r2}
  LegacyJobs = {j2}
  NewRequests <- TwoProviders
  MaxAdmissions = 1
INVARIANTS
  DashboardMatchesJobs
PROPERTIES
  ImplementsLedger
  SubmissionClearedOnlyOnRefusal
