SPECIFICATION FairRSpec
CONSTANTS
  Jobs = {j1}
  a = a
  Profiles = {a}
  p1 = p1
  p2 = p2
  p3 = p3
  Providers = {p1, p2, p3}
  Responses = {}
  LegacyJobs = {}
  NewRequests <- ChainRequests
  Scripts <- ChainScripts
  MaxAdmissions = 2
INVARIANTS
  MemoryAgrees
  DeliveriesAdmitted
  ReplayExplained
PROPERTIES
  RouteKept
  AnswerKept
  StoreSpec
  TakenJobEnds
  CanceledJobStops
  QuiesceSettles
