SPECIFICATION FairSpec
CONSTANTS
  N = 2
  MaxDecisions = 2
INVARIANTS
  BrokerConsistent
  RunToldTruth
PROPERTIES
  ActsOnceApproved
  SessionReleased
CHECK_DEADLOCK FALSE
