SPECIFICATION Spec
CONSTANTS
  N = 2
  MaxDecisions = 2
INVARIANTS
  ApprovedOneByOne
CHECK_DEADLOCK FALSE
