SPECIFICATION FairSpec
CONSTANTS
  Readers = {r1}
  Cancellers = {k1, k2}
  MaxTurns = 2
  Calls <- MCCalls
  ReadOnly <- MCReadOnly
  DependsOn <- MCDependsOn
  Answers <- MCAnswers
  None = None
INVARIANTS
  RecordConsistent
  CancelledStopsProvider
PROPERTIES
  ToolsApproved
  ToolsInOrder
  ReportFaithful
  RunEnds
CHECK_DEADLOCK FALSE
