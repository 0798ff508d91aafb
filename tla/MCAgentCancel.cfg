SPECIFICATION Spec
CONSTANTS
  Readers = {r1}
  Cancellers = {k1}
  MaxTurns = 2
  Calls <- MCCalls
  ReadOnly <- MCReadOnly
  DependsOn <- MCDependsOn
  Answers <- MCAnswers
  None = None
PROPERTIES
  CancelStopsTools
CHECK_DEADLOCK FALSE
