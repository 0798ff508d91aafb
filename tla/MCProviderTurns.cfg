SPECIFICATION Spec
CONSTANTS
  Requests = {q1, q2}
  Bundles = {b1, b2}
  Files = {f1, f2}
  MaxCalls = 2
SYMMETRY References
INVARIANTS
  OneTurn
  PayloadAvailable
  FilesWhileNeeded
  AcceptedPromptSent
  AnswerReadable
  SecretsOffRecord
