SPECIFICATION Spec
CONSTANTS
  a = a
  b = b
  c1 = c1
  c2 = c2
  plain = plain
  proxied = proxied
  Profiles = {a, b}
  Settings <- SettingsOf
  Visibilities <- VisibilitiesOf
  Callers = {c1, c2}
  MaxContexts = 1
  Lively = {a}
INVARIANTS
  BrowsersReachable
PROPERTIES
  HandedAsAsked
  BrowsersPreserved
SYMMETRY EitherCaller
CHECK_DEADLOCK FALSE
