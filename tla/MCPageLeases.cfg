SPECIFICATION FairSpec
CONSTANTS
  c1 = c1
  c2 = c2
  Clients = {c1, c2}
  r1 = r1
  Refs = {r1}
  t1 = t1
  t2 = t2
  Pages = {t1, t2}
  Watched = {t1}
  None = None
INVARIANTS
  LeasesConsistent
PROPERTIES
  TabsSurviveRestart
  CollectionIsSafe
  WorkTabReclaimed
