CONSTANTS
  Threads = {t1, t2}
  Items = {i1, i2, i3}
  Available = {i1, i2}
  Requests = {q1}
  Mutations = {m1, m2}
  EventIds = {e1, e2}
  Ks = {1}
  ChangeSets <- MCChanges
  MaxPrefs = 2
  CacheSize = 1
  MaxFolds = 1
  Expire = 1
  Retain = 2
  MaxAttempts = 2
  MaxTime = 3
  MaxRevision = 2
  None = None
SPECIFICATION Spec
SYMMETRY Symmetry
INVARIANTS StateIsReplay ReplayStable
PROPERTIES IssueIsCurrent
