CONSTANTS
  Threads = {t1, t2}
  Items = {i1, i2}
  Available = {i1, i2}
  Requests = {q1}
  Mutations = {m1}
  EventIds = {e1}
  Ks = {1, 2}
  ChangeSets <- MCChanges
  MaxPrefs = 2
  MaxAttempts = 2
  CacheSize = 2
  MaxFolds = 2
  Expire = 1
  Retain = 2
  MaxTime = 3
  MaxRevision = 1
  None = None
SPECIFICATION Spec
SYMMETRY Symmetry
INVARIANTS NoRepurpose
