CONSTANTS
  Threads = {t1, t2}
  Maint = maint
  Subjects = {s1}
  Emails = {e1, e2}
  Uids = {u1, u2, u3, u4}
  MaxLedger = 1
  MaxRequests = 4
  MaxFaults = 2
  None = None
SPECIFICATION Spec
SYMMETRY Symmetry
INVARIANTS TypeOK DeletedNotServed OneSession
PROPERTIES RemovedWithTombstone
