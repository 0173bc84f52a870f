CONSTANTS
  Threads = {t1, t2}
  Maint = maint
  Subjects = {s1}
  Emails = {e1}
  Uids = {u1, u2, u3}
  MaxLedger = 3
  MaxRequests = 3
  MaxFaults = 1
  None = None
SPECIFICATION FairSpec
PROPERTIES TombstoneEnforced RequestsEnd
