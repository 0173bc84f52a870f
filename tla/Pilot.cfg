CONSTANTS
  Threads = {t1, t2}
  Users = {u1, u2}
  Items = {i1, i2}
  Requests = {q1, q2}
  EventIds = {e1, e2}
  Models = {m1, m2}
  Ks = {1}
  Guests = {u2}
  Seen <- HalfSeen
  MaxGeneration = 2
  MaxAttempts = 2
  None = None
SPECIFICATION Spec
SYMMETRY Symmetry
INVARIANTS TypeOK OneAnswerPerRequest JournalExact
PROPERTIES IssueIsAtomic
