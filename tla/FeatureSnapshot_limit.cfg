CONSTANTS
  Readers = {r1, r2, r3}
  MaxReaders = 2
  Deltas = {d1}
  MaxStaged = 1
  None = None
SPECIFICATION Spec
SYMMETRY Symmetry
INVARIANTS SlotsExact
