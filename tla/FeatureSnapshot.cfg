CONSTANTS
  Readers = {r1, r2}
  MaxReaders = 2
  Deltas = {d1, d2}
  MaxStaged = 2
  None = None
SPECIFICATION FairSpec
INVARIANTS TypeOK NoRace NoTornRead PublicationExact
PROPERTIES MonotoneReads PublishCompletes ImplementsRegister
