SPECIFICATION Spec
CONSTANTS
  Calls = {m1, m2, m3}
  Readers = {r1}
  Partitions = {p1}
  Savers = {s1}
  Limit = 1
  NoMessage = NoMessage
  MaxClock = 2
  MaxFaults = 1
SYMMETRY Symmetry
INVARIANT TypeOK
INVARIANT SentIsSaved
INVARIANT NoneTwice
INVARIANT ScrollComplete
PROPERTY SaverStoresNothing
CHECK_DEADLOCK FALSE
