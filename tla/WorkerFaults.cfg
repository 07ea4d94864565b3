CONSTANTS
  Workers = {w1, w2}
  Partitions = {p1, p2}
  NoWorker = NoWorker
  NoMessage = NoMessage
  BatchSize = 2
  MaxLog = 3
  MaxMoves = 0
  Faults = {"read", "process", "crash", "shutdown"}
SPECIFICATION Spec
SYMMETRY Symmetry
INVARIANT TypeOK
INVARIANT StoredInOrder
PROPERTY ImplementsAtMostOnce
