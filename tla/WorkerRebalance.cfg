CONSTANTS
  Workers = {w1, w2}
  Partitions = {p1}
  NoWorker = NoWorker
  NoMessage = NoMessage
  BatchSize = 2
  MaxLog = 3
  MaxMoves = 2
  Faults = {"read", "process", "crash", "shutdown"}
SPECIFICATION Spec
SYMMETRY Symmetry
INVARIANT Accounted
INVARIANT NothingSkipped
