CONSTANTS
  Workers = {w1, w2}
  Partitions = {p1}
  NoWorker = NoWorker
  NoMessage = NoMessage
  BatchSize = 2
  MaxLog = 3
  MaxMoves = 1
  Faults = {"process"}
SPECIFICATION FairSpec
PROPERTY Delivered
