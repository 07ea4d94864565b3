CONSTANTS
  Users = {u1}
  Handlers = {h1, h2}
  MaxSessions = 4
  MaxFaults = 1
SPECIFICATION Spec
SYMMETRY Symmetry
INVARIANT TypeOK
INVARIANT ClosedGone
INVARIANT Rotated
INVARIANT FewSuccessors
INVARIANT ChainKept
INVARIANT NoOrphan
CHECK_DEADLOCK FALSE
