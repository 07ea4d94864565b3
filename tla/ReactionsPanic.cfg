CONSTANTS
  u1 = u1
  u2 = u2
  Users = {u1, u2}
  Groups = {}
  Workers = {w1, w2}
  Requests <- MCRequests
  Askers = {}
  HasRdb = FALSE
  MaxFaults = 0
SPECIFICATION FairSpec
PROPERTY MatchesChecked
CHECK_DEADLOCK FALSE
