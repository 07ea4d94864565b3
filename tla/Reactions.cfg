CONSTANTS
  u1 = u1
  u2 = u2
  Users = {u1, u2}
  Groups = {}
  Workers = {w1, w2}
  Requests <- MCRequests
  Askers = {u1}
  HasRdb = TRUE
  MaxFaults = 1
SPECIFICATION FairSpec
INVARIANT TypeOK
INVARIANT NoFalseMatch
INVARIANT CoupleMatched
INVARIANT CoupleCleared
INVARIANT LikeRemembered
INVARIANT MatchAnnounced
PROPERTY CouplesMeet
CHECK_DEADLOCK FALSE
