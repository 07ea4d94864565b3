CONSTANTS
  Users = {u1, u2, u3}
  Founders = {u1}
  Readers = {r1, r2}
  MaxFaults = 0
SPECIFICATION FairSpec
INVARIANT FreshAfterJoin
