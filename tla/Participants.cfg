CONSTANTS
  Users = {u1, u2, u3}
  Founders = {u1}
  Readers = {r1, r2}
  MaxFaults = 1
SPECIFICATION FairSpec
INVARIANT TypeOK
INVARIANT WholeOrAbsent
PROPERTY EventuallyFresh
PROPERTY ImplementsMembersView
