SPECIFICATION FairSpec
CONSTANTS
  Requests = {r1, r2}
  Uploads = {q1, q2, q3}
  FanRequests = {r1}
  Users = {u1, u2}
  Candidates = {p1, p2, p3}
  Chats = {c1, c2}
  NoPhoto = NoPhoto
  MaxSecond = 2
  Limits = {1}
  DiscoveryPage = 1
  FillSize = 3
  PageSize = 1
  MaxFaults = 1
INVARIANT TypeOK
INVARIANT AvatarsAgree
INVARIANT NothingDropped
PROPERTY EventuallyListed
PROPERTY EventuallySeen
CHECK_DEADLOCK FALSE
