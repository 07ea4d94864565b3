SPECIFICATION FairSpec
CONSTANTS
  u1 = u1
  u2 = u2
  stranger = s9
  Users = {u1, u2}
  Sockets = {s1, s2, s9}
  Owner <- MCOwner
  Partitions = {p}
  Nobody = Nobody
  MaxLog = 1
  MayStop = TRUE
  MayFail = TRUE
PROPERTY Unregistered
PROPERTY CrashLoop
