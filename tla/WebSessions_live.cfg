SPECIFICATION FairSpec
CONSTANTS
  Users = {u1}
  Passwords = {p1}
  Sessions = {s1, s2}
  Sockets = {k1}
  Tokens = {r1}
  Workers = {w1}
  IoThreads = {i1}
  NoUser = NoUser
  NoSession = NoSession
  NoSocket = NoSocket
  NoToken = NoToken
CHECK_DEADLOCK FALSE
INVARIANT RemovedUserIsOut
PROPERTY ExpiredAreRemoved
