SPECIFICATION Spec
CONSTANTS
  Users = {u1}
  Passwords = {p1}
  Sessions = {s1, s2}
  Sockets = {k1, k2}
  Tokens = {r1}
  Workers = {w1}
  IoThreads = {w1}
  NoUser = NoUser
  NoSession = NoSession
  NoSocket = NoSocket
  NoToken = NoToken
SYMMETRY Symmetry
CHECK_DEADLOCK FALSE
INVARIANTS
  TypeOK
  ModulesFollowSocket
