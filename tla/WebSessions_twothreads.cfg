SPECIFICATION Spec
CONSTANTS
  Users = {u1}
  Passwords = {p1, p2}
  Sessions = {s1, s2}
  Sockets = {k1, k2}
  Tokens = {}
  Workers = {w1}
  IoThreads = {i1}
  NoUser = NoUser
  NoSession = NoSession
  NoSocket = NoSocket
  NoToken = NoToken
SYMMETRY Symmetry
CHECK_DEADLOCK FALSE
INVARIANTS
  RegistriesAgree
  SocketsServeRegistered
  OneSocketPerSession
  ModulesSendToOwn
