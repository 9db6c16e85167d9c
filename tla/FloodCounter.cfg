SPECIFICATION FairSpec
CONSTANTS
  Ips = {"ip1", "ip2"}
  Threads = {t1, t2}
  Nodes = {n1, n2, n3, n4}
  FloodCount = 2
  FloodPeriod = 1
  NoEntry = NoEntry
INVARIANTS
  TypeOK
  FloodBound
PROPERTIES
  NoEarlyForgiveness
  AlwaysAdmittedAgain
