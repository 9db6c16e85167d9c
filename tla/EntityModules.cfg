SPECIFICATION FairSpec
CONSTANTS
  e1 = e1
  e2 = e2
  c1 = c1
  Entities <- EntitiesMC
  CIDs <- CIDsMC
  CIDOf <- CIDOfMC
  TaskThreads = {"t1", "t2"}
  Kinds = {"search", "hub", "chat", "roots"}
  MaxEvents = 2
  None = None
CHECK_DEADLOCK FALSE
INVARIANTS
  TypeOK
  Mirrors
  
  RegisteredLive
  NobodyInside
PROPERTIES
  GetsModule
