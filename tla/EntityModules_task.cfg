SPECIFICATION Spec
CONSTANTS
  e1 = e1
  e2 = e2
  c1 = c1
  Entities <- EntitiesMC
  CIDs <- CIDsMC
  CIDOf <- CIDOfMC
  TaskThreads = {"t1", "t2"}
  Kinds = {"chat"}
  MaxEvents = 2
  None = None
CHECK_DEADLOCK FALSE
INVARIANT
  WorkIsOwn
