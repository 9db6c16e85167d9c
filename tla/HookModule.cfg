SPECIFICATION FairSpec
CONSTANTS
  Firers = {f1, f2}
  ApiThreads = {a1}
  Hooks = {"h1"}
  Answers = {"resolved", "rejected"}
  NoAnswer = NoAnswer
  MaxInt = 2
  NotPending = NotPending
  NoHook = NoHook
INVARIANTS
  TypeOK
  PendingOwned
PROPERTIES
  ImplementsPromise
  CallsReturn
  DisconnectEnds
