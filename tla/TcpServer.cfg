\* Up to two threads, two peers, and descriptors for the spare and one more.
SPECIFICATION FairSpec
CONSTANTS
  MaxThreads = 2
  MaxPeers = 2
  MaxHangups = 1
  Descriptors = 2
  MaxOthers = 1
  NameRoom = 1
  UserOps = {"forceCloseInLoop"}
  MaxUses = 2
INVARIANTS
  TypeOK
  RegisteredIsHeld
  MapIsComplete
  Balanced
  ServerOutlivesItsLoops
  SpareIsKept
PROPERTIES
  LifeInOrder
  PeersAreAnswered
  ClosedIsReleased
  DestructorReturns
