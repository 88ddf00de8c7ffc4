\* One thread and one peer; the user keeps the pointer and calls startRead().
SPECIFICATION Spec
CONSTANTS
  MaxThreads = 1
  MaxPeers = 1
  MaxHangups = 1
  Descriptors = 2
  MaxOthers = 0
  NameRoom = 1
  UserOps = {"startReadInLoop"}
  MaxUses = 2
INVARIANT
  RegisteredIsHeld
