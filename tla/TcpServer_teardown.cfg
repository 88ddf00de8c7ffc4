\* One thread and one peer, which never hangs up: only the destructor closes.
SPECIFICATION Spec
CONSTANTS
  MaxThreads = 1
  MaxPeers = 1
  MaxHangups = 0
  Descriptors = 2
  MaxOthers = 0
  NameRoom = 1
  UserOps = {}
  MaxUses = 0
INVARIANT
  GoneIsUnregistered
