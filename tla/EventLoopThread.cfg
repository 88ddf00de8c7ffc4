\* An owner, its thread, and two functors, one queued by the init callback.
SPECIFICATION FairSpec
CONSTANTS
  owner = owner
  Tasks = {f1, f2}
  EarlyTasks = {f1}
  NoThread = NoThread
INVARIANTS
  TypeOK
  StartedLoopExists
  ObjectOutlivesThread
PROPERTIES
  StartReturns
  JoinReturns
