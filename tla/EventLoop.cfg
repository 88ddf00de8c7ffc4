\* Two threads and the loop's own hand over three functors, one of them early.
SPECIFICATION FairSpec
CONSTANTS
  Tasks = {f1, f2, f3}
  EarlyTasks = {f1}
  Callers = {t1, t2}
  NoThread = NoThread
INVARIANTS
  TypeOK
  NoLostWakeup
  QuitIsSeen
PROPERTIES
  ImplementsTaskQueue
  FunctorsRun
  AllFunctorsRun
  QuitStops
