\* Two threads that log, at any level.
SPECIFICATION Spec
CONSTANTS
  Threads = {t1, t2}
INVARIANT
  LabelIsOwn
