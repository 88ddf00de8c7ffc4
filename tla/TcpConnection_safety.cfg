\* One other thread, two messages of two bytes, a send buffer of two bytes.
SPECIFICATION Spec
CONSTANTS
  Callers = {t1}
  Messages = {m1, m2}
  MessageLength = 2
  HighWaterMark = 3
  SendBuffer = 2
  MaxCalls = 1
  NoMessage = NoMessage
  Idle = Idle
SYMMETRY Symmetry
INVARIANTS
  TypeOK
  WatchedIffBuffered
  ShutdownAfterFlush
PROPERTIES
  ImplementsByteStream
