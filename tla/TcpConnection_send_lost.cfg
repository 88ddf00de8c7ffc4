\* Two messages from one thread, then its shutdown().
SPECIFICATION Spec
CONSTANTS
  Callers = {t1}
  Messages = {m1, m2}
  MessageLength = 2
  HighWaterMark = 3
  SendBuffer = 2
  MaxCalls = 0
  NoMessage = NoMessage
  Idle = Idle
INVARIANTS
  OwedIsSent
