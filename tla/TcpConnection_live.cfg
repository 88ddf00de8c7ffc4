\* Both loops run and the peer reads what it was sent.
SPECIFICATION FairSpec
CONSTANTS
  Callers = {t1}
  Messages = {m1}
  MessageLength = 2
  HighWaterMark = 2
  SendBuffer = 1
  MaxCalls = 1
  NoMessage = NoMessage
  Idle = Idle
PROPERTIES
  ShutdownCompletes
  CloseCompletes
  EndIsNoticed
