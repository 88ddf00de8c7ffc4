\* Two buffers of one byte of room and strings of up to two bytes: a write
\* may fit behind the content, or only after a move, or make the vector grow.
\* The extra buffer is larger than one byte of room, so that a read of two
\* bytes may be split over the two.
SPECIFICATION Spec
CONSTANTS
  Names = {b1, b2}
  Byte = {0, 1}
  Zero = 0
  Data <- AllData
  kCheapPrepend = 1
  initialSize = 1
  ExtraBuf = 2
  MaxContent = 2
  MaxLen = 2
INVARIANTS
  TypeOK
  Compact
PROPERTIES
  ImplementsByteQueue
