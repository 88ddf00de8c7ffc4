\* Two Channel objects and two descriptors, both reused, and at first room for
\* one event.
SPECIFICATION FairSpec
CONSTANTS
  Channels = {c1, c2}
  Fds = {d1, d2}
  NoChannel = NoChannel
  kInitEventListSize = 1
INVARIANTS
  TypeOK
  Agreement
  NoDanglingPointer
  CtlNeverFails
PROPERTIES
  NoStarvation
