SPECIFICATION FairSpec
CONSTANTS
  Links = 2
  Bytes = 3
  Chunk = 2
  Cap = 2
  Keep = 1
INVARIANTS
  TypeOK
  BufferShowsTheWire
  LogShowsTheWire
  TrimKeepsNewest
PROPERTIES
  ArrivedIsShown
  WaitEnds
CHECK_DEADLOCK FALSE
