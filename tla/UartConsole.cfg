SPECIFICATION UseSpec
CONSTANTS
  Writers = {"w1", "w2"}
  Message <- Messages
  Readers = {"r1", "r2"}
  ReadSize <- ReadSizes
  Closers = {"c"}
  uartInQDepth = 3
  uartOutQDepth = 3
  MaxTyped = 6
INVARIANTS
  TypeOK
  QueuedIsTransmitted
  LineCarriesMessages
  TypedInOrder
PROPERTIES
  OutputChannel
  InputChannel
  WritesSent
CHECK_DEADLOCK FALSE
