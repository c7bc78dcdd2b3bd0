\* Two model threads record into the ring, one thread reads it.
SPECIFICATION RingSpec
CONSTANTS
  Producers = {p, q}
  Readers = {g}
  Flushers = {}
  NoThread = NoThread
  BUFFER_SIZE = 4
  StoreAfterReads = TRUE
  MaxRecords = 2
INVARIANTS OwnPosition
