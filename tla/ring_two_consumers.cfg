\* The GUI reads while the model thread flushes: two consumers.
SPECIFICATION RingSpec
CONSTANTS
  Producers = {p}
  Readers = {g}
  Flushers = {p}
  NoThread = NoThread
  BUFFER_SIZE = 4
  StoreAfterReads = TRUE
  MaxRecords = 7
INVARIANTS UnreadSlotsIntact
