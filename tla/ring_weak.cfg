\* One model thread, one GUI thread, on a processor that may show the store of
\* read_pos_ before the reads of the slots.
SPECIFICATION RingSpec
CONSTANTS
  Producers = {p}
  Readers = {g}
  Flushers = {}
  NoThread = NoThread
  BUFFER_SIZE = 4
  StoreAfterReads = FALSE
  MaxRecords = 5
INVARIANTS ReadInOrder
