\* One model thread, one GUI thread.
SPECIFICATION FairRingSpec
CONSTANTS
  Producers = {p}
  Readers = {g}
  Flushers = {}
  NoThread = NoThread
  BUFFER_SIZE = 4
  StoreAfterReads = TRUE
  MaxRecords = 6
INVARIANTS UnreadSlotsIntact ReadInOrder RingInv
PROPERTIES QueueSpec EverythingRead
