\* Two model threads, one of which flushes too, and a reader; only the producers
\* are scheduled.  The run stops when no call is left and the reader has thrown.
SPECIFICATION ProducerOnlySpec
CONSTANTS
  Producers = {p, q}
  Readers = {g}
  Flushers = {q}
  NoThread = NoThread
  BUFFER_SIZE = 2
  StoreAfterReads = FALSE
  MaxRecords = 2
INVARIANTS TypeOK EveryRecordCounted
PROPERTIES PublishesOrDrops
CHECK_DEADLOCK FALSE
