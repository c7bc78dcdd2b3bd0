\* Two model threads, one of which also reads the ring; compute
\* calls restart the hook, fopen may fail, a signal may come.
SPECIFICATION Spec
CONSTANTS
  Producers = {w,v}
  Readers = {v}
  Flushers = {w,v}
  NoThread = NoThread
  BUFFER_SIZE = 2
  StoreAfterReads = FALSE
  MaxRecords = 3
  Starters = {}
  Stoppers = {}
  Signalled = {v}
  AutoStart = TRUE
  QuietStart = FALSE
  max_events = 1
  write_to_file = TRUE
  FLUSH_EVERY = 2
  MaxStarts = 2
INVARIANTS FlushExclusive LimitRespected
CHECK_DEADLOCK FALSE
