\* The limit stops the trace, the next compute call starts it again.
SPECIFICATION Spec
CONSTANTS
  Producers = {w}
  Readers = {}
  Flushers = {w,m}
  NoThread = NoThread
  BUFFER_SIZE = 4
  StoreAfterReads = TRUE
  MaxRecords = 4
  Starters = {m}
  Stoppers = {}
  Signalled = {}
  AutoStart = TRUE
  QuietStart = TRUE
  max_events = 2
  write_to_file = TRUE
  FLUSH_EVERY = 4
  MaxStarts = 2
PROPERTIES TraceKept
CHECK_DEADLOCK FALSE
