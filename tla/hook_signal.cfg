\* A signal interrupts a thread inside flush_to_file.
SPECIFICATION FairSpec
CONSTANTS
  Producers = {w}
  Readers = {}
  Flushers = {w,m}
  NoThread = NoThread
  BUFFER_SIZE = 4
  StoreAfterReads = TRUE
  MaxRecords = 2
  Starters = {m}
  Stoppers = {}
  Signalled = {w}
  AutoStart = FALSE
  QuietStart = TRUE
  max_events = 2
  write_to_file = TRUE
  FLUSH_EVERY = 2
  MaxStarts = 1
PROPERTIES SignalExits
CHECK_DEADLOCK FALSE
