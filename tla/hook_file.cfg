\* One model thread; the main thread starts and stops the hook twice.
SPECIFICATION FairSpec
CONSTANTS
  Producers = {w}
  Readers = {}
  Flushers = {w, m}
  NoThread = NoThread
  BUFFER_SIZE = 4
  StoreAfterReads = TRUE
  MaxRecords = 5
  Starters = {m}
  Stoppers = {m}
  Signalled = {}
  AutoStart = FALSE
  QuietStart = TRUE
  max_events = 3
  write_to_file = TRUE
  FLUSH_EVERY = 2
  MaxStarts = 2
INVARIANTS TraceInOrder CountExact ActiveHasFile NoCrash
PROPERTIES SessionSpec CallsReturn
CHECK_DEADLOCK FALSE
