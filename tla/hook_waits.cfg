\* The main thread stops the hook while the model thread records.
SPECIFICATION Spec
CONSTANTS
  Producers = {w}
  Readers = {}
  Flushers = {w, m}
  NoThread = NoThread
  BUFFER_SIZE = 4
  StoreAfterReads = TRUE
  MaxRecords = 5
  Starters = {m}
  Stoppers = {m}
  Signalled = {}
  AutoStart = FALSE
  QuietStart = TRUE
  max_events = 3
  write_to_file = TRUE
  FLUSH_EVERY = 2
  MaxStarts = 2
INVARIANTS RecordNeverWaits
CHECK_DEADLOCK FALSE
