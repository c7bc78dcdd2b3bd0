\* The hook is restarted while the GUI polls.
SPECIFICATION Spec
CONSTANTS
  Producers = {w}
  Readers = {g}
  Flushers = {w,m}
  NoThread = NoThread
  BUFFER_SIZE = 4
  StoreAfterReads = TRUE
  MaxRecords = 2
  Starters = {m}
  Stoppers = {m}
  Signalled = {}
  AutoStart = FALSE
  QuietStart = TRUE
  max_events = 2
  write_to_file = TRUE
  FLUSH_EVERY = 2
  MaxStarts = 2
INVARIANTS NoCrash
CHECK_DEADLOCK FALSE
