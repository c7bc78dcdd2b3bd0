\* A compute call is under way while the hook is started: its store of
\* write_pos_ comes after the reset.
SPECIFICATION Spec
CONSTANTS
  Producers = {w}
  Readers = {}
  Flushers = {w, m}
  NoThread = NoThread
  BUFFER_SIZE = 4
  StoreAfterReads = TRUE
  MaxRecords = 5
  Starters = {m}
  Stoppers = {m}
  Signalled = {}
  AutoStart = FALSE
  QuietStart = FALSE
  max_events = 3
  write_to_file = TRUE
  FLUSH_EVERY = 2
  MaxStarts = 2
INVARIANTS TraceInOrder
CHECK_DEADLOCK FALSE
