\* Two clients; the server is started and stopped.
SPECIFICATION FairSpec
CONSTANTS
  Clients = {a,b}
  QUEUE_LIMIT = 2
  SEND_BATCH = 2
  NoThread = NoThread
  MaxEvents = 3
  MaxStarts = 1
INVARIANTS TypeOK StreamsInOrder NewestKept ClientsCounted
PROPERTIES StopReturns StreamsEnd
CHECK_DEADLOCK FALSE
