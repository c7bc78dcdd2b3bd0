\* The traced process writes a trace to the end, and may then write a second one
\* in the same file.
SPECIFICATION FairSpec
CONSTANTS
  max_events = 4
  MaxEvents = 4
  MaxHookEvents = 1
  MaxSessions = 2
  MaxTime = 2
INVARIANTS TypeOK ShownInOrder
PROPERTIES AllLoaded EverythingShown
CHECK_DEADLOCK FALSE
