\* The traced process starts a second trace in the same file.
SPECIFICATION Spec
CONSTANTS
  max_events = 5
  MaxEvents = 4
  MaxHookEvents = 0
  MaxSessions = 2
  MaxTime = 2
PROPERTIES RecreationHandled
CHECK_DEADLOCK FALSE
