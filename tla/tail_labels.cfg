\* The file is read twice.
SPECIFICATION Spec
CONSTANTS
  max_events = 5
  MaxEvents = 2
  MaxHookEvents = 0
  MaxSessions = 1
  MaxTime = 1
INVARIANTS LabelsOwned
CHECK_DEADLOCK FALSE
