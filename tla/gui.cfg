\* Every sequence of clicks, from an empty dashboard, a trace or live mode.
SPECIFICATION Spec
CONSTANTS
  short = short  long = long  empty = empty
  Traces <- ThreeTraces
  Count <- ThreeCounts
  Broken = {broken}
  Live = Live  Hook = Hook  None = None
  no_hook = TRUE
  max_events = 4
  MaxLive = 3
INVARIANTS TraceConsistent InspectedWasPicked
PROPERTIES ViewInTrace FailedLoadKeepsTrace
