\* Live mode with events of the hook and of the file.
SPECIFICATION Spec
CONSTANTS
  short = short  long = long  empty = empty
  Traces <- ThreeTraces
  Count <- ThreeCounts
  Broken = {broken}
  Live = Live  Hook = Hook  None = None
  no_hook = FALSE
  max_events = 4
  MaxLive = 3
INVARIANTS InspectedWasPicked
