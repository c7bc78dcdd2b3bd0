\* More events of a followed file than live_events keeps.
SPECIFICATION Spec
CONSTANTS
  short = short  long = long  empty = empty
  Traces <- ThreeTraces
  Count <- ThreeCounts
  Broken = {broken}
  Live = Live  Hook = Hook  None = None
  no_hook = TRUE
  max_events = 2
  MaxLive = 3
INVARIANTS InspectedWasPicked
