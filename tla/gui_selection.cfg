\* A second trace is loaded after an event of the first was picked.
SPECIFICATION Spec
CONSTANTS
  short = short  long = long  empty = empty
  Traces <- ThreeTraces
  Count <- ThreeCounts
  Broken = {broken}
  Live = Live  Hook = Hook  None = None
  no_hook = TRUE
  max_events = 4
  MaxLive = 3
INVARIANTS SelectionFollowsTrace
