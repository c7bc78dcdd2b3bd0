\* A second trace is loaded after the graph of the first was drawn.
SPECIFICATION Spec
CONSTANTS
  short = short  long = long  empty = empty
  Traces <- ThreeTraces
  Count <- ThreeCounts
  Broken = {broken}
  Live = Live  Hook = Hook  None = None
  no_hook = TRUE
  max_events = 4
  MaxLive = 3
PROPERTIES GraphIsCurrent
