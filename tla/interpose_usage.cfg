\* A graph allocator that allocates the same graph for every evaluation.
SPECIFICATION Spec
CONSTANTS
  t1 = t1  t2 = t2  a = a  b = b  c = c
  Threads = {t1, t2}
  None = None
  Overrides = {"with_ctx", "graph", "alloc_graph"}
  Interposed = {"legacy"}
  Manual = {"with_ctx"}
  Found = {"with_ctx", "graph", "alloc_graph"}
  Kind <- Kinds
  Uses <- Users  Inner <- Inners
  Graph <- TwoGraphs
  Traced = {a, c}
  Size <- Sizes
  enable_op_timing = TRUE  enable_memory_tracking = TRUE
  output_set = TRUE  Lossy = {"OP_COMPUTE_BEGIN", "TENSOR_ALLOC"}
  MaxCalls = 3
  MaxStops = 1
INVARIANTS UsageIsLive
CHECK_DEADLOCK FALSE
