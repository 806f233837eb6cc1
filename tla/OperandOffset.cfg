SPECIFICATION Spec
CONSTANTS
  c1 = c1
  c2 = c2
  g1 = g1
  Core = {c1, c2}
  ArrayGroup = {g1}
  Workloads <- Offsets
  CorePeriod = 2
  vector_width = 2
  vector_latency_cycle = 1
  local_memory_config <- LocalMemory
  global_memory_config <- GlobalMemory
  MatrixConfig <- Matrix
  ArrayGroupMap <- Crossbars
  Horizon = 4
INVARIANTS OffsetsFollowSelect
CHECK_DEADLOCK FALSE
